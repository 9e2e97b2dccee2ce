-------------------------- MODULE MCMappingHandlers --------------------------
(* Two platforms, two rooms on either side: every arm of create_room_mapping  *)
(* including the merge, and a row id freed on one platform and wanted by the  *)
(* other while a handler still holds it.  All the sets are interchangeable.   *)
EXTENDS MappingHandlers, TLC

Symmetry == Permutations(MatrixRooms) \cup Permutations(ExternalRooms)
              \cup Permutations(Platforms) \cup Permutations(Messages)
=============================================================================
