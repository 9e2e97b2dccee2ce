------------------------------- MODULE MCAccess -------------------------------
(* An instance of Access for TLC.                                            *)
EXTENDS Access, TLC

CONSTANTS ann, bob, ghost, w1, w2

HomeOf == [g \in {ghost} |-> CHOOSE p \in Platforms : TRUE]

OpenMode == [admin |-> {}, relay |-> {}, floor |-> 0]

\* open mode, or an admin, a relay user and a floor
Various == {OpenMode, [admin |-> {{ann}}, relay |-> {{bob}}, floor |-> Moderator]}

Open == {OpenMode}

Similar == Permutations({w1, w2}) \union Permutations(MatrixRooms)
=============================================================================
