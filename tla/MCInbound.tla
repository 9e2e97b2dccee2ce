------------------------------ MODULE MCInbound ------------------------------
(* One platform and one external room, whose portal is created, unlinked and *)
(* created again under concurrent requests.                                  *)
EXTENDS InboundDelivery, TLC

Symmetry == Permutations(Requests)
=============================================================================
