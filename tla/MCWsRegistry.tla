---------------------------- MODULE MCWsRegistry ----------------------------
(* Instances of WsRegistry for TLC: sessions, casters and platforms are     *)
(* interchangeable.                                                         *)
EXTENDS WsRegistry, TLC

Symmetry == Permutations(Sessions) \union Permutations(Casters) \union Permutations(Platforms)
=============================================================================
