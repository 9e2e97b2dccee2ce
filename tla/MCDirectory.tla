----------------------------- MODULE MCDirectory -----------------------------
(* An instance of PlatformDirectory for TLC.                                 *)
EXTENDS PlatformDirectory, TLC

CONSTANTS h1, h2, p1, p2, u1, u2

Similar == Permutations({h1, h2}) \union Permutations({p1, p2}) \union Permutations({u1, u2})

(* Bound: a behaviour either lists webhooks or sets up rooms, the latter with *)
(* four calls and webhooks of one URL.  The two share no more than the owners *)
(* to invite, which a row of either URL names; a restart changes neither table *)
(* nor listing.                                                              *)
OneSubject ==
  \/ rooms = <<>> /\ handler = [h \in Handlers |-> Idle] /\ faults = 0
  \/ walk = Idle /\ calls <= 4 /\ \A v, w \in hooks : v.url = w.url
=============================================================================
