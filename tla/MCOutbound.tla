------------------------------ MODULE MCOutbound ------------------------------
(* Two platforms: a person writes `ask`, a puppet of `here` writes `answer`,  *)
(* and in a second transaction the person reacts to the answer, whose rows    *)
(* are one that this direction wrote and one that the other direction wrote.  *)
EXTENDS OutboundDelivery

CONSTANTS ask, answer, reaction, here, there

Script == <<<<ask, answer>>, <<reaction>>>>
Sender == [e \in Events |-> IF e = answer THEN here ELSE Human]
About == [e \in Events |-> IF e = reaction THEN answer ELSE e]
Everything == [s \in Platforms |-> Platforms]
=============================================================================
