------------------------------ MODULE MCPuppet ------------------------------
(* Instances of PuppetProfiles for TLC: senders with a full profile, with    *)
(* none, and with an avatar that is rejected; or with a name only.           *)
EXTENDS PuppetProfiles

CONSTANTS n1, a1, bad

Mixed == {Blank, [name |-> n1, avatar |-> a1], [name |-> n1, avatar |-> bad]}
NameOnly == {Blank, [name |-> n1, avatar |-> None]}
=============================================================================
