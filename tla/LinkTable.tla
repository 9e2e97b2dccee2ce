------------------------------ MODULE LinkTable ------------------------------
(***************************************************************************)
(* What the mapping store promises, without row ids: a set of links        *)
(* (Matrix room, platform, external room) that is a partial bijection for  *)
(* each platform, and the bridged messages, each filed under a link.       *)
(* Linking two rooms replaces the links either of them had on the platform *)
(* and keeps every message; unlinking forgets the messages of that link.   *)
(***************************************************************************)
EXTENDS Naturals

CONSTANTS MatrixRooms, Platforms, ExternalRooms, Events, Messages

VARIABLES links, filed

LinkSet == [matrix : MatrixRooms, platform : Platforms, external : ExternalRooms]

(* The links a new link takes the place of.                                *)
Replaced(l) ==
    {k \in links : k.platform = l.platform /\ (k.matrix = l.matrix \/ k.external = l.external)}

Init == links = {} /\ filed = {}

(* create_room_mapping as its doc comment promises it.                     *)
Link(l) ==
    /\ links' = (links \ Replaced(l)) \cup {l}
    /\ filed' = {f \in filed : f.link \notin Replaced(l)}
                  \cup {[f EXCEPT !.link = l] : f \in {g \in filed : g.link \in Replaced(l)}}

(* delete_room_mapping.                                                    *)
Unlink(l) ==
    /\ l \in links
    /\ links' = links \ {l}
    /\ filed' = {f \in filed : f.link # l}

(* create_message_mapping: at most one message per event and platform, and *)
(* at most one event per message and platform.                             *)
File(ev, l, x) ==
    /\ l \in links
    /\ \A f \in filed : f.link.platform = l.platform => f.event # ev /\ f.external # x
    /\ filed' = filed \cup {[event |-> ev, external |-> x, link |-> l]}
    /\ UNCHANGED links

Next == \/ \E l \in LinkSet : Link(l) \/ Unlink(l)
        \/ \E l \in LinkSet, ev \in Events, x \in Messages : File(ev, l, x)

Spec == Init /\ [][Next]_<<links, filed>>
=============================================================================
