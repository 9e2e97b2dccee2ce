--------------------------- MODULE MappingHandlers ---------------------------
(***************************************************************************)
(* The mapping store under its callers.  A handler that bridges a message  *)
(* reads a room mapping in one call and inserts the message mapping in a   *)
(* later one; in between, other handlers relink, merge and delete rooms.   *)
(* `held` is the set of room mappings some handler has read and not yet    *)
(* used, each as the row id and the platform the handler remembers.        *)
(***************************************************************************)
EXTENDS MappingStore

VARIABLE held

vars == <<rooms, msgs, roomSeq, reply, held>>

Handle == [id : Nat, platform : Platforms]

TypeOK == StoreTypeOK /\ held \subseteq Handle

Init == StoreInit /\ held = {}

(* The link command, POST /rooms and a portal room's creation.             *)
LinkRooms(m, p, e) == CreateRoomMapping(m, p, e) /\ UNCHANGED held

(* The unlink command and DELETE /rooms/{id}.                              *)
UnlinkRooms(id) == DeleteRoomMapping(id) /\ UNCHANGED held

(* A handler looks a room mapping up, by either side, and keeps the row.   *)
ReadMapping(id) ==
    /\ held' = held \cup {[id |-> id, platform |-> rooms[id].platform]}
    /\ reply' = {}
    /\ UNCHANGED <<rooms, msgs, roomSeq>>

(* The handler that holds h records the message it has bridged.            *)
BridgeMessage(h, ev, x) ==
    /\ RecordMessage(ev, h.platform, x, h.id)
    /\ held' = held \ {h}

(* The handler that holds h ends without a row: the delivery failed, the   *)
(* request was dropped, or the INSERT broke a constraint.                  *)
GiveUp(h) ==
    /\ held' = held \ {h}
    /\ reply' = {}
    /\ UNCHANGED <<rooms, msgs, roomSeq>>

Next ==
    \/ \E m \in MatrixRooms, p \in Platforms, e \in ExternalRooms : LinkRooms(m, p, e)
    \/ \E id \in DOMAIN rooms : UnlinkRooms(id) \/ ReadMapping(id)
    \/ \E h \in held : GiveUp(h)
    \/ \E h \in held, ev \in Events, x \in Messages : BridgeMessage(h, ev, x)

Spec == Init /\ [][Next]_vars

-----------------------------------------------------------------------------
(* A message mapping belongs to a room mapping of its own platform.  The   *)
(* schema does not say so: it holds because a handler's stale row id never *)
(* comes to name another platform's row (ids are not reused and no UPDATE  *)
(* changes platform_id), whatever was relinked or deleted in between.      *)
MessageOnItsPlatform == \A r \in msgs : r.room \in DOMAIN rooms
                                        /\ rooms[r.room].platform = r.platform

(* create_room_mapping succeeds whenever its lookups do, and when it       *)
(* returns an id, that row is the link the caller asked for, even if a     *)
(* failed lookup sent it into the wrong arm: the five arms and their order *)
(* of statements never trip over the UNIQUE constraints on the way.        *)
UpsertEstablishes ==
    \A r \in reply : /\ r.ok \/ r.fault
                     /\ r.ok => r.id \in DOMAIN rooms /\ rooms[r.id] = r.row

-----------------------------------------------------------------------------
(* Refinement: forget the row ids.                                         *)
LinksOf == {rooms[id] : id \in DOMAIN rooms}
FiledOf == {[event |-> r.event, external |-> r.external, link |-> rooms[r.room]] : r \in msgs}

Abstract == INSTANCE LinkTable WITH links <- LinksOf, filed <- FiledOf

(* The store implements the link table: relinking loses no message and     *)
(* leaves no second link behind, and messages vanish with their link only. *)
ImplementsLinkTable == Abstract!Spec
=============================================================================
