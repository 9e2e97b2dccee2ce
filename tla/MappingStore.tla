---------------------------- MODULE MappingStore ----------------------------
(***************************************************************************)
(* The two mapping tables of the bridge's SQLite store                     *)
(* (crates/store): room_mappings links a Matrix room to an external room,  *)
(* message_mappings links a Matrix event to an external message and points *)
(* to the room mapping it went through.  Every store call holds the one    *)
(* connection's mutex from its first statement to its last, so a call is   *)
(* one action here; what interleaves is the calls of different handlers.   *)
(* This module holds the tables and the calls; MappingHandlers and         *)
(* InboundDelivery say who calls them and when.                            *)
(***************************************************************************)
EXTENDS Naturals, FiniteSets

CONSTANTS
    MatrixRooms,    \* Matrix room ids
    Platforms,      \* platform ids
    ExternalRooms,  \* room ids on the platforms' side
    Events,         \* Matrix event ids
    Messages,       \* message ids on the platforms' side
    MaxRoomId       \* bound on AUTOINCREMENT ids (2^63 - 1 in SQLite)

ASSUME MaxRoomIdAssumption == MaxRoomId \in Nat

VARIABLES
    rooms,    \* room_mappings: a function from the live row ids to rows
    msgs,     \* message_mappings: a set of rows, .room is the foreign key
    roomSeq,  \* sqlite_sequence: the largest room_mappings id ever given
    reply     \* what create_room_mapping has just returned, {} after others

storeVars == <<rooms, msgs, roomSeq, reply>>

RoomRow == [matrix : MatrixRooms, platform : Platforms, external : ExternalRooms]
MessageRow == [event : Events, platform : Platforms, external : Messages, room : Nat]
Reply == [ok : BOOLEAN, fault : BOOLEAN, id : Nat, row : RoomRow]

StoreTypeOK ==
    /\ roomSeq \in Nat
    /\ DOMAIN rooms \subseteq 1 .. roomSeq
    /\ rooms \in [DOMAIN rooms -> RoomRow]
    /\ msgs \subseteq MessageRow
    /\ reply \subseteq Reply

(* The tables as the first migration leaves them: empty.                   *)
StoreInit == /\ rooms = [id \in {} |-> {}]
             /\ msgs = {}
             /\ roomSeq = 0
             /\ reply = {}

-----------------------------------------------------------------------------
(* Constraints of the schema, checked by SQLite after every statement.     *)

(* UNIQUE(matrix_room_id, platform_id), UNIQUE(platform_id, external_room_id) *)
UniqueRooms(R) ==
    \A i, j \in DOMAIN R :
        /\ R[i].platform = R[j].platform
        /\ R[i].matrix = R[j].matrix \/ R[i].external = R[j].external
        => i = j

(* UNIQUE(matrix_event_id, platform_id), UNIQUE(platform_id, external_message_id) *)
UniqueMessages(S) ==
    \A r, s \in S :
        /\ r.platform = s.platform
        /\ r.event = s.event \/ r.external = s.external
        => r = s

(* room_mapping_id REFERENCES room_mappings(id), PRAGMA foreign_keys = ON  *)
ForeignKeys(R, S) == \A r \in S : r.room \in DOMAIN R

-----------------------------------------------------------------------------
(* A transaction is the tables it has produced so far and whether every    *)
(* statement succeeded; a statement that breaks a constraint fails, `?`    *)
(* returns, and dropping the transaction rolls everything back.            *)

Begin == [ok |-> TRUE, rooms |-> rooms, msgs |-> msgs]

Failed == [Begin EXCEPT !.ok = FALSE]

Execute(tx, R, S) ==
    IF tx.ok /\ UniqueRooms(R) /\ ForeignKeys(R, S)
    THEN [ok |-> TRUE, rooms |-> R, msgs |-> S]
    ELSE [tx EXCEPT !.ok = FALSE]

(* UPDATE message_mappings SET room_mapping_id = to WHERE room_mapping_id = from *)
MigrateMessages(tx, from, to) ==
    Execute(tx, tx.rooms,
            {r \in tx.msgs : r.room # from}
              \cup {[r EXCEPT !.room = to] : r \in {s \in tx.msgs : s.room = from}})

(* DELETE FROM room_mappings WHERE id = id, with ON DELETE CASCADE         *)
DeleteRoom(tx, id) ==
    Execute(tx, [i \in DOMAIN tx.rooms \ {id} |-> tx.rooms[i]],
            {r \in tx.msgs : r.room # id})

(* UPDATE room_mappings SET external_room_id = e WHERE id = id             *)
SetExternal(tx, id, e) ==
    Execute(tx, [tx.rooms EXCEPT ![id] = [@ EXCEPT !.external = e]], tx.msgs)

(* UPDATE room_mappings SET matrix_room_id = m WHERE id = id               *)
SetMatrix(tx, id, m) ==
    Execute(tx, [tx.rooms EXCEPT ![id] = [@ EXCEPT !.matrix = m]], tx.msgs)

(* INSERT INTO room_mappings                                               *)
InsertRoom(tx, id, row) ==
    Execute(tx, [i \in DOMAIN tx.rooms \cup {id} |-> IF i = id THEN row ELSE tx.rooms[i]],
            tx.msgs)

(* Mutant: plain INTEGER PRIMARY KEY hands out the largest live id plus one. *)
ReusedRoomId ==
    CHOOSE n \in 1 .. roomSeq + 1 : /\ \A i \in DOMAIN rooms : i < n
                                    /\ n = 1 \/ n - 1 \in DOMAIN rooms

(* The id AUTOINCREMENT gives to the next row: never one given before.     *)
NextRoomId == roomSeq + 1

(* Mutant: the survivor is updated before the conflicting row is deleted.  *)
UpdateBeforeDelete(idM, idE, e) ==
    DeleteRoom(SetExternal(MigrateMessages(Begin, idE, idM), idM, e), idE)

(* Mutant: the conflicting row is deleted without moving its messages.     *)
MergeWithoutMigration(idM, idE, e) ==
    SetExternal(DeleteRoom(Begin, idE), idM, e)

(* The merge arm of create_room_mapping: keep idM, absorb idE.             *)
Merge(idM, idE, e) ==
    SetExternal(DeleteRoom(MigrateMessages(Begin, idE, idM), idE), idM, e)

-----------------------------------------------------------------------------
(* Queries.  UNIQUE makes each of them return at most one row.             *)

RoomsByMatrix(m, p) ==
    {id \in DOMAIN rooms : rooms[id].matrix = m /\ rooms[id].platform = p}

RoomsByExternal(p, e) ==
    {id \in DOMAIN rooms : rooms[id].platform = p /\ rooms[id].external = e}

MessagesByExternal(p, x) == {r \in msgs : r.platform = p /\ r.external = x}

-----------------------------------------------------------------------------
(* Calls.                                                                  *)

(* Mutant: the table is rebuilt without its sqlite_sequence entry.         *)
FinishWithoutSequence(tx, id, row, fault) ==
    /\ IF tx.ok
       THEN rooms' = tx.rooms /\ msgs' = tx.msgs
       ELSE UNCHANGED <<rooms, msgs>>
    /\ roomSeq' = roomSeq
    /\ reply' = {[ok |-> tx.ok, fault |-> fault, id |-> id, row |-> row]}

(* Commit the transaction, or roll it back and return the error.           *)
Finish(tx, id, row, fault) ==
    /\ IF tx.ok
       THEN /\ rooms' = tx.rooms
            /\ msgs' = tx.msgs
            /\ roomSeq' = IF id > roomSeq THEN id ELSE roomSeq
       ELSE UNCHANGED <<rooms, msgs, roomSeq>>
    /\ reply' = {[ok |-> tx.ok, fault |-> fault, id |-> id, row |-> row]}

(* create_room_mapping.  Both lookups end in `.ok()`: a lookup that fails  *)
(* is indistinguishable from one that finds no row (then `seen` is {}).    *)
CreateRoomMapping(m, p, e) ==
    \E byMatrix \in {RoomsByMatrix(m, p), {}}, byExternal \in {RoomsByExternal(p, e), {}} :
      LET row   == [matrix |-> m, platform |-> p, external |-> e]
          fault == byMatrix # RoomsByMatrix(m, p) \/ byExternal # RoomsByExternal(p, e)
      IN  \/ \E id \in byMatrix \cap byExternal :
                Finish(Begin, id, row, fault)
          \/ \E idM \in byMatrix, idE \in byExternal :
                idM # idE /\ Finish(Merge(idM, idE, e), idM, row, fault)
          \/ /\ byExternal = {}
             /\ \E id \in byMatrix : Finish(SetExternal(Begin, id, e), id, row, fault)
          \/ /\ byMatrix = {}
             /\ \E id \in byExternal : Finish(SetMatrix(Begin, id, m), id, row, fault)
          \/ /\ byMatrix = {} /\ byExternal = {} /\ NextRoomId <= MaxRoomId
             /\ Finish(InsertRoom(Begin, NextRoomId, row), NextRoomId, row, fault)
          \/ Finish(Failed, NextRoomId, row, TRUE)    \* any statement: disk, SQLITE_FULL

(* delete_room_mapping: true when the row existed.                         *)
DeleteRoomMapping(id) ==
    /\ id \in DOMAIN rooms
    /\ rooms' = DeleteRoom(Begin, id).rooms
    /\ msgs' = DeleteRoom(Begin, id).msgs
    /\ reply' = {}
    /\ UNCHANGED roomSeq

(* Does create_message_mapping's INSERT satisfy the constraints?           *)
CanRecord(ev, p, x, id) ==
    /\ id \in DOMAIN rooms
    /\ \A r \in msgs : r.platform = p => r.event # ev /\ r.external # x

(* create_message_mapping when the INSERT succeeds.                        *)
RecordMessage(ev, p, x, id) ==
    /\ CanRecord(ev, p, x, id)
    /\ msgs' = msgs \cup {[event |-> ev, platform |-> p, external |-> x, room |-> id]}
    /\ reply' = {}
    /\ UNCHANGED <<rooms, roomSeq>>
=============================================================================
