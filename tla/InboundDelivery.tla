--------------------------- MODULE InboundDelivery ---------------------------
(***************************************************************************)
(* External -> Matrix.  Requests from a platform, POST /api/v1/message and *)
(* POST /api/v1/rooms, run concurrently in the bridge: the dispatcher sits *)
(* behind a RwLock that is only ever read-locked, so the only atomicity is *)
(* that of one store call and of one homeserver call.  Each step below is  *)
(* the code between two awaits.  A request may be dropped at any await     *)
(* (the client hangs up), the process may crash, a homeserver call may be  *)
(* refused or carried out with its answer lost, a store call may fail, and *)
(* clients retry what was not acknowledged.                                *)
(*                                                                         *)
(* The store is MappingStore.  One external sender, hence one puppet.      *)
(***************************************************************************)
EXTENDS MappingStore

CONSTANTS
    Requests,   \* request slots: how many requests run at once
    MaxFaults   \* bound on drops, crashes, failed calls, kicks and unlinks

ASSUME InboundAssumption == MaxFaults \in Nat

VARIABLES
    req,        \* the requests in flight
    membership, \* Dispatcher.room_membership: rooms the puppet is taken to be in
    created,    \* rooms the homeserver has created for the bridge
    joined,     \* who is in which room, according to the homeserver
    sent,       \* the events the puppet has sent
    answered,   \* successful answers that clients have received (history)
    kicked,     \* rooms the puppet was kicked from since the process started
    faults      \* how many faults there have been

hsVars == <<created, joined, sent>>
vars == <<storeVars, hsVars, req, membership, answered, kicked, faults>>

Users == {"bot", "puppet"}

(* The stages of handle_incoming_http and handle_create_room_mapping, each *)
(* named for the call the request awaits next.                             *)
Stages == {"lookup", "create", "map", "leave", "puppet", "botjoin", "invite",
           "join", "dedup", "send", "record"}

None == "none"
Idle == [pc |-> "idle"]

Request ==
    [pc : Stages, kind : {"message", "provision"},
     platform : Platforms, external : ExternalRooms, key : Messages \cup {None},
     id : Nat, matrix : MatrixRooms \cup {None},   \* the RoomMapping in hand
     event : Events \cup {None},
     known : BOOLEAN]  \* history: its message has been on record since it arrived

Sent == [event : Events, platform : Platforms, key : Messages, room : MatrixRooms]
Answer == [kind : {"message", "provision"}, platform : Platforms, external : ExternalRooms,
           key : Messages \cup {None}, value : Events \cup MatrixRooms]

TypeOK ==
    /\ StoreTypeOK
    /\ req \in [Requests -> Request \cup {Idle}]
    /\ membership \subseteq MatrixRooms
    /\ created \subseteq MatrixRooms
    /\ joined \subseteq created \X Users
    /\ sent \subseteq Sent
    /\ answered \subseteq Answer
    /\ kicked \subseteq created
    /\ faults \in 0 .. MaxFaults

Init ==
    /\ StoreInit
    /\ req = [t \in Requests |-> Idle]
    /\ membership = {} /\ created = {} /\ joined = {} /\ sent = {}
    /\ answered = {} /\ kicked = {} /\ faults = 0

-----------------------------------------------------------------------------
(* Helpers.                                                                *)

Active(t) == req[t] # Idle
At(t, stage) == req[t].pc = stage
Goto(t, stage) == req' = [req EXCEPT ![t].pc = stage]
End(t) == req' = [req EXCEPT ![t] = Idle]

Recorded(p, k) == MessagesByExternal(p, k) # {}

(* A fresh room or event id, as the homeserver gives them.                 *)
FreshRoom == CHOOSE m \in MatrixRooms \ created : TRUE
FreshEvent == CHOOSE ev \in Events \ {s.event : s \in sent} : TRUE

Fault == faults < MaxFaults /\ faults' = faults + 1

(* The request fails: an error answer, which clients take as "try again".  *)
Fail(t) == End(t) /\ UNCHANGED answered

(* The client receives a successful answer with `value`.                   *)
Receives(t, value) ==
    answered' = answered \cup
      {[kind |-> req[t].kind, platform |-> req[t].platform, external |-> req[t].external,
        key |-> req[t].key, value |-> value]}

(* The request succeeds; its client may have hung up before the answer.    *)
Succeed(t, value) ==
    /\ End(t)
    /\ \/ Receives(t, value) /\ UNCHANGED faults
       \/ UNCHANGED answered /\ Fault

NoStore == UNCHANGED <<rooms, msgs, roomSeq>> /\ reply' = {}

-----------------------------------------------------------------------------
(* Arrival.                                                                *)

Acknowledged(p, k) == \E a \in answered : a.kind = "message" /\ a.platform = p /\ a.key = k

(* A client sends, or sends again, a message it has no answer for yet.     *)
SendMessage(t, p, e, k) ==
    /\ ~Active(t)
    /\ ~Acknowledged(p, k)
    /\ req' = [req EXCEPT ![t] =
         [pc |-> "lookup", kind |-> "message", platform |-> p, external |-> e, key |-> k,
          id |-> 0, matrix |-> None, event |-> None,
          known |-> Recorded(p, k)]]
    /\ NoStore /\ UNCHANGED <<hsVars, membership, answered, kicked, faults>>

(* A client provisions a room without naming a Matrix room.  The id it     *)
(* gives is mapped as it stands, where a message's is sanitised first: an  *)
(* external room of the model is an id that sanitising leaves alone.       *)
Provision(t, p, e) ==
    /\ ~Active(t)
    /\ req' = [req EXCEPT ![t] =
         [pc |-> "lookup", kind |-> "provision", platform |-> p, external |-> e, key |-> None,
          id |-> 0, matrix |-> None, event |-> None, known |-> FALSE]]
    /\ NoStore /\ UNCHANGED <<hsVars, membership, answered, kicked, faults>>

-----------------------------------------------------------------------------
(* Resolving the room.                                                     *)

(* find_room_by_external_id: a mapping is used as it was read; a provision *)
(* request answers with it.                                                *)
LookupRoom(t) ==
    /\ At(t, "lookup")
    /\ LET found == RoomsByExternal(req[t].platform, req[t].external) IN
       \/ \E id \in found :
            IF req[t].kind = "provision"
            THEN Succeed(t, rooms[id].matrix)
            ELSE /\ req' = [req EXCEPT ![t].pc = "puppet", ![t].id = id,
                                       ![t].matrix = rooms[id].matrix]
                 /\ UNCHANGED <<answered, faults>>
       \/ found = {} /\ Goto(t, "create") /\ UNCHANGED <<answered, faults>>
    /\ NoStore /\ UNCHANGED <<hsVars, membership, kicked>>

LookupFails(t) ==
    /\ At(t, "lookup") /\ Fault /\ Fail(t)
    /\ NoStore /\ UNCHANGED <<hsVars, membership, kicked>>

(* create_room: the homeserver makes a private room with the bot in it.    *)
CreateRoom(t) ==
    /\ At(t, "create") /\ created # MatrixRooms
    /\ created' = created \cup {FreshRoom}
    /\ joined' = joined \cup {<<FreshRoom, "bot">>}
    /\ \/ /\ req' = [req EXCEPT ![t].pc = "map", ![t].matrix = FreshRoom]
          /\ UNCHANGED faults
       \/ Fault /\ End(t)    \* the room exists, its id never arrives
    /\ NoStore /\ UNCHANGED <<sent, membership, answered, kicked>>

(* Refused: no one to invite, or the homeserver says no.                   *)
CreateRefused(t) ==
    /\ At(t, "create") /\ Fault /\ Fail(t)
    /\ NoStore /\ UNCHANGED <<hsVars, membership, kicked>>

(* create_room_mapping; ensure_platform_space after it is best effort.     *)
MapRoom(t) ==
    /\ At(t, "map")
    /\ CreateRoomMapping(req[t].matrix, req[t].platform, req[t].external)
    /\ \E r \in reply' :
         \/ /\ r.ok /\ ~r.fault /\ req[t].kind = "provision"
            /\ Succeed(t, req[t].matrix)
         \/ /\ r.ok /\ r.fault /\ req[t].kind = "provision"
            /\ Fault /\ End(t) /\ Receives(t, req[t].matrix)
         \/ /\ ~r.ok \/ req[t].kind = "message"
            /\ IF r.fault THEN Fault ELSE UNCHANGED faults
            /\ req' = [req EXCEPT ![t].pc = IF r.ok THEN "puppet" ELSE "leave",
                                  ![t].id = IF r.ok THEN r.id ELSE 0]
            /\ UNCHANGED answered
    /\ UNCHANGED <<hsVars, membership, kicked>>

(* leave_room_as_bot, best effort, after a failed mapping.                 *)
LeaveRoom(t) ==
    /\ At(t, "leave") /\ Fail(t)
    /\ \/ joined' = joined \ {<<req[t].matrix, "bot">>} /\ UNCHANGED faults
       \/ UNCHANGED joined /\ Fault
    /\ NoStore /\ UNCHANGED <<created, sent, membership, kicked>>

-----------------------------------------------------------------------------
(* ensure_puppet_direct and ensure_room_access.                            *)

(* Mutant: the cache is keyed by the puppet and not by the room.           *)
EnsurePuppetAnyRoom(t) ==
    /\ At(t, "puppet")
    /\ \/ /\ Goto(t, IF membership # {} THEN "dedup" ELSE "botjoin")
          /\ UNCHANGED faults
       \/ Fault /\ End(t)
    /\ NoStore /\ UNCHANGED <<hsVars, membership, answered, kicked>>

EnsurePuppet(t) ==
    /\ At(t, "puppet")
    /\ \/ /\ Goto(t, IF req[t].matrix \in membership THEN "dedup" ELSE "botjoin")
          /\ UNCHANGED faults
       \/ Fault /\ End(t)
    /\ NoStore /\ UNCHANGED <<hsVars, membership, answered, kicked>>

(* Mutant: a failed join is cleaned up like a failed mapping.              *)
BotJoinsOrLeaves(t) ==
    /\ At(t, "botjoin")
    /\ \/ /\ <<req[t].matrix, "bot">> \in joined
          /\ Goto(t, "invite") /\ UNCHANGED faults
       \/ Fault /\ Goto(t, "leave")
    /\ NoStore /\ UNCHANGED <<hsVars, membership, answered, kicked>>

(* join_room as the bot: the room is private, so only a member succeeds.   *)
BotJoins(t) ==
    /\ At(t, "botjoin")
    /\ \/ /\ <<req[t].matrix, "bot">> \in joined
          /\ Goto(t, "invite") /\ UNCHANGED faults
       \/ Fault /\ End(t)
    /\ NoStore /\ UNCHANGED <<hsVars, membership, answered, kicked>>

(* invite_user: success, also when the puppet is already in the room.      *)
InvitePuppet(t) ==
    /\ At(t, "invite")
    /\ \/ Goto(t, "join") /\ UNCHANGED faults
       \/ Fault /\ End(t)
    /\ NoStore /\ UNCHANGED <<hsVars, membership, answered, kicked>>

(* join_room as the puppet, then the membership cache.                     *)
PuppetJoins(t) ==
    /\ At(t, "join")
    /\ joined' = joined \cup {<<req[t].matrix, "puppet">>}
    /\ \/ /\ membership' = membership \cup {req[t].matrix}
          /\ Goto(t, "dedup") /\ UNCHANGED faults
       \/ Fault /\ End(t) /\ UNCHANGED membership    \* joined, answer lost
    /\ NoStore /\ UNCHANGED <<created, sent, answered, kicked>>

JoinRefused(t) ==
    /\ At(t, "join") /\ Fault /\ Fail(t)
    /\ NoStore /\ UNCHANGED <<hsVars, membership, kicked>>

-----------------------------------------------------------------------------
(* The message.                                                            *)

(* Mutant: a message counts as bridged in the room it was sent to only.    *)
CheckDuplicateInRoom(t) ==
    /\ At(t, "dedup")
    /\ LET found == {r \in MessagesByExternal(req[t].platform, req[t].key) :
                       \E s \in sent : s.event = r.event /\ s.room = req[t].matrix} IN
       \/ \E r \in found : Succeed(t, r.event)
       \/ found = {} /\ Goto(t, "send") /\ UNCHANGED <<answered, faults>>
    /\ NoStore /\ UNCHANGED <<hsVars, membership, kicked>>

(* Mutant: a duplicate is refused with an error.                           *)
RejectDuplicate(t) ==
    /\ At(t, "dedup")
    /\ IF Recorded(req[t].platform, req[t].key) THEN Fail(t) /\ UNCHANGED faults
       ELSE Goto(t, "send") /\ UNCHANGED <<answered, faults>>
    /\ NoStore /\ UNCHANGED <<hsVars, membership, kicked>>

(* find_message_by_external_id: a message on record is answered with its   *)
(* event.                                                                  *)
CheckDuplicate(t) ==
    /\ At(t, "dedup")
    /\ LET found == MessagesByExternal(req[t].platform, req[t].key) IN
       \/ \E r \in found : Succeed(t, r.event)
       \/ found = {} /\ Goto(t, "send") /\ UNCHANGED <<answered, faults>>
    /\ NoStore /\ UNCHANGED <<hsVars, membership, kicked>>

(* `if let Ok(Some(..))`: a failed lookup counts as "not bridged yet".     *)
DuplicateCheckFails(t) ==
    /\ At(t, "dedup") /\ Fault
    /\ req' = [req EXCEPT ![t].pc = "send", ![t].known = FALSE]
    /\ NoStore /\ UNCHANGED <<hsVars, membership, answered, kicked>>

(* send_to_matrix, with a transaction id made for this call: the           *)
(* homeserver takes every call for a new event.                            *)
Send(t) ==
    /\ At(t, "send")
    /\ <<req[t].matrix, "puppet">> \in joined
    /\ Events # {s.event : s \in sent}
    /\ sent' = sent \cup {[event |-> FreshEvent, platform |-> req[t].platform,
                           key |-> req[t].key, room |-> req[t].matrix]}
    /\ \/ /\ req' = [req EXCEPT ![t].pc = "record", ![t].event = FreshEvent]
          /\ UNCHANGED faults
       \/ Fault /\ End(t)    \* sent, answer lost
    /\ NoStore /\ UNCHANGED <<created, joined, membership, answered, kicked>>

(* The homeserver refuses: always when the puppet is not in the room.      *)
SendRefused(t) ==
    /\ At(t, "send")
    /\ \/ <<req[t].matrix, "puppet">> \notin joined /\ UNCHANGED faults
       \/ Fault
    /\ Fail(t)
    /\ NoStore /\ UNCHANGED <<hsVars, membership, kicked>>

(* Mutant: INSERT OR IGNORE.                                               *)
RecordOrIgnore(t) ==
    /\ At(t, "record")
    /\ IF CanRecord(req[t].event, req[t].platform, req[t].key, req[t].id)
       THEN RecordMessage(req[t].event, req[t].platform, req[t].key, req[t].id)
       ELSE NoStore
    /\ Succeed(t, req[t].event)
    /\ UNCHANGED <<hsVars, membership, kicked>>

(* create_message_mapping: the answer is sent only after the row is in.    *)
Record(t) ==
    /\ At(t, "record")
    /\ RecordMessage(req[t].event, req[t].platform, req[t].key, req[t].id)
    /\ Succeed(t, req[t].event)
    /\ UNCHANGED <<hsVars, membership, kicked>>

(* The INSERT breaks a constraint (another request recorded the message,   *)
(* or the room mapping is gone), or the store fails.                       *)
RecordFails(t) ==
    /\ At(t, "record")
    /\ \/ ~CanRecord(req[t].event, req[t].platform, req[t].key, req[t].id) /\ UNCHANGED faults
       \/ Fault
    /\ Fail(t)
    /\ NoStore /\ UNCHANGED <<hsVars, membership, kicked>>

-----------------------------------------------------------------------------
(* The environment.                                                        *)

(* The client hangs up: axum drops the handler at its current await.       *)
Drop(t) ==
    /\ Active(t) /\ Fault /\ Fail(t)
    /\ NoStore /\ UNCHANGED <<hsVars, membership, kicked>>

(* The process dies: what is in memory is gone, the store stays.           *)
Crash ==
    /\ Fault
    /\ req' = [t \in Requests |-> Idle]
    /\ membership' = {} /\ kicked' = {}
    /\ NoStore /\ UNCHANGED <<hsVars, answered>>

(* A room admin kicks the puppet; nothing in the bridge hears of it.       *)
Kick(m) ==
    /\ <<m, "puppet">> \in joined /\ Fault
    /\ joined' = joined \ {<<m, "puppet">>}
    /\ kicked' = kicked \cup {m}
    /\ NoStore /\ UNCHANGED <<created, sent, req, membership, answered>>

(* DELETE /rooms/{id} or the unlink command: messages go with the mapping, *)
(* and with them the answers given for them.                               *)
Unlink(id) ==
    /\ Fault
    /\ DeleteRoomMapping(id)
    /\ LET gone == msgs \ msgs' IN
       /\ req' = [t \in Requests |->
            IF Active(t) /\ req[t].known
            THEN [req[t] EXCEPT !.known =
                    \A r \in gone : ~(r.platform = req[t].platform /\ r.external = req[t].key)]
            ELSE req[t]]
       /\ answered' = {a \in answered :
            IF a.kind = "message"
            THEN \A r \in gone : ~(r.platform = a.platform /\ r.external = a.key)
            ELSE ~(a.platform = rooms[id].platform /\ a.external = rooms[id].external)}
    /\ UNCHANGED <<hsVars, membership, kicked>>

-----------------------------------------------------------------------------
Handle(t) ==
    \/ LookupRoom(t) \/ LookupFails(t) \/ CreateRoom(t) \/ CreateRefused(t)
    \/ MapRoom(t) \/ LeaveRoom(t) \/ EnsurePuppet(t) \/ BotJoins(t) \/ InvitePuppet(t)
    \/ PuppetJoins(t) \/ JoinRefused(t) \/ CheckDuplicate(t) \/ DuplicateCheckFails(t)
    \/ Send(t) \/ SendRefused(t) \/ Record(t) \/ RecordFails(t)

Next ==
    \/ \E t \in Requests : Handle(t) \/ Drop(t)
    \/ \E t \in Requests, p \in Platforms, e \in ExternalRooms :
         Provision(t, p, e) \/ \E k \in Messages : SendMessage(t, p, e, k)
    \/ Crash
    \/ \E m \in created : Kick(m)
    \/ \E id \in DOMAIN rooms : Unlink(id)

Spec == Init /\ [][Next]_vars

(* Every await of a handler ends: homeserver calls have a 30 s timeout and *)
(* store calls wait only for each other.  Clients retry until answered;    *)
(* strong fairness because a slot may be taken by another client.          *)
FairSpec ==
    /\ Spec
    /\ \A t \in Requests : WF_vars(Handle(t))
    /\ \A p \in Platforms, e \in ExternalRooms, k \in Messages :
         SF_vars(\E t \in Requests : SendMessage(t, p, e, k))

-----------------------------------------------------------------------------
(* A successful answer names an event that carries the message, and the    *)
(* message is on record under that very event: two requests for the same   *)
(* message never receive different events, until an unlink forgets it.     *)
AckedOnRecord ==
    \A a \in answered : a.kind = "message" =>
        /\ \E s \in sent : s.event = a.value /\ s.platform = a.platform /\ s.key = a.key
        /\ \E r \in msgs : /\ r.event = a.value /\ r.platform = a.platform
                         /\ r.external = a.key

(* A request that arrives when its message is on record does not send it   *)
(* again, unless the record is deleted meanwhile or the lookup fails: the  *)
(* rule that makes a retry after a lost answer safe.                       *)
NoResend == \A t \in Requests : At(t, "send") => ~req[t].known

(* The membership cache is wrong about no room but those the puppet was    *)
(* kicked from since the process started, so whoever relies on it finds    *)
(* the puppet in the room.                                                 *)
PuppetInRoom ==
    /\ \A m \in membership : <<m, "puppet">> \in joined \/ m \in kicked
    /\ \A t \in Requests : At(t, "dedup") \/ At(t, "send") =>
         <<req[t].matrix, "puppet">> \in joined \/ req[t].matrix \in kicked

(* ensure_room_access is to "Ensure a puppet user can access a Matrix room" *)
(* (platform_events.rs:200): when it returns Ok the puppet is in the room.  *)
(* It is not once a room admin has kicked it: the cache is asked first and  *)
(* nothing ever takes an entry out.                                         *)
AccessEnsured ==
    [][\A t \in Requests :
         ~At(t, "dedup") /\ At(t, "dedup")' => <<req'[t].matrix, "puppet">> \in joined']_vars

(* The cleanup after a failed mapping never takes the bot out of a room    *)
(* that is mapped: racing requests clean up their own rooms only.          *)
BotInMappedRooms == \A id \in DOMAIN rooms : <<rooms[id].matrix, "bot">> \in joined

(* A message that a client keeps retrying is eventually acknowledged, once *)
(* faults stop, or the puppet is kicked: the cache of memberships then     *)
(* keeps it out until the next restart.                                    *)
EventuallyAcked ==
    \A p \in Platforms, k \in Messages : <>(Acknowledged(p, k) \/ kicked # {})
=============================================================================
