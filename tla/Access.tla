-------------------------------- MODULE Access --------------------------------
(***************************************************************************)
(* Who may make the bridge do what: a Matrix text is a room command        *)
(* (`!bridge ...`), a command to the bot, a message to pass on, or nothing *)
(* (outbound.rs, commands.rs, bot_commands.rs); an edit, a reaction or a   *)
(* redaction follows the message it is about; an invitation is accepted or *)
(* left (matrix_events.rs); [permissions] grants levels to users           *)
(* (config.rs).                                                            *)
(*                                                                         *)
(* A worker handles one event at a time and waits for the store and the    *)
(* homeserver between its steps, while power levels change, the REST API   *)
(* maps and unmaps rooms, and messages from the platforms bring the bot    *)
(* and the puppets into mapped rooms.  What becomes of a message that is   *)
(* passed on, and what is on record of it, is OutboundDelivery's;          *)
(* encrypting a linked room is CryptoPool's.                               *)
(***************************************************************************)
EXTENDS MappingStore, Integers

CONSTANTS
  Users,        \* Matrix users
  Puppets,      \* puppet users
  Bot,          \* the bridge bot
  Home,         \* [Puppets -> Platforms]: the platform each puppet comes from
  Configs,      \* permissions to choose from
  Levels,       \* power levels, of either sign
  Workers,      \* events handled at once
  MaxEvents,    \* bound: events
  MaxChanges,   \* bound: changes of power levels and memberships, calls of the REST API
  MaxFaults     \* bound: failed calls

None == "none"
Accounts == Puppets \union {Bot}
Senders == Users \union Accounts

\* what `!bridge link` and `!bridge unlink` ask for
Moderator == 50

\* A pattern of a list is the set of users that it matches
Permissions == [admin: SUBSET SUBSET Senders, relay: SUBSET SUBSET Senders, floor: Int]

ASSUME AccessAssumption ==
  /\ Bot \notin Users \union Puppets /\ Users \cap Puppets = {}
  /\ None \notin Senders \union Platforms \union ExternalRooms
  /\ Home \in [Puppets -> Platforms]
  /\ Configs \subseteq Permissions
  /\ Levels \subseteq Int
  /\ MaxEvents \in Nat /\ MaxChanges \in Nat /\ MaxFaults \in Nat

VARIABLES
  config,   \* the permissions, read at startup
  power,    \* the homeserver: power levels of the senders in the rooms
  joined,   \* the homeserver: <<room, account>> pairs
  worker,   \* [Workers -> what it is doing]
  deeds,    \* history: what texts were taken for, and what they did
  events,   \* how many events there have been
  changes,  \* how many changes there have been
  faults    \* how many faults there have been

vars == <<storeVars, config, power, joined, worker, deeds, events, changes, faults>>

\* `query`: a bot command answered by the bridge itself; `pass`: one for a platform
Texts == {"message", "edit", "query", "pass", "link", "unlink"}
FollowUps == {"reaction", "redaction"}
Kinds == Texts \union FollowUps \union {"invite"}
Event == [kind: Kinds, sender: Senders, room: MatrixRooms, platform: Platforms \union {None},
          external: ExternalRooms \union {None}, who: Senders \union {None}]

\* `seen`, `bare`, `best` are histories of the time the event has been handled: the
\* platforms its room was linked to, if ever to none, its sender's highest level
Stages == {"join", "rights", "link", "find", "unlink", "route", "floor", "forward", "command",
           "targets", "follow"}
Job == [pc: Stages, event: Event, mapped: SUBSET Platforms, id: Nat,
        seen: SUBSET Platforms, bare: BOOLEAN, best: Levels]
Idle == [pc |-> "idle"]

Deed == [what: {"forward", "answer", "pass", "link", "unlink"}, event: Event,
         to: MatrixRooms \union Platforms \union {None}, seen: SUBSET Platforms, bare: BOOLEAN,
         best: Levels]

TypeOK ==
  /\ StoreTypeOK /\ UniqueRooms(rooms)
  /\ config \in Configs
  /\ power \in [MatrixRooms -> [Senders -> Levels]]
  /\ joined \subseteq MatrixRooms \X Accounts
  /\ worker \in [Workers -> Job \union {Idle}]
  /\ deeds \subseteq Deed
  /\ events \in 0..MaxEvents /\ changes \in 0..MaxChanges /\ faults \in 0..MaxFaults

Init ==
  /\ StoreInit
  /\ config \in Configs
  /\ power \in {[r \in MatrixRooms |-> [s \in Senders |-> IF s \in trusted[r] THEN 50 ELSE 0]] :
                  trusted \in [MatrixRooms -> {{}, Users}]}
  /\ joined = {}
  /\ worker = [w \in Workers |-> Idle]
  /\ deeds = {}
  /\ events = 0 /\ changes = 0 /\ faults = 0

Fault == faults < MaxFaults /\ faults' = faults + 1
NoFault == UNCHANGED faults
NoStore == UNCHANGED storeVars

-----------------------------------------------------------------------------
(* Permissions.                                                             *)

NoAccess == 0
Relay == 1
Admin == 2

Matches(sender, patterns) == \E pattern \in patterns : sender \in pattern

\* permission_level: admin, then relay, then none; with both lists empty, admin
PermissionLevel(sender) ==
  IF (config.admin = {} /\ config.relay = {}) \/ Matches(sender, config.admin) THEN Admin
  ELSE IF Matches(sender, config.relay) THEN Relay
  ELSE NoAccess

IsInviteAllowed(sender) == PermissionLevel(sender) >= Admin

\* (defect) a level that cannot be looked up is no reason to refuse
SeesPowerOrTrusts(event, level) ==
  \/ /\ level = power[event.room][event.sender]
     /\ NoFault
  \/ level = Moderator /\ Fault

\* get_user_power_level, unwrap_or(0): 0 as well when the homeserver refuses or the
\* call fails, above a level that is below 0.  It may refuse a bot that is not in the room
SeesPower(event, level) ==
  \/ /\ level = power[event.room][event.sender]
     /\ NoFault
  \/ level = 0 /\ <<event.room, Bot>> \notin joined /\ NoFault
  \/ level = 0 /\ Fault

-----------------------------------------------------------------------------
(* Histories.                                                               *)

LinkedTo(R, room) == {R[id].platform : id \in {i \in DOMAIN R : R[i].matrix = room}}

\* what the workers see of mappings R and levels P while they handle their events
Watch(workers, R, P) ==
  [w \in Workers |->
    IF workers[w] = Idle THEN Idle ELSE
    LET job == workers[w]
        linked == LinkedTo(R, job.event.room)
        level == P[job.event.room][job.event.sender]
    IN  [job EXCEPT !.seen = @ \union linked, !.bare = @ \/ linked = {},
                    !.best = IF level > @ THEN level ELSE @]]

Does(w, what, to) ==
  deeds' = deeds \union
    {[what |-> what, event |-> worker[w].event, to |-> to, seen |-> worker[w].seen,
      bare |-> worker[w].bare, best |-> worker[w].best]}

-----------------------------------------------------------------------------
(* Taking an event.                                                         *)

\* handle_event, handle_membership: an invitation counts if it is for the bot or a
\* puppet, and from the bot or an admin; the bot's other events are skipped; a reaction
\* or redaction looks for its target at once
FirstStage(event) ==
  IF event.kind = "invite"
  THEN IF event.who \in Accounts /\ (event.sender = Bot \/ IsInviteAllowed(event.sender))
       THEN "join" ELSE "idle"
  ELSE IF event.sender = Bot THEN "idle"
  ELSE IF event.kind \in {"link", "unlink"} THEN "rights"
  ELSE IF event.kind \in FollowUps THEN "targets" ELSE "route"

Receive(w, event) ==
  /\ worker[w] = Idle
  /\ events < MaxEvents /\ events' = events + 1
  /\ LET stage == FirstStage(event)
         linked == LinkedTo(rooms, event.room)
     IN  worker' = [worker EXCEPT ![w] = IF stage = "idle" THEN Idle ELSE
           [pc |-> stage, event |-> event, mapped |-> {}, id |-> 0, seen |-> linked,
            bare |-> (linked = {}), best |-> power[event.room][event.sender]]]
  /\ NoStore /\ UNCHANGED <<config, power, joined, deeds, changes, faults>>

At(w, stage) == worker[w].pc = stage
Goto(w, stage) == worker' = [worker EXCEPT ![w].pc = stage]
End(w) == worker' = [worker EXCEPT ![w] = Idle]

\* a store call fails, and with it the event
Fails(w) ==
  /\ worker[w].pc \in {"find", "unlink", "route", "targets", "follow"}
  /\ Fault /\ End(w)
  /\ NoStore /\ UNCHANGED <<config, power, joined, deeds, events, changes>>

\* join_room, of the invited account or of the bot that a room was linked for; its
\* failure is logged
Join(w) ==
  /\ At(w, "join")
  /\ LET event == worker[w].event
         account == IF event.kind = "invite" THEN event.who ELSE Bot
     IN  \/ /\ joined' = joined \union {<<event.room, account>>}
            /\ NoFault
         \/ UNCHANGED joined /\ Fault
  /\ End(w)
  /\ NoStore /\ UNCHANGED <<config, power, deeds, events, changes>>

-----------------------------------------------------------------------------
(* Room commands.                                                           *)

\* handle_command: `link` and `unlink` are for moderators of the room
CheckRights(w) ==
  /\ At(w, "rights")
  /\ \E level \in Levels \union {0} :
       /\ SeesPower(worker[w].event, level)
       /\ IF level < Moderator THEN End(w)
          ELSE Goto(w, IF worker[w].event.kind = "link" THEN "link" ELSE "find")
  /\ NoStore /\ UNCHANGED <<config, power, joined, deeds, events, changes>>

\* create_room_mapping
Link(w) ==
  /\ At(w, "link")
  /\ LET event == worker[w].event IN
     /\ CreateRoomMapping(event.room, event.platform, event.external)
     /\ \E r \in reply' :
          /\ IF r.fault THEN Fault ELSE NoFault
          /\ worker' = Watch([worker EXCEPT ![w] = IF r.ok THEN [@ EXCEPT !.pc = "join"] ELSE Idle],
                            rooms', power)
          /\ IF r.ok THEN Does(w, "link", event.room) ELSE UNCHANGED deeds
  /\ UNCHANGED <<config, power, joined, events, changes>>

\* find_room_by_matrix_id: only the row's id is used afterwards
FindMapping(w) ==
  /\ At(w, "find")
  /\ LET found == RoomsByMatrix(worker[w].event.room, worker[w].event.platform)
     IN  \/ found = {} /\ End(w)
         \/ \E id \in found : worker' = [worker EXCEPT ![w].pc = "unlink", ![w].id = id]
  /\ NoStore /\ UNCHANGED <<config, power, joined, deeds, events, changes, faults>>

\* delete_room_mapping of that id, if the row is still there
Unlink(w) ==
  /\ At(w, "unlink")
  /\ IF worker[w].id \in DOMAIN rooms
     THEN DeleteRoomMapping(worker[w].id) /\ Does(w, "unlink", rooms[worker[w].id].matrix)
     ELSE NoStore /\ UNCHANGED deeds
  /\ worker' = Watch([worker EXCEPT ![w] = Idle], rooms', power)
  /\ UNCHANGED <<config, power, joined, events, changes, faults>>

-----------------------------------------------------------------------------
(* Edits, reactions and redactions.                                         *)

\* find_all_messages_by_matrix_id: the platforms that the target is on record for
FindTargets(w) ==
  /\ At(w, "targets")
  /\ \E targets \in SUBSET Platforms :
       worker' = [worker EXCEPT ![w] =
         IF targets = {} THEN Idle ELSE [@ EXCEPT !.pc = "follow", !.mapped = targets]]
  /\ NoStore /\ UNCHANGED <<config, power, joined, deeds, events, changes, faults>>

\* (defect) the target's platforms are enough, the room's mappings are not looked up
FollowTarget(w) ==
  /\ At(w, "follow")
  /\ \E p \in worker[w].mapped :
       /\ Does(w, "forward", p)
       /\ worker' = [worker EXCEPT ![w] =
            IF worker[w].mapped = {p} THEN Idle ELSE [worker[w] EXCEPT !.mapped = @ \ {p}]]
  /\ NoStore /\ UNCHANGED <<config, power, joined, events, changes, faults>>

\* the loop over the targets: find_room_by_matrix_id, then the delivery if the room is
\* linked to the platform
Follow(w) ==
  /\ At(w, "follow")
  /\ \E p \in worker[w].mapped :
       /\ IF p \in LinkedTo(rooms, worker[w].event.room) THEN Does(w, "forward", p)
          ELSE UNCHANGED deeds
       /\ worker' = [worker EXCEPT ![w] =
            IF worker[w].mapped = {p} THEN Idle ELSE [worker[w] EXCEPT !.mapped = @ \ {p}]]
  /\ NoStore /\ UNCHANGED <<config, power, joined, events, changes, faults>>

-----------------------------------------------------------------------------
(* Messages and bot commands.                                               *)

\* (defect) a text that starts with `!` is a bot command in every room
RouteCommandsFirst(w) ==
  /\ At(w, "route")
  /\ LET linked == LinkedTo(rooms, worker[w].event.room)
         command == worker[w].event.kind \in {"query", "pass"}
     IN  worker' = [worker EXCEPT ![w] =
           IF command THEN [@ EXCEPT !.pc = "command"]
           ELSE IF linked = {} THEN Idle
           ELSE [@ EXCEPT !.pc = "floor", !.mapped = linked]]
  /\ NoStore /\ UNCHANGED <<config, power, joined, deeds, events, changes, faults>>

\* handle_room_message, find_all_mappings_by_matrix_id: in a room without mappings
\* a text that starts with `!` is a bot command, and any other is dropped
Route(w) ==
  /\ At(w, "route")
  /\ LET linked == LinkedTo(rooms, worker[w].event.room)
         command == worker[w].event.kind \in {"query", "pass"}
     IN  worker' = [worker EXCEPT ![w] =
           IF linked # {} THEN [@ EXCEPT !.pc = "floor", !.mapped = linked]
           ELSE IF command THEN [@ EXCEPT !.pc = "command"] ELSE Idle]
  /\ NoStore /\ UNCHANGED <<config, power, joined, deeds, events, changes, faults>>

\* relay_min_power_level, from which puppets are exempt; an edit looks for its target
\* next
CheckFloor(w) ==
  /\ At(w, "floor")
  /\ LET onward == IF worker[w].event.kind = "edit" THEN "targets" ELSE "forward" IN
     \/ /\ config.floor <= 0 \/ worker[w].event.sender \in Puppets
        /\ Goto(w, onward) /\ NoFault
     \/ /\ config.floor > 0 /\ worker[w].event.sender \notin Puppets
        /\ \E level \in Levels \union {0} :
             /\ SeesPower(worker[w].event, level)
             /\ IF level < config.floor THEN End(w) ELSE Goto(w, onward)
  /\ NoStore /\ UNCHANGED <<config, power, joined, deeds, events, changes>>

\* the platforms that were read, but for the one the message comes from
Forward(w) ==
  /\ At(w, "forward")
  /\ LET sender == worker[w].event.sender
         own == IF sender \in Puppets THEN {Home[sender]} ELSE {}
     IN  deeds' = deeds \union
           {[what |-> "forward", event |-> worker[w].event, to |-> p, seen |-> worker[w].seen,
             bare |-> worker[w].bare, best |-> worker[w].best] : p \in worker[w].mapped \ own}
  /\ End(w)
  /\ NoStore /\ UNCHANGED <<config, power, joined, events, changes, faults>>

\* !help, !platforms, !rooms, !spaces, !<platform>: they read and reply
Answer(w) == Does(w, "answer", None)

\* !<platform> <command>: passed to its clients and webhooks if it has any, else
\* answered that it has none
PassThrough(w) ==
  /\ worker[w].event.kind = "pass"
  /\ \/ Does(w, "pass", worker[w].event.platform)
     \/ Answer(w)

\* handle_bot_command: others than admins get no answer
Command(w) ==
  /\ At(w, "command")
  /\ \/ PermissionLevel(worker[w].event.sender) < Admin /\ UNCHANGED deeds /\ NoFault
     \/ /\ PermissionLevel(worker[w].event.sender) >= Admin
        /\ \/ worker[w].event.kind = "query" /\ Answer(w) /\ NoFault
           \/ PassThrough(w) /\ NoFault
           \/ UNCHANGED deeds /\ Fault
  /\ End(w)
  /\ NoStore /\ UNCHANGED <<config, power, joined, events, changes>>

-----------------------------------------------------------------------------
(* Others.                                                                  *)

Change == changes < MaxChanges /\ changes' = changes + 1

\* the room's power levels change
ChangePower(room, sender, level) ==
  /\ Change
  /\ power' = [power EXCEPT ![room][sender] = level]
  /\ worker' = Watch(worker, rooms, power')
  /\ NoStore
  /\ UNCHANGED <<config, joined, deeds, events, faults>>

\* the REST API maps a room (handle_create_room_mapping) or unmaps one
ApiMap(room, p, x) ==
  /\ Change
  /\ CreateRoomMapping(room, p, x)
  /\ \A r \in reply' : ~r.fault
  /\ worker' = Watch(worker, rooms', power)
  /\ UNCHANGED <<config, power, joined, deeds, events, faults>>

ApiUnmap(id) ==
  /\ Change
  /\ DeleteRoomMapping(id)
  /\ worker' = Watch(worker, rooms', power)
  /\ UNCHANGED <<config, power, joined, deeds, events, faults>>

\* ensure_room_access, when a platform's message comes to a mapped room: nobody needs to
\* have invited the bot.  The puppet joins only after the bot
EnsureRoomAccess(room, puppet) ==
  /\ Change
  /\ Home[puppet] \in LinkedTo(rooms, room)
  /\ joined' \in {joined \union {<<room, Bot>>}, joined \union {<<room, Bot>>, <<room, puppet>>}}
  /\ NoStore
  /\ UNCHANGED <<config, power, worker, deeds, events, faults>>

\* an account leaves the room or is removed from it
Leave(membership) ==
  /\ Change
  /\ joined' = joined \ {membership}
  /\ NoStore
  /\ UNCHANGED <<config, power, worker, deeds, events, faults>>

-----------------------------------------------------------------------------
Plain(kind, s, r) == [kind |-> kind, sender |-> s, room |-> r, platform |-> None, external |-> None,
                      who |-> None]

Talk(s, r) == {Plain(kind, s, r) : kind \in {"message", "edit", "query"} \union FollowUps}

PlatformTexts(s, r) ==
  {[Plain(kind, s, r) EXCEPT !.platform = p] : kind \in {"pass", "unlink"}, p \in Platforms}

LinkTexts(s, r) ==
  {[kind |-> "link", sender |-> s, room |-> r, platform |-> p, external |-> x, who |-> None] :
     p \in Platforms, x \in ExternalRooms}

Invitations(s, r) == {[Plain("invite", s, r) EXCEPT !.who = u] : u \in Senders \ {s}}

Inputs ==
  UNION {Talk(s, r) \union PlatformTexts(s, r) \union LinkTexts(s, r) \union Invitations(s, r) :
         s \in Senders, r \in MatrixRooms}

Next ==
  \/ \E w \in Workers :
       \/ \E event \in Inputs : Receive(w, event)
       \/ Fails(w) \/ Join(w) \/ CheckRights(w) \/ Link(w) \/ FindMapping(w) \/ Unlink(w)
       \/ Route(w) \/ CheckFloor(w) \/ Forward(w) \/ Command(w) \/ FindTargets(w) \/ Follow(w)
  \/ \E r \in MatrixRooms :
       \/ \E s \in Users, level \in Levels : ChangePower(r, s, level)
       \/ \E p \in Platforms, x \in ExternalRooms : ApiMap(r, p, x)
       \/ \E g \in Puppets : EnsureRoomAccess(r, g)
  \/ \E id \in DOMAIN rooms : ApiUnmap(id)
  \/ \E membership \in joined : Leave(membership)

Spec == Init /\ [][Next]_vars

-----------------------------------------------------------------------------
(* No message and no edit is forwarded below relay_min_power_level, nothing  *)
(* is forwarded to a platform that the room is not linked to, and nothing is  *)
(* linked or unlinked by less than a moderator: there was a moment, while the *)
(* event was handled, at which its sender had the level, and one at which the *)
(* room had the link, also if lookups fail, or levels, memberships and        *)
(* mappings change in between.  Of reactions and redactions only the link is  *)
(* asked: the code has no level for them.                                     *)
DeedsWarranted == \A d \in deeds :
  /\ d.what = "forward" =>
       /\ d.to \in d.seen
       /\ d.event.kind \in FollowUps \/ d.event.sender \in Puppets
            \/ config.floor <= 0 \/ d.best >= config.floor
  /\ d.what \in {"link", "unlink"} => d.best >= Moderator

(* A text is either a command to the bot or a message: a command is run only *)
(* for an admin, and in a room that was linked to nothing at some moment     *)
(* while the text was handled ("In rooms with no bridge mappings",           *)
(* outbound.rs 34); in a linked room it is a message like any other.         *)
CommandOrMessage == \A d \in deeds :
  /\ d.what \in {"answer", "pass"} =>
       /\ d.bare
       /\ config.admin \union config.relay # {} => \E pattern \in config.admin : d.event.sender \in pattern
  /\ d.what = "forward" => d.event.kind \notin {"link", "unlink"}

(* "No access -- cannot use commands, messages not forwarded"                *)
(* (config.rs:281): whom [admin] and [relay] leave out has no effect, where  *)
(* one of them has an entry.  Broken by the code: the lists are asked about  *)
(* invitations and bot commands only.                                        *)
NobodyHasNoAccess == \A d \in deeds :
  \/ config.admin \union config.relay = {}
  \/ d.event.sender \in Accounts
  \/ \E pattern \in config.admin \union config.relay : d.event.sender \in pattern

(* "!bridge unlink <platform> -- unlink room from platform": the row that is *)
(* deleted links the room in which the command was given.                    *)
UnlinksItsRoom == \A d \in deeds : d.what = "unlink" => d.to = d.event.room
=============================================================================
