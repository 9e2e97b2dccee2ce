------------------------------- MODULE CryptoPool -------------------------------
(***************************************************************************)
(* End-to-bridge encryption (crypto_pool/, crypto_manager/, and the parts  *)
(* of dispatcher/ and server/transaction.rs that call them) for one room:  *)
(* one OlmMachine for the bot and, in per-user mode, one for each puppet,  *)
(* opened when first needed.  Messages to the room are encrypted while     *)
(* transactions bring device-list changes, and every network call can fail.*)
(*                                                                         *)
(* Two locks order this: the pool's RwLock over its map of machines, a     *)
(* fair lock (a reader waits behind a writer that came first), and the     *)
(* `lock` of each CryptoManager.  Who holds which is read off the stages.  *)
(*                                                                         *)
(* The OlmMachine is a library.  Its store keeps the tracked users, those  *)
(* of them whose device list is to be queried again ("dirty"), the devices *)
(* it knows of, those it has Olm sessions with and those it has given the  *)
(* room's key to.  A user's devices are numbered in the order they appear, *)
(* so that each of the last three is one number per user.  The library     *)
(* leaves a user dirty whose list changed after the query was made, and    *)
(* one-time keys never run out.                                            *)
(***************************************************************************)
EXTENDS Naturals, FiniteSets, Sequences

CONSTANTS
  Calls,       \* handler slots
  Puppets,     \* puppet users
  Bot,         \* the bridge bot
  Members,     \* the room's members with devices of their own
  MaxDevices,  \* bound: devices of a member
  Scenarios    \* configurations with their inputs and bounds, one of which is run

ASSUME CryptoAssumption ==
  /\ IsFiniteSet(Calls)
  /\ Bot \notin Puppets
  /\ MaxDevices \in Nat \ {0}
  /\ Scenarios \subseteq
       [perUser: BOOLEAN,                     \* per_user_crypto
        others: BOOLEAN,                      \* has the bot another device?
        files: SUBSET {"none", "link"},       \* what messages carry
        transactions: SUBSET [named: SUBSET Puppets, olmEvents: BOOLEAN,
                              event: {"none", "encryption", "member"}],
        atOnce: Nat, calls: Nat,              \* bounds: handlers at work, and in all
        faults: Nat]                          \* bound: failed calls, hang-ups, restarts,
                                              \* deleted devices

Machines == {Bot} \union Puppets

VARIABLES
  scenario,   \* the configuration, which never changes
  devices,    \* the homeserver: how many devices each member has
  outbox,     \* the homeserver: members whose change is not in a transaction yet
  encrypted,  \* the homeserver: does the room have an m.room.encryption event?
  published,  \* the homeserver: machines the device keys of whose store it took
  deleted,    \* the homeserver: was the bot's device deleted since?
  store,      \* [Machines -> crypto store on disk]
  flagged,    \* the bot's store: the room is encrypted
  up,         \* is the bridge running, with the bot's machine?
  open,       \* the pool's map: puppets with a machine
  call,       \* [Calls -> the handler in that slot]
  queue,      \* those waiting for the pool's lock, in order
  told,       \* history: the newest device each machine was told of
  lapses,     \* history: was the bridge restarted, or a transaction's handler dropped?
  started,    \* how many handlers were started
  faults      \* how many faults there have been

serverVars == <<devices, outbox, encrypted, published, deleted>>
storeVars == <<store, flagged>>
poolVars == <<up, open, queue>>
histVars == <<told, lapses>>
vars == <<scenario, serverVars, storeVars, poolVars, call, histVars, started, faults>>

perUser == scenario.perUser
Count == 0..MaxDevices
Counts == [Members -> Count]
Nothing == [u \in Members |-> 0]
Fresh == [uploaded |-> FALSE, tracked |-> {}, dirty |-> {},
          known |-> Nothing, olm |-> Nothing, shared |-> Nothing]
Store == [uploaded: BOOLEAN, tracked: SUBSET Members, dirty: SUBSET Members,
          known: Counts, olm: Counts, shared: Counts]

\* what may fail when it is asked whether the room is encrypted: the read of the bot's
\* store, the query to the homeserver, the keeping of its answer
Failures == {"read", "query", "keep"}

\* `news`: the device lists that changed, 0 for one that did not; `asked`: those a
\* query is under way for; `since`: whether the room was encrypted, and known to be,
\* when the message came; `failed`: what failed when it asked whether it is now
Job == [phase: {"send", "bot", "named", "broadcast", "event", "flush", "puppets"},
        pc: {"hint", "media", "get", "write", "init", "sign", "lock", "ask", "answer", "claim",
             "share", "seal", "device", "post", "read", "event"},
        who: Machines, news: Counts, asked: Counts, named: SUBSET Puppets, todo: SUBSET Puppets,
        olmEvents: BOOLEAN, event: {"none", "encryption", "member"},
        since: SUBSET {"encrypted", "known"}, enc: BOOLEAN,
        failed: SUBSET Failures, file: {"none", "clear", "sealed", "link"}]
Idle == [pc |-> "idle"]

TypeOK ==
  /\ scenario \in Scenarios
  /\ up \in BOOLEAN /\ encrypted \in BOOLEAN /\ deleted \in BOOLEAN /\ flagged \in BOOLEAN
  /\ devices \in Counts
  /\ outbox \subseteq Members
  /\ published \subseteq Machines
  /\ store \in [Machines -> Store]
  /\ \A m \in Machines : store[m].dirty \subseteq store[m].tracked
  /\ open \subseteq Puppets
  /\ call \in [Calls -> Job \union {Idle}]
  /\ queue \in Seq(Calls)
  /\ told \in [Machines -> Counts]
  /\ lapses \subseteq {"restart", "dropped"}
  /\ started \in 0..scenario.calls
  /\ faults \in 0..scenario.faults

Init ==
  /\ scenario \in Scenarios
  /\ devices = [u \in Members |-> 1]
  /\ outbox = {}
  /\ encrypted = FALSE
  /\ published = {} /\ deleted = FALSE
  /\ store = [m \in Machines |-> Fresh]
  /\ flagged = FALSE
  /\ up = FALSE
  /\ open = {}
  /\ call = [c \in Calls |-> Idle]
  /\ queue = <<>>
  /\ told = [m \in Machines |-> Nothing]
  /\ lapses = {}
  /\ started = 0
  /\ faults = 0

Active == {c \in Calls : call[c] # Idle}
At(c, stage) == call[c].pc = stage
In(c, phases) == c \in Active /\ call[c].phase \in phases
Fault == faults < scenario.faults /\ faults' = faults + 1
NoFault == UNCHANGED faults
Larger(f, g) == [u \in Members |-> IF f[u] >= g[u] THEN f[u] ELSE g[u]]
Named(counts) == {u \in Members : counts[u] # 0}

-----------------------------------------------------------------------------
(* The two kinds of lock.                                                   *)

\* init to the insert: under puppets.write()
WritesPool(c) == c \in Active /\ call[c].pc \in {"init", "sign"}

\* the broadcast and the last flush go through the map under puppets.read()
ReadsPool(c) == In(c, {"broadcast", "puppets"}) /\ ~At(c, "read")

First(c) == queue # <<>> /\ Head(queue) = c
CanRead(c) == First(c) /\ \A d \in Calls : ~WritesPool(d)
CanWrite(c) == First(c) /\ \A d \in Calls : ~WritesPool(d) /\ ~ReadsPool(d)

\* self.lock.write() of encrypt, receive_sync_changes and update_tracked_users; the
\* flushes of process_all_outgoing_requests do without
HoldsMachine(c, m) ==
  /\ In(c, {"send", "bot", "named", "broadcast", "event"})
  /\ call[c].who = m /\ call[c].pc \in {"ask", "answer", "claim", "share", "seal"}

MachineFree(m) == \A c \in Calls : ~HoldsMachine(c, m)

-----------------------------------------------------------------------------
(* How a handler goes on.                                                   *)

\* the bridge runs and starts another handler, the slot being free
Accepts(c) ==
  /\ up /\ c \notin Active /\ Cardinality(Active) < scenario.atOnce
  /\ started < scenario.calls /\ started' = started + 1

Goto(c, stage) == call' = [call EXCEPT ![c].pc = stage]
MachineOf(user) == IF perUser THEN user ELSE Bot

\* it goes on as one of these jobs, and waits if that takes the pool's lock
Continue(c, jobs) == \E job \in jobs :
  /\ call' = [call EXCEPT ![c] = job]
  /\ queue' = IF job.pc \in {"get", "device", "read"} THEN Append(queue, c) ELSE queue

\* the bot's requests, then those of every puppet in the map
Flush(job) == [job EXCEPT !.phase = "flush", !.pc = "ask", !.who = Bot, !.news = Nothing,
                          !.asked = Nothing, !.named = {}, !.olmEvents = FALSE, !.event = "none"]
FlushNext(job) ==
  IF job.todo = {} THEN {Idle}
  ELSE {[job EXCEPT !.pc = "ask", !.who = m, !.todo = @ \ {m}, !.asked = Nothing] : m \in job.todo}

\* the room's events come after the changes
Events(job) ==
  IF job.event = "none" THEN Flush(job)
  ELSE [Flush(job) EXCEPT !.phase = "event", !.pc = "event", !.event = job.event]

\* each puppet with to-device events or key counts; then, if lists changed, every
\* other one in the map
NamedNext(job) ==
  IF job.todo # {}
  THEN {[job EXCEPT !.phase = "named", !.pc = "get", !.who = m, !.todo = @ \ {m},
                    !.asked = Nothing] : m \in job.todo}
  ELSE IF Named(job.news) # {}
  THEN {[job EXCEPT !.phase = "broadcast", !.pc = "read", !.who = Bot, !.asked = Nothing]}
  ELSE {Events(job)}
BroadcastNext(job) ==
  IF job.todo = {} THEN {Events(job)}
  ELSE {[job EXCEPT !.pc = "lock", !.who = m, !.todo = @ \ {m}, !.asked = Nothing] : m \in job.todo}

\* a transaction is done with a machine, or a step on it failed, which is logged; a
\* message fails with the step
MoveOn(job) ==
  CASE job.phase = "send" -> {Idle}
    [] job.phase = "bot" -> IF perUser THEN NamedNext(job) ELSE {Events(job)}
    [] job.phase = "named" -> NamedNext(job)
    [] job.phase = "broadcast" -> BroadcastNext(job)
    [] job.phase = "event" -> {Flush(job)}
    [] job.phase = "flush" -> {Idle}
    [] job.phase = "puppets" -> FlushNext(job)

\* its outgoing requests are done
Flushed(job) ==
  CASE job.phase \in {"send", "event"} -> {[job EXCEPT !.pc = "claim", !.asked = Nothing]}
    [] job.phase = "flush" /\ perUser -> {[job EXCEPT !.phase = "puppets", !.pc = "read",
                                                    !.asked = Nothing]}
    [] OTHER -> MoveOn(job)

Failed(c) == Fault /\ Continue(c, MoveOn(call[c]))

-----------------------------------------------------------------------------
(* A message to the room: dispatch_message_to_matrix and send_to_matrix.     *)

\* whether the room is encrypted, and the bot's store knows, when a message arrives
Since == {fact \in {"encrypted", "known"} : IF fact = "known" THEN flagged ELSE encrypted}

Send(c, sender, file) ==
  /\ Accepts(c)
  /\ Continue(c, {[phase |-> "send", pc |-> "hint", who |-> MachineOf(sender), news |-> Nothing,
             asked |-> Nothing, named |-> {}, todo |-> {}, olmEvents |-> TRUE, event |-> "none",
             since |-> Since, enc |-> FALSE, failed |-> {}, file |-> file]})
  /\ UNCHANGED <<scenario, serverVars, storeVars, up, open, histVars, faults>>

\* it is known, or the homeserver says so, which is kept; one outage fails any of these
Answered(answer, known, failed) ==
  LET there == ~known /\ encrypted /\ "query" \notin failed
  IN  /\ answer = (known \/ there)
      /\ flagged' = (flagged \/ (there /\ "keep" \notin failed))
      /\ known => failed = {}
      /\ "keep" \in failed => there
      /\ IF failed = {} THEN NoFault ELSE Fault

\* (defect) the homeserver is asked although the store knows
IsEncryptedByServer(answer, failed) == Answered(answer, FALSE, failed)

\* is_room_encrypted: the bot's store, a read of which that fails finds nothing; else
\* the homeserver, where a query that fails means no
IsEncrypted(answer, failed) == Answered(answer, flagged /\ "read" \notin failed, failed)

AskHint(c) ==
  /\ At(c, "hint")
  /\ \E enc \in BOOLEAN, failed \in SUBSET Failures :
       /\ IsEncrypted(enc, failed)
       /\ call' = [call EXCEPT ![c].pc = "media", ![c].enc = enc, ![c].failed = failed]
  /\ UNCHANGED <<scenario, serverVars, store, poolVars, histVars, started>>

\* (defect) send_to_matrix asks again whether the room is encrypted
ReuploadAndAsk(c) ==
  /\ At(c, "media")
  /\ LET job == [call[c] EXCEPT !.enc = flagged \/ encrypted]
         made == IF call[c].enc THEN "sealed" ELSE "clear"
         after == [job EXCEPT !.pc = CASE ~job.enc -> "post"
                                       [] job.enc /\ perUser -> "get"
                                       [] OTHER -> "lock"]
     IN  Continue(c, {[after EXCEPT !.file = IF @ = "none" THEN @ ELSE made]})
  /\ UNCHANGED <<scenario, serverVars, storeVars, up, open, histVars, started, faults>>

\* reupload_external_media; a file that cannot be fetched or uploaded stays a link.
\* Then get_room_members, which can fail, for an event to be encrypted
Reupload(c) ==
  /\ At(c, "media")
  /\ LET job == call[c]
         after == [job EXCEPT !.pc = CASE ~job.enc -> "post"
                                       [] job.enc /\ perUser -> "get"
                                       [] OTHER -> "lock"]
         made == IF job.enc THEN "sealed" ELSE "clear"
     IN  \/ Continue(c, {[after EXCEPT !.file = IF @ = "none" THEN @ ELSE made]}) /\ NoFault
         \/ job.file = "link" /\ Continue(c, {after}) /\ Fault
         \/ job.enc /\ Failed(c)
  /\ UNCHANGED <<scenario, serverVars, storeVars, up, open, histVars, started>>

-----------------------------------------------------------------------------
(* get_or_init and get.                                                     *)

\* the fast path; a puppet named only for its key counts is not opened for them
Get(c) ==
  /\ At(c, "get") /\ CanRead(c)
  /\ \/ /\ call[c].who \in open
        /\ Goto(c, "lock") /\ queue' = Tail(queue)
     \/ /\ call[c].who \notin open /\ call[c].olmEvents
        /\ Goto(c, "write") /\ queue' = Append(Tail(queue), c)
     \/ /\ call[c].who \notin open /\ ~call[c].olmEvents
        /\ \E job \in MoveOn(call[c]) :
             /\ call' = [call EXCEPT ![c] = job]
             /\ queue' = IF job.pc \in {"get", "read"} THEN Append(Tail(queue), c) ELSE Tail(queue)
  /\ UNCHANGED <<scenario, serverVars, storeVars, up, open, histVars, started, faults>>

\* (defect) no second look under the write lock
LookOnce(c) ==
  /\ At(c, "write") /\ CanWrite(c)
  /\ queue' = Tail(queue)
  /\ Goto(c, "init")
  /\ UNCHANGED <<scenario, serverVars, storeVars, up, open, histVars, started, faults>>

\* the second look
LookAgain(c) ==
  /\ At(c, "write") /\ CanWrite(c)
  /\ queue' = Tail(queue)
  /\ Goto(c, IF call[c].who \in open THEN "lock" ELSE "init")
  /\ UNCHANGED <<scenario, serverVars, storeVars, up, open, histVars, started, faults>>

\* OlmMachine::with_store and the first process_outgoing_requests: keys that were
\* never uploaded, and a query for whoever is dirty
Opened(s) == [s EXCEPT !.uploaded = TRUE, !.dirty = {},
                       !.known = [u \in Members |-> IF u \in s.dirty THEN devices[u] ELSE @[u]]]
Upload(m) == IF store[m].uploaded THEN published ELSE published \union {m}

\* (defect) a failure to upload the puppet's keys is only logged
InitAnyway(c) ==
  /\ At(c, "init")
  /\ \/ /\ store' = [store EXCEPT ![call[c].who] = Opened(@)]
        /\ published' = Upload(call[c].who)
        /\ NoFault
     \/ Fault /\ UNCHANGED <<store, published>>
  /\ Goto(c, "sign")
  /\ UNCHANGED <<scenario, devices, outbox, encrypted, deleted, flagged, poolVars, histVars, started>>

\* register_puppet_with_device and new_for_puppet; a failure may come after the
\* keys were uploaded
InitPuppet(c) ==
  /\ At(c, "init")
  /\ \/ /\ store' = [store EXCEPT ![call[c].who] = Opened(@)]
        /\ published' = Upload(call[c].who)
        /\ Goto(c, "sign") /\ UNCHANGED queue
        /\ NoFault
     \/ /\ \/ UNCHANGED <<store, published>>
           \/ store' = [store EXCEPT ![call[c].who].uploaded = TRUE] /\ published' = Upload(call[c].who)
        /\ Failed(c)
  /\ UNCHANGED <<scenario, devices, outbox, encrypted, deleted, flagged, up, open, histVars, started>>

\* bootstrap_cross_signing, whose failure is not fatal, and the insert
Insert(c) ==
  /\ At(c, "sign")
  /\ open' = open \union {call[c].who}
  /\ Goto(c, "lock")
  /\ UNCHANGED <<scenario, serverVars, storeVars, up, queue, histVars, started, faults>>

-----------------------------------------------------------------------------
(* What is done under a machine's lock.                                     *)

\* update_tracked_users: new ones are to be queried
Track(c) ==
  /\ At(c, "lock") /\ In(c, {"send", "event"}) /\ MachineFree(call[c].who)
  /\ store' = [store EXCEPT ![call[c].who].tracked = Members,
                            ![call[c].who].dirty = @ \union (Members \ store[call[c].who].tracked)]
  /\ Goto(c, "ask")
  /\ UNCHANGED <<scenario, serverVars, flagged, poolVars, histVars, started, faults>>

\* (defect) receive_sync_changes does not take the machine's lock
ReceiveUnlocked(c) ==
  /\ At(c, "lock") /\ In(c, {"bot", "named", "broadcast"})
  /\ LET m == call[c].who
         news == call[c].news
     IN  /\ store' = [store EXCEPT ![m].dirty = @ \union (Named(news) \intersect store[m].tracked)]
         /\ told' = [told EXCEPT ![m] = Larger(@, news)]
         /\ Goto(c, "ask")
  /\ UNCHANGED <<scenario, serverVars, flagged, poolVars, lapses, started, faults>>

\* OlmMachine::receive_sync_changes: a tracked user whose list changed is dirty, and
\* stays so whatever a query under way answers
Receive(c) ==
  /\ At(c, "lock") /\ In(c, {"bot", "named", "broadcast"}) /\ MachineFree(call[c].who)
  /\ LET m == call[c].who
         news == call[c].news
     IN  /\ store' = [store EXCEPT ![m].dirty = @ \union (Named(news) \intersect store[m].tracked)]
         /\ told' = [told EXCEPT ![m] = Larger(@, news)]
         /\ call' = [d \in Calls |->
              IF d = c THEN [call[c] EXCEPT !.pc = "ask"]
              ELSE IF d \in Active /\ call[d].who = m
              THEN [call[d] EXCEPT !.asked = [u \in Members |-> IF news[u] = 0 THEN @[u] ELSE 0]]
              ELSE call[d]]
  /\ UNCHANGED <<scenario, serverVars, flagged, poolVars, lapses, started, faults>>

\* outgoing_requests: a keys query for whoever is dirty, answered by the homeserver
Ask(c) ==
  /\ At(c, "ask")
  /\ LET dirty == store[call[c].who].dirty
     IN  \/ dirty = {} /\ Continue(c, Flushed(call[c]))
         \/ /\ dirty # {}
            /\ Continue(c, {[call[c] EXCEPT !.pc = "answer",
                             !.asked = [u \in Members |-> IF u \in dirty THEN devices[u] ELSE 0]]})
  /\ UNCHANGED <<scenario, serverVars, storeVars, up, open, histVars, started, faults>>

\* (defect) the query is not made again when its call fails
MarkAnyway(c) ==
  /\ At(c, "answer")
  /\ LET asked == call[c].asked
     IN  \/ /\ store' = [store EXCEPT ![call[c].who].known = Larger(@, asked),
                                      ![call[c].who].dirty = @ \ Named(asked)]
            /\ Continue(c, Flushed(call[c]))
            /\ NoFault
         \/ /\ Fault
            /\ store' = [store EXCEPT ![call[c].who].dirty = @ \ Named(asked)]
            /\ Continue(c, MoveOn(call[c]))
  /\ UNCHANGED <<scenario, serverVars, flagged, up, open, histVars, started>>

\* mark_request_as_sent with the answer; or the call failed
Answer(c) ==
  /\ At(c, "answer")
  /\ LET asked == call[c].asked
     IN  \/ /\ store' = [store EXCEPT ![call[c].who].known = Larger(@, asked),
                                      ![call[c].who].dirty = @ \ Named(asked)]
            /\ Continue(c, Flushed(call[c]))
            /\ NoFault
         \/ Failed(c) /\ UNCHANGED store
  /\ UNCHANGED <<scenario, serverVars, flagged, up, open, histVars, started>>

\* claim_missing_sessions
Claim(c) ==
  /\ At(c, "claim")
  /\ \/ /\ store' = [store EXCEPT ![call[c].who].olm = store[call[c].who].known]
        /\ IF call[c].phase = "send" THEN Goto(c, "share") /\ UNCHANGED queue
                                     ELSE Continue(c, MoveOn(call[c]))
        /\ NoFault
     \/ Failed(c) /\ UNCHANGED store
  /\ UNCHANGED <<scenario, serverVars, flagged, up, open, histVars, started>>

\* share_room_key, and each request sent and marked
Share(c) ==
  /\ At(c, "share")
  /\ store' = [store EXCEPT ![call[c].who].shared = store[call[c].who].olm]
  /\ Goto(c, "seal")
  /\ UNCHANGED <<scenario, serverVars, flagged, poolVars, histVars, started, faults>>

\* (defect) the device is looked up before the machine's lock is released
SealAndLook(c) ==
  /\ At(c, "seal")
  /\ IF ~perUser THEN Goto(c, "post") /\ UNCHANGED queue
     ELSE IF c \in {queue[i] : i \in DOMAIN queue}
     THEN CanRead(c) /\ queue' = Tail(queue) /\ Goto(c, "post")
     ELSE queue' = Append(queue, c) /\ UNCHANGED call
  /\ UNCHANGED <<scenario, serverVars, storeVars, up, open, histVars, started, faults>>

\* encrypt_room_event_raw, and the lock is released
Seal(c) ==
  /\ At(c, "seal")
  /\ Continue(c, {[call[c] EXCEPT !.pc = IF perUser THEN "device" ELSE "post"]})
  /\ UNCHANGED <<scenario, serverVars, storeVars, up, open, histVars, started, faults>>

\* device_id_for_user
LookUpDevice(c) ==
  /\ At(c, "device") /\ CanRead(c)
  /\ queue' = Tail(queue)
  /\ Goto(c, "post")
  /\ UNCHANGED <<scenario, serverVars, storeVars, up, open, histVars, started, faults>>

\* the PUT of send_message or send_encrypted_message
Post(c) ==
  /\ At(c, "post")
  /\ Continue(c, {Idle})
  /\ UNCHANGED <<scenario, serverVars, storeVars, up, open, histVars, started, faults>>

-----------------------------------------------------------------------------
(* A transaction: handle_transaction and the pool's receive_sync_changes.    *)

\* the homeserver puts every change so far into it
Deliver(c, txn) ==
  /\ Accepts(c)
  /\ txn.event # "none" => encrypted
  /\ outbox' = {}
  /\ Continue(c, {[phase |-> "bot", pc |-> "lock", who |-> Bot,
             news |-> [u \in Members |-> IF u \in outbox THEN devices[u] ELSE 0],
             asked |-> Nothing, named |-> txn.named, todo |-> txn.named,
             olmEvents |-> txn.olmEvents, event |-> txn.event, since |-> {}, enc |-> FALSE,
             failed |-> {}, file |-> "none"]})
  /\ UNCHANGED <<scenario, devices, encrypted, published, deleted, storeVars, up, open, histVars,
                 faults>>

\* (defect) the broadcast leaves out the machines of other puppets
ReadNone(c) ==
  /\ At(c, "read") /\ CanRead(c)
  /\ \E job \in (IF In(c, {"puppets"}) THEN FlushNext([call[c] EXCEPT !.todo = open])
                ELSE {Events(call[c])}) :
       call' = [call EXCEPT ![c] = job]
  /\ queue' = Tail(queue)
  /\ UNCHANGED <<scenario, serverVars, storeVars, up, open, histVars, started, faults>>

\* puppets.read() before the broadcast and before the last flush
ReadMap(c) ==
  /\ At(c, "read") /\ CanRead(c)
  /\ \E job \in (IF In(c, {"puppets"}) THEN FlushNext([call[c] EXCEPT !.todo = open])
                ELSE BroadcastNext([call[c] EXCEPT !.todo = open \ call[c].named])) :
       call' = [call EXCEPT ![c] = job]
  /\ queue' = Tail(queue)
  /\ UNCHANGED <<scenario, serverVars, storeVars, up, open, histVars, started, faults>>

\* m.room.encryption (and an encrypted event) marks the room, or fails to, and tracks
\* its members; a join or an invite tracks when the room is encrypted
HandleEvent(c) ==
  /\ At(c, "event")
  /\ \/ /\ call[c].event = "encryption"
        /\ \/ flagged' = TRUE /\ Goto(c, "lock") /\ UNCHANGED queue /\ NoFault
           \/ /\ flagged' \in {flagged, TRUE} /\ Fault
              /\ \/ Goto(c, "lock") /\ UNCHANGED queue
                 \/ Continue(c, MoveOn(call[c]))
     \/ /\ call[c].event = "member"
        /\ \E enc \in BOOLEAN, failed \in SUBSET Failures :
             /\ IsEncrypted(enc, failed)
             /\ Continue(c, IF enc THEN {[call[c] EXCEPT !.pc = "lock"]} ELSE MoveOn(call[c]))
  /\ UNCHANGED <<scenario, serverVars, store, up, open, histVars, started>>

-----------------------------------------------------------------------------
(* The bridge starts and stops.                                             *)

\* CryptoManager::new uploads keys that never were, and asks for the bot's devices on
\* the homeserver: none there, and the directory is removed, which holds the puppets'
\* stores too; another device will do for its own.  The new keys may fail to reach
\* the homeserver, and the bridge does not start
StartBridge ==
  /\ ~up
  /\ LET gone == deleted /\ store[Bot].uploaded
     IN  \/ /\ ~gone \/ scenario.others
            /\ store' = [store EXCEPT ![Bot] = Opened(@)]
            /\ published' = Upload(Bot)
            /\ deleted' = gone
            /\ up' = TRUE
            /\ NoFault
            /\ UNCHANGED <<flagged, told>>
         \/ /\ gone /\ ~scenario.others
            /\ flagged' = FALSE
            /\ told' = [m \in Machines |-> Nothing]
            /\ \/ /\ store' = [m \in Machines |-> IF m = Bot THEN Opened(Fresh) ELSE Fresh]
                  /\ published' = {Bot}
                  /\ deleted' = FALSE
                  /\ up' = TRUE
                  /\ NoFault
               \/ /\ store' = [m \in Machines |-> Fresh]
                  /\ published' = {}
                  /\ Fault
                  /\ UNCHANGED <<deleted, up>>
  /\ UNCHANGED <<scenario, devices, outbox, encrypted, open, queue, call, lapses, started>>

Stop ==
  /\ up /\ Fault
  /\ up' = FALSE
  /\ open' = {}
  /\ queue' = <<>>
  /\ call' = [c \in Calls |-> Idle]
  /\ lapses' = lapses \union {"restart"} \union
       (IF \E c \in Active : ~In(c, {"send"}) THEN {"dropped"} ELSE {})
  /\ UNCHANGED <<scenario, serverVars, storeVars, told, started>>

\* the client hangs up, or a call that has no effect fails: the handler is gone
Drop(c) ==
  /\ c \in Active /\ Fault
  /\ call' = [call EXCEPT ![c] = Idle]
  /\ \/ c \notin {queue[i] : i \in DOMAIN queue} /\ UNCHANGED queue
     \/ \E i \in DOMAIN queue :
          queue[i] = c /\ queue' = SubSeq(queue, 1, i - 1) \o SubSeq(queue, i + 1, Len(queue))
  /\ lapses' = IF In(c, {"send"}) THEN lapses ELSE lapses \union {"dropped"}
  /\ UNCHANGED <<scenario, serverVars, storeVars, up, open, told, started>>

-----------------------------------------------------------------------------
(* The homeserver.                                                          *)

\* a member logs in on another device
NewDevice(u) ==
  /\ devices[u] < MaxDevices
  /\ devices' = [devices EXCEPT ![u] = @ + 1]
  /\ outbox' = outbox \union {u}
  /\ UNCHANGED <<scenario, encrypted, published, deleted, storeVars, poolVars, call, histVars,
                 started, faults>>

EncryptRoom ==
  /\ ~encrypted /\ encrypted' = TRUE
  /\ UNCHANGED <<scenario, devices, outbox, published, deleted, storeVars, poolVars, call, histVars,
                 started, faults>>

\* the bot's device is deleted while the bridge is down; nothing looks for a puppet's
DeleteBotDevice ==
  /\ ~up /\ Bot \in published /\ ~deleted /\ Fault
  /\ deleted' = TRUE
  /\ UNCHANGED <<scenario, devices, outbox, encrypted, published, storeVars, poolVars, call, histVars,
                 started>>

-----------------------------------------------------------------------------
Handle(c) ==
  \/ AskHint(c) \/ Reupload(c) \/ Get(c) \/ LookAgain(c) \/ InitPuppet(c) \/ Insert(c)
  \/ Track(c) \/ Receive(c) \/ Ask(c) \/ Answer(c) \/ Claim(c) \/ Share(c) \/ Seal(c)
  \/ LookUpDevice(c) \/ Post(c) \/ ReadMap(c) \/ HandleEvent(c)

Arrive(c) ==
  \/ \E sender \in Puppets, file \in scenario.files : Send(c, sender, file)
  \/ \E txn \in scenario.transactions : Deliver(c, txn)

Next ==
  \/ \E c \in Calls : Handle(c) \/ Arrive(c) \/ Drop(c)
  \/ \E u \in Members : NewDevice(u)
  \/ EncryptRoom \/ StartBridge \/ Stop \/ DeleteBotDevice

Spec == Init /\ [][Next]_vars

-----------------------------------------------------------------------------
(* "Serializes sync-level operations [...] against encrypt-level operations  *)
(* [...] to prevent races" (crypto_manager/mod.rs 50): when an event is      *)
(* sealed, every device its machine was told of has the room's key, whatever *)
(* other transactions, messages and failed calls came between the steps.     *)
SealedForTold == \A c \in Calls : At(c, "seal") =>
  \A u \in Members : store[call[c].who].shared[u] >= told[call[c].who][u]

(* "Broadcasts device list changes to all initialized CryptoManagers"        *)
(* (pool_ops.rs 27): what a machine in use knows of a tracked user is        *)
(* current, or it is to query again, or the news are on their way, although  *)
(* puppets come into the map while transactions go through it.               *)
NoMachineMissed == up /\ lapses = {} =>
  \A m \in open \union {Bot} : \A u \in store[m].tracked :
    \/ store[m].known[u] = devices[u]
    \/ u \in store[m].dirty \union outbox
    \/ \E c \in Active : call[c].news[u] # 0

(* A crypto store is never opened a second time while a machine works on it, *)
(* nor by two handlers at once (crypto_pool/mod.rs 109).                     *)
OneMachine == \A c, d \in Calls :
  WritesPool(c) => call[c].who \notin open /\ (WritesPool(d) => c = d)

(* "After initialization, verifies that device keys are present on the       *)
(* homeserver" (crypto_manager/mod.rs 61).  The code asks only whether the    *)
(* bot has a device there (keys.rs 19): with another one it runs on without   *)
(* its own keys.  Broken by the code.                                         *)
BotKeysVerified == up => ~deleted

(* The homeserver was given the keys of the store of every machine in use,   *)
(* although uploads fail and a rebuild throws away the stores of all of them *)
(* (crypto_manager/mod.rs 91, crypto_pool/mod.rs 121).  Whether it still has *)
(* a puppet's nobody looks.                                                  *)
Published == (up => Bot \in published) /\ open \subseteq published

(* "avoids TOCTOU races between attachment encryption and event encryption"  *)
(* (crypto_helpers.rs 133): a file the bridge uploads is encrypted if and    *)
(* only if its event is, also when the room becomes encrypted in between.    *)
(* One that is on Matrix already (mxc://) stays a link as it came.           *)
AttachmentMatchesEvent == \A c \in Active :
  call[c].file \in {"clear", "sealed"} => (call[c].file = "sealed") = call[c].enc

(* A message to an encrypted room is sent in clear only if its own question  *)
(* to the homeserver failed; and if the bridge knew of it when the message   *)
(* came, only if the read of the bot's store failed as well (encrypt.rs 109, *)
(* 123, which take both failures for a no).                                  *)
EncryptedOnceKnown == \A c \in Calls : In(c, {"send"}) /\ ~At(c, "hint") =>
  /\ "encrypted" \in call[c].since => call[c].enc \/ "query" \in call[c].failed
  /\ "known" \in call[c].since => call[c].enc \/ "read" \in call[c].failed

\* it waits for a lock that it cannot have now
Blocked(c) ==
  \/ c \in {queue[i] : i \in DOMAIN queue} /\ (IF At(c, "write") THEN ~CanWrite(c) ELSE ~CanRead(c))
  \/ At(c, "lock") /\ ~MachineFree(call[c].who)

(* The locks of the pool and of the machines, the pool's held over network   *)
(* calls that take a machine's, never make handlers wait for one another:    *)
(* one of those at work can always go on.                                    *)
SomeHandlerRuns == Active = {} \/ \E c \in Active : ~Blocked(c)
=============================================================================
