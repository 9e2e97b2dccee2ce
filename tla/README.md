# A verification project for matrix-bridge

matrix-bridge is a Matrix application service written in Rust. It relays
messages between Matrix rooms and external platforms: a platform's own client
program speaks a REST API, webhooks and WebSockets to the bridge, and the
bridge speaks the application-service protocol to a Matrix homeserver. This
directory holds TLA+ modules that model the bridge's core, the TLC
configurations that check them on small instances, and proofs, checked with
TLAPS, of theorems that hold for every value of the constants.

Contents: [1 The system](#1-the-system), [2 The modules](#2-the-modules),
[3 The runs](#3-the-runs), [4 Fairness](#4-fairness), [5 The proofs](#5-the-proofs),
[6 Where the code and its documents differ](#6-where-the-code-and-its-documents-differ),
[7 What is not modelled](#7-what-is-not-modelled), [8 What could come next](#8-what-could-come-next).

## 1 The system

`appservice`, `store` and `core` are the crates under `crates/`; other paths of
the table are below `crates/appservice/src/`, and paths in the text are
shortened where they are unambiguous.

| component | code | state | operations |
|---|---|---|---|
| room and message mappings | `store/src/room_mapping.rs`, `message_mapping.rs`, `migrations/` | tables `room_mappings` (unique on both sides) and `message_mappings` (unique on both sides, foreign key with cascade) behind one SQLite connection | `create_room_mapping` (upsert with five arms), `delete_room_mapping`, `create_message_mapping`, lookups, listings |
| external → Matrix dispatch, room provisioning | `dispatcher/platform_events.rs`, `bridge_api/room_handlers.rs` | `room_membership` cache; what the homeserver holds | `handle_incoming_http`, `handle_create_room_mapping`, `ensure_room_access` |
| Matrix → external dispatch | `dispatcher/matrix_events.rs`, `outbound.rs`, `commands.rs` | none of its own; reads mappings, writes message mappings | message, edit, reaction, redaction, membership, command |
| transaction endpoint | `server/transaction.rs` | `processed_txns`, at most 10 000 ids, oldest evicted first | `handle_transaction` |
| WebSocket registry and sessions | `ws/` | DashMap of clients by platform, atomic client counter, one bounded channel per client | register, unregister, broadcast |
| webhooks | `store/src/webhook_store.rs`, `bridge_api/webhook_handlers.rs` | table `webhooks` | register, list, delete, delivery |
| puppets | `puppet_manager.rs`, `store/src/puppet_store.rs` | profile cache, table of puppets, the homeserver's profiles | `ensure_puppet`, `ensure_puppet_direct` |
| platform spaces | `dispatcher/mod.rs`, `store/src/space_store.rs` | table of spaces, `spaces_unsupported` flag | `ensure_platform_space` |
| crypto pool | `crypto_pool/`, `crypto_manager/`, `dispatcher/crypto_helpers.rs` | a map of Olm machines behind a `RwLock`, opened lazily, each with a lock and a store of its own | encrypt, decrypt, sync changes, flush |
| permissions and bot commands | `dispatcher/bot_commands.rs`, `commands.rs`, `matrix_events.rs`, `core/src/config.rs` | configuration; the homeserver's power levels | invite and relay rules, `!bridge …`, `!<bot> …` |
| media, content conversion, identifiers, Matrix client, listings, authentication, startup, queries | see `PROJECT.json` | none | I/O and stateless conversions |

**How they interact.** The homeserver pushes transactions one at a time to
`handle_transaction`, which remembers the id, then dispatches the events in
order. An event from a linked room goes to every platform the room is linked
to: over the WebSocket registry, to the platform's webhook, and then into
`message_mappings`. A platform's client posts a message to the REST API; the
dispatcher finds or creates the portal room, gets a puppet into it, sends the
event as the puppet, and records it. The homeserver later pushes that event
back, and the outbound path must not return it to where it came from. All
handlers share the database and the dispatcher; the dispatcher sits behind a
`RwLock` that is only read-locked after startup, so any two handlers
interleave at every `await`.

**What is hard.** Interleavings between handlers that hold row ids, room ids
or answers read before an await; a connection that breaks at any await, which
makes axum drop the handler there; a process that dies between two of its
effects; a homeserver call whose effect took place and whose answer is lost;
clients and the homeserver retrying; a map guard, a counter and a channel that
change at different moments. The hazards, each at its line, are listed under
`hazards` in `PROJECT.json`, with the properties that cover them.

**What makes the components correct.** The mappings: an upsert yields the link
it was asked for, although its lookups may fail, and loses no message of a
merged room; a message belongs to its own platform's room. Inbound: an
acknowledged message was sent and is on record, a retry does not resend what is
on record, cleanups and caches hurt no other request. Outbound: no echo, no
second copy within one life of the process, the homeserver's order, and a queue
that always drains. Registry: the client limit, a counter that is never too
small, filtered and ordered delivery, and no client that holds anybody up.
Puppets: a profile that a failure left half-done is repaired when the request is
repeated, across restarts. Crypto: an event is sealed for every device its
machine was told of, news of devices reach every machine in use, stores are
opened once, a file is encrypted when its event is, clear text goes to an
encrypted room only after failures of its own. Directory: a listing is complete,
an id names one webhook for ever, a room comes into a space of each platform it
is set up for. Access: nothing is done that neither the room's links nor, where
the code asks for one, its sender's power level warranted at any moment while
the event was handled.

## 2 The modules

```
LinkTable          what the mappings promise
  ^ implements
MappingHandlers    handlers that use the store, with stale ids
  |
MappingStore  <--- InboundDelivery   external -> Matrix
              <--- OutboundDelivery  Matrix -> external
              <--- Access            commands, power levels, reactions, invitations
WsRegistry         WebSocket sessions, counter, broadcasts
PuppetProfiles     a puppet's profile, cache guard and workers
CryptoPool         Olm machines, their locks, encryption, sync changes
PlatformDirectory  webhooks and their listing, platform spaces
MappingProofs, InboundProofs, OutboundProofs, AccessProofs, WsProofs,
PuppetProofs, CryptoProofs, DirectoryProofs
                   theorems
MCMappingHandlers, MCInbound, MCOutbound, MCWsRegistry, MCPuppet, MCCrypto,
MCDirectory, MCAccess
                   instances for TLC
```

**MappingStore** is the store: `rooms` (row id to row), `msgs`, the
`AUTOINCREMENT` sequence `roomSeq`, and `reply`, what the last call returned.
`CreateRoomMapping` is `create_room_mapping` with its five arms; one arm, the
merge, runs three statements in the code's order (migrate the messages, delete
the other row, update), each an operator on an open transaction (`Execute`),
and a statement that breaks a constraint rolls everything back. The two
lookups at its start swallow errors (`.ok()`), so each may return nothing
although there is a row; such a call is marked `fault`. A call is one step:
every method of the store holds the one connection's mutex from beginning to
end. `DeleteRoomMapping` cascades to the messages. `RecordMessage` is the
`INSERT` of `create_message_mapping`, enabled when its constraints hold
(`CanRecord`).

**MappingHandlers** runs the store as the REST API and the `!bridge` commands
do: link, unlink, and handlers that read a row's id, keep it over awaits
(`held`), and use it after others have merged, repointed or deleted the row.

**LinkTable** is the abstract specification: a set of links and, filed under a
link, the bridged messages; no row ids, no arms. A new link replaces the links
either room had on the platform and takes over their messages; unlinking
forgets the messages of the link.

**InboundDelivery** is `handle_incoming_http` and `handle_create_room_mapping`
(without a given Matrix room), one action per stretch between two awaits,
named for the call: look up the room, create it, map it (or leave it when that
failed), ensure the puppet, let bot and puppet join, look for a duplicate,
send, record, answer. `joined`, `created` and `sent` are the homeserver's
state, `membership` is the `room_membership` cache. The environment drops
requests, crashes the process, fails calls before or after their effect, loses
answers, kicks the puppet and unlinks rooms, all paid from one budget
(`MaxFaults`). Clients retry what was not acknowledged. `answered`, `kicked`
and the field `known` of a request are history. An external id is a model value
that both entry points use alike (section 7).

**OutboundDelivery** is `handle_transaction` with the dispatch of messages,
edits, reactions and redactions. The homeserver's script is a constant. A
handler's state is the event it is at, the rows it has still to visit, as read
when it began the event, and the row it delivers to. Posts to webhooks are
tasks of their own, which outlive a handler whose connection broke; the
handler waits for them before it writes the row. `Break` lets the connection
go, with the handler dropped or, when the break is unnoticed, running on.
`Crash` keeps only the database. `RecordInbound` is the other direction's row
for a puppet's event, which may come before or after the event itself.

**WsRegistry** is the registry with its sessions and broadcasts. DashMap guards
are held by control states (`MayRead`, `MayWrite`): a broadcast holds the read
guard over phase 1, `retain` and the `fetch_sub` after it are under one write
guard, and the removal of an empty entry happens after the guard is dropped, as
in the code. A session's outbound task may end at any time; what it had queued
is lost with its receiver.

**PuppetProfiles** is `ensure_puppet_direct` for one puppet: look into the
cache, else into the table, register, set the name, set the avatar, write the
row, insert into the cache. `upsert_puppet` is an `INSERT` and a `SELECT`, so
`Upsert` may fail with the row as it was or with the row written, and in both
cases before the cache is. `base` is the profile a call compares with. A cache
hit holds the guard of the entry up to `drop(entry)` (`HoldsEntry`); `Insert`
waits for that guard and meanwhile occupies a worker thread, which all other
steps need (`WorkerFree`). A refused profile update is only logged, as in the
code; a failed one may have taken effect.

**CryptoPool** is one room with its machines, the bot's and, in per-user mode,
one for each puppet. A handler is a record in `call`: a `phase`, the part of
the program it is in (a message to send; of a transaction the bot's changes,
the named puppets', the broadcast, the room's event, the flush of the bot's and
of the puppets' requests), and a stage `pc`, the call it is at. Messages go
through `AskHint` (is the room encrypted?), `Reupload` (its file), `get_or_init`
(`Get`, `LookAgain`, `InitPuppet`, `Insert`), the machine under its lock
(`Track`, `Ask`, `Answer`, `Claim`, `Share`, `Seal`), `LookUpDevice` and
`Post`. `queue` is the pool's fair `RwLock`; who holds it, and who holds a
machine, is read off the stages (`WritesPool`, `ReadsPool`, `HoldsMachine`). A
machine's store counts, for each member, the devices it knows, has sessions
with and has shared the room's key with; `told` is history: the newest device
the machine was told of. The library's part is in the module's head. The
homeserver puts every device change so far into the next transaction
(`Deliver`). Every network call fails at will (`Failed`), clients hang up
(`Drop`), and the bridge stops and starts. Whether the room is encrypted is three
calls, any of which may fail (`Failures`): the read of the bot's store, whose
error finds nothing; the query, whose error means no; the write that keeps the
answer. A job remembers which of them failed for it (`failed`), and whether the
room was encrypted, and known to be, when it came (`since`). While the bridge is
stopped somebody may delete the bot's device (`deleted`). Starting rebuilds the
bot's store only when the homeserver has no device of the bot at all
(`StartBridge`): another one (`others`) will do, as `keys.rs:19-22` has it. A
rebuild removes the puppets' stores in the same directory and may fail half-way.
A puppet's machine uploads keys its store does not say it uploaded, and nobody
asks whether the homeserver still has them.

**PlatformDirectory** holds what is kept per platform. Webhooks are created,
updated (`ON CONFLICT`) and deleted while a client reads them page by page
(`StartWalk`, `NextPage`); `walk.must` is history: the rows that were there from
the start and are still there. Rooms are set up by handlers: for a first
message one collects the owners to invite and creates the room; for a call of the
API (`MapRoom`) it takes a new room or one that the caller names, which may be
mapped to other platforms already (`rooms[r].platforms`). Then
`ensure_platform_space` runs: the
in-memory flag, the row, the homeserver's space, the row again (a second
handler may overwrite it), the child. A refusal that looks like "spaces
unsupported" sets the flag until the restart.

**Access** is what becomes of a Matrix text, an edit, a reaction, a redaction or
an invitation. A worker goes from stage to stage, each a wait for the store or the
homeserver, while power levels (of either sign) change and the REST API links and
unlinks rooms. Messages and edits pass the check of `relay_min_power_level`;
reactions and redactions go from the rows of their target (`FindTargets`) to its
platforms, as far as the room is still linked (`Follow`), with no level asked for.
The bot is in a room because it accepted an invitation (`Join`) or because a
platform's message came to a room that was linked over the API
(`EnsureRoomAccess`), which takes no invitation and no moderator; accounts leave
or are removed (`Leave`). In a room the bot is not in, a power level may be
refused, and counts as 0. The history of a worker is what was true at some moment
since the event came: the platforms its room was linked to (`seen`), whether it
was linked to none (`bare`), its sender's highest level (`best`). `deeds` records
what was done, with that history.

Which definition stands for which lines is in `PROJECT.json` under `map`.
Definitions whose comment begins with `(defect)` or `Mutant:` are not part of
any specification: each is a plausible bug put beside the definition it would
replace, and each property is known to fail under one of them.

## 3 The runs

| run | shows | states |
|---|---|---|
| `mapping_store` | the upsert's outcome, messages on their platform, and the refinement of `LinkTable`, with stale ids and failing statements | 28 thousand |
| `inbound_safety` | `AckedOnRecord`, `NoResend`, `PuppetInRoom`, `BotInMappedRooms` with two concurrent requests and any two faults | 1.2 million |
| `inbound_retry` | `EventuallyAcked`: a message that its client keeps sending is acknowledged, unless its puppet was kicked | 100 thousand |
| `ws_registry` | the counter and the limit, what clients receive and in which order, that broadcasts return and that dead clients leave the registry | 265 thousand |
| `outbound_delivery` | no echo, one copy per life, follow-ups after their target, order, and that the queue drains, with one each of: failure, broken connection, restart, unlink | 730 thousand |
| `puppet_profiles` | `RetryRepairs` and `CacheIsRow` with two concurrent calls and two faults, before or after their effect | 132 thousand |
| `crypto_pool` | room keys for every device told of, no machine missed by a broadcast, one machine per store, uploaded keys, files that match their events, when a message may go out in clear, and that handlers never wait for one another in a circle | 2.2 million |
| `directory` | complete listings, ids that name one webhook, rooms in a space of each of their platforms, spaces that are reused | 1.0 million |
| `access` | deeds that links and power levels warranted, commands or messages but not both | 2.6 million |
| `outbound_dropped`, `puppet_deadlock`, `access_unlink` | counterexamples, see section 6 | |

**Bounds, and why they are enough.**

- `mapping_store`: two Matrix rooms, two platforms, two external rooms. The
  upsert's arms depend on at most two rows of one platform; the second platform
  shows that rows of other platforms are left alone. `MaxRoomId = 3` lets a row
  be deleted and a new one be inserted while an old id is still held. Two
  messages meet in either unique key. One event suffices for the first; the
  proofs of section 5 remove all these bounds.
- `inbound_*`: one platform, one external room and one message make every
  request compete for the same rows. Two slots give every pair of requests,
  three or more requests one after another by reuse. `MaxFaults = 2` allows a
  loss and a crash, or two losses, around a retry; the liveness run has one
  fault, each of any kind, kicks included. There are as many rooms and events as
  two slots and the faults were seen to use up; `CreateRoom` and `Send` wait when
  none is left, which no property rewards.
- `ws_registry`: two sessions race for one seat (`MaxClients = 1`), so that a
  reservation is rolled back while the other session dies; two broadcasters
  prune while sessions unregister, with two sources to filter. A session is
  registered once (a client that reconnects is a new session). `Capacity = 1`
  makes channels overflow. A second platform would share only the counter, whose
  increments are outside the map's guard here too; `WsProofs` has any number of
  platforms.
- `outbound_delivery`: two platforms in every row order. The script is a
  person's message, a puppet's answer, and, in a second transaction, a reaction
  to the answer, which needs a row the other direction writes. `MaxProcessed = 1`
  is the smallest memory that still evicts; the homeserver repeats only the
  transaction it is at, so a larger memory remembers more of what is never asked.
- `puppet_profiles`: two calls at once; senders with a full profile, with none,
  and with an avatar that is rejected; two faults. `puppet_deadlock` needs one
  call more than there are workers.
- `crypto_pool`: each behaviour runs one of six configurations
  (`MCCrypto`). `Crowd` has three handlers at once and no fault, so that messages
  of two puppets and a transaction meet at the pool's lock and at the machines';
  `Faulty` has two at once, three in all, and a failed call, hang-up or restart,
  with an encryption event; `Uploads` has files and two faults; `Single` has the
  bot's machine only; `Restarts` has four faults between two messages, enough for
  a stop, a deleted device, a failed rebuild and a second stop; in `TwoDevices`
  the bot has another device, and its own is deleted. One member with up to two
  devices: the stores keep members apart, and a second device is what a machine
  can miss.
- `directory`: a behaviour either lists webhooks or sets up rooms (the constraint
  `OneSubject`); the two share the owners to invite and nothing else. Listings:
  five calls among registrations, deletions and listings, with two URLs, two
  platforms, and page sizes 0 and 2, one clamped and one plain, so that pages of
  one row move over rows that change. Rooms: two handlers, two platforms, four
  calls and two faults, enough for two rooms at once, one room for both platforms,
  and a later set-up that meets their spaces.
- `access`: two rooms and one platform, so that a room's link can move to the
  other; two workers on two events, two changes of links, levels or memberships
  between their steps and one failed lookup; a sender below and one at the
  moderator's level; open mode, or one admin, one relay user and a floor.
  `access_unlink` needs one worker. What `Levels` does not have, negative levels,
  the proofs of section 5 cover.
- The budgets `MaxFaults`, `MaxBreaks`, `MaxCrashes`, `MaxUnlinks` and
  `MaxBroadcasts` bound how often the environment does something; all
  combinations within them occur. Deadlock is checked where the system never
  stops; in `OutboundDelivery` the script ends, in `WsRegistry` all sessions
  close and the broadcasts are used up, and in `CryptoPool`, `PlatformDirectory`
  and `Access` the budgets of calls and events run out. `SomeHandlerRuns` says
  of `CryptoPool` what a deadlock check would: as long as a handler is at work,
  one of them is not waiting for a lock.

`InOrderUndisturbed` claims the homeserver's order only as long as no
connection broke, nothing failed and nothing was unlinked; without a break it
holds across restarts. `OncePerLife` counts copies per life of the process: a
restart empties `processed_txns`, so the homeserver's repetition is delivered
again (`tests/e2e/04`, `16`).

## 4 Fairness

Fairness is stated in `FairSpec`, only for the liveness properties.

- A handler that can go on does: tokio polls every task that is ready, and
  every await ends. Homeserver and webhook calls carry HTTP timeouts of 30
  seconds (`matrix_client/mod.rs:34`, `dispatcher/mod.rs:82-84`); store calls
  wait only for one another.
- The homeserver repeats a transaction until it is answered 200, as the
  application-service protocol obliges it to.
- Clients of the REST API retry. The fairness of `SendMessage` is strong, since
  a free slot may be taken by another client before the retry.
- Nothing is assumed of WebSocket clients. They may stall for ever, and neither
  `Forward` nor `OutboundEnds` is fair. DashMap gives a waiting writer its turn
  after the readers let go; that is weak fairness of the writers here because
  the number of broadcasts is bounded.
- `cache.insert` of the puppet manager is strongly fair: the last reader that
  lets go of an entry wakes a parked writer.
- Faults, breaks, crashes, kicks and unlinks are never fair. They are bounded,
  so the properties speak of what happens once they stop. `EventuallyAcked`
  excepts a puppet that was kicked: `room_membership` is not invalidated by a
  kick, so the puppet does not rejoin before a restart and every send is refused.
- `CryptoPool`, `PlatformDirectory` and `Access` are checked for safety only, and
  state no fairness.

## 5 The proofs

`MappingProofs` proves, for any sets of rooms, platforms, external rooms, events
and messages and any `MaxRoomId`, of `MappingHandlers`:

- `TypeCorrect`: the tables are well-typed and no row id is above `roomSeq`;
- `MessagesStayOnPlatform`: no message belongs to another platform's room;
- `UpsertCorrect`: `create_room_mapping` succeeds unless a lookup or a statement
  fails, and an id it returns is the row of the link it was asked for, even when
  a swallowed failure sent it into the wrong arm;
- `StoreImplementsLinkTable`: the store refines `LinkTable`.

The assumption is `MaxRoomIdAssumption`. The inductive invariant joins
typing, the schema, messages on their platform, and `HeldOK`: an id a handler
holds is at most `roomSeq` and, as long as its row exists, that row is of the
platform the handler read. It is needed because a message is recorded under a
held id; what makes it inductive is that `AUTOINCREMENT` never hands out an id
twice and that no arm of the upsert changes a row's platform.
`CreateRoomMappingOutcome` reduces the five arms to what they do to the tables
(`UpsertedTables`), and every other proof uses that lemma only. The lookups
that fail are in it: then an arm may break a constraint, and is rolled back.

`InboundProofs` proves, for any sets of rooms, platforms, messages and requests
and any number of faults, of `InboundDelivery`: `TypeCorrect`, `AnswersOnRecord`,
`RetriesSendNothing`, `CacheKeepsFaith` and `CleanupSparesMapped`. The
assumption is `InboundAssumption`. Three facts carry them. A room that is to be
mapped, or left after its mapping failed, is one request's only (`OwnRooms`) and
is mapped nowhere, so a cleanup meets no mapping. An upsert moves messages and
forgets none (`UpsertOutcome`: `Records` of the table is unchanged and every
mapped room was mapped before or is the request's), so what was on record stays
so through a merge. And a request between the look-up and the row knows what it
has sent (`Orderly`). The lemmas of `MappingProofs`
are about the store under `MappingHandlers` and start from the whole schema;
these need less of it and say more about messages.

`OutboundProofs` proves, for any script of transactions, any authors, platforms
and subscriptions and any budgets, of `OutboundDelivery`: `TypeCorrect`,
`FollowUpsFollow` and `PuppetsNotEchoed`. The assumption is `OutboundAssumption`;
the last theorem has a premise of its own, `PlainPuppets`: what puppets write are
messages, and their user ids name their platform. Without it the property is
false of the code, since follow-ups have no source test and a failed look-up
falls back on the user id. The invariant says of every row, and of every handler
and post that is under way because of one, that the event has `Reached` the
platform: it was posted, or refused, or not meant for it. Posts are awaited
before the row is written, which `PostEnds` and `PostedStep` turn into the order
that `FollowsTarget` claims.

A fourth theorem is `SentOncePerLife`: if no event stands twice in the script
(`NamedOnce`, as event ids are unique), `OncePerLife` holds. Its invariant adds
two accounts to `IInv`. The first (`Turns`) is about whose turn it is: a handler
at work has an id that is at most `next`, the id that the homeserver waits for
is the newest of `processed_txns`, and what a handler has still to visit is a
room, or a row of the target, of each platform once. The second is one ledger
per event and platform: the copies sent and those still owed, by the handler
whose turn the event is, by a post under way or by a transaction that has not
begun in this life, are at most the lives so far. A handler that is dropped owes
less, one that runs on after a break owes no more, and only a restart adds a
life and a copy to the account.

A fifth is `FirstsStayInOrder`: if the script is a `SteadyScript`,
`InOrderUndisturbed` holds. A steady script names an event once, and a follow-up
in it that is not the last event of its transaction is about what a person
wrote, and not about what is still to come. The script of the run is one. The
premise is needed: in a transaction with a puppet's message, a reaction to it and
a third event, a restart may come after the third was sent. If the message's row
for another platform is written only now, by the handler of the platform the
message came from, the replay finds a target that the first attempt did not, and
the reaction follows what it should precede; TLC finds this when it is given such
a script. A person's message has no other writer than the replay itself. The
argument is that what a handler has passed is settled. As long as nothing is
disturbed there is one handler at most (`OnlyOne`). What it has passed was given
to the platform, or is `Closed` to it for good: its transaction was answered, it
is not meant for the platform (`Mute`), a row that an earlier life wrote for an
earlier link ends the event before it comes so far (`Blocked`, the `INSERT` that
fails), or it follows up on what will never have a row there (`NoWay`). Only
what is not closed is sent, and a feed is `Complete`: whatever comes before one
of its events is in it by then, or closed. `Grows` says what a step must leave
alone for all of this to stay, and the lemma of each action shows that its step
does.

`WsProofs` proves, for any finite set of sessions, any platforms, sources and
broadcasters and any limits:

- `TypeCorrect`: in particular the counter is never below zero, so the
  `AtomicUsize` never wraps;
- `CounterCoversClients` and `LimitHolds`, the two safety properties of the
  counter;
- `DeliveryInOrder`, which is `ReceivesInOrder`.

The assumption is `WsAssumption`. That the counter covers the registered
clients is not inductive: between `retain` and `fetch_sub` a client is gone and
still counted. The invariant counts *seats*, sessions in the map, reserved, to
be rolled back, or about to be subtracted by their session or by a broadcast,
and says that every seat has one owner (`OneOwner`) and that there are at most
`count` of them. For the limit it bounds the *admitted* seats, those not to be
rolled back, by `MaxClients`: a session is admitted only if `count` was below
the limit before its increment, and `count` is at least the number of seats.
Delivery is proved from what broadcasts in flight still owe (`History`): the
payload of one is the latest of its transaction (`Latest`), and no client that
phase 1 has yet to visit has it, or has another platform (`Owed`). So what is
queued is new to the client and newer than all it has of that transaction; the
outbound task moves payloads from the channel to the socket, which leaves the
log as it is, or drops the channel, which leaves its first part.

`PuppetProofs` proves, for any finite set of requests, any profiles and any
number of workers and of faults, of `PuppetProfiles`:

- `TypeCorrect`: in particular a puppet with a row has an account;
- `CacheAgrees` and `RetriesRepair`, its two safety properties.

The assumption is `PuppetAssumption`. What a retry repairs is decided when the
earlier call has failed, possibly after its effect, so the invariant is about
unfinished work: a field that the homeserver shows is the row's (a new puppet's:
nothing), or it is what a call at work or still to be repeated wants
(`Explained`); and a call that leaves a field alone, because its base has the
value already, finds it shown (`ProfileOfCall`). The second holds although the
base may be an older row, since the row has then become what the call wants. An
entry of the cache that is not the row is behind it, and the row is then what a
call at work or still to be repeated wants (`CacheBehind`), since `upsert_puppet`
may have failed with the row written; so once nothing is left to repeat, entry and
row agree. `WorkOrderly`, `FailOrderly` and
`SucceedOrderly` prove this once for a step that goes on, fails or succeeds, and
the lemma of each action shows which of them it is.

`CryptoProofs` proves, for any finite set of handlers, any puppets, members and
numbers of devices, any configurations and any number of faults, of
`CryptoPool`: `KeysReachTheTold`, `StoresOpenedOnce`, `KeysPublished`,
`AttachmentsMatch` and `KnownRoomsEncrypted`, five of its safety properties.
The assumption is `CryptoAssumption`. The argument for the room keys: a tracked
user that is not dirty is known as well as the machine was told (`Informed`); an
answer that is awaited covers what the machine was told of those it was asked
for, because `Receive` strikes from every open query whoever changed
(`InStep`); and since a machine has one holder (`OneHolder`), nobody tells it
anything between the holder's query and its `Seal`. Flushes work on a machine
without holding it; they only ever make its store better (`Better`), which is
what `StoreStep` asks of a step that others may be relying on. `Orderly` is what
a job may rely on wherever it is, for instance that a message decided the
encryption of its file and of its event by one answer, and that what failed for it
is in `failed`. `KeysUp` adds to `Published` that the keys of every store which
says they were uploaded are `published`, open or not; a rebuild keeps that since it
empties every store, whether it succeeds or fails. `JobStep`, `LandingStep`,
`StageStep`, `StoreStep`, `QuietStep` and `RestStep` prove the invariant once
for each shape of step.

Two more of its theorems are `HandlersNeverStuck` (`SomeHandlerRuns`) and
`NewsReachMachines` (`NoMachineMissed`), for the same constants. They need an
invariant of where everybody is (`PInv`). A handler stands in the pool's queue
at most once and only while it waits (`QueueOK`), so whoever keeps the head of
the queue waiting holds the pool's lock and is not in the queue; it waits for
nobody, or for a machine whose holder waits for nobody. For the news, what a
machine in use does not know of a tracked user is dirty, in the homeserver's
outbox or *carried* (`Covered`): a transaction at work has the latest change and
the machine is there or is before it (`Here`, `Ahead`). A transaction that has
still to read the map has before it every puppet it did not name when it began,
opened or not; one that has read it has before it all that were open, and a
machine opened later tracks nobody yet. An answer that is awaited covers what it
was asked for, or the news of it are carried too (`AskedWell`).

`DirectoryProofs` proves, for any platforms, URLs, page sizes and handlers and
any number of calls and faults, of `PlatformDirectory`: `TypeCorrect`,
`ListingsComplete`, `IdsNeverReused`, `RoomsOrganised` and `SpacesReused`. The
assumption is `DirectoryAssumption`. The invariant has three parts: every row
was answered with its id and no id was answered for two (`Webhooks`); what a
listing owes is shown or still ahead of its cursor, which moves to the last id
of a page (`Listing`); and a handler goes on with a space of its own platform
(`Spaces`).

`AccessProofs` proves, for any users, permissions, rooms, levels and workers and
any number of events, changes and faults, of `Access`: `WarrantedDeeds` and
`CommandsOrMessages`. The assumptions are `AccessAssumption` and the store's.
While a worker handles an event its history covers the room's present links and
the sender's present level (`Covers`), so whatever a step reads is in the
history; and a worker reaches a stage only with what the stage takes for granted
(`MayGoOn`).

Every invariant and every action property of the runs that pass is thus a
theorem; three of them have a premise about the script of transactions, named
above. Only model-checked is what TLAPS has no rule for here, liveness under
fairness: `QueueDrains`, `EventuallyAcked`, `BroadcastReturns` and
`DeadIsForgotten`. The three runs that expect a violation state what a document
says and the code does not do; they are counterexamples and have no theorem.

## 6 Where the code and its documents differ

Each of these is a run whose counterexample is the shortest such history; the
quoted lines are in `PROJECT.json` under `findings`.

- `outbound_dropped`: a transaction's id is remembered before it is processed. A
  handler dropped with its connection leaves events that the repeated request
  does not deliver, since it is answered as a duplicate.
- `puppet_deadlock`: a cache hit keeps its guard over homeserver calls. Calls
  whose inserts wait for it block their worker threads; once all are blocked, the
  call that holds the guard is never polled again, and nothing else in the
  process is either.
- `access_unlink`: `!bridge unlink` looks up the room's mapping and deletes by
  its row id (`commands.rs:83-84`). An upsert keeps the id of a row it moves to
  another Matrix room, so a `POST /rooms` in between makes the command delete
  the other room's link.

Seven more are stated as properties beside those that hold, and TLC finds each of
them broken in a small instance; they have no run of their own.

| property | the code | instance |
|---|---|---|
| `RowPerTarget` of `OutboundDelivery` | the redelivered event stops at the first row that is already there (`?` at `outbound.rs:172`), and later platforms get neither message nor row; likewise when one of several platforms is unlinked while it is delivered to and the `INSERT` meets no mapping | that of `outbound_dropped`, with `MaxCrashes = 1`, or `MaxUnlinks = 1`, in place of the break |
| `InOrder` of `OutboundDelivery` | with an unnoticed break, the repeated request is answered 200 while its first handler still runs (`transaction.rs:29-31`), and the next transaction overtakes it, where `tests/e2e/16-concurrent-messages.test.ts:4` says that order is kept | that of `outbound_dropped` |
| `SeatsGivenBack` of `WsRegistry` | `unregister` removes a key it found empty a moment earlier (`registry.rs:98-99`): a client pushed in between goes with the entry, its own `unregister` finds none, and its seat is counted for ever. It uses up `MAX_WS_CLIENTS` one seat at a time; `NeverUndercounted` allows the counter to be wrong in this direction | two sessions, one platform, `MaxClients = 2`, one broadcast |
| `AccessEnsured` of `InboundDelivery` | `ensure_room_access` asks the membership cache first (`platform_events.rs:207`), and a kick takes nothing out of it: the puppet's messages are refused until the bridge restarts. `PuppetInRoom` is what the cache does guarantee | one request at a time, two messages, one fault |
| `BotKeysVerified` of `CryptoPool` | `crypto_manager/mod.rs:59` says that a start verifies the presence of the device's keys on the homeserver; `keys.rs:19-22` asks whether the bot has any device there, so with another one the bridge runs on without its own | that of `crypto_pool`, with the configuration `TwoDevices` |
| `NobodyHasNoAccess` of `Access` | `config.rs:281` says of the level `None` "cannot use commands, messages not forwarded", and 300 that users on neither list "have no access at all"; but the lists are asked about invitations and bot commands only. Relaying asks for the sender's power level (`outbound.rs:40`), reactions and redactions not even for that (`matrix_events.rs:41-42`), against `config.rs:317-322`, and `!bridge link` and `unlink` are for anybody with level 50 (`commands.rs:18-31`) | one room, one worker, one event, one change, and lists that name one admin and nobody else |
| `OneSpacePerPlatform` of `PlatformDirectory` | `001_initial.sql:57` has "one Matrix Space per platform"; two first rooms of a platform both find none (`dispatcher/mod.rs:156`), both create one, and the row written last hides the other | two handlers, one platform, two calls, no fault |

Differences that were met while modelling and are not stated as properties:

- A message that was sent but is not on record yet (crash, hang-up, lost answer,
  failed store call, or another request on its way) is sent to Matrix a second
  time, where the comment at `platform_events.rs:133-134` promises the existing
  event. `NoResend` is about messages on record.
- Two concurrent provisions of one external room are answered with different
  Matrix rooms, where `room_handlers.rs:74` promises idempotence; the mapping
  keeps one of them.
- `POST /rooms` with another Matrix room for a mapped external room updates the
  mapping and returns (`room_handlers.rs:126-159`): the new room is not put into
  the platform's space. `RoomOrganised` is about rooms that are set up. One Matrix
  room that is mapped to two platforms is a child of both spaces.
- A room's encryption state counts as "not known" when the read of the bot's
  store fails (`encrypt.rs:109-115`) and as "not encrypted" when the homeserver's
  answer does (`encrypt.rs:141-143`), and the message goes out in clear, where
  `docs/architecture.md:140` says that it is encrypted if the room requires it.
  `EncryptedOnceKnown` allows it if the message's own query failed, and for a room
  that was known to be encrypted only if its own read failed as well.
- Device changes are broadcast to the machines in the map
  (`pool_ops.rs:137-151`). A puppet's machine that is not open misses them, and
  when it is opened later it asks only for users that are dirty in its store.
  `NoMachineMissed` excepts histories with a restart, or with a transaction's
  handler that was dropped; without these every store belongs to a machine in
  the map.
- Rebuilding the bot's store removes the directory that holds the puppets'
  stores (`crypto_manager/mod.rs:95-98`), whose keys the homeserver still has.
  Nobody asks whether a puppet's device is still there (`crypto_pool/mod.rs:121-124`),
  so `Published` speaks of what the homeserver was given.
- An edit of a message with a file drops the file's key (`platform_events.rs:399-413`),
  and a file that comes as an `mxc://` URL is passed through as it is
  (`media_proxy.rs:139-144`), also into an encrypted room. `AttachmentMatchesEvent`
  is about files that the bridge uploads.
- The bot joins a room that was mapped over the API when the first message comes
  (`platform_events.rs:211-214`), with no invitation, whatever the `[permissions]`
  say of invitations.

Limits of properties that hold, which a reader should know of: `PuppetInRoom`
excepts rooms the puppet was kicked from, since the cache is not told.
`NoEcho` is checked with platforms that `puppet_source_platform` can read off a
user id (lowercase letters); for any other platform, a failed puppet lookup,
which is swallowed at `outbound.rs:94-99`, leaves the source unknown and the
message goes back. `RetryRepairs` excepts updates that the homeserver refuses,
which are only logged, and requests that disagree on the profile; `CacheIsRow`
excepts the time in which a failed request has still to be repeated.
`RoomOrganised` excepts rooms whose set-up gave up, for instance because one
answer switched spaces off until the restart. `DeedsWarranted` asks of reactions
and redactions for the room's link only, as the code does.

## 7 What is not modelled

- Inbound: a given Matrix room in `POST /rooms` is in `MappingStore` and `Access`
  as the upsert it is and in `PlatformDirectory` as a room to organise, but not in
  `InboundDelivery`, where rooms are created. `POST /rooms` takes the external id
  as it comes (`room_handlers.rs:120-124`) and a message's is sanitised
  (`platform_events.rs:18`); the module is about ids that sanitising leaves alone.
  Edits, reactions and redactions that arrive from platforms go to Matrix as new
  events (`platform_events.rs:391-411`), so no puppet's follow-up is in the
  outbound script. To the inbound module `ensure_puppet_direct` is a call that
  succeeds or fails, and `ensure_platform_space` is best effort: nothing depends
  on its result.
- Outbound: a second puppet or a second Matrix room in one behaviour. Power
  levels and commands are `Access`'s, which in turn leaves delivery out.
- Crypto: decryption, cross-signing, one-time keys that run out, and message
  keys, which are the Olm library's; a second room; the members of the room,
  which do not change while the model runs, other than that member events make
  the bridge look. Bytes of attachments (`attachment_crypto.rs`, `media_proxy.rs`).
- `disable_webhook`, `delete_platform_space`, `remove_space_child` and the
  unpaginated listings have no caller outside tests.
- DashMap shards hold several keys; the guard here is per platform. Two
  platforms that share a shard exclude each other more than the model says, so
  each of their behaviours is one of the model's.
- The Olm machine, HTTP and SQLite are external: what the code relies on is in
  the actions that call them.
- Content conversion (`matrix_content.rs`), the REST types, authentication, rate limiting, validation, DNS, identifier strings,
  formatting, configuration parsing and startup are sequential or stateless, a
  function of one input each; they are listed as components with the reason.
  Much of the source is of this kind, or is unit tests beside the code.

## 8 What could come next

1. Composition of both directions: a platform's message, recorded by
   `InboundDelivery`, pushed back to `OutboundDelivery` while its row is
   missing, so that `RecordInbound` is the real handler.
2. An abstract delivery service that both directions refine, with the refinement
   proved.
3. Two rooms in `CryptoPool`, with members that join and leave, for the rotation
   of room keys.
