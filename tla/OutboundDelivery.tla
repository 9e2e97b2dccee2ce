--------------------------- MODULE OutboundDelivery ---------------------------
(***************************************************************************)
(* Matrix -> platforms.  The homeserver pushes transactions to             *)
(* handle_transaction (server/transaction.rs) one after the other, and     *)
(* repeats one until it is answered 200.  The bridge remembers the ids it  *)
(* has begun to process, dispatches the events of a transaction in order,  *)
(* and fans each of them out to the platforms the room is linked to        *)
(* (dispatcher/matrix_events.rs, outbound.rs, commands.rs).                *)
(*                                                                         *)
(* One action is what a handler does between two awaits that matter to     *)
(* another handler, the store or the network.  A request whose connection  *)
(* breaks is dropped by the HTTP server at its next await, or runs on when *)
(* the break goes unnoticed; the webhook posts it has spawned run on in    *)
(* either case.  Matrix rooms but one, and `!bridge` commands, which       *)
(* MappingHandlers covers, are left out.                                   *)
(***************************************************************************)
EXTENDS MappingStore, Sequences

CONSTANTS
  Transactions,  \* the homeserver's transactions in order: sequences of events
  Author,        \* [Events -> the platform whose puppet sent it, or Human]
  Target,        \* [Events -> the event that an edit, a reaction or a redaction
                 \*            is about, or the event itself for a message]
  Human,         \* the source platform of what real Matrix users write
  Parsable,      \* platforms that puppet_source_platform can read off a user id
  Relay,         \* appservice.allow_relay
  Subscribed,    \* [Platforms -> sources its webhook and WS clients allow]
  MaxProcessed,  \* MAX_PROCESSED_TXNS
  MaxFaults,     \* bound: store calls and webhook posts that fail
  MaxBreaks,     \* bound: connections that break before the answer
  MaxCrashes,    \* bound: restarts of the bridge
  MaxUnlinks     \* bound: room mappings deleted meanwhile

Sources == Platforms \union {Human}
Txns == DOMAIN Transactions

ASSUME OutboundAssumption ==
  /\ Transactions \in Seq(Seq(Events))
  /\ Human \notin Platforms
  /\ Author \in [Events -> Sources]
  /\ Target \in [Events -> Events]
  /\ Parsable \subseteq Platforms
  /\ Relay \in BOOLEAN
  /\ Subscribed \in [Platforms -> SUBSET Sources]
  /\ MaxProcessed \in Nat \ {0}
  /\ {MaxFaults, MaxBreaks, MaxCrashes, MaxUnlinks} \subseteq Nat
  /\ IsFiniteSet(Platforms)       \* the room is linked to each
  /\ Events \subseteq Messages     \* an outbound message's external id is its event id

VARIABLES
  next,       \* the homeserver: the transaction to be answered
  waiting,    \* the homeserver holds a connection with the request for `next`
  processed,  \* processed_txns, oldest first
  run,        \* [Txns -> the handler of that transaction]
  posts,      \* webhook posts under way
  ws,         \* [Platforms -> events broadcast to its WebSocket clients]
  hooks,      \* [Platforms -> events its webhook has received]
  lost,       \* <<event, platform>> pairs whose post the webhook did not accept
  budget      \* what is left of the bounds

bridgeVars == <<processed, run>>
netVars == <<posts, ws, hooks, lost>>
vars == <<storeVars, next, waiting, bridgeVars, netVars, budget>>

(* `at` is the index of the event being dispatched, `todo` the room mappings *)
(* (or the targets' message mappings) not visited yet, as read when the      *)
(* event was begun, `cur` those being delivered to (one, or none).           *)
Row == [id: Nat, platform: Platforms]
Handler == [pc: {"idle", "event", "fanout", "hooks", "posting", "record"},
            at: Nat, src: Sources, todo: SUBSET Row, cur: SUBSET Row]
Post == [txn: Txns, event: Events, platform: Platforms]
Idle == [pc |-> "idle", at |-> 0, src |-> Human, todo |-> {}, cur |-> {}]

TypeOK ==
  /\ StoreTypeOK
  /\ next \in 1..Len(Transactions) + 1
  /\ waiting \in BOOLEAN
  /\ processed \in Seq(Txns) /\ Len(processed) <= MaxProcessed
  /\ run \in [Txns -> Handler]
  /\ posts \subseteq Post
  /\ ws \in [Platforms -> Seq(Events)]
  /\ hooks \in [Platforms -> Seq(Events)]
  /\ lost \subseteq Events \X Platforms
  /\ budget \in [faults: 0..MaxFaults, breaks: 0..MaxBreaks,
                 crashes: 0..MaxCrashes, unlinks: 0..MaxUnlinks]

(* The room is linked to every platform, row i to the i-th in some order.    *)
Init ==
  /\ \E room \in MatrixRooms :
       \E row \in [1..Cardinality(Platforms) -> [matrix: {room}, platform: Platforms,
                                                 external: ExternalRooms]] :
         /\ {row[i].platform : i \in DOMAIN row} = Platforms
         /\ rooms = row
  /\ UniqueRooms(rooms)
  /\ roomSeq = Cardinality(Platforms)
  /\ msgs = {}
  /\ reply = {}
  /\ next = 1
  /\ waiting = FALSE
  /\ processed = <<>>
  /\ run = [k \in Txns |-> Idle]
  /\ posts = {}
  /\ ws = [p \in Platforms |-> <<>>]
  /\ hooks = [p \in Platforms |-> <<>>]
  /\ lost = {}
  /\ budget = [faults |-> MaxFaults, breaks |-> MaxBreaks,
               crashes |-> MaxCrashes, unlinks |-> MaxUnlinks]

Spend(what) == /\ budget[what] > 0
               /\ budget' = [budget EXCEPT ![what] = @ - 1]

IsMessage(e) == Target[e] = e
Event(k) == Transactions[k][run[k].at]

-----------------------------------------------------------------------------
(* The transaction endpoint.                                                *)

Remembered(k) == \E i \in DOMAIN processed : processed[i] = k

\* (defect) never evicts
RememberForever(k) == Append(processed, k)

\* (defect) evicts the newest id instead of the oldest
RememberAndDropNewest(k) == SubSeq(Append(processed, k), 1, MaxProcessed)

\* insert, then shift_remove_index(0) while the set is too large
Remember(k) ==
  LET all == Append(processed, k) IN
    IF Len(all) > MaxProcessed THEN Tail(all) ELSE all

\* the request arrives: its id is kept before anything is processed
Receive(k) ==
  /\ k = next
  /\ ~waiting
  /\ ~Remembered(k)
  /\ waiting' = TRUE
  /\ processed' = Remember(k)
  /\ run' = [run EXCEPT ![k] = [Idle EXCEPT !.pc = "event", !.at = 1]]
  /\ UNCHANGED <<storeVars, next, netVars, budget>>

\* (defect) a repeated transaction is refused instead of answered 200
RefuseDuplicate(k) ==
  /\ k = next
  /\ ~waiting
  /\ Remembered(k)
  /\ UNCHANGED vars

\* "duplicate transaction, skipping": answered 200 at once
AnswerDuplicate(k) ==
  /\ k = next
  /\ ~waiting
  /\ Remembered(k)
  /\ next' = next + 1
  /\ UNCHANGED <<storeVars, waiting, bridgeVars, netVars, budget>>

\* every event has been dispatched: 200, if somebody still waits for it
EndTransaction(k) ==
  /\ run[k].pc = "event"
  /\ run[k].at > Len(Transactions[k])
  /\ run' = [run EXCEPT ![k] = Idle]
  /\ IF waiting /\ k = next
     THEN waiting' = FALSE /\ next' = next + 1
     ELSE UNCHANGED <<waiting, next>>
  /\ UNCHANGED <<storeVars, processed, netVars, budget>>

\* the connection breaks; the handler is dropped, unless the break goes unnoticed
Break(k) ==
  /\ k = next
  /\ waiting
  /\ Spend("breaks")
  /\ waiting' = FALSE
  /\ run' \in {run, [run EXCEPT ![k] = Idle]}
  /\ UNCHANGED <<storeVars, next, processed, netVars>>

\* the process stops and starts again: only the database survives
Crash ==
  /\ Spend("crashes")
  /\ waiting' = FALSE
  /\ processed' = <<>>
  /\ run' = [k \in Txns |-> Idle]
  /\ posts' = {}
  /\ UNCHANGED <<storeVars, next, ws, hooks, lost>>

-----------------------------------------------------------------------------
(* The dispatcher.                                                          *)

\* puppet_source_platform, from the sender's user id
ByPrefix(s) == IF s \in Parsable THEN s ELSE Human

\* an Ok or a logged Err: handle_transaction goes on with the next event
NextEvent(k) ==
  run' = [run EXCEPT ![k] = [Idle EXCEPT !.pc = "event", !.at = run[k].at + 1]]

FanOutTo(k, src, rows) ==
  run' = [run EXCEPT ![k] = [@ EXCEPT !.pc = "fanout", !.src = src, !.todo = rows]]

LinkedRows == {[id |-> i, platform |-> rooms[i].platform] : i \in DOMAIN rooms}
TargetRows(e) == {[id |-> r.room, platform |-> r.platform] : r \in {s \in msgs : s.event = Target[e]}}

\* handle_room_message reads the room's mappings, and the platform of the puppet
\* that sent the event; when that lookup fails the user id's prefix stands in
BeginMessage(k) ==
  \/ FanOutTo(k, Author[Event(k)], LinkedRows) /\ UNCHANGED budget
  \/ FanOutTo(k, ByPrefix(Author[Event(k)]), LinkedRows) /\ Spend("faults")

\* handle_edit, handle_reaction, handle_redaction read where the target went
BeginFollowUp(k) ==
  FanOutTo(k, ByPrefix(Author[Event(k)]), TargetRows(Event(k))) /\ UNCHANGED budget

BeginEvent(k) ==
  /\ run[k].pc = "event"
  /\ run[k].at <= Len(Transactions[k])
  /\ \/ IsMessage(Event(k)) /\ BeginMessage(k)
     \/ ~IsMessage(Event(k)) /\ BeginFollowUp(k)
     \/ NextEvent(k) /\ Spend("faults")     \* the first lookup fails
  /\ UNCHANGED <<storeVars, next, waiting, processed, netVars>>

\* (defect) the loop does not skip the source platform
SkipsNothing(e, src, p) == FALSE

\* "skipping source platform to prevent loop"; follow-ups have no such test
Skips(e, src, p) == IsMessage(e) /\ p = src

Reachable(e, p) == IsMessage(e) \/ \E i \in DOMAIN rooms : rooms[i].platform = p

\* what is left of a row after its delivery: the message's mapping
AfterDelivery(e) == IF IsMessage(e) THEN "record" ELSE "fanout"

Forwarded(src, p) == src = Human \/ src \in Subscribed[p]

\* SQLite reads a room's mappings off idx_room_mappings_matrix, by row id; the
\* order of the message mappings of a target is left open
Turn(k) == {row \in run[k].todo : IsMessage(Event(k)) => \A r \in run[k].todo : row.id <= r.id}

\* one row is passed over: its platform is the source, or the target's room
\* is not linked to its platform any more
PassOver(k, row) ==
  /\ run[k].pc = "fanout"
  /\ row \in Turn(k)
  /\ Skips(Event(k), run[k].src, row.platform) \/ ~Reachable(Event(k), row.platform)
  /\ run' = [run EXCEPT ![k].todo = @ \ {row}]
  /\ UNCHANGED <<storeVars, next, waiting, processed, netVars, budget>>

\* deliver_to_webhooks returns Ok at once when relaying is off; else it
\* broadcasts to the WebSocket clients and goes on to the webhooks
Deliver(k, row) ==
  /\ run[k].pc = "fanout"
  /\ row \in Turn(k)
  /\ ~Skips(Event(k), run[k].src, row.platform) /\ Reachable(Event(k), row.platform)
  /\ LET relayed == Relay \/ run[k].src = Human
         sends == relayed /\ Forwarded(run[k].src, row.platform)
     IN /\ ws' = IF sends THEN [ws EXCEPT ![row.platform] = Append(@, Event(k))] ELSE ws
        /\ run' = [run EXCEPT ![k] = [@ EXCEPT
                     !.pc = IF relayed THEN "hooks" ELSE AfterDelivery(Event(k)),
                     !.todo = run[k].todo \ {row},
                     !.cur = IF relayed \/ IsMessage(Event(k)) THEN {row} ELSE {}]]
  /\ UNCHANGED <<storeVars, next, waiting, processed, posts, hooks, lost, budget>>

PostOf(k) == {[txn |-> k, event |-> Event(k), platform |-> row.platform] : row \in run[k].cur}

\* list_webhooks, and a post spawned for the platform's webhook if it forwards
\* the source; when the query fails the platform is given up
ListWebhooks(k) ==
  /\ run[k].pc = "hooks"
  /\ \/ /\ run' = [run EXCEPT ![k].pc = "posting"]
        /\ posts' = posts \union {post \in PostOf(k) : Forwarded(run[k].src, post.platform)}
        /\ UNCHANGED budget
     \/ /\ run' = [run EXCEPT ![k].pc = "fanout", ![k].cur = {}]
        /\ Spend("faults")
        /\ UNCHANGED posts
  /\ UNCHANGED <<storeVars, next, waiting, processed, ws, hooks, lost>>

\* (external) the webhook takes a post, or refuses it: that is only logged
Accept(post) ==
  /\ posts' = posts \ {post}
  /\ hooks' = [hooks EXCEPT ![post.platform] = Append(@, post.event)]
  /\ UNCHANGED <<storeVars, next, waiting, bridgeVars, ws, lost, budget>>

Refuse(post) ==
  /\ Spend("faults")
  /\ posts' = posts \ {post}
  /\ lost' = lost \union {<<post.event, post.platform>>}
  /\ UNCHANGED <<storeVars, next, waiting, bridgeVars, ws, hooks>>

\* (defect) the mapping is written without waiting for the posts
PostedAtOnce(k) ==
  /\ run[k].pc = "posting"
  /\ run' = [run EXCEPT ![k].pc = AfterDelivery(Event(k)),
                        ![k].cur = IF IsMessage(Event(k)) THEN @ ELSE {}]
  /\ UNCHANGED <<storeVars, next, waiting, processed, netVars, budget>>

\* the spawned posts are awaited
Posted(k) ==
  /\ run[k].pc = "posting"
  /\ PostOf(k) \cap posts = {}
  /\ run' = [run EXCEPT ![k].pc = AfterDelivery(Event(k)),
                        ![k].cur = IF IsMessage(Event(k)) THEN @ ELSE {}]
  /\ UNCHANGED <<storeVars, next, waiting, processed, netVars, budget>>

\* create_message_mapping; an INSERT that fails ends the event, `?`
Record(k) ==
  /\ run[k].pc = "record"
  /\ \E row \in run[k].cur :
       \/ /\ RecordMessage(Event(k), row.platform, Event(k), row.id)
          /\ run' = [run EXCEPT ![k].pc = "fanout", ![k].cur = {}]
          /\ UNCHANGED budget
       \/ /\ ~CanRecord(Event(k), row.platform, Event(k), row.id)
          /\ NextEvent(k)
          /\ UNCHANGED <<storeVars, budget>>
       \/ /\ Spend("faults")
          /\ NextEvent(k)
          /\ UNCHANGED storeVars
  /\ UNCHANGED <<next, waiting, processed, netVars>>

\* every row was visited; or the lookup of a row's room by a follow-up fails, `?`
EndEvent(k) ==
  /\ run[k].pc = "fanout"
  /\ \/ run[k].todo = {} /\ UNCHANGED budget
     \/ run[k].todo # {} /\ ~IsMessage(Event(k)) /\ Spend("faults")
  /\ NextEvent(k)
  /\ UNCHANGED <<storeVars, next, waiting, processed, netVars>>

-----------------------------------------------------------------------------
(* Other handlers.                                                          *)

\* handle_incoming_http records the message that a puppet's event stands for,
\* before or after the homeserver pushes the event
RecordInbound(e) ==
  /\ \E x \in Messages \ Events, i \in DOMAIN rooms :
       /\ rooms[i].platform = Author[e]
       /\ RecordMessage(e, Author[e], x, i)
  /\ UNCHANGED <<next, waiting, bridgeVars, netVars, budget>>

\* the unlink command or DELETE /rooms/{id}
Unlink(i) ==
  /\ Spend("unlinks")
  /\ DeleteRoomMapping(i)
  /\ UNCHANGED <<next, waiting, bridgeVars, netVars>>

-----------------------------------------------------------------------------
HandlerStep(k) ==
  \/ BeginEvent(k) \/ ListWebhooks(k) \/ Posted(k) \/ Record(k) \/ EndEvent(k) \/ EndTransaction(k)
  \/ \E row \in run[k].todo : PassOver(k, row) \/ Deliver(k, row)

Next ==
  \/ \E k \in Txns : Receive(k) \/ AnswerDuplicate(k) \/ Break(k) \/ HandlerStep(k)
  \/ \E post \in posts : Accept(post) \/ Refuse(post)
  \/ \E e \in Events : RecordInbound(e)
  \/ \E i \in DOMAIN rooms : Unlink(i)
  \/ Crash

Spec == Init /\ [][Next]_vars

(* The homeserver repeats a transaction until it is answered; the runtime    *)
(* polls a handler that can go on; a post ends, at the latest by the HTTP    *)
(* client's timeout.                                                         *)
Fairness ==
  /\ \A k \in Txns : /\ WF_vars(Receive(k) \/ AnswerDuplicate(k))
                     /\ WF_vars(HandlerStep(k))
  /\ WF_vars(\E post \in posts : Accept(post) \/ Refuse(post))

FairSpec == Spec /\ Fairness

-----------------------------------------------------------------------------
(* What a platform's puppet said in Matrix is not sent back to that          *)
(* platform: not over the WebSocket, not to its webhook, not by a handler    *)
(* whose lookup of the puppet failed.                                        *)
NoEcho ==
  \A p \in Platforms, e \in Events :
    Author[e] = p => /\ \A i \in DOMAIN ws[p] : ws[p][i] # e
                     /\ \A j \in DOMAIN hooks[p] : hooks[p][j] # e

(* Within one life of the bridge an event is sent to a platform once,        *)
(* however often connections break and the homeserver repeats itself: a      *)
(* second copy takes a restart (110-115 of tests/e2e/04, 138-163 of          *)
(* tests/e2e/16).                                                            *)
OncePerLife ==
  \A p \in Platforms, e \in Events :
    LET lives == 1 + MaxCrashes - budget.crashes IN
      /\ Cardinality({i \in DOMAIN ws[p] : ws[p][i] = e}) <= lives
      /\ Cardinality({i \in DOMAIN hooks[p] : hooks[p][i] = e}) <= lives

(* An edit, a reaction or a redaction reaches a webhook only after the       *)
(* message it is about did, or was refused: the row that leads to the        *)
(* platform is written after the posts.                                      *)
FollowsTarget ==
  \A p \in Platforms : \A j \in DOMAIN hooks[p] :
    LET e == Target[hooks[p][j]] IN
      \/ IsMessage(hooks[p][j])
      \/ Author[e] = p
      \/ <<e, p>> \in lost
      \/ ~Forwarded(Author[e], p)
      \/ (~Relay /\ Author[e] # Human)
      \/ \E i \in 1..j - 1 : hooks[p][i] = e

\* the place of an event in the homeserver's order
Before(d, e) ==
  \E k, l \in Txns : \E i \in DOMAIN Transactions[k], j \in DOMAIN Transactions[l] :
    /\ Transactions[k][i] = d /\ Transactions[l][j] = e
    /\ k < l \/ (k = l /\ i < j)

FirstsInOrder(feed) ==
  \A i, j \in DOMAIN feed :
    i < j /\ Before(feed[j], feed[i]) => \E h \in 1..i : feed[h] = feed[j]

(* A platform hears of events for the first time in the order in which the   *)
(* homeserver sent them (tests/e2e/16-concurrent-messages.test.ts:5).        *)
InOrder == \A p \in Platforms : FirstsInOrder(ws[p]) /\ FirstsInOrder(hooks[p])

(* The same, as long as no connection has broken, no store call or post has  *)
(* failed and nothing was unlinked: across restarts, which lose the memory   *)
(* of processed transactions and the posts under way.                        *)
Undisturbed ==
  budget.breaks = MaxBreaks /\ budget.faults = MaxFaults /\ budget.unlinks = MaxUnlinks

InOrderUndisturbed == Undisturbed => InOrder

Done(e) == \E k \in 1..next - 1 : run[k].pc = "idle" /\ \E i \in DOMAIN Transactions[k] : Transactions[k][i] = e

(* docs/architecture.md:151: "A `message_mappings` row is written per        *)
(* platform target."  Of every message whose transaction has been answered   *)
(* there is a row for each platform its room is still linked to, but the one *)
(* it came from.                                                             *)
RowPerTarget ==
  \A e \in Events, i \in DOMAIN rooms :
    Done(e) /\ IsMessage(e) /\ rooms[i].platform # Author[e]
      => \E r \in msgs : r.event = e /\ r.platform = rooms[i].platform

(* The homeserver's queue drains: no break, restart, failure or unlinking    *)
(* makes it repeat a transaction for ever or wait for an answer for ever.    *)
QueueDrains == <>(next > Len(Transactions))
=============================================================================
