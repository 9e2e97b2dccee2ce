---------------------------- MODULE OutboundProofs ----------------------------
(***************************************************************************)
(* Proofs about OutboundDelivery, for any script of transactions, any      *)
(* platforms and subscriptions and any budgets, in three parts.            *)
(* The rows: a row for a platform, and whatever is under way because of    *)
(* one, says that the event has reached it, or was refused or not for it.  *)
(* The lives: within one life of the server an event has one handler.      *)
(* The order: what the one handler has passed is settled for good.         *)
(***************************************************************************)
EXTENDS OutboundDelivery, FiniteSetTheorems, TLAPS

(* The event has come to platform p, or was never to be posted there.      *)
Reached(e, p) ==
    \/ Author[e] = p
    \/ <<e, p>> \in lost
    \/ ~Forwarded(Author[e], p)
    \/ (~Relay /\ Author[e] # Human)
    \/ \E i \in DOMAIN hooks[p] : hooks[p][i] = e

Busy == {"fanout", "hooks", "posting", "record"}

(* What a handler h of transaction k may rely on, while it is at an event, *)
(* and of the event e itself.                                              *)
AtEvent(k, h, e) ==
    /\ h.src \in {Author[e], Human} /\ (Author[e] \in Parsable => h.src = Author[e])
    /\ ~IsMessage(e) => \A row \in h.todo \cup h.cur : Reached(Target[e], row.platform)
    /\ IsMessage(e) /\ h.pc # "fanout" => \A row \in h.cur : row.platform # h.src
    /\ IsMessage(e) /\ h.pc = "posting" => \A row \in h.cur :
         Reached(e, row.platform) \/ [txn |-> k, event |-> e, platform |-> row.platform] \in posts
    /\ h.pc = "record" => IsMessage(e) /\ \A row \in h.cur : Reached(e, row.platform)

Orderly(k, h) ==
    /\ h.pc # "idle" => h.at >= 1
    /\ h.pc = "event" => h.cur = {}
    /\ h.pc \in Busy => h.at <= Len(Transactions[k]) /\ AtEvent(k, h, Transactions[k][h.at])

OrderlyAt(k) == Orderly(k, run[k])

HandlersOrderly == \A k \in Txns : OrderlyAt(k)

RowsReached == \A r \in msgs : Reached(r.event, r.platform)

PostsReached == \A post \in posts :
    ~IsMessage(post.event) => Reached(Target[post.event], post.platform)

(* Puppets write messages only, and their user ids name their platform.    *)
PlainPuppets == \A e \in Events : Author[e] \in Platforms => IsMessage(e) /\ Author[e] \in Parsable

PostsElsewhere == \A post \in posts : Author[post.event] # post.platform

EchoFree == PlainPuppets => NoEcho /\ PostsElsewhere

IInv == /\ TypeOK
        /\ HandlersOrderly /\ RowsReached /\ PostsReached
        /\ FollowsTarget /\ EchoFree

-----------------------------------------------------------------------------
(* What has reached a platform stays so.                                   *)

LEMMA ReachedKept ==
    ASSUME lost \subseteq lost', NEW p, NEW e,
           \A i \in DOMAIN hooks[p] : i \in DOMAIN hooks'[p] /\ hooks'[p][i] = hooks[p][i],
           Reached(e, p)
    PROVE  Reached(e, p)'
BY DEF Reached, Forwarded

LEMMA ReachedSame ==
    ASSUME lost' = lost, hooks' = hooks, NEW p, NEW e
    PROVE  Reached(e, p)' <=> Reached(e, p)
BY DEF Reached, Forwarded

LEMMA OrderlyMoved ==
    ASSUME NEW k, NEW h, run'[k] = h, Orderly(k, h)'
    PROVE  OrderlyAt(k)'
<1>1. Orderly(k, h)' <=> OrderlyAt(k)'
  BY DEF OrderlyAt, Orderly, AtEvent, Reached, Forwarded
<1> QED BY <1>1

LEMMA TransactionFacts ==
    ASSUME NEW k \in Txns
    PROVE  /\ Transactions[k] \in Seq(Events) /\ Len(Transactions[k]) \in Nat
           /\ \A i \in Nat : i >= 1 /\ i <= Len(Transactions[k]) => Transactions[k][i] \in Events
           /\ k \in Nat /\ k >= 1 /\ k <= Len(Transactions) /\ Len(Transactions) \in Nat
<1>1. Transactions \in Seq(Seq(Events))
  BY OutboundAssumption
<1>2. Len(Transactions) \in Nat /\ DOMAIN Transactions = 1 .. Len(Transactions)
  BY <1>1
<1>3. k \in 1 .. Len(Transactions)
  BY <1>2 DEF Txns
<1>4. Transactions[k] \in Seq(Events)
  BY <1>1, <1>3
<1> QED BY <1>2, <1>3, <1>4

LEMMA IdleFacts == Idle \in Handler /\ Idle.pc = "idle" /\ Idle.todo = {} /\ Idle.cur = {}
BY DEF Idle, Handler, Sources

(* A handler relies on no more when posts are added.                       *)
LEMMA OrderlyKept ==
    ASSUME NEW k, NEW h, Orderly(k, h), lost' = lost, hooks' = hooks, posts \subseteq posts'
    PROVE  Orderly(k, h)'
<1>1. \A e, p : Reached(e, p)' <=> Reached(e, p)
  BY ReachedSame
<1>2. \A e : AtEvent(k, h, e) => AtEvent(k, h, e)'
  BY <1>1 DEF AtEvent
<1> QED BY <1>2 DEF Orderly

-----------------------------------------------------------------------------
(* A handler's step: nothing arrives at a webhook, no post ends.           *)
LEMMA WorkStep ==
    ASSUME IInv, NEW k \in Txns, NEW h \in Handler, run' = [run EXCEPT ![k] = h], Orderly(k, h)',
           StoreTypeOK', next' \in 1 .. Len(Transactions) + 1, waiting' \in BOOLEAN,
           processed' \in Seq(Txns) /\ Len(processed') <= MaxProcessed,
           posts \subseteq posts', posts' \subseteq Post, ws' \in [Platforms -> Seq(Events)],
           hooks' = hooks, lost' = lost,
           budget' \in [faults: 0..MaxFaults, breaks: 0..MaxBreaks,
                        crashes: 0..MaxCrashes, unlinks: 0..MaxUnlinks],
           RowsReached', PostsReached', EchoFree'
    PROVE  IInv'
<1>1. run' \in [Txns -> Handler] /\ run'[k] = h /\ \A l \in Txns : l # k => run'[l] = run[l]
  BY DEF IInv, TypeOK
<1>2. TypeOK'
  BY <1>1 DEF IInv, TypeOK
<1>3. HandlersOrderly'
  <2> SUFFICES ASSUME NEW l \in Txns
               PROVE  OrderlyAt(l)'
    BY DEF HandlersOrderly
  <2>1. CASE l = k
    BY <1>1, <2>1, OrderlyMoved
  <2>2. CASE l # k
    <3>1. PICK g : g = run[l]
      OBVIOUS
    <3>2. Orderly(l, g)
      BY <3>1 DEF IInv, HandlersOrderly, OrderlyAt
    <3>3. Orderly(l, g)'
      BY <3>2, OrderlyKept
    <3>4. run'[l] = g
      BY <1>1, <2>2, <3>1
    <3> QED BY <3>3, <3>4, OrderlyMoved
  <2> QED BY <2>1, <2>2
<1>4. FollowsTarget'
  BY DEF IInv, FollowsTarget, Forwarded
<1> QED BY <1>2, <1>3, <1>4 DEF IInv

LEMMA BudgetCounted ==
    ASSUME IInv, UNCHANGED budget \/ \E w \in {"faults", "breaks", "crashes", "unlinks"} : Spend(w)
    PROVE  budget' \in [faults: 0..MaxFaults, breaks: 0..MaxBreaks,
                       crashes: 0..MaxCrashes, unlinks: 0..MaxUnlinks]
<1> DEFINE B == [faults: 0..MaxFaults, breaks: 0..MaxBreaks, crashes: 0..MaxCrashes, unlinks: 0..MaxUnlinks]
<1>1. budget \in B
  BY DEF IInv, TypeOK
<1>2. CASE UNCHANGED budget
  BY <1>1, <1>2
<1>3. CASE Spend("faults")
  <2>1. PICK n : n = budget.faults - 1
    OBVIOUS
  <2>2. n \in 0 .. MaxFaults
    BY <1>1, <1>3, <2>1, OutboundAssumption DEF Spend
  <2>3. budget' = [budget EXCEPT !.faults = n]
    BY <1>3, <2>1 DEF Spend
  <2> QED BY <1>1, <2>2, <2>3
<1>4. CASE Spend("breaks")
  <2>1. PICK n : n = budget.breaks - 1
    OBVIOUS
  <2>2. n \in 0 .. MaxBreaks
    BY <1>1, <1>4, <2>1, OutboundAssumption DEF Spend
  <2>3. budget' = [budget EXCEPT !.breaks = n]
    BY <1>4, <2>1 DEF Spend
  <2> QED BY <1>1, <2>2, <2>3
<1>5. CASE Spend("crashes")
  <2>1. PICK n : n = budget.crashes - 1
    OBVIOUS
  <2>2. n \in 0 .. MaxCrashes
    BY <1>1, <1>5, <2>1, OutboundAssumption DEF Spend
  <2>3. budget' = [budget EXCEPT !.crashes = n]
    BY <1>5, <2>1 DEF Spend
  <2> QED BY <1>1, <2>2, <2>3
<1>6. CASE Spend("unlinks")
  <2>1. PICK n : n = budget.unlinks - 1
    OBVIOUS
  <2>2. n \in 0 .. MaxUnlinks
    BY <1>1, <1>6, <2>1, OutboundAssumption DEF Spend
  <2>3. budget' = [budget EXCEPT !.unlinks = n]
    BY <1>6, <2>1 DEF Spend
  <2> QED BY <1>1, <2>2, <2>3
<1> QED BY <1>2, <1>3, <1>4, <1>5, <1>6

(* What does not depend on handlers stays when the tables and feeds do.    *)
LEMMA FeedsKept ==
    ASSUME IInv, msgs' = msgs, posts' = posts, ws' = ws, hooks' = hooks, lost' = lost
    PROVE  RowsReached' /\ PostsReached' /\ EchoFree' /\ FollowsTarget'
<1>1. \A e, p : Reached(e, p)' <=> Reached(e, p)
  BY ReachedSame
<1>2. RowsReached' /\ PostsReached'
  BY <1>1 DEF IInv, RowsReached, PostsReached
<1>3. EchoFree'
  BY DEF IInv, EchoFree, NoEcho, PostsElsewhere
<1>4. FollowsTarget'
  BY DEF IInv, FollowsTarget, Forwarded
<1> QED BY <1>2, <1>3, <1>4

LEMMA StoreKept ==
    ASSUME IInv, UNCHANGED storeVars
    PROVE  StoreTypeOK' /\ msgs' = msgs
BY DEF IInv, TypeOK, StoreTypeOK, storeVars

(* A handler's step that only moves the handler.                           *)
LEMMA MovingStep ==
    ASSUME IInv, NEW k \in Txns, NEW h \in Handler, run' = [run EXCEPT ![k] = h], Orderly(k, h),
           UNCHANGED <<storeVars, netVars>>, next' \in 1 .. Len(Transactions) + 1, waiting' \in BOOLEAN,
           processed' \in Seq(Txns) /\ Len(processed') <= MaxProcessed,
           UNCHANGED budget \/ \E w \in {"faults", "breaks", "crashes", "unlinks"} : Spend(w)
    PROVE  IInv'
<1>1. posts' = posts /\ ws' = ws /\ hooks' = hooks /\ lost' = lost /\ msgs' = msgs /\ StoreTypeOK'
  BY StoreKept DEF netVars
<1>2. Orderly(k, h)'
  BY <1>1, OrderlyKept
<1>3. posts' \subseteq Post /\ ws' \in [Platforms -> Seq(Events)]
  BY <1>1 DEF IInv, TypeOK
<1> QED BY <1>1, <1>2, <1>3, FeedsKept, BudgetCounted, WorkStep

(* A step in which no handler moves and the homeserver may.                *)
LEMMA RestStep ==
    ASSUME IInv, run' = run, UNCHANGED <<processed, netVars>>, StoreTypeOK', RowsReached',
           next' \in 1 .. Len(Transactions) + 1, waiting' \in BOOLEAN,
           UNCHANGED budget \/ \E w \in {"faults", "breaks", "crashes", "unlinks"} : Spend(w)
    PROVE  IInv'
<1>1. posts' = posts /\ ws' = ws /\ hooks' = hooks /\ lost' = lost /\ processed' = processed
  BY DEF netVars
<1>2. TypeOK'
  BY <1>1, BudgetCounted DEF IInv, TypeOK
<1>3. HandlersOrderly'
  <2> SUFFICES ASSUME NEW l \in Txns
               PROVE  OrderlyAt(l)'
    BY DEF HandlersOrderly
  <2>1. PICK g : g = run[l]
    OBVIOUS
  <2>2. Orderly(l, g)
    BY <2>1 DEF IInv, HandlersOrderly, OrderlyAt
  <2>3. Orderly(l, g)'
    BY <1>1, <2>2, OrderlyKept
  <2> QED BY <2>1, <2>3, OrderlyMoved
<1>4. PostsReached' /\ EchoFree' /\ FollowsTarget'
  <2>1. \A e, p : Reached(e, p)' <=> Reached(e, p)
    BY <1>1, ReachedSame
  <2>2. PostsReached'
    BY <1>1, <2>1 DEF IInv, PostsReached
  <2>3. EchoFree'
    BY <1>1 DEF IInv, EchoFree, NoEcho, PostsElsewhere
  <2>4. FollowsTarget'
    BY <1>1 DEF IInv, FollowsTarget, Forwarded
  <2> QED BY <2>2, <2>3, <2>4
<1> QED BY <1>2, <1>3, <1>4 DEF IInv

-----------------------------------------------------------------------------
(* The transaction endpoint.                                               *)

LEMMA RememberType ==
    ASSUME IInv, NEW k \in Txns
    PROVE  Remember(k) \in Seq(Txns) /\ Len(Remember(k)) <= MaxProcessed
<1>1. processed \in Seq(Txns) /\ Len(processed) <= MaxProcessed /\ MaxProcessed \in Nat \ {0}
  BY OutboundAssumption DEF IInv, TypeOK
<1>2. PICK all : all = Append(processed, k)
  OBVIOUS
<1>3. all \in Seq(Txns) /\ Len(all) = Len(processed) + 1 /\ Len(processed) \in Nat
  BY <1>1, <1>2
<1>4. Remember(k) = IF Len(all) > MaxProcessed THEN Tail(all) ELSE all
  BY <1>2 DEF Remember
<1>5. CASE Len(all) > MaxProcessed
  <2>1. Tail(all) \in Seq(Txns) /\ Len(Tail(all)) = Len(all) - 1
    BY <1>1, <1>3, <1>5
  <2> QED BY <1>1, <1>3, <1>4, <1>5, <2>1
<1>6. CASE ~(Len(all) > MaxProcessed)
  BY <1>1, <1>3, <1>4, <1>6
<1> QED BY <1>5, <1>6

LEMMA ReceiveStep ==
    ASSUME IInv, NEW k \in Txns, Receive(k)
    PROVE  IInv'
<1>1. PICK h : h = [Idle EXCEPT !.pc = "event", !.at = 1]
  OBVIOUS
<1>2. h \in Handler /\ h.pc = "event" /\ h.at = 1 /\ h.cur = {}
  BY <1>1 DEF Idle, Handler, Sources
<1>3. Orderly(k, h)
  BY <1>2 DEF Orderly, Busy
<1>4. run' = [run EXCEPT ![k] = h]
  BY <1>1 DEF Receive
<1>5. /\ UNCHANGED <<storeVars, netVars>> /\ UNCHANGED budget
      /\ next' = next /\ waiting' = TRUE /\ processed' = Remember(k)
  BY DEF Receive
<1>6. next' \in 1 .. Len(Transactions) + 1 /\ waiting' \in BOOLEAN
  BY <1>5 DEF IInv, TypeOK
<1> QED BY <1>2, <1>3, <1>4, <1>5, <1>6, RememberType, MovingStep

LEMMA AnswerDuplicateStep ==
    ASSUME IInv, NEW k \in Txns, AnswerDuplicate(k)
    PROVE  IInv'
<1>1. run' = run /\ UNCHANGED <<processed, netVars>> /\ UNCHANGED budget /\ UNCHANGED storeVars
  BY DEF AnswerDuplicate, bridgeVars
<1>2. next' = k + 1 /\ waiting' = waiting
  BY DEF AnswerDuplicate
<1>3. next' \in 1 .. Len(Transactions) + 1 /\ waiting' \in BOOLEAN
  BY <1>2, TransactionFacts DEF IInv, TypeOK
<1>4. StoreTypeOK' /\ RowsReached'
  BY <1>1, StoreKept, FeedsKept DEF netVars
<1> QED BY <1>1, <1>3, <1>4, RestStep

LEMMA EndTransactionStep ==
    ASSUME IInv, NEW k \in Txns, EndTransaction(k)
    PROVE  IInv'
<1>1. run' = [run EXCEPT ![k] = Idle]
  BY DEF EndTransaction
<1>2. /\ UNCHANGED <<storeVars, netVars>> /\ UNCHANGED budget /\ processed' = processed
      /\ (waiting' = FALSE /\ k = next /\ next' = k + 1) \/ (waiting' = waiting /\ next' = next)
  BY DEF EndTransaction
<1>3. next' \in 1 .. Len(Transactions) + 1 /\ waiting' \in BOOLEAN
  <2>1. /\ k \in Nat /\ k >= 1 /\ k <= Len(Transactions) /\ Len(Transactions) \in Nat
        /\ next \in 1 .. Len(Transactions) + 1 /\ waiting \in BOOLEAN
    BY TransactionFacts DEF IInv, TypeOK
  <2>2. k + 1 \in 1 .. Len(Transactions) + 1
    BY <2>1
  <2> QED BY <1>2, <2>1, <2>2
<1>4. Orderly(k, Idle)
  BY IdleFacts DEF Orderly, Busy
<1>5. processed' \in Seq(Txns) /\ Len(processed') <= MaxProcessed
  BY <1>2 DEF IInv, TypeOK
<1> QED BY <1>1, <1>2, <1>3, <1>4, <1>5, IdleFacts, MovingStep

LEMMA BreakStep ==
    ASSUME IInv, NEW k \in Txns, Break(k)
    PROVE  IInv'
<1>1. /\ UNCHANGED <<storeVars, netVars>> /\ processed' = processed /\ next' = next /\ waiting' = FALSE
      /\ Spend("breaks")
  BY DEF Break
<1>2. next' \in 1 .. Len(Transactions) + 1 /\ waiting' \in BOOLEAN
  BY <1>1 DEF IInv, TypeOK
<1>3. CASE run' = run
  <2>1. StoreTypeOK' /\ RowsReached'
    BY <1>1, StoreKept, FeedsKept DEF netVars
  <2> QED BY <1>1, <1>2, <1>3, <2>1, RestStep
<1>4. CASE run' = [run EXCEPT ![k] = Idle]
  <2>1. Orderly(k, Idle)
    BY IdleFacts DEF Orderly, Busy
  <2>2. processed' \in Seq(Txns) /\ Len(processed') <= MaxProcessed
    BY <1>1 DEF IInv, TypeOK
  <2> QED BY <1>1, <1>2, <1>4, <2>1, <2>2, IdleFacts, MovingStep
<1> QED BY <1>3, <1>4 DEF Break

LEMMA CrashStep == IInv /\ Crash => IInv'
<1> SUFFICES ASSUME IInv, Crash
             PROVE  IInv'
  OBVIOUS
<1>1. /\ UNCHANGED storeVars /\ next' = next /\ waiting' = FALSE /\ processed' = <<>>
      /\ run' = [k \in Txns |-> Idle] /\ posts' = {} /\ ws' = ws /\ hooks' = hooks /\ lost' = lost
      /\ Spend("crashes")
  BY DEF Crash
<1>2. processed' \in Seq(Txns) /\ Len(processed') <= MaxProcessed
  BY <1>1, OutboundAssumption
<1>3. TypeOK'
  BY <1>1, <1>2, IdleFacts, StoreKept, BudgetCounted DEF IInv, TypeOK
<1>4. HandlersOrderly'
  BY <1>1, IdleFacts DEF HandlersOrderly, OrderlyAt, Orderly, Busy
<1>5. \A e, p : Reached(e, p)' <=> Reached(e, p)
  BY <1>1, ReachedSame
<1>6. RowsReached' /\ PostsReached'
  BY <1>1, <1>5, StoreKept DEF IInv, RowsReached, PostsReached
<1>7. FollowsTarget' /\ EchoFree'
  BY <1>1 DEF IInv, FollowsTarget, Forwarded, EchoFree, NoEcho, PostsElsewhere
<1> QED BY <1>3, <1>4, <1>6, <1>7 DEF IInv

-----------------------------------------------------------------------------
(* The dispatcher.                                                         *)

LEMMA AtRun ==
    ASSUME IInv, NEW k \in Txns
    PROVE  /\ run[k] \in Handler /\ Orderly(k, run[k])
           /\ run[k].pc \in Busy => Event(k) \in Events /\ Event(k) = Transactions[k][run[k].at]
                                  /\ AtEvent(k, run[k], Event(k))
<1>1. run[k] \in Handler /\ Orderly(k, run[k])
  BY DEF IInv, TypeOK, HandlersOrderly, OrderlyAt
<1>2. run[k].at \in Nat
  BY <1>1 DEF Handler
<1>3. Event(k) = Transactions[k][run[k].at]
  BY DEF Event
<1>4. ASSUME run[k].pc \in Busy
      PROVE  Event(k) \in Events /\ AtEvent(k, run[k], Event(k))
  <2>1. run[k].at >= 1 /\ run[k].at <= Len(Transactions[k])
    BY <1>1, <1>4 DEF Orderly, Busy
  <2> QED BY <1>1, <1>2, <1>3, <1>4, <2>1, TransactionFacts DEF Orderly
<1> QED BY <1>1, <1>3, <1>4

(* On to the next event: nothing is relied on but the position.            *)
LEMMA NextEventStep ==
    ASSUME IInv, NEW k \in Txns, NextEvent(k), run[k].pc # "idle", UNCHANGED <<next, waiting, processed, netVars>>,
           StoreTypeOK', RowsReached', EchoFree', PostsReached',
           UNCHANGED budget \/ Spend("faults")
    PROVE  IInv'
<1>1. PICK n : n = run[k].at + 1
  OBVIOUS
<1>2. n \in Nat /\ n >= 1
  <2>1. run[k].at \in Nat
    BY AtRun DEF Handler
  <2> QED BY <1>1, <2>1
<1>3. PICK h : h = [Idle EXCEPT !.pc = "event", !.at = n]
  OBVIOUS
<1>4. h \in Handler /\ h.pc = "event" /\ h.at = n /\ h.cur = {}
  BY <1>2, <1>3 DEF Idle, Handler, Sources
<1>5. run' = [run EXCEPT ![k] = h]
  BY <1>1, <1>3 DEF NextEvent
<1>6. Orderly(k, h)'
  BY <1>2, <1>4 DEF Orderly, Busy
<1>7. /\ next' = next /\ waiting' = waiting /\ processed' = processed
      /\ posts' = posts /\ ws' = ws /\ hooks' = hooks /\ lost' = lost
  BY DEF netVars
<1>8. /\ next' \in 1 .. Len(Transactions) + 1 /\ waiting' \in BOOLEAN
      /\ processed' \in Seq(Txns) /\ Len(processed') <= MaxProcessed
      /\ posts' \subseteq Post /\ ws' \in [Platforms -> Seq(Events)]
  BY <1>7 DEF IInv, TypeOK
<1> QED BY <1>4, <1>5, <1>6, <1>7, <1>8, BudgetCounted, WorkStep

(* Which platforms an event goes to, and as whose.                         *)
LEMMA FanOutStep ==
    ASSUME IInv, NEW k \in Txns, run[k].pc = "event", run[k].at <= Len(Transactions[k]),
           NEW src \in {Author[Event(k)], ByPrefix(Author[Event(k)])}, NEW rows, FanOutTo(k, src, rows), rows \subseteq Row,
           ~IsMessage(Event(k)) => \A row \in rows : Reached(Target[Event(k)], row.platform),
           UNCHANGED <<storeVars, next, waiting, processed, netVars>>, UNCHANGED budget \/ Spend("faults")
    PROVE  IInv'
<1>1. run[k] \in Handler /\ run[k].at \in Nat /\ run[k].at >= 1
  BY AtRun DEF Handler, Orderly
<1>2. PICK e : e = Event(k)
  OBVIOUS
<1>3. e \in Events /\ e = Transactions[k][run[k].at]
  BY <1>1, <1>2, TransactionFacts DEF Event
<1>4. /\ src \in Sources /\ src \in {Author[e], Human}
      /\ Author[e] \in Parsable => src = Author[e]
  BY <1>2, <1>3, OutboundAssumption DEF ByPrefix, Sources
<1>5. PICK h : h = [run[k] EXCEPT !.pc = "fanout", !.src = src, !.todo = rows]
  OBVIOUS
<1>6. /\ h \in Handler /\ h.pc = "fanout" /\ h.src = src /\ h.todo = rows
      /\ h.at = run[k].at /\ h.cur = run[k].cur
  BY <1>1, <1>4, <1>5 DEF Handler
<1>7. run' = [run EXCEPT ![k] = h]
  BY <1>5 DEF FanOutTo, IInv, TypeOK
<1>8. h.cur = {}
  BY <1>6, AtRun DEF Orderly
<1>9. AtEvent(k, h, e)
  BY <1>2, <1>4, <1>6, <1>8 DEF AtEvent
<1>10. Orderly(k, h)
  BY <1>1, <1>3, <1>6, <1>9 DEF Orderly
<1>11. /\ next' \in 1 .. Len(Transactions) + 1 /\ waiting' \in BOOLEAN
       /\ processed' \in Seq(Txns) /\ Len(processed') <= MaxProcessed
  BY DEF IInv, TypeOK
<1> QED BY <1>6, <1>7, <1>10, <1>11, MovingStep

LEMMA BeginEventStep ==
    ASSUME IInv, NEW k \in Txns, BeginEvent(k)
    PROVE  IInv'
<1>1. /\ run[k].pc = "event" /\ run[k].at <= Len(Transactions[k])
      /\ UNCHANGED <<storeVars, next, waiting, processed, netVars>>
  BY DEF BeginEvent
<1>2. CASE IsMessage(Event(k)) /\ BeginMessage(k)
  <2>1. LinkedRows \subseteq Row
    BY DEF LinkedRows, Row, IInv, TypeOK, StoreTypeOK, RoomRow
  <2> QED BY <1>1, <1>2, <2>1, FanOutStep DEF BeginMessage
<1>3. CASE ~IsMessage(Event(k)) /\ BeginFollowUp(k)
  <2>1. TargetRows(Event(k)) \subseteq Row
    BY DEF TargetRows, Row, IInv, TypeOK, StoreTypeOK, MessageRow
  <2>2. \A row \in TargetRows(Event(k)) : Reached(Target[Event(k)], row.platform)
    BY DEF TargetRows, IInv, RowsReached
  <2> QED BY <1>1, <1>3, <2>1, <2>2, FanOutStep DEF BeginFollowUp
<1>4. CASE NextEvent(k) /\ Spend("faults")
  <2>1. StoreTypeOK' /\ RowsReached' /\ EchoFree' /\ PostsReached'
    BY <1>1, StoreKept, FeedsKept DEF netVars
  <2> QED BY <1>1, <1>4, <2>1, NextEventStep
<1> QED BY <1>2, <1>3, <1>4 DEF BeginEvent

LEMMA PassOverStep ==
    ASSUME IInv, NEW k \in Txns, NEW row, PassOver(k, row)
    PROVE  IInv'
<1>1. run[k].pc = "fanout" /\ run[k].pc \in Busy
  BY DEF PassOver, Busy
<1>2. PICK h : h = [run[k] EXCEPT !.todo = @ \ {row}]
  OBVIOUS
<1>3. /\ h \in Handler /\ h.pc = "fanout" /\ h.at = run[k].at /\ h.src = run[k].src
      /\ h.cur = run[k].cur /\ h.todo \subseteq run[k].todo
  BY <1>1, <1>2, AtRun DEF Handler
<1>4. run' = [run EXCEPT ![k] = h]
  BY <1>2 DEF PassOver, IInv, TypeOK
<1>5. AtEvent(k, h, Event(k))
  BY <1>1, <1>3, AtRun DEF AtEvent
<1>6. Orderly(k, h)
  BY <1>1, <1>3, <1>5, AtRun DEF Orderly
<1>7. UNCHANGED <<storeVars, next, waiting, processed, netVars, budget>>
  BY DEF PassOver
<1>8. /\ next' \in 1 .. Len(Transactions) + 1 /\ waiting' \in BOOLEAN
      /\ processed' \in Seq(Txns) /\ Len(processed') <= MaxProcessed
  BY <1>7 DEF IInv, TypeOK
<1> QED BY <1>3, <1>4, <1>6, <1>7, <1>8, MovingStep

(* What a platform's own puppet said does not come to its turn.            *)
LEMMA DeliverStep ==
    ASSUME IInv, NEW k \in Txns, NEW row, Deliver(k, row)
    PROVE  IInv'
<1>1. run[k].pc = "fanout" /\ run[k].pc \in Busy
  BY DEF Deliver, Busy
<1>2. PICK e : e = Event(k)
  OBVIOUS
<1>3. e \in Events /\ e = Transactions[k][run[k].at] /\ AtEvent(k, run[k], e) /\ run[k] \in Handler
  BY <1>1, <1>2, AtRun
<1>4. row \in run[k].todo /\ row \in Row /\ row.platform \in Platforms
  BY <1>3 DEF Deliver, Turn, Handler, Row
<1>5. PICK pc \in {"hooks", "record", "fanout"}, cur \in SUBSET {row} :
         /\ run' = [run EXCEPT ![k] = [run[k] EXCEPT !.pc = pc, !.todo = run[k].todo \ {row}, !.cur = cur]]
         /\ pc = "record" => IsMessage(e) /\ ~Relay /\ run[k].src # Human
         /\ IsMessage(e) => pc # "fanout"
  <2>1. PICK pc : pc = IF Relay \/ run[k].src = Human THEN "hooks" ELSE AfterDelivery(e)
    OBVIOUS
  <2>2. PICK cur : cur = IF (Relay \/ run[k].src = Human) \/ IsMessage(e) THEN {row} ELSE {}
    OBVIOUS
  <2>3. run' = [run EXCEPT ![k] = [@ EXCEPT !.pc = pc, !.todo = run[k].todo \ {row}, !.cur = cur]]
    BY <1>2, <2>1, <2>2, Zenon DEF Deliver
  <2>4. run' = [run EXCEPT ![k] = [run[k] EXCEPT !.pc = pc, !.todo = run[k].todo \ {row}, !.cur = cur]]
    BY <2>3 DEF IInv, TypeOK
  <2>5. pc \in {"hooks", "record", "fanout"} /\ cur \in SUBSET {row}
    BY <2>1, <2>2 DEF AfterDelivery
  <2>6. /\ pc = "record" => IsMessage(e) /\ ~Relay /\ run[k].src # Human
        /\ IsMessage(e) => pc # "fanout"
    BY <2>1 DEF AfterDelivery
  <2> QED BY <2>4, <2>5, <2>6
<1>6. PICK h : h = [run[k] EXCEPT !.pc = pc, !.todo = run[k].todo \ {row}, !.cur = cur]
  OBVIOUS
<1>7. /\ h \in Handler /\ h.pc = pc /\ h.at = run[k].at /\ h.src = run[k].src
      /\ h.cur \subseteq {row} /\ h.todo \subseteq run[k].todo
  BY <1>3, <1>4, <1>6 DEF Handler
<1>8. run' = [run EXCEPT ![k] = h]
  BY <1>5, <1>6
<1>9. IsMessage(e) => row.platform # run[k].src
  BY <1>2 DEF Deliver, Skips
<1>10. pc = "record" => Reached(e, row.platform)
  BY <1>3, <1>5 DEF AtEvent, Reached
<1>11. AtEvent(k, h, e)
  BY <1>3, <1>4, <1>5, <1>7, <1>9, <1>10 DEF AtEvent
<1>12. Orderly(k, h)
  BY <1>1, <1>3, <1>5, <1>7, <1>11, AtRun DEF Orderly
<1>13. /\ UNCHANGED storeVars /\ next' = next /\ waiting' = waiting /\ processed' = processed
       /\ posts' = posts /\ hooks' = hooks /\ lost' = lost /\ UNCHANGED budget
  BY DEF Deliver
<1>14. Orderly(k, h)'
  BY <1>12, <1>13, OrderlyKept
<1>15. ws' = ws \/ ws' = [ws EXCEPT ![row.platform] = Append(@, e)]
  BY <1>2 DEF Deliver
<1>16. ws' \in [Platforms -> Seq(Events)]
  <2>1. ws \in [Platforms -> Seq(Events)]
    BY DEF IInv, TypeOK
  <2>2. Append(ws[row.platform], e) \in Seq(Events)
    BY <1>3, <1>4, <2>1
  <2> QED BY <1>15, <2>1, <2>2
<1>17. PlainPuppets => Author[e] # row.platform
  BY <1>3, <1>4, <1>9 DEF PlainPuppets, AtEvent
<1>18. EchoFree'
  <2> SUFFICES ASSUME PlainPuppets
               PROVE  NoEcho' /\ PostsElsewhere'
    BY DEF EchoFree
  <2>1. PostsElsewhere'
    BY <1>13 DEF IInv, EchoFree, PostsElsewhere
  <2>2. ASSUME NEW p \in Platforms, NEW d \in Events, Author[d] = p, NEW i \in DOMAIN ws'[p]
        PROVE  ws'[p][i] # d
    <3>1. ws[p] \in Seq(Events) /\ \A j \in DOMAIN ws[p] : ws[p][j] # d
      BY <2>2 DEF IInv, TypeOK, EchoFree, NoEcho
    <3>2. CASE ws'[p] = ws[p]
      BY <2>2, <3>1, <3>2
    <3>3. CASE p = row.platform /\ ws'[p] = Append(ws[p], e)
      BY <1>17, <2>2, <3>1, <3>3
    <3> QED BY <1>15, <3>2, <3>3 DEF IInv, TypeOK
  <2>3. NoEcho'
    BY <1>13, <2>2 DEF IInv, EchoFree, NoEcho
  <2> QED BY <2>1, <2>3
<1>19. RowsReached' /\ PostsReached'
  <2>1. \A d, p : Reached(d, p)' <=> Reached(d, p)
    BY <1>13, ReachedSame
  <2> QED BY <1>13, <2>1, StoreKept DEF IInv, RowsReached, PostsReached
<1>20. /\ next' \in 1 .. Len(Transactions) + 1 /\ waiting' \in BOOLEAN /\ posts' \subseteq Post
       /\ processed' \in Seq(Txns) /\ Len(processed') <= MaxProcessed
  BY <1>13 DEF IInv, TypeOK
<1> QED BY <1>7, <1>8, <1>13, <1>14, <1>16, <1>18, <1>19, <1>20, StoreKept, BudgetCounted, WorkStep

LEMMA ListWebhooksStep ==
    ASSUME IInv, NEW k \in Txns, ListWebhooks(k)
    PROVE  IInv'
<1>1. run[k].pc = "hooks" /\ run[k].pc \in Busy
  BY DEF ListWebhooks, Busy
<1>2. PICK e : e = Event(k)
  OBVIOUS
<1>3. e \in Events /\ e = Transactions[k][run[k].at] /\ AtEvent(k, run[k], e) /\ run[k] \in Handler
  BY <1>1, <1>2, AtRun
<1>4. /\ UNCHANGED storeVars /\ next' = next /\ waiting' = waiting /\ processed' = processed
      /\ ws' = ws /\ hooks' = hooks /\ lost' = lost
  BY DEF ListWebhooks
<1>5. /\ next' \in 1 .. Len(Transactions) + 1 /\ waiting' \in BOOLEAN
      /\ processed' \in Seq(Txns) /\ Len(processed') <= MaxProcessed
      /\ ws' \in [Platforms -> Seq(Events)]
  BY <1>4 DEF IInv, TypeOK
<1>6. \A d, p : Reached(d, p)' <=> Reached(d, p)
  BY <1>4, ReachedSame
<1>7. RowsReached'
  BY <1>4, <1>6, StoreKept DEF IInv, RowsReached
<1>8. CASE /\ run' = [run EXCEPT ![k].pc = "posting"]
           /\ posts' = posts \union {post \in PostOf(k) : Forwarded(run[k].src, post.platform)}
           /\ UNCHANGED budget
  <2>1. PICK h : h = [run[k] EXCEPT !.pc = "posting"]
    OBVIOUS
  <2>2. /\ h \in Handler /\ h.pc = "posting" /\ h.at = run[k].at /\ h.src = run[k].src
        /\ h.cur = run[k].cur /\ h.todo = run[k].todo
    BY <1>3, <2>1 DEF Handler
  <2>3. run' = [run EXCEPT ![k] = h]
    BY <1>8, <2>1 DEF IInv, TypeOK
  <2>4. PostOf(k) = {[txn |-> k, event |-> e, platform |-> row.platform] : row \in run[k].cur}
    BY <1>2 DEF PostOf
  <2>5. \A post \in PostOf(k) : \E row \in run[k].cur :
          post.event = e /\ post.platform = row.platform /\ post \in Post
    BY <1>3, <2>4 DEF Post, Handler, Row
  <2>6. posts' \subseteq Post /\ posts \subseteq posts'
    BY <1>8, <2>5 DEF IInv, TypeOK
  <2>7. PostsReached'
    BY <1>3, <1>6, <1>8, <2>5 DEF IInv, PostsReached, AtEvent
  <2>8. EchoFree'
    <3> SUFFICES ASSUME PlainPuppets
                 PROVE  NoEcho' /\ PostsElsewhere'
      BY DEF EchoFree
    <3>1. NoEcho'
      BY <1>4 DEF IInv, EchoFree, NoEcho
    <3>2. \A row \in run[k].cur : row.platform \in Platforms
      BY <1>3 DEF Handler, Row
    <3>3. \A row \in run[k].cur : Author[e] # row.platform
      BY <1>1, <1>3, <3>2 DEF PlainPuppets, AtEvent
    <3>4. PostsElsewhere'
      BY <1>8, <2>5, <3>3 DEF IInv, EchoFree, PostsElsewhere
    <3> QED BY <3>1, <3>4
  <2>9. \A row \in h.cur : Reached(e, row.platform) \/ [txn |-> k, event |-> e, platform |-> row.platform] \in posts'
    <3> SUFFICES ASSUME NEW row \in h.cur
                 PROVE  Reached(e, row.platform) \/ [txn |-> k, event |-> e, platform |-> row.platform] \in posts'
      OBVIOUS
    <3>1. [txn |-> k, event |-> e, platform |-> row.platform] \in PostOf(k)
      BY <2>2, <2>4
    <3>2. CASE Forwarded(run[k].src, row.platform)
      BY <1>8, <3>1, <3>2
    <3>3. CASE ~Forwarded(run[k].src, row.platform)
      BY <1>3, <3>3 DEF AtEvent, Forwarded, Reached
    <3> QED BY <3>2, <3>3
  <2>10. AtEvent(k, h, e)'
    BY <1>1, <1>3, <1>6, <2>2, <2>9 DEF AtEvent
  <2>11. Orderly(k, h)'
    BY <1>1, <1>3, <2>2, <2>10, AtRun DEF Orderly
  <2> QED BY <1>4, <1>5, <1>7, <1>8, <2>2, <2>3, <2>6, <2>7, <2>8, <2>11, StoreKept, BudgetCounted, WorkStep
<1>9. CASE /\ run' = [run EXCEPT ![k].pc = "fanout", ![k].cur = {}]
           /\ Spend("faults") /\ UNCHANGED posts
  <2>1. PICK h : h = [run[k] EXCEPT !.pc = "fanout", !.cur = {}]
    OBVIOUS
  <2>2. /\ h \in Handler /\ h.pc = "fanout" /\ h.at = run[k].at /\ h.src = run[k].src
        /\ h.cur = {} /\ h.todo = run[k].todo
    BY <1>3, <2>1 DEF Handler
  <2>3. run' = [run EXCEPT ![k] = h]
    BY <1>9, <2>1 DEF IInv, TypeOK
  <2>4. AtEvent(k, h, e)
    BY <1>3, <2>2 DEF AtEvent
  <2>5. Orderly(k, h)
    BY <1>1, <1>3, <2>2, <2>4, AtRun DEF Orderly
  <2>6. UNCHANGED <<storeVars, netVars>>
    BY <1>4, <1>9 DEF netVars
  <2> QED BY <1>5, <1>9, <2>2, <2>3, <2>5, <2>6, MovingStep
<1> QED BY <1>8, <1>9 DEF ListWebhooks

(* The posts have been awaited: each was taken or refused.                 *)
LEMMA PostedStep ==
    ASSUME IInv, NEW k \in Txns, Posted(k)
    PROVE  IInv'
<1>1. run[k].pc = "posting" /\ run[k].pc \in Busy
  BY DEF Posted, Busy
<1>2. PICK e : e = Event(k)
  OBVIOUS
<1>3. e \in Events /\ e = Transactions[k][run[k].at] /\ AtEvent(k, run[k], e) /\ run[k] \in Handler
  BY <1>1, <1>2, AtRun
<1>4. PICK pc : pc = AfterDelivery(e)
  OBVIOUS
<1>5. PICK cur : cur = IF IsMessage(e) THEN run[k].cur ELSE {}
  OBVIOUS
<1>6. PICK h : h = [run[k] EXCEPT !.pc = pc, !.cur = cur]
  OBVIOUS
<1>7. /\ h \in Handler /\ h.pc = pc /\ h.at = run[k].at /\ h.src = run[k].src
      /\ h.cur = cur /\ h.todo = run[k].todo /\ pc \in {"fanout", "record"}
  BY <1>3, <1>4, <1>5, <1>6 DEF Handler, AfterDelivery
<1>8. run' = [run EXCEPT ![k] = h]
  BY <1>2, <1>4, <1>5, <1>6 DEF Posted, IInv, TypeOK
<1>9. \A row \in run[k].cur : [txn |-> k, event |-> e, platform |-> row.platform] \notin posts
  BY <1>2 DEF Posted, PostOf
<1>10. AtEvent(k, h, e)
  BY <1>1, <1>3, <1>4, <1>5, <1>7, <1>9 DEF AtEvent, AfterDelivery
<1>11. Orderly(k, h)
  BY <1>1, <1>3, <1>7, <1>10, AtRun DEF Orderly, Busy
<1>12. UNCHANGED <<storeVars, next, waiting, processed, netVars, budget>>
  BY DEF Posted
<1>13. /\ next' \in 1 .. Len(Transactions) + 1 /\ waiting' \in BOOLEAN
       /\ processed' \in Seq(Txns) /\ Len(processed') <= MaxProcessed
  BY <1>12 DEF IInv, TypeOK
<1> QED BY <1>7, <1>8, <1>11, <1>12, <1>13, MovingStep

LEMMA RecordOutcome ==
    ASSUME StoreTypeOK, NEW e \in Events, NEW p \in Platforms, NEW x \in Messages, NEW id,
           RecordMessage(e, p, x, id)
    PROVE  /\ StoreTypeOK'
           /\ \A r \in msgs' : r \in msgs \/ (r.event = e /\ r.platform = p)
<1>1. PICK r : r = [event |-> e, platform |-> p, external |-> x, room |-> id]
  OBVIOUS
<1>2. /\ msgs' = msgs \cup {r} /\ reply' = {} /\ rooms' = rooms /\ roomSeq' = roomSeq /\ id \in DOMAIN rooms
  BY <1>1 DEF RecordMessage, CanRecord
<1>3. r \in MessageRow /\ r.event = e /\ r.platform = p
  BY <1>1, <1>2 DEF MessageRow, StoreTypeOK
<1> QED BY <1>2, <1>3 DEF StoreTypeOK

LEMMA RecordStep ==
    ASSUME IInv, NEW k \in Txns, Record(k)
    PROVE  IInv'
<1>1. run[k].pc = "record" /\ run[k].pc \in Busy
  BY DEF Record, Busy
<1>2. PICK e : e = Event(k)
  OBVIOUS
<1>3. e \in Events /\ e = Transactions[k][run[k].at] /\ AtEvent(k, run[k], e) /\ run[k] \in Handler
  BY <1>1, <1>2, AtRun
<1>4. UNCHANGED <<next, waiting, processed, netVars>>
  BY DEF Record
<1>5. posts' = posts /\ ws' = ws /\ hooks' = hooks /\ lost' = lost
  BY <1>4 DEF netVars
<1>6. \A d, p : Reached(d, p)' <=> Reached(d, p)
  BY <1>5, ReachedSame
<1>7. EchoFree' /\ PostsReached'
  BY <1>5, <1>6 DEF IInv, EchoFree, NoEcho, PostsElsewhere, PostsReached
<1>8. ASSUME NEW row \in run[k].cur, RecordMessage(e, row.platform, e, row.id),
             run' = [run EXCEPT ![k].pc = "fanout", ![k].cur = {}], UNCHANGED budget
      PROVE  IInv'
  <2>1. PICK h : h = [run[k] EXCEPT !.pc = "fanout", !.cur = {}]
    OBVIOUS
  <2>2. /\ h \in Handler /\ h.pc = "fanout" /\ h.at = run[k].at /\ h.src = run[k].src
        /\ h.cur = {} /\ h.todo = run[k].todo
    BY <1>3, <2>1 DEF Handler
  <2>3. run' = [run EXCEPT ![k] = h]
    BY <1>8, <2>1 DEF IInv, TypeOK
  <2>4. AtEvent(k, h, e)
    BY <1>3, <2>2 DEF AtEvent
  <2>5. Orderly(k, h)'
    <3>1. Orderly(k, h)
      BY <1>1, <1>3, <2>2, <2>4, AtRun DEF Orderly
    <3> QED BY <1>5, <3>1, OrderlyKept
  <2>6. row.platform \in Platforms /\ e \in Messages /\ Reached(e, row.platform)
    BY <1>1, <1>3, OutboundAssumption DEF Handler, Row, AtEvent
  <2>7. StoreTypeOK' /\ \A r \in msgs' : r \in msgs \/ (r.event = e /\ r.platform = row.platform)
    BY <1>3, <1>8, <2>6, RecordOutcome DEF IInv, TypeOK
  <2>8. RowsReached'
    BY <1>6, <2>6, <2>7 DEF IInv, RowsReached
  <2>9. /\ next' \in 1 .. Len(Transactions) + 1 /\ waiting' \in BOOLEAN
        /\ processed' \in Seq(Txns) /\ Len(processed') <= MaxProcessed
        /\ posts' \subseteq Post /\ ws' \in [Platforms -> Seq(Events)]
    BY <1>4, <1>5 DEF IInv, TypeOK
  <2> QED BY <1>5, <1>7, <1>8, <2>2, <2>3, <2>5, <2>7, <2>8, <2>9, BudgetCounted, WorkStep
<1>9. ASSUME NextEvent(k), UNCHANGED storeVars, UNCHANGED budget \/ Spend("faults")
      PROVE  IInv'
  <2>1. StoreTypeOK' /\ RowsReached'
    BY <1>5, <1>9, StoreKept, FeedsKept
  <2> QED BY <1>1, <1>4, <1>7, <1>9, <2>1, NextEventStep
<1>10. PICK row \in run[k].cur :
         \/ /\ RecordMessage(e, row.platform, e, row.id)
            /\ run' = [run EXCEPT ![k].pc = "fanout", ![k].cur = {}]
            /\ UNCHANGED budget
         \/ NextEvent(k) /\ UNCHANGED storeVars /\ (UNCHANGED budget \/ Spend("faults"))
  BY <1>2 DEF Record
<1> QED BY <1>8, <1>9, <1>10

LEMMA EndEventStep ==
    ASSUME IInv, NEW k \in Txns, EndEvent(k)
    PROVE  IInv'
<1>1. /\ run[k].pc = "fanout" /\ NextEvent(k) /\ (UNCHANGED budget \/ Spend("faults"))
      /\ UNCHANGED <<storeVars, next, waiting, processed, netVars>>
  BY DEF EndEvent
<1>2. StoreTypeOK' /\ RowsReached' /\ EchoFree' /\ PostsReached'
  BY <1>1, StoreKept, FeedsKept DEF netVars
<1> QED BY <1>1, <1>2, NextEventStep

-----------------------------------------------------------------------------
(* The webhooks and the other handlers.                                    *)

(* A post ends: what waited for it finds the event arrived or refused.     *)
LEMMA PostEnds ==
    ASSUME IInv, NEW post \in posts, posts' = posts \ {post}, Reached(post.event, post.platform)', run' = run,
           \A e, p : Reached(e, p) => Reached(e, p)', msgs' = msgs
    PROVE  HandlersOrderly' /\ RowsReached' /\ PostsReached'
<1>1. HandlersOrderly'
  <2> SUFFICES ASSUME NEW k \in Txns
               PROVE  OrderlyAt(k)'
    BY DEF HandlersOrderly
  <2>1. PICK h : h = run[k]
    OBVIOUS
  <2>2. Orderly(k, h)
    BY <2>1 DEF IInv, HandlersOrderly, OrderlyAt
  <2>3. ASSUME NEW e, NEW p, [txn |-> k, event |-> e, platform |-> p] \in posts
        PROVE  Reached(e, p)' \/ [txn |-> k, event |-> e, platform |-> p] \in posts'
    BY <2>3
  <2>4. \A e : AtEvent(k, h, e) => AtEvent(k, h, e)'
    BY <2>3 DEF AtEvent
  <2>5. Orderly(k, h)'
    BY <2>2, <2>4 DEF Orderly
  <2> QED BY <2>1, <2>5, OrderlyMoved
<1>2. RowsReached' /\ PostsReached'
  BY DEF IInv, RowsReached, PostsReached
<1> QED BY <1>1, <1>2

LEMMA AcceptStep ==
    ASSUME IInv, NEW post \in posts, Accept(post)
    PROVE  IInv'
<1>1. PICK e \in Events : e = post.event
  BY DEF IInv, TypeOK, Post
<1>2. PICK p \in Platforms : p = post.platform
  BY DEF IInv, TypeOK, Post
<1>3. /\ UNCHANGED storeVars /\ next' = next /\ waiting' = waiting /\ processed' = processed /\ run' = run
      /\ posts' = posts \ {post} /\ ws' = ws /\ lost' = lost /\ budget' = budget
      /\ hooks' = [hooks EXCEPT ![p] = Append(@, e)]
  BY <1>1, <1>2 DEF Accept, bridgeVars
<1>4. hooks \in [Platforms -> Seq(Events)]
  BY DEF IInv, TypeOK
<1>5. PICK n \in Nat : n = Len(hooks[p])
  BY <1>4
<1>6. /\ hooks' \in [Platforms -> Seq(Events)]
      /\ DOMAIN hooks[p] = 1 .. n /\ DOMAIN hooks'[p] = 1 .. n + 1 /\ hooks'[p][n + 1] = e
      /\ \A i \in 1 .. n : hooks'[p][i] = hooks[p][i]
      /\ \A q \in Platforms : q # p => hooks'[q] = hooks[q]
  <2>1. hooks[p] \in Seq(Events) /\ hooks'[p] = Append(hooks[p], e)
    BY <1>3, <1>4
  <2>2. Append(hooks[p], e) \in Seq(Events)
    BY <2>1
  <2> QED BY <1>3, <1>4, <1>5, <2>1, <2>2
<1>7. Reached(e, p)'
  BY <1>6 DEF Reached
<1>8. ASSUME NEW d, NEW q, Reached(d, q) PROVE Reached(d, q)'
  <2>1. CASE q = p
    <3>1. \A i \in DOMAIN hooks[p] : i \in DOMAIN hooks'[p] /\ hooks'[p][i] = hooks[p][i]
      BY <1>6
    <3> QED BY <1>3, <1>8, <2>1, <3>1, ReachedKept
  <2>2. CASE q # p
    <3>1. hooks'[q] = hooks[q]
      BY <1>3, <1>4, <2>2
    <3> QED BY <1>3, <1>8, <3>1, ReachedKept
  <2> QED BY <2>1, <2>2
<1>9. TypeOK'
  BY <1>3, <1>6, StoreKept DEF IInv, TypeOK
<1>10. HandlersOrderly' /\ RowsReached' /\ PostsReached'
  BY <1>1, <1>2, <1>3, <1>7, <1>8, StoreKept, PostEnds
<1>11. ~IsMessage(e) => Reached(Target[e], p)
  BY <1>1, <1>2 DEF IInv, PostsReached
<1>12. FollowsTarget'
  <2> SUFFICES ASSUME NEW q \in Platforms, NEW j \in DOMAIN hooks'[q], ~IsMessage(hooks'[q][j])
               PROVE  LET d == Target[hooks'[q][j]] IN
                        \/ Author[d] = q \/ <<d, q>> \in lost' \/ ~Forwarded(Author[d], q)
                        \/ (~Relay /\ Author[d] # Human)
                        \/ \E i \in 1 .. j - 1 : hooks'[q][i] = d
    BY DEF FollowsTarget, Forwarded
  <2>1. CASE q = p /\ j = n + 1
    <3>1. hooks'[q][j] = e
      BY <1>6, <2>1
    <3>2. Reached(Target[e], p)
      BY <1>11, <3>1
    <3>3. (\E i \in DOMAIN hooks[p] : hooks[p][i] = Target[e])
             => \E i \in 1 .. j - 1 : hooks'[q][i] = Target[e]
      BY <1>6, <2>1
    <3> QED BY <1>3, <2>1, <3>1, <3>2, <3>3 DEF Reached
  <2>2. CASE ~(q = p /\ j = n + 1)
    <3>1. /\ j \in DOMAIN hooks[q] /\ hooks'[q][j] = hooks[q][j] /\ j \in Nat
          /\ \A i \in 1 .. j - 1 : hooks'[q][i] = hooks[q][i]
      <4>1. CASE q = p
        BY <1>6, <2>2, <4>1
      <4>2. CASE q # p
        <5>1. hooks'[q] = hooks[q] /\ hooks[q] \in Seq(Events)
          BY <1>4, <1>6, <4>2
        <5> QED BY <5>1
      <4> QED BY <4>1, <4>2
    <3>2. PICK d : d = Target[hooks[q][j]]
      OBVIOUS
    <3>3. \/ Author[d] = q \/ <<d, q>> \in lost \/ ~Forwarded(Author[d], q)
          \/ (~Relay /\ Author[d] # Human)
          \/ \E i \in 1 .. j - 1 : hooks[q][i] = d
      BY <3>1, <3>2 DEF IInv, FollowsTarget
    <3>4. (\E i \in 1 .. j - 1 : hooks[q][i] = d) => \E i \in 1 .. j - 1 : hooks'[q][i] = d
      BY <3>1
    <3>5. Target[hooks'[q][j]] = d /\ lost' = lost
      BY <1>3, <3>1, <3>2
    <3> QED BY <3>3, <3>4, <3>5, Zenon
  <2> QED BY <2>1, <2>2
<1>13. EchoFree'
  <2> SUFFICES ASSUME PlainPuppets
               PROVE  NoEcho' /\ PostsElsewhere'
    BY DEF EchoFree
  <2>1. PostsElsewhere' /\ Author[e] # p
    BY <1>1, <1>2, <1>3 DEF IInv, EchoFree, PostsElsewhere
  <2>2. ASSUME NEW q \in Platforms, NEW d \in Events, Author[d] = q, NEW i \in DOMAIN hooks'[q]
        PROVE  hooks'[q][i] # d
    <3>1. \A j \in DOMAIN hooks[q] : hooks[q][j] # d
      BY <2>2 DEF IInv, EchoFree, NoEcho
    <3>2. CASE q = p
      BY <1>6, <2>1, <2>2, <3>1, <3>2
    <3>3. CASE q # p
      BY <1>6, <2>2, <3>1, <3>3
    <3> QED BY <3>2, <3>3
  <2>3. NoEcho'
    BY <1>3, <2>2 DEF IInv, EchoFree, NoEcho
  <2> QED BY <2>1, <2>3
<1> QED BY <1>9, <1>10, <1>12, <1>13 DEF IInv

LEMMA RefuseStep ==
    ASSUME IInv, NEW post \in posts, Refuse(post)
    PROVE  IInv'
<1>1. /\ UNCHANGED storeVars /\ next' = next /\ waiting' = waiting /\ processed' = processed /\ run' = run
      /\ posts' = posts \ {post} /\ ws' = ws /\ hooks' = hooks /\ Spend("faults")
      /\ lost' = lost \cup {<<post.event, post.platform>>}
  BY DEF Refuse, bridgeVars
<1>2. post.event \in Events /\ post.platform \in Platforms
  BY DEF IInv, TypeOK, Post
<1>3. TypeOK'
  <2>1. lost' \subseteq Events \X Platforms
    BY <1>1, <1>2 DEF IInv, TypeOK
  <2>2. budget' \in [faults: 0..MaxFaults, breaks: 0..MaxBreaks,
                    crashes: 0..MaxCrashes, unlinks: 0..MaxUnlinks]
    BY <1>1, BudgetCounted
  <2> QED BY <1>1, <2>1, <2>2, StoreKept DEF IInv, TypeOK
<1>4. Reached(post.event, post.platform)'
  BY <1>1 DEF Reached
<1>5. \A d, q : Reached(d, q) => Reached(d, q)'
  BY <1>1, ReachedKept
<1>6. HandlersOrderly' /\ RowsReached' /\ PostsReached'
  BY <1>1, <1>4, <1>5, StoreKept, PostEnds
<1>7. FollowsTarget' /\ EchoFree'
  BY <1>1 DEF IInv, FollowsTarget, Forwarded, EchoFree, NoEcho, PostsElsewhere
<1> QED BY <1>3, <1>6, <1>7 DEF IInv

(* What the other direction records is its own platform's message.         *)
LEMMA RecordInboundStep ==
    ASSUME IInv, NEW e \in Events, RecordInbound(e)
    PROVE  IInv'
<1>1. PICK x \in Messages \ Events, i \in DOMAIN rooms :
        rooms[i].platform = Author[e] /\ RecordMessage(e, Author[e], x, i)
  BY DEF RecordInbound
<1>2. /\ run' = run /\ UNCHANGED <<processed, netVars>> /\ next' = next /\ waiting' = waiting
      /\ UNCHANGED budget /\ hooks' = hooks /\ lost' = lost
  BY DEF RecordInbound, bridgeVars, netVars
<1>3. Author[e] \in Platforms
  BY <1>1 DEF IInv, TypeOK, StoreTypeOK, RoomRow
<1>4. StoreTypeOK' /\ \A r \in msgs' : r \in msgs \/ (r.event = e /\ r.platform = Author[e])
  BY <1>1, <1>3, RecordOutcome DEF IInv, TypeOK
<1>5. RowsReached'
  <2>1. \A d, p : Reached(d, p)' <=> Reached(d, p)
    BY <1>2, ReachedSame
  <2>2. Reached(e, Author[e])
    BY DEF Reached
  <2> QED BY <1>4, <2>1, <2>2 DEF IInv, RowsReached
<1>6. next' \in 1 .. Len(Transactions) + 1 /\ waiting' \in BOOLEAN
  BY <1>2 DEF IInv, TypeOK
<1> QED BY <1>2, <1>4, <1>5, <1>6, RestStep

LEMMA DeleteOutcome ==
    ASSUME StoreTypeOK, NEW id, DeleteRoomMapping(id)
    PROVE  StoreTypeOK' /\ msgs' \subseteq msgs
<1>1. PICK D : D = [i \in DOMAIN rooms \ {id} |-> rooms[i]]
  OBVIOUS
<1>2. PICK T : T = {r \in msgs : r.room # id}
  OBVIOUS
<1>3. DeleteRoom(Begin, id) = Execute(Begin, D, T)
  BY <1>1, <1>2 DEF DeleteRoom, Begin
<1>4. \/ rooms' = D /\ msgs' = T
      \/ rooms' = rooms /\ msgs' = msgs
  <2>1. PICK f : f = [Begin EXCEPT !.ok = FALSE]
    OBVIOUS
  <2>2. f.rooms = rooms /\ f.msgs = msgs
    BY <2>1 DEF Begin
  <2>3. Execute(Begin, D, T) \in {[ok |-> TRUE, rooms |-> D, msgs |-> T], f}
    BY <2>1 DEF Execute
  <2> QED BY <1>3, <2>2, <2>3 DEF DeleteRoomMapping
<1>5. roomSeq' = roomSeq /\ reply' = {}
  BY DEF DeleteRoomMapping
<1> QED BY <1>1, <1>2, <1>4, <1>5 DEF StoreTypeOK

LEMMA UnlinkStep ==
    ASSUME IInv, NEW id, Unlink(id)
    PROVE  IInv'
<1>1. /\ run' = run /\ UNCHANGED <<processed, netVars>> /\ next' = next /\ waiting' = waiting
      /\ Spend("unlinks") /\ hooks' = hooks /\ lost' = lost
  BY DEF Unlink, bridgeVars, netVars
<1>2. StoreTypeOK' /\ msgs' \subseteq msgs
  BY DeleteOutcome DEF Unlink, IInv, TypeOK
<1>3. RowsReached'
  <2>1. \A d, p : Reached(d, p)' <=> Reached(d, p)
    BY <1>1, ReachedSame
  <2> QED BY <1>2, <2>1 DEF IInv, RowsReached
<1>4. next' \in 1 .. Len(Transactions) + 1 /\ waiting' \in BOOLEAN
  BY <1>1 DEF IInv, TypeOK
<1> QED BY <1>1, <1>2, <1>3, <1>4, RestStep

-----------------------------------------------------------------------------
(* The theorems.                                                           *)

LEMMA InitEstablishes == Init => IInv
<1> SUFFICES ASSUME Init
             PROVE  IInv
  OBVIOUS
<1>1. /\ msgs = {} /\ reply = {} /\ next = 1 /\ waiting = FALSE /\ processed = <<>>
      /\ run = [k \in Txns |-> Idle] /\ posts = {} /\ lost = {} /\ roomSeq = Cardinality(Platforms)
      /\ ws = [p \in Platforms |-> <<>>] /\ hooks = [p \in Platforms |-> <<>>]
      /\ budget = [faults |-> MaxFaults, breaks |-> MaxBreaks, crashes |-> MaxCrashes, unlinks |-> MaxUnlinks]
  BY DEF Init
<1>2. roomSeq \in Nat
  BY <1>1, OutboundAssumption, FS_CardinalityType
<1>3. StoreTypeOK
  <2>1. PICK room \in MatrixRooms : rooms \in [1 .. roomSeq -> [matrix: {room}, platform: Platforms, external: ExternalRooms]]
    BY <1>1 DEF Init
  <2>2. DOMAIN rooms = 1 .. roomSeq
    BY <2>1
  <2>3. \A i \in DOMAIN rooms : rooms[i] \in RoomRow
    BY <2>1 DEF RoomRow
  <2>4. rooms \in [DOMAIN rooms -> RoomRow]
    BY <2>1, <2>3
  <2> QED BY <1>1, <1>2, <2>2, <2>4 DEF StoreTypeOK
<1>4. next \in 1 .. Len(Transactions) + 1
  <2>1. Len(Transactions) \in Nat
    BY OutboundAssumption
  <2> QED BY <1>1, <2>1
<1>5. processed \in Seq(Txns) /\ Len(processed) <= MaxProcessed
  BY <1>1, OutboundAssumption
<1>6. /\ ws \in [Platforms -> Seq(Events)] /\ hooks \in [Platforms -> Seq(Events)]
      /\ \A p \in Platforms : DOMAIN ws[p] = {} /\ DOMAIN hooks[p] = {}
  BY <1>1
<1>7. budget \in [faults: 0..MaxFaults, breaks: 0..MaxBreaks, crashes: 0..MaxCrashes, unlinks: 0..MaxUnlinks]
  BY <1>1, OutboundAssumption
<1>8. TypeOK
  BY <1>1, <1>3, <1>4, <1>5, <1>6, <1>7, IdleFacts DEF TypeOK
<1>9. HandlersOrderly
  BY <1>1, IdleFacts DEF HandlersOrderly, OrderlyAt, Orderly, Busy
<1>10. RowsReached /\ PostsReached /\ FollowsTarget /\ EchoFree
  BY <1>1, <1>6 DEF RowsReached, PostsReached, FollowsTarget, EchoFree, NoEcho, PostsElsewhere
<1> QED BY <1>8, <1>9, <1>10 DEF IInv

LEMMA StutterStep == IInv /\ UNCHANGED vars => IInv'
<1> SUFFICES ASSUME IInv, UNCHANGED vars
             PROVE  IInv'
  OBVIOUS
<1>1. /\ run' = run /\ UNCHANGED <<processed, netVars>> /\ UNCHANGED storeVars /\ UNCHANGED budget
      /\ next' = next /\ waiting' = waiting
  BY DEF vars, bridgeVars
<1>2. StoreTypeOK' /\ RowsReached'
  BY <1>1, StoreKept, FeedsKept DEF netVars
<1>3. next' \in 1 .. Len(Transactions) + 1 /\ waiting' \in BOOLEAN
  BY <1>1 DEF IInv, TypeOK
<1> QED BY <1>1, <1>2, <1>3, RestStep

LEMMA HandlerStepPreserves ==
    ASSUME IInv, NEW k \in Txns, HandlerStep(k)
    PROVE  IInv'
BY BeginEventStep, ListWebhooksStep, PostedStep, RecordStep, EndEventStep, EndTransactionStep,
   PassOverStep, DeliverStep, Zenon DEF HandlerStep

(* The inductive invariant holds in every state of every behaviour.        *)
THEOREM Invariance == Spec => []IInv
<1>1. IInv /\ Next => IInv'
  <2> SUFFICES ASSUME IInv, Next
               PROVE  IInv'
    OBVIOUS
  <2>1. CASE \E k \in Txns : Receive(k) \/ AnswerDuplicate(k) \/ Break(k) \/ HandlerStep(k)
    BY <2>1, ReceiveStep, AnswerDuplicateStep, BreakStep, HandlerStepPreserves, Zenon
  <2>2. CASE \E post \in posts : Accept(post) \/ Refuse(post)
    BY <2>2, AcceptStep, RefuseStep, Zenon
  <2>3. CASE \E e \in Events : RecordInbound(e)
    BY <2>3, RecordInboundStep, Zenon
  <2>4. CASE \E i \in DOMAIN rooms : Unlink(i)
    BY <2>4, UnlinkStep, Zenon
  <2>5. CASE Crash
    BY <2>5, CrashStep
  <2> QED BY <2>1, <2>2, <2>3, <2>4, <2>5 DEF Next
<1>2. IInv /\ [Next]_vars => IInv'
  BY <1>1, StutterStep
<1> QED BY <1>2, InitEstablishes, PTL DEF Spec

(* Every variable keeps its type; the memory of processed transactions     *)
(* (processed_txns) never outgrows MAX_PROCESSED_TXNS.                     *)
THEOREM TypeCorrect == Spec => []TypeOK
<1>1. IInv => TypeOK
  BY DEF IInv
<1> QED BY <1>1, Invariance, PTL

(* An edit, a reaction or a redaction reaches a webhook after the message  *)
(* it is about did, or was refused: deliver_to_webhooks awaits its posts   *)
(* and only then handle_room_message writes the row that leads there.      *)
THEOREM FollowUpsFollow == Spec => []FollowsTarget
<1>1. IInv => FollowsTarget
  BY DEF IInv
<1> QED BY <1>1, Invariance, PTL

(* If puppets write messages only and their user ids name their platform,  *)
(* no platform gets back what its own puppet said: handle_room_message     *)
(* skips the source platform, also when the look-up of the puppet failed.  *)
THEOREM PuppetsNotEchoed == Spec => [](PlainPuppets => NoEcho)
<1>1. IInv => (PlainPuppets => NoEcho)
  BY DEF IInv, EchoFree
<1> QED BY <1>1, Invariance, PTL

-----------------------------------------------------------------------------
(* Once per life.  A copy that is sent was owed: the event's turn had not  *)
(* come in this life, or the platform's row had not.  What is owed and     *)
(* what has been sent never exceed the lives.                              *)

(* The homeserver's script names an event once.                            *)
NamedOnce ==
    \A k, l \in Txns : \A i \in DOMAIN Transactions[k], j \in DOMAIN Transactions[l] :
        Transactions[k][i] = Transactions[l][j] => k = l /\ i = j

OneRowEach(rows) == \A r, s \in rows : r.platform = s.platform => r = s

(* The handler h has the i-th event still before it.                       *)
Coming(h, i) == (h.pc # "idle" /\ h.at < i) \/ (h.pc = "event" /\ h.at = i)

(* It will broadcast the i-th event to p, or post it.                      *)
Sends(h, i, p) ==
    \/ Coming(h, i)
    \/ h.pc \in Busy /\ h.at = i /\ \E row \in h.todo : row.platform = p

Spawns(h, i, p) ==
    \/ Sends(h, i, p)
    \/ h.pc = "hooks" /\ h.at = i /\ \E row \in h.cur : row.platform = p

(* The transaction has not been received in this life.                     *)
Unbegun(k) == k >= next /\ ~Remembered(k)

ToSend(e, p) == \E k \in Txns : \E i \in DOMAIN Transactions[k] :
    Transactions[k][i] = e /\ (Unbegun(k) \/ Sends(run[k], i, p))

ToSpawn(e, p) == \E k \in Txns : \E i \in DOMAIN Transactions[k] :
    Transactions[k][i] = e /\ (Unbegun(k) \/ Spawns(run[k], i, p))

Underway(e, p) == \E post \in posts : post.event = e /\ post.platform = p

Copies(feed, e) == {i \in DOMAIN feed : feed[i] = e}

Lives == 1 + MaxCrashes - budget.crashes

Ledger(e, p) ==
    /\ Cardinality(Copies(ws[p], e)) <= Lives
    /\ ToSend(e, p) => Cardinality(Copies(ws[p], e)) < Lives
    /\ Cardinality(Copies(hooks[p], e)) <= Lives
    /\ ToSpawn(e, p) \/ Underway(e, p) => Cardinality(Copies(hooks[p], e)) < Lives
    /\ ~(ToSpawn(e, p) /\ Underway(e, p))

PostsOnce == \A x, y \in posts : x.event = y.event /\ x.platform = y.platform => x = y

(* A handler visits a platform in one row, and a transaction is received   *)
(* once in a life.                                                         *)
OneTurn(h) == h.pc \in Busy => OneRowEach(h.todo \cup h.cur) /\ h.todo \cap h.cur = {}
Begun(k) == run[k].pc # "idle" => k <= next /\ (k = next => Remembered(k))
OneLink == \A i, j \in DOMAIN rooms : rooms[i].platform = rooms[j].platform => i = j

Turns ==
    /\ UniqueMessages(msgs)
    /\ OneLink
    /\ \A k \in Txns : OneTurn(run[k]) /\ Begun(k)
    /\ \A i \in DOMAIN processed : processed[i] <= next

-----------------------------------------------------------------------------
(* Turns.                                                                  *)

(* A step of the handlers that leaves the tables and the endpoint alone.   *)
LEMMA TurnsKept ==
    ASSUME TypeOK, Turns, NEW k \in Txns, NEW h, run' = [run EXCEPT ![k] = h],
           next' = next, processed' = processed, UniqueMessages(msgs)', OneLink',
           OneTurn(h), h.pc # "idle" => run[k].pc # "idle"
    PROVE  Turns'
<1>1. \A l \in Txns : OneTurn(run'[l])
  BY DEF TypeOK, Turns
<1>2. \A l \in Txns : Begun(l)'
  BY DEF TypeOK, Turns, Begun, Remembered
<1> QED BY <1>1, <1>2 DEF Turns

LEMMA TablesKept ==
    ASSUME Turns, UNCHANGED storeVars
    PROVE  UniqueMessages(msgs)' /\ OneLink'
BY DEF Turns, OneLink, UniqueMessages, storeVars

LEMMA RecordedOnce ==
    ASSUME Turns, NEW e, NEW p, NEW x, NEW id, RecordMessage(e, p, x, id)
    PROVE  UniqueMessages(msgs)' /\ OneLink'
BY DEF Turns, OneLink, UniqueMessages, RecordMessage, CanRecord

LEMMA RememberFacts ==
    ASSUME TypeOK, NEW k \in Txns, processed' = Remember(k)
    PROVE  /\ Remembered(k)'
           /\ \A i \in DOMAIN processed' : processed'[i] = k \/ \E j \in DOMAIN processed : processed'[i] = processed[j]
<1>1. processed \in Seq(Txns) /\ MaxProcessed \in Nat \ {0}
  BY OutboundAssumption DEF TypeOK
<1>2. PICK all : all = Append(processed, k)
  OBVIOUS
<1>3. PICK n \in Nat : n = Len(processed)
  BY <1>1
<1>4. /\ all \in Seq(Txns) /\ Len(all) = n + 1 /\ all[n + 1] = k
      /\ \A i \in 1 .. n : all[i] = processed[i]
  BY <1>1, <1>2, <1>3
<1>5. processed' = IF Len(all) > MaxProcessed THEN Tail(all) ELSE all
  BY <1>2 DEF Remember
<1>6. CASE Len(all) > MaxProcessed
  <2>1. n >= 1
    BY <1>1, <1>3, <1>4, <1>6
  <2>2. DOMAIN processed' = 1 .. n /\ \A i \in 1 .. n : processed'[i] = all[i + 1]
    BY <1>3, <1>4, <1>5, <1>6
  <2>3. processed'[n] = k /\ n \in DOMAIN processed'
    BY <1>3, <1>4, <2>1, <2>2
  <2>4. \A i \in 1 .. n : i # n => i + 1 \in 1 .. n
    BY <1>3
  <2>5. DOMAIN processed = 1 .. n
    BY <1>1, <1>3
  <2>6. ASSUME NEW i \in 1 .. n
        PROVE  processed'[i] = k \/ \E j \in DOMAIN processed : processed'[i] = processed[j]
    BY <1>4, <2>2, <2>3, <2>4, <2>5
  <2> QED BY <2>2, <2>3, <2>6 DEF Remembered
<1>7. CASE ~(Len(all) > MaxProcessed)
  <2>1. DOMAIN processed' = 1 .. n + 1 /\ DOMAIN processed = 1 .. n /\ processed' = all
    BY <1>1, <1>3, <1>4, <1>5, <1>7
  <2> QED BY <1>3, <1>4, <2>1 DEF Remembered
<1> QED BY <1>6, <1>7

LEMMA ReceiveTurns ==
    ASSUME TypeOK, Turns, NEW k \in Txns, Receive(k)
    PROVE  Turns'
<1>1. /\ run' = [run EXCEPT ![k] = [Idle EXCEPT !.pc = "event", !.at = 1]]
      /\ next' = next /\ processed' = Remember(k) /\ UNCHANGED storeVars /\ k = next
  BY DEF Receive
<1>2. run'[k].pc = "event" /\ \A l \in Txns : l # k => run'[l] = run[l]
  BY <1>1 DEF TypeOK, Idle
<1>3. Remembered(k)' /\ \A i \in DOMAIN processed' : processed'[i] <= next
  <2>1. k \in Nat /\ k <= next
    BY <1>1, TransactionFacts
  <2> QED BY <1>1, <2>1, RememberFacts DEF Turns
<1>4. ASSUME NEW l \in Txns
      PROVE  OneTurn(run'[l]) /\ Begun(l)'
  <2>1. CASE l = k
    <3>1. OneTurn(run'[l])
      BY <1>2, <2>1 DEF OneTurn, Busy
    <3>2. k <= next'
      BY <1>1, TransactionFacts
    <3> QED BY <1>1, <1>3, <2>1, <3>1, <3>2 DEF Begun
  <2>2. CASE l # k
    BY <1>1, <1>2, <2>2 DEF Turns, Begun
  <2> QED BY <2>1, <2>2
<1> QED BY <1>1, <1>3, <1>4, TablesKept DEF Turns

LEMMA AnsweredTurns ==
    ASSUME TypeOK, Turns, next' = next + 1, UNCHANGED storeVars, processed' = processed,
           \A l \in Txns : run'[l].pc # "idle" => run'[l] = run[l]
    PROVE  Turns'
<1>1. next \in Nat /\ \A l \in Txns : l \in Nat
  BY TransactionFacts DEF TypeOK
<1>2. ASSUME NEW l \in Txns
      PROVE  OneTurn(run'[l]) /\ Begun(l)'
  <2>1. CASE run'[l].pc = "idle"
    BY <2>1 DEF Begun, OneTurn, Busy
  <2>2. CASE run'[l].pc # "idle"
    <3>1. run'[l] = run[l]
      BY <2>2
    <3>2. OneTurn(run[l]) /\ l <= next
      BY <2>2, <3>1 DEF Turns, Begun
    <3>3. l <= next' /\ l # next'
      BY <1>1, <3>2
    <3> QED BY <3>1, <3>2, <3>3 DEF Begun
  <2> QED BY <2>1, <2>2
<1>3. \A i \in DOMAIN processed : processed[i] \in Txns
  BY DEF TypeOK
<1>4. \A i \in DOMAIN processed' : processed'[i] <= next'
  BY <1>1, <1>3 DEF Turns
<1> QED BY <1>2, <1>4, TablesKept DEF Turns

LEMMA AnswerDuplicateTurns ==
    ASSUME TypeOK, Turns, NEW k \in Txns, AnswerDuplicate(k)
    PROVE  Turns'
BY AnsweredTurns DEF AnswerDuplicate, bridgeVars

LEMMA EndTransactionTurns ==
    ASSUME TypeOK, Turns, NEW k \in Txns, EndTransaction(k)
    PROVE  Turns'
<1>1. run' = [run EXCEPT ![k] = Idle] /\ UNCHANGED storeVars /\ processed' = processed
  BY DEF EndTransaction
<1>2. CASE next' = next + 1
  BY <1>1, <1>2, AnsweredTurns, IdleFacts DEF TypeOK
<1>3. CASE next' = next
  <2>1. OneTurn(Idle) /\ Idle.pc = "idle"
    BY IdleFacts DEF OneTurn, Busy
  <2> QED BY <1>1, <1>3, <2>1, TurnsKept, TablesKept
<1> QED BY <1>2, <1>3 DEF EndTransaction

LEMMA BreakTurns ==
    ASSUME TypeOK, Turns, NEW k \in Txns, Break(k)
    PROVE  Turns'
<1>1. UNCHANGED storeVars /\ processed' = processed /\ next' = next
  BY DEF Break
<1>2. CASE run' = run
  BY <1>1, <1>2, TablesKept DEF Turns, Begun, Remembered
<1>3. CASE run' = [run EXCEPT ![k] = Idle]
  <2>1. OneTurn(Idle) /\ Idle.pc = "idle"
    BY IdleFacts DEF OneTurn, Busy
  <2> QED BY <1>1, <1>3, <2>1, TurnsKept, TablesKept
<1> QED BY <1>2, <1>3 DEF Break

LEMMA CrashTurns == TypeOK /\ Turns /\ Crash => Turns'
<1> SUFFICES ASSUME TypeOK, Turns, Crash
             PROVE  Turns'
  OBVIOUS
<1>1. run' = [k \in Txns |-> Idle] /\ processed' = <<>> /\ UNCHANGED storeVars
  BY DEF Crash
<1>2. \A k \in Txns : OneTurn(run'[k]) /\ Begun(k)'
  BY <1>1, IdleFacts DEF OneTurn, Begun, Busy
<1> QED BY <1>1, <1>2, TablesKept DEF Turns

(* On to the next event, or to the platforms of this one.                  *)
LEMMA NextEventTurns ==
    ASSUME TypeOK, Turns, NEW k \in Txns, NextEvent(k), run[k].pc # "idle",
           next' = next, processed' = processed, UniqueMessages(msgs)', OneLink'
    PROVE  Turns'
<1>1. PICK h : h = [Idle EXCEPT !.pc = "event", !.at = run[k].at + 1]
  OBVIOUS
<1>2. h.pc = "event" /\ run' = [run EXCEPT ![k] = h]
  BY <1>1 DEF Idle, NextEvent
<1>3. OneTurn(h)
  BY <1>2 DEF OneTurn, Busy
<1> QED BY <1>2, <1>3, TurnsKept

LEMMA BeginEventTurns ==
    ASSUME IInv, Turns, NEW k \in Txns, BeginEvent(k)
    PROVE  Turns'
<1>1. /\ run[k].pc = "event" /\ next' = next /\ processed' = processed /\ UNCHANGED storeVars
      /\ run[k] \in Handler /\ run[k].cur = {} /\ TypeOK
  BY AtRun DEF BeginEvent, IInv, Orderly
<1>2. ASSUME NEW src, NEW rows, FanOutTo(k, src, rows), OneRowEach(rows)
      PROVE  Turns'
  <2>1. PICK h : h = [run[k] EXCEPT !.pc = "fanout", !.src = src, !.todo = rows]
    OBVIOUS
  <2>2. h.pc = "fanout" /\ h.todo = rows /\ h.cur = {}
    BY <1>1, <2>1 DEF Handler
  <2>3. run' = [run EXCEPT ![k] = h]
    BY <1>2, <2>1 DEF FanOutTo, IInv, TypeOK
  <2>4. OneTurn(h)
    BY <1>2, <2>2 DEF OneTurn
  <2> QED BY <1>1, <2>3, <2>4, TurnsKept, TablesKept
<1>3. OneRowEach(LinkedRows)
  BY DEF OneRowEach, LinkedRows, Turns, OneLink
<1>4. \A e : OneRowEach(TargetRows(e))
  BY DEF OneRowEach, TargetRows, Turns, UniqueMessages
<1> QED BY <1>1, <1>2, <1>3, <1>4, NextEventTurns, TablesKept
        DEF BeginEvent, BeginMessage, BeginFollowUp

(* A row is visited, or what was visited is done with.                     *)
LEMMA VisitTurns ==
    ASSUME IInv, TypeOK', Turns, NEW k \in Txns, run[k].pc \in Busy,
           \A l \in Txns : l # k => run'[l] = run[l],
           run'[k].todo \subseteq run[k].todo,
           run'[k].cur \subseteq run[k].cur \/ run'[k].cur \subseteq run[k].todo \ run'[k].todo,
           next' = next, processed' = processed, UniqueMessages(msgs)', OneLink'
    PROVE  Turns'
<1>1. run' = [run EXCEPT ![k] = run'[k]]
  BY DEF TypeOK, IInv
<1>2. OneTurn(run'[k])
  BY DEF OneTurn, OneRowEach, Turns
<1> QED BY <1>1, <1>2, TurnsKept DEF IInv, Busy

LEMMA RunExcept ==
    ASSUME TypeOK, NEW k \in Txns, NEW h, run' = [run EXCEPT ![k] = h]
    PROVE  run'[k] = h /\ \A l \in Txns : l # k => run'[l] = run[l]
BY DEF TypeOK

LEMMA PassOverDoes ==
    ASSUME IInv, NEW k \in Txns, NEW row, PassOver(k, row)
    PROVE  /\ run[k].pc = "fanout" /\ \A l \in Txns : l # k => run'[l] = run[l]
           /\ run'[k].pc = "fanout" /\ run'[k].at = run[k].at /\ run'[k].src = run[k].src
           /\ run'[k].todo = run[k].todo \ {row} /\ run'[k].cur = run[k].cur
<1>1. run[k] \in Handler /\ run[k].pc = "fanout" /\ run' = [run EXCEPT ![k].todo = @ \ {row}]
  BY AtRun DEF PassOver
<1> QED BY <1>1 DEF IInv, TypeOK, Handler

LEMMA DeliverDoes ==
    ASSUME IInv, NEW k \in Txns, NEW row, Deliver(k, row)
    PROVE  /\ run[k].pc = "fanout" /\ \A l \in Txns : l # k => run'[l] = run[l]
           /\ run'[k].pc \in {"hooks", "record", "fanout"}
           /\ run'[k].at = run[k].at /\ run'[k].src = run[k].src
           /\ run'[k].todo = run[k].todo \ {row} /\ run'[k].cur \subseteq {row}
           /\ Relay \/ run[k].src = Human => run'[k].pc = "hooks" /\ run'[k].cur = {row}
           /\ ~(Relay \/ run[k].src = Human) => run'[k].pc = AfterDelivery(Event(k))
           /\ IsMessage(Event(k)) => run'[k].cur = {row}
           /\ ~(Relay \/ run[k].src = Human) /\ ~IsMessage(Event(k)) => run'[k].cur = {}
<1>1. PICK pc : pc = IF Relay \/ run[k].src = Human THEN "hooks" ELSE AfterDelivery(Event(k))
  OBVIOUS
<1>2. PICK cur : cur = IF (Relay \/ run[k].src = Human) \/ IsMessage(Event(k)) THEN {row} ELSE {}
  OBVIOUS
<1>3. run' = [run EXCEPT ![k] = [@ EXCEPT !.pc = pc, !.todo = run[k].todo \ {row}, !.cur = cur]]
  BY <1>1, <1>2, Zenon DEF Deliver
<1>4. run[k] \in Handler /\ run[k].pc = "fanout"
  BY AtRun DEF Deliver
<1>5. /\ run'[k].pc = pc /\ run'[k].at = run[k].at /\ run'[k].src = run[k].src
      /\ run'[k].todo = run[k].todo \ {row} /\ run'[k].cur = cur
      /\ \A l \in Txns : l # k => run'[l] = run[l]
  BY <1>3, <1>4 DEF IInv, TypeOK, Handler
<1> QED BY <1>1, <1>2, <1>4, <1>5 DEF AfterDelivery

(* The step of a handler after the row's delivery.                         *)
LEMMA ListWebhooksDoes ==
    ASSUME IInv, NEW k \in Txns, ListWebhooks(k)
    PROVE  /\ run[k].pc = "hooks" /\ \A l \in Txns : l # k => run'[l] = run[l]
           /\ run'[k].at = run[k].at /\ run'[k].src = run[k].src /\ run'[k].todo = run[k].todo
           /\ \/ /\ run'[k].pc = "posting" /\ run'[k].cur = run[k].cur /\ UNCHANGED budget
                 /\ posts' = posts \union {post \in PostOf(k) : Forwarded(run[k].src, post.platform)}
              \/ /\ run'[k].pc = "fanout" /\ run'[k].cur = {} /\ Spend("faults") /\ UNCHANGED posts
<1>1. run[k] \in Handler /\ run[k].pc = "hooks"
  BY AtRun DEF ListWebhooks
<1>2. CASE /\ run' = [run EXCEPT ![k].pc = "posting"] /\ UNCHANGED budget
           /\ posts' = posts \union {post \in PostOf(k) : Forwarded(run[k].src, post.platform)}
  BY <1>1, <1>2 DEF IInv, TypeOK, Handler
<1>3. CASE run' = [run EXCEPT ![k].pc = "fanout", ![k].cur = {}] /\ Spend("faults") /\ UNCHANGED posts
  BY <1>1, <1>3 DEF IInv, TypeOK, Handler
<1> QED BY <1>2, <1>3 DEF ListWebhooks

LEMMA PostedDoes ==
    ASSUME IInv, NEW k \in Txns, Posted(k)
    PROVE  /\ run[k].pc = "posting" /\ \A l \in Txns : l # k => run'[l] = run[l]
           /\ run'[k].pc = AfterDelivery(Event(k)) /\ run'[k].at = run[k].at /\ run'[k].src = run[k].src
           /\ run'[k].todo = run[k].todo /\ run'[k].cur = (IF IsMessage(Event(k)) THEN run[k].cur ELSE {})
<1>1. run[k] \in Handler /\ run[k].pc = "posting"
  BY AtRun DEF Posted
<1>2. PICK cur : cur = IF IsMessage(Event(k)) THEN run[k].cur ELSE {}
  OBVIOUS
<1>3. PICK pc : pc = AfterDelivery(Event(k))
  OBVIOUS
<1>4. run' = [run EXCEPT ![k].pc = pc, ![k].cur = cur]
  BY <1>2, <1>3 DEF Posted
<1>5. /\ run'[k].pc = pc /\ run'[k].at = run[k].at /\ run'[k].src = run[k].src
      /\ run'[k].todo = run[k].todo /\ run'[k].cur = cur
      /\ \A l \in Txns : l # k => run'[l] = run[l]
  BY <1>1, <1>4 DEF IInv, TypeOK, Handler
<1> QED BY <1>1, <1>2, <1>3, <1>5

(* The handler wrote the row, or goes on with the next event.              *)
LEMMA RecordDoes ==
    ASSUME IInv, NEW k \in Txns, Record(k)
    PROVE  /\ run[k].pc = "record"
           /\ \E row \in run[k].cur :
                \/ /\ RecordMessage(Event(k), row.platform, Event(k), row.id) /\ UNCHANGED budget
                   /\ run'[k].pc = "fanout" /\ run'[k].cur = {} /\ run'[k].todo = run[k].todo
                   /\ run'[k].at = run[k].at /\ run'[k].src = run[k].src
                   /\ \A l \in Txns : l # k => run'[l] = run[l]
                \/ /\ ~CanRecord(Event(k), row.platform, Event(k), row.id)
                   /\ NextEvent(k) /\ UNCHANGED storeVars /\ UNCHANGED budget
                \/ NextEvent(k) /\ UNCHANGED storeVars /\ Spend("faults")
<1>1. run[k] \in Handler /\ run[k].pc = "record"
  BY AtRun DEF Record
<1>2. ASSUME NEW row \in run[k].cur, RecordMessage(Event(k), row.platform, Event(k), row.id),
             run' = [run EXCEPT ![k].pc = "fanout", ![k].cur = {}]
      PROVE  /\ run'[k].pc = "fanout" /\ run'[k].cur = {} /\ run'[k].todo = run[k].todo
             /\ run'[k].at = run[k].at /\ run'[k].src = run[k].src
             /\ \A l \in Txns : l # k => run'[l] = run[l]
  BY <1>1, <1>2 DEF IInv, TypeOK, Handler
<1> QED BY <1>1, <1>2 DEF Record

LEMMA HandlerTurns ==
    ASSUME IInv, TypeOK', Turns, NEW k \in Txns, HandlerStep(k)
    PROVE  Turns'
<1> USE DEF IInv
<1>1. CASE BeginEvent(k)
  BY <1>1, BeginEventTurns
<1>2. CASE \E row \in run[k].todo : PassOver(k, row) \/ Deliver(k, row)
  <2>1. PICK row \in run[k].todo : PassOver(k, row) \/ Deliver(k, row)
    BY <1>2
  <2>2. next' = next /\ processed' = processed /\ UNCHANGED storeVars
    BY <2>1 DEF PassOver, Deliver
  <2>3. /\ run[k].pc \in Busy /\ \A l \in Txns : l # k => run'[l] = run[l]
        /\ run'[k].todo \subseteq run[k].todo
        /\ run'[k].cur \subseteq run[k].cur \/ run'[k].cur \subseteq run[k].todo \ run'[k].todo
    BY <2>1, PassOverDoes, DeliverDoes DEF Busy
  <2> QED BY <2>2, <2>3, TablesKept, VisitTurns
<1>3. CASE ListWebhooks(k)
  <2>1. next' = next /\ processed' = processed /\ UNCHANGED storeVars
    BY <1>3 DEF ListWebhooks
  <2>2. /\ run[k].pc \in Busy /\ \A l \in Txns : l # k => run'[l] = run[l]
        /\ run'[k].todo \subseteq run[k].todo /\ run'[k].cur \subseteq run[k].cur
    BY <1>3, ListWebhooksDoes DEF Busy
  <2> QED BY <2>1, <2>2, TablesKept, VisitTurns
<1>4. CASE Posted(k)
  <2>1. next' = next /\ processed' = processed /\ UNCHANGED storeVars
    BY <1>4 DEF Posted
  <2>2. /\ run[k].pc \in Busy /\ \A l \in Txns : l # k => run'[l] = run[l]
        /\ run'[k].todo \subseteq run[k].todo /\ run'[k].cur \subseteq run[k].cur
    BY <1>4, PostedDoes DEF Busy
  <2> QED BY <2>1, <2>2, TablesKept, VisitTurns
<1>5. CASE Record(k)
  <2>1. next' = next /\ processed' = processed /\ run[k].pc = "record"
    BY <1>5 DEF Record
  <2>2. CASE NextEvent(k) /\ UNCHANGED storeVars
    BY <2>1, <2>2, NextEventTurns, TablesKept
  <2>3. CASE ~(NextEvent(k) /\ UNCHANGED storeVars)
    <3>1. PICK row \in run[k].cur : RecordMessage(Event(k), row.platform, Event(k), row.id)
      BY <1>5, <2>3, RecordDoes
    <3>2. UniqueMessages(msgs)' /\ OneLink'
      BY <3>1, RecordedOnce
    <3>3. /\ run[k].pc \in Busy /\ \A l \in Txns : l # k => run'[l] = run[l]
          /\ run'[k].todo \subseteq run[k].todo /\ run'[k].cur \subseteq run[k].cur
      BY <1>5, <2>3, RecordDoes DEF Busy
    <3> QED BY <2>1, <3>2, <3>3, VisitTurns
  <2> QED BY <2>2, <2>3
<1>6. CASE EndEvent(k)
  BY <1>6, NextEventTurns, TablesKept DEF EndEvent
<1>7. CASE EndTransaction(k)
  BY <1>7, EndTransactionTurns
<1> QED BY <1>1, <1>2, <1>3, <1>4, <1>5, <1>6, <1>7 DEF HandlerStep

(* Steps in which no handler moves.                                        *)
LEMMA RestTurns ==
    ASSUME Turns, run' = run, next' = next, processed' = processed, UniqueMessages(msgs)', OneLink'
    PROVE  Turns'
BY DEF Turns, Begun, Remembered

LEMMA UnlinkedOnce ==
    ASSUME Turns, NEW id, DeleteRoomMapping(id)
    PROVE  UniqueMessages(msgs)' /\ OneLink'
<1>1. PICK D : D = [i \in DOMAIN rooms \ {id} |-> rooms[i]]
  OBVIOUS
<1>2. PICK T : T = {r \in msgs : r.room # id}
  OBVIOUS
<1>3. DeleteRoom(Begin, id) = Execute(Begin, D, T)
  BY <1>1, <1>2 DEF DeleteRoom, Begin
<1>4. \/ rooms' = D /\ msgs' = T
      \/ rooms' = rooms /\ msgs' = msgs
  <2>1. PICK f : f = [Begin EXCEPT !.ok = FALSE]
    OBVIOUS
  <2>2. f.rooms = rooms /\ f.msgs = msgs
    BY <2>1 DEF Begin
  <2>3. Execute(Begin, D, T) \in {[ok |-> TRUE, rooms |-> D, msgs |-> T], f}
    BY <2>1 DEF Execute
  <2> QED BY <1>3, <2>2, <2>3 DEF DeleteRoomMapping
<1>5. DOMAIN D \subseteq DOMAIN rooms /\ T \subseteq msgs /\ \A i \in DOMAIN D : D[i] = rooms[i]
  BY <1>1, <1>2
<1>6. OneLink'
  BY <1>4, <1>5 DEF Turns, OneLink
<1>7. UniqueMessages(msgs)'
  BY <1>4, <1>5 DEF Turns, UniqueMessages
<1> QED BY <1>6, <1>7

LEMMA InitTurns == Init => Turns
<1> SUFFICES ASSUME Init
             PROVE  Turns
  OBVIOUS
<1>1. msgs = {} /\ processed = <<>> /\ run = [k \in Txns |-> Idle]
  BY DEF Init
<1>2. OneLink
  <2>1. PICK room \in MatrixRooms : rooms \in [1 .. Cardinality(Platforms) ->
                                     [matrix: {room}, platform: Platforms, external: ExternalRooms]]
    BY DEF Init
  <2>2. \A i \in DOMAIN rooms : rooms[i].matrix = room
    BY <2>1
  <2> QED BY <2>2 DEF Init, UniqueRooms, OneLink
<1>3. \A k \in Txns : OneTurn(run[k]) /\ Begun(k)
  BY <1>1, IdleFacts DEF OneTurn, Begun, Busy
<1> QED BY <1>1, <1>2, <1>3 DEF Turns, UniqueMessages

LEMMA StepTurns == IInv /\ IInv' /\ Turns /\ [Next]_vars => Turns'
<1> SUFFICES ASSUME IInv, IInv', Turns, [Next]_vars
             PROVE  Turns'
  OBVIOUS
<1>0. TypeOK /\ TypeOK'
  BY DEF IInv
<1>1. ASSUME NEW k \in Txns, Receive(k) \/ AnswerDuplicate(k) \/ Break(k)
      PROVE  Turns'
  BY <1>0, <1>1, ReceiveTurns, AnswerDuplicateTurns, BreakTurns
<1>2. ASSUME NEW k \in Txns, HandlerStep(k)
      PROVE  Turns'
  BY <1>0, <1>2, HandlerTurns
<1>3. CASE \E post \in posts : Accept(post) \/ Refuse(post)
  BY <1>3, RestTurns, TablesKept DEF Accept, Refuse, bridgeVars
<1>4. CASE \E e \in Events : RecordInbound(e)
  BY <1>4, RestTurns, RecordedOnce DEF RecordInbound, bridgeVars
<1>5. CASE \E i \in DOMAIN rooms : Unlink(i)
  BY <1>5, RestTurns, UnlinkedOnce DEF Unlink, bridgeVars
<1>6. CASE Crash
  BY <1>0, <1>6, CrashTurns
<1>7. CASE UNCHANGED vars
  BY <1>7, RestTurns, TablesKept DEF vars, bridgeVars
<1> QED BY <1>1, <1>2, <1>3, <1>4, <1>5, <1>6, <1>7 DEF Next

-----------------------------------------------------------------------------
(* The ledgers.                                                            *)

LEMMA CopiesFinite ==
    ASSUME NEW S, NEW feed \in Seq(S), NEW e
    PROVE  IsFiniteSet(Copies(feed, e)) /\ Cardinality(Copies(feed, e)) \in Nat
<1>1. PICK n \in Nat : n = Len(feed)
  OBVIOUS
<1>2. Copies(feed, e) \in SUBSET (1 .. n)
  BY <1>1 DEF Copies
<1>3. IsFiniteSet(1 .. n)
  BY FS_Interval
<1> QED BY <1>2, <1>3, FS_Subset, FS_CardinalityType

(* One more payload is one more copy of it, and none of another.           *)
LEMMA CopyAdded ==
    ASSUME NEW S, NEW feed \in Seq(S), NEW d \in S, NEW e
    PROVE  /\ e = d => Cardinality(Copies(Append(feed, d), e)) = Cardinality(Copies(feed, e)) + 1
           /\ e # d => Copies(Append(feed, d), e) = Copies(feed, e)
<1>1. PICK n \in Nat : n = Len(feed)
  OBVIOUS
<1>2. PICK more : more = Append(feed, d)
  OBVIOUS
<1>3. DOMAIN feed = 1 .. n /\ DOMAIN more = 1 .. n + 1 /\ more[n + 1] = d /\ \A i \in 1 .. n : more[i] = feed[i]
  BY <1>1, <1>2
<1>4. CASE e = d
  <2>1. Copies(more, e) = Copies(feed, e) \cup {n + 1} /\ n + 1 \notin Copies(feed, e)
    BY <1>3, <1>4 DEF Copies
  <2> QED BY <1>2, <1>4, <2>1, CopiesFinite, FS_AddElement
<1>5. CASE e # d
  <2>1. Copies(more, e) = Copies(feed, e)
    BY <1>3, <1>5 DEF Copies
  <2> QED BY <1>2, <1>5, <2>1
<1> QED BY <1>4, <1>5

LEMMA FeedFacts ==
    ASSUME TypeOK, NEW p \in Platforms, NEW e
    PROVE  /\ ws[p] \in Seq(Events) /\ hooks[p] \in Seq(Events)
           /\ Cardinality(Copies(ws[p], e)) \in Nat /\ Cardinality(Copies(hooks[p], e)) \in Nat
           /\ Lives \in Nat
<1>1. ws[p] \in Seq(Events) /\ hooks[p] \in Seq(Events)
  BY DEF TypeOK
<1>2. budget.crashes \in 0 .. MaxCrashes /\ MaxCrashes \in Nat
  BY OutboundAssumption DEF TypeOK
<1> QED BY <1>1, <1>2, CopiesFinite DEF Lives

(* What is owed does not grow when one handler moves on.                   *)
LEMMA OwedKept ==
    ASSUME next' = next, processed' = processed, NEW k \in Txns,
           \A l \in Txns : l # k => run'[l] = run[l],
           NEW e, NEW p,
           \A i \in DOMAIN Transactions[k] : /\ Sends(run'[k], i, p) => Sends(run[k], i, p)
                                             /\ Spawns(run'[k], i, p) => Spawns(run[k], i, p)
    PROVE  (ToSend(e, p)' => ToSend(e, p)) /\ (ToSpawn(e, p)' => ToSpawn(e, p))
<1>1. \A l \in Txns : Unbegun(l)' <=> Unbegun(l)
  BY DEF Unbegun, Remembered
<1>2. ASSUME NEW l \in Txns, NEW i \in DOMAIN Transactions[l]
      PROVE  /\ Sends(run'[l], i, p) => Sends(run[l], i, p)
             /\ Spawns(run'[l], i, p) => Spawns(run[l], i, p)
  BY <1>2
<1> QED BY <1>1, <1>2 DEF ToSend, ToSpawn

(* A step that sends nothing and owes nothing new.                         *)
LEMMA LedgerQuiet ==
    ASSUME ws' = ws, hooks' = hooks, posts' = posts, budget'.crashes = budget.crashes,
           NEW e, NEW p, Ledger(e, p),
           (ToSend(e, p)' => ToSend(e, p)) /\ (ToSpawn(e, p)' => ToSpawn(e, p))
    PROVE  Ledger(e, p)'
<1>1. Lives' = Lives /\ (Underway(e, p)' <=> Underway(e, p))
  BY DEF Lives, Underway
<1> QED BY <1>1 DEF Ledger

Books == PostsOnce /\ \A e \in Events, p \in Platforms : Ledger(e, p)

LEMMA BooksQuiet ==
    ASSUME Books, UNCHANGED netVars, budget'.crashes = budget.crashes,
           \A e \in Events, p \in Platforms : (ToSend(e, p)' => ToSend(e, p)) /\ (ToSpawn(e, p)' => ToSpawn(e, p))
    PROVE  Books'
<1>1. ws' = ws /\ hooks' = hooks /\ posts' = posts
  BY DEF netVars
<1>2. \A e \in Events, p \in Platforms : Ledger(e, p)'
  BY <1>1, LedgerQuiet DEF Books
<1> QED BY <1>1, <1>2 DEF Books, PostsOnce

LEMMA CrashesKept ==
    ASSUME TypeOK, UNCHANGED budget \/ Spend("faults") \/ Spend("breaks") \/ Spend("unlinks")
    PROVE  budget'.crashes = budget.crashes
BY DEF TypeOK, Spend

(* A handler that moves within its event, or on to the next.               *)
LEMMA BooksMove ==
    ASSUME IInv, Books, NEW k \in Txns, \A l \in Txns : l # k => run'[l] = run[l],
           next' = next, processed' = processed, UNCHANGED netVars,
           UNCHANGED budget \/ Spend("faults"),
           \A i \in DOMAIN Transactions[k], p \in Platforms :
             /\ Sends(run'[k], i, p) => Sends(run[k], i, p)
             /\ Spawns(run'[k], i, p) => Spawns(run[k], i, p)
    PROVE  Books'
<1>1. \A e \in Events, p \in Platforms : (ToSend(e, p)' => ToSend(e, p)) /\ (ToSpawn(e, p)' => ToSpawn(e, p))
  BY OwedKept
<1>2. budget'.crashes = budget.crashes
  BY CrashesKept DEF IInv
<1> QED BY <1>1, <1>2, BooksQuiet

LEMMA IndexFacts ==
    ASSUME IInv, NEW k \in Txns
    PROVE  /\ run[k].at \in Nat /\ run[k] \in Handler
           /\ \A i \in DOMAIN Transactions[k] : i \in Nat /\ Transactions[k][i] \in Events
<1>1. Transactions[k] \in Seq(Events)
  BY TransactionFacts
<1> QED BY <1>1, AtRun DEF Handler

LEMMA NextEventBooks ==
    ASSUME IInv, Books, NEW k \in Txns, NextEvent(k), run[k].pc # "idle",
           next' = next, processed' = processed, UNCHANGED netVars,
           UNCHANGED budget \/ Spend("faults")
    PROVE  Books'
<1>1. PICK h : h = [Idle EXCEPT !.pc = "event", !.at = run[k].at + 1]
  OBVIOUS
<1>2. h.pc = "event" /\ h.at = run[k].at + 1 /\ run' = [run EXCEPT ![k] = h]
  BY <1>1 DEF Idle, NextEvent
<1>3. run'[k] = h /\ \A l \in Txns : l # k => run'[l] = run[l]
  BY <1>2, RunExcept DEF IInv
<1>4. \A i \in DOMAIN Transactions[k] : Coming(h, i) => Coming(run[k], i)
  BY <1>2, IndexFacts DEF Coming
<1>5. \A i \in DOMAIN Transactions[k], p \in Platforms :
        /\ Sends(run'[k], i, p) => Sends(run[k], i, p)
        /\ Spawns(run'[k], i, p) => Spawns(run[k], i, p)
  BY <1>2, <1>3, <1>4 DEF Sends, Spawns, Busy
<1> QED BY <1>3, <1>5, BooksMove

LEMMA BeginEventBooks ==
    ASSUME IInv, Books, NEW k \in Txns, BeginEvent(k)
    PROVE  Books'
<1>1. /\ run[k].pc = "event" /\ next' = next /\ processed' = processed /\ UNCHANGED netVars
      /\ run[k] \in Handler
  BY AtRun DEF BeginEvent
<1>2. ASSUME NEW src, NEW rows, FanOutTo(k, src, rows), UNCHANGED budget \/ Spend("faults")
      PROVE  Books'
  <2>1. PICK h : h = [run[k] EXCEPT !.pc = "fanout", !.src = src, !.todo = rows]
    OBVIOUS
  <2>2. h.pc = "fanout" /\ h.at = run[k].at
    BY <1>1, <2>1 DEF Handler
  <2>3. run' = [run EXCEPT ![k] = h]
    BY <1>2, <2>1 DEF FanOutTo, IInv, TypeOK
  <2>4. run'[k] = h /\ \A l \in Txns : l # k => run'[l] = run[l]
    BY <2>3, RunExcept DEF IInv
  <2>5. \A i \in DOMAIN Transactions[k], p \in Platforms :
          /\ Sends(run'[k], i, p) => Sends(run[k], i, p)
          /\ Spawns(run'[k], i, p) => Spawns(run[k], i, p)
    BY <1>1, <2>2, <2>4 DEF Sends, Spawns, Coming
  <2> QED BY <1>1, <1>2, <2>4, <2>5, BooksMove
<1> QED BY <1>1, <1>2, NextEventBooks DEF BeginEvent, BeginMessage, BeginFollowUp

(* The visit of a row, without what is sent.                               *)
LEMMA VisitOwes ==
    ASSUME NEW h, NEW g, h.pc \in Busy, g.pc \in Busy, g.at = h.at, g.todo \subseteq h.todo, NEW i, NEW p
    PROVE  /\ Sends(g, i, p) => Sends(h, i, p)
           /\ g.pc # "hooks" \/ (h.pc = "hooks" /\ g.cur \subseteq h.cur) => (Spawns(g, i, p) => Spawns(h, i, p))
           /\ g.cur \subseteq h.todo => (Spawns(g, i, p) => Spawns(h, i, p))
BY DEF Sends, Spawns, Coming, Busy

(* An event under way in a handler comes nowhere else.                     *)
LEMMA OwedOnce ==
    ASSUME IInv, Turns, NamedOnce, NEW k \in Txns, run[k].pc \in Busy, NEW p
    PROVE  /\ Event(k) \in Events /\ run[k].at \in DOMAIN Transactions[k] /\ ~Unbegun(k)
           /\ ToSend(Event(k), p) <=> \E row \in run[k].todo : row.platform = p
           /\ ToSpawn(Event(k), p) <=> \E row \in run[k].todo \cup (IF run[k].pc = "hooks" THEN run[k].cur ELSE {}) :
                                         row.platform = p
<1>1. run[k].at >= 1 /\ run[k].at <= Len(Transactions[k]) /\ run[k].at \in Nat /\ Transactions[k] \in Seq(Events)
  BY AtRun, IndexFacts, TransactionFacts DEF Orderly, Busy
<1>2. run[k].at \in DOMAIN Transactions[k] /\ Event(k) = Transactions[k][run[k].at] /\ Event(k) \in Events
  BY <1>1 DEF Event
<1>3. ~Unbegun(k)
  <2>1. k <= next /\ (k = next => Remembered(k))
    BY DEF Turns, Begun, Busy
  <2>2. k \in Nat /\ next \in Nat
    BY TransactionFacts DEF IInv, TypeOK
  <2> QED BY <2>1, <2>2 DEF Unbegun
<1>4. \A l \in Txns : \A i \in DOMAIN Transactions[l] : Transactions[l][i] = Event(k) => l = k /\ i = run[k].at
  BY <1>2 DEF NamedOnce
<1>5. ToSend(Event(k), p) <=> Sends(run[k], run[k].at, p)
  BY <1>2, <1>3, <1>4 DEF ToSend
<1>6. ToSpawn(Event(k), p) <=> Spawns(run[k], run[k].at, p)
  BY <1>2, <1>3, <1>4 DEF ToSpawn
<1>7. ~Coming(run[k], run[k].at)
  BY <1>1 DEF Coming, Busy
<1> QED BY <1>2, <1>3, <1>5, <1>6, <1>7 DEF Sends, Spawns

(* Nor after a step of the handler, which may still owe it.                *)
LEMMA OwedNext ==
    ASSUME IInv, Turns, NamedOnce, NEW k \in Txns, run[k].pc \in Busy,
           next' = next, processed' = processed, run'[k].at = run[k].at, run'[k].pc \in Busy,
           NEW e, e = Event(k), NEW p
    PROVE  /\ ToSend(e, p)' => \E row \in run'[k].todo : row.platform = p
           /\ ToSpawn(e, p)' => \E row \in run'[k].todo \cup (IF run'[k].pc = "hooks" THEN run'[k].cur ELSE {}) :
                                  row.platform = p
<1>2. PICK at : at = run[k].at
  OBVIOUS
<1>3. at \in DOMAIN Transactions[k] /\ ~Unbegun(k) /\ e = Transactions[k][at] /\ at \in Nat
  BY <1>2, OwedOnce, IndexFacts DEF Event
<1>4. \A l \in Txns : \A i \in DOMAIN Transactions[l] : Transactions[l][i] = e => l = k /\ i = at
  BY <1>3 DEF NamedOnce
<1>5. ~Unbegun(k)'
  BY <1>3 DEF Unbegun, Remembered
<1>6. ~Coming(run'[k], at)
  BY <1>2, <1>3 DEF Coming, Busy
<1>7. ToSend(e, p)' => Sends(run'[k], at, p)
  BY <1>4, <1>5 DEF ToSend
<1>8. ToSpawn(e, p)' => Spawns(run'[k], at, p)
  BY <1>4, <1>5 DEF ToSpawn
<1> QED BY <1>6, <1>7, <1>8 DEF Sends, Spawns

(* A broadcast: the row's turn is over when it is sent.                    *)
LEMMA DeliverBooks ==
    ASSUME IInv, Turns, NamedOnce, Books, NEW k \in Txns, NEW row \in run[k].todo, Deliver(k, row)
    PROVE  Books'
<1>1. PICK e : e = Event(k)
  OBVIOUS
<1>2. PICK q : q = row.platform
  OBVIOUS
<1>3. /\ run[k].pc \in Busy /\ run'[k].pc \in Busy /\ run'[k].at = run[k].at
      /\ run'[k].todo = run[k].todo \ {row} /\ run'[k].cur \subseteq run[k].todo
      /\ \A l \in Txns : l # k => run'[l] = run[l]
  BY DeliverDoes DEF Busy
<1>4. /\ next' = next /\ processed' = processed /\ posts' = posts /\ hooks' = hooks /\ budget' = budget
      /\ ws' = ws \/ ws' = [ws EXCEPT ![q] = Append(@, e)]
  BY <1>1, <1>2 DEF Deliver
<1>5. ToSend(e, q) /\ e \in Events
  BY <1>1, <1>2, <1>3, OwedOnce
<1>6. ~ToSend(e, q)'
  <2>1. OneRowEach(run[k].todo \cup run[k].cur)
    BY <1>3 DEF Turns, OneTurn
  <2>2. ~\E r \in run'[k].todo : r.platform = q
    BY <1>2, <1>3, <2>1 DEF OneRowEach
  <2> QED BY <1>1, <1>3, <1>4, <2>2, OwedNext
<1>7. \A d, p : (ToSend(d, p)' => ToSend(d, p)) /\ (ToSpawn(d, p)' => ToSpawn(d, p))
  BY <1>3, <1>4, OwedKept, VisitOwes
<1>8. ASSUME NEW d \in Events, NEW p \in Platforms
      PROVE  Ledger(d, p)'
  <2>1. Ledger(d, p) /\ Lives' = Lives /\ (Underway(d, p)' <=> Underway(d, p)) /\ hooks'[p] = hooks[p]
    BY <1>4 DEF Books, Lives, Underway
  <2>2. CASE ws'[p] = ws[p]
    BY <1>7, <2>1, <2>2 DEF Ledger
  <2>3. CASE ws'[p] # ws[p]
    <3>1. p = q /\ ws'[p] = Append(ws[p], e)
      BY <1>4, <2>3 DEF IInv, TypeOK
    <3>2. ws[p] \in Seq(Events)
      BY FeedFacts DEF IInv
    <3>3. CASE d = e
      <4>1. Cardinality(Copies(ws'[p], d)) = Cardinality(Copies(ws[p], d)) + 1
        BY <1>5, <3>1, <3>2, <3>3, CopyAdded
      <4>2. Cardinality(Copies(ws[p], d)) < Lives /\ ~ToSend(d, p)'
        BY <1>5, <1>6, <2>1, <3>1, <3>3 DEF Ledger
      <4>3. Cardinality(Copies(ws[p], d)) \in Nat /\ Lives \in Nat
        BY FeedFacts DEF IInv
      <4>4. Cardinality(Copies(ws'[p], d)) <= Lives
        BY <4>1, <4>2, <4>3
      <4> QED BY <1>7, <2>1, <4>2, <4>4 DEF Ledger
    <3>4. CASE d # e
      <4>1. Copies(ws'[p], d) = Copies(ws[p], d)
        BY <1>5, <3>1, <3>2, <3>4, CopyAdded
      <4> QED BY <1>7, <2>1, <4>1 DEF Ledger
    <3> QED BY <3>3, <3>4
  <2> QED BY <2>2, <2>3
<1> QED BY <1>4, <1>8 DEF Books, PostsOnce

(* The posts are spawned: the row's turn to post is over.                  *)
LEMMA ListWebhooksBooks ==
    ASSUME IInv, Turns, NamedOnce, Books, NEW k \in Txns, ListWebhooks(k)
    PROVE  Books'
<1>1. PICK e : e = Event(k)
  OBVIOUS
<1>2. /\ run[k].pc = "hooks" /\ run'[k].pc \in {"posting", "fanout"} /\ run'[k].at = run[k].at
      /\ run'[k].todo = run[k].todo /\ \A l \in Txns : l # k => run'[l] = run[l]
      /\ next' = next /\ processed' = processed /\ ws' = ws /\ hooks' = hooks /\ lost' = lost
  BY ListWebhooksDoes DEF ListWebhooks
<1>3. run[k].pc \in Busy /\ run'[k].pc \in Busy /\ run'[k].pc # "hooks"
  BY <1>2 DEF Busy
<1>4. \A i, p : /\ Sends(run'[k], i, p) => Sends(run[k], i, p)
                /\ Spawns(run'[k], i, p) => Spawns(run[k], i, p)
  BY <1>2, <1>3, VisitOwes
<1>5. CASE posts' = posts /\ Spend("faults")
  BY <1>2, <1>4, <1>5, BooksMove DEF netVars
<1>6. CASE posts' = posts \union {post \in PostOf(k) : Forwarded(run[k].src, post.platform)} /\ UNCHANGED budget
  <2>1. \A post \in posts' \ posts :
          /\ post = [txn |-> k, event |-> e, platform |-> post.platform] /\ post.event = e
          /\ \E row \in run[k].cur : row.platform = post.platform
    BY <1>1, <1>6 DEF PostOf
  <2>2. ASSUME NEW p, NEW row \in run[k].cur, row.platform = p
        PROVE  ToSpawn(e, p) /\ ~ToSpawn(e, p)'
    <3>1. ToSpawn(e, p)
      BY <1>1, <1>2, <1>3, <2>2, OwedOnce
    <3>2. OneRowEach(run[k].todo \cup run[k].cur) /\ run[k].todo \cap run[k].cur = {}
      BY <1>3 DEF Turns, OneTurn
    <3>3. ~\E r \in run'[k].todo : r.platform = p
      BY <1>2, <2>2, <3>2 DEF OneRowEach
    <3>4. ~ToSpawn(e, p)'
      BY <1>1, <1>2, <1>3, <3>3, OwedNext
    <3> QED BY <3>1, <3>4
  <2>3. \A d, p : (ToSend(d, p)' => ToSend(d, p)) /\ (ToSpawn(d, p)' => ToSpawn(d, p))
    BY <1>2, <1>4, OwedKept
  <2>4. e \in Events /\ \A row \in run[k].cur : row.platform \in Platforms
    BY <1>1, <1>3, OwedOnce, IndexFacts DEF Handler, Row
  <2>5. ASSUME NEW post \in posts' \ posts
        PROVE  ToSpawn(e, post.platform) /\ ~ToSpawn(e, post.platform)' /\ ~Underway(e, post.platform)
    <3>1. PICK row \in run[k].cur : row.platform = post.platform
      BY <2>1, <2>5
    <3>2. ToSpawn(e, post.platform) /\ ~ToSpawn(e, post.platform)'
      BY <2>2, <3>1
    <3> QED BY <2>4, <3>1, <3>2 DEF Books, Ledger
  <2>6. PostsOnce'
    <3> SUFFICES ASSUME NEW x \in posts', NEW y \in posts', x.event = y.event, x.platform = y.platform
                 PROVE  x = y
      BY DEF PostsOnce
    <3>1. CASE x \in posts /\ y \in posts
      BY <3>1 DEF Books, PostsOnce
    <3>2. CASE x \notin posts /\ y \notin posts
      BY <2>1, <3>2
    <3>3. CASE x \in posts /\ y \notin posts
      BY <2>1, <2>5, <3>3 DEF Underway
    <3>4. CASE x \notin posts /\ y \in posts
      BY <2>1, <2>5, <3>4 DEF Underway
    <3> QED BY <3>1, <3>2, <3>3, <3>4
  <2>7. ASSUME NEW d \in Events, NEW p \in Platforms
        PROVE  Ledger(d, p)'
    <3>1. Ledger(d, p) /\ Lives' = Lives
      BY <1>6 DEF Books, Lives
    <3>2. CASE \E post \in posts' \ posts : post.event = d /\ post.platform = p
      <4>1. d = e /\ ToSpawn(e, p) /\ ~ToSpawn(e, p)'
        BY <2>1, <2>5, <3>2
      <4> QED BY <1>2, <2>3, <3>1, <4>1 DEF Ledger
    <3>3. CASE ~\E post \in posts' \ posts : post.event = d /\ post.platform = p
      <4>1. Underway(d, p)' => Underway(d, p)
        BY <3>3 DEF Underway
      <4> QED BY <1>2, <2>3, <3>1, <4>1 DEF Ledger
    <3> QED BY <3>2, <3>3
  <2> QED BY <2>6, <2>7 DEF Books
<1> QED BY <1>5, <1>6, ListWebhooksDoes

(* A post ends: no other post of the event is under way to the platform.   *)
LEMMA PostEndsBooks ==
    ASSUME IInv, Books, NEW post \in posts, Accept(post) \/ Refuse(post)
    PROVE  Books'
<1>1. /\ next' = next /\ processed' = processed /\ run' = run /\ ws' = ws /\ posts' = posts \ {post}
      /\ hooks' = hooks \/ hooks' = [hooks EXCEPT ![post.platform] = Append(@, post.event)]
      /\ UNCHANGED budget \/ Spend("faults")
  BY DEF Accept, Refuse, bridgeVars
<1>2. Lives' = Lives
  BY <1>1, CrashesKept DEF Lives, IInv
<1>3. \A d, p : (ToSend(d, p)' <=> ToSend(d, p)) /\ (ToSpawn(d, p)' <=> ToSpawn(d, p))
  BY <1>1 DEF ToSend, ToSpawn, Unbegun, Remembered
<1>4. \A d, p : Underway(d, p)' => Underway(d, p)
  BY <1>1 DEF Underway
<1>5. ~Underway(post.event, post.platform)'
  BY <1>1 DEF Underway, Books, PostsOnce
<1>6. post.event \in Events
  BY DEF IInv, TypeOK, Post
<1>7. ASSUME NEW d \in Events, NEW p \in Platforms
      PROVE  Ledger(d, p)'
  <2>1. Ledger(d, p) /\ ws'[p] = ws[p]
    BY <1>1 DEF Books
  <2>2. CASE hooks'[p] = hooks[p]
    BY <1>2, <1>3, <1>4, <2>1, <2>2 DEF Ledger
  <2>3. CASE hooks'[p] # hooks[p]
    <3>1. p = post.platform /\ hooks'[p] = Append(hooks[p], post.event)
      BY <1>1, <2>3 DEF IInv, TypeOK
    <3>2. hooks[p] \in Seq(Events)
      BY FeedFacts DEF IInv
    <3>3. CASE d = post.event
      <4>1. Cardinality(Copies(hooks'[p], d)) = Cardinality(Copies(hooks[p], d)) + 1
        BY <1>6, <3>1, <3>2, <3>3, CopyAdded
      <4>2. Underway(d, p) /\ ~Underway(d, p)'
        BY <1>5, <3>1, <3>3 DEF Underway
      <4>3. Cardinality(Copies(hooks[p], d)) \in Nat /\ Lives \in Nat
        BY FeedFacts DEF IInv
      <4>4. Cardinality(Copies(hooks[p], d)) < Lives /\ ~ToSpawn(d, p)
        BY <2>1, <4>2 DEF Ledger
      <4>5. Cardinality(Copies(hooks'[p], d)) <= Lives
        BY <4>1, <4>3, <4>4
      <4> QED BY <1>2, <1>3, <2>1, <4>2, <4>4, <4>5 DEF Ledger
    <3>4. CASE d # post.event
      <4>1. Copies(hooks'[p], d) = Copies(hooks[p], d)
        BY <1>6, <3>1, <3>2, <3>4, CopyAdded
      <4> QED BY <1>2, <1>3, <1>4, <2>1, <4>1 DEF Ledger
    <3> QED BY <3>3, <3>4
  <2> QED BY <2>2, <2>3
<1> QED BY <1>1, <1>7 DEF Books, PostsOnce

(* A restart is one more life: every event may be sent once more.          *)
LEMMA CrashBooks == IInv /\ Books /\ Crash => Books'
<1> SUFFICES ASSUME IInv, Books, Crash
             PROVE  Books'
  OBVIOUS
<1>1. posts' = {} /\ ws' = ws /\ hooks' = hooks /\ budget' = [budget EXCEPT !.crashes = @ - 1]
  BY DEF Crash, Spend
<1>2. Lives \in Nat /\ Lives' = Lives + 1
  <2>1. /\ budget.crashes \in 0 .. MaxCrashes /\ MaxCrashes \in Nat
        /\ budget'.crashes = budget.crashes - 1
    BY <1>1, OutboundAssumption DEF IInv, TypeOK
  <2> QED BY <2>1 DEF Lives
<1>3. ASSUME NEW d \in Events, NEW p \in Platforms
      PROVE  Ledger(d, p)'
  <2>1. Cardinality(Copies(ws[p], d)) \in Nat /\ Cardinality(Copies(hooks[p], d)) \in Nat
    BY FeedFacts DEF IInv
  <2>2. Cardinality(Copies(ws[p], d)) <= Lives /\ Cardinality(Copies(hooks[p], d)) <= Lives
    BY DEF Books, Ledger
  <2>3. /\ Cardinality(Copies(ws'[p], d)) < Lives' /\ Cardinality(Copies(ws'[p], d)) <= Lives'
        /\ Cardinality(Copies(hooks'[p], d)) < Lives' /\ Cardinality(Copies(hooks'[p], d)) <= Lives'
    BY <1>1, <1>2, <2>1, <2>2
  <2>4. ~Underway(d, p)'
    BY <1>1 DEF Underway
  <2> QED BY <2>3, <2>4 DEF Ledger
<1> QED BY <1>1, <1>3 DEF Books, PostsOnce

(* A handler is dropped, or a transaction answered.                        *)
LEMMA GivenUpBooks ==
    ASSUME IInv, Books, UNCHANGED netVars, processed' = processed, next' = next \/ next' = next + 1,
           \A l \in Txns : run'[l] = run[l] \/ run'[l].pc = "idle", budget'.crashes = budget.crashes
    PROVE  Books'
<1>1. ASSUME NEW l \in Txns
      PROVE  /\ Unbegun(l)' => Unbegun(l)
             /\ \A i, p : (Sends(run'[l], i, p) => Sends(run[l], i, p)) /\ (Spawns(run'[l], i, p) => Spawns(run[l], i, p))
  <2>1. l \in Nat /\ next \in Nat
    BY TransactionFacts DEF IInv, TypeOK
  <2>2. Unbegun(l)' => Unbegun(l)
    BY <2>1 DEF Unbegun, Remembered
  <2> QED BY <2>2 DEF Sends, Spawns, Coming, Busy
<1>2. \A e, p : (ToSend(e, p)' => ToSend(e, p)) /\ (ToSpawn(e, p)' => ToSpawn(e, p))
  BY <1>1 DEF ToSend, ToSpawn
<1> QED BY <1>2, BooksQuiet

LEMMA ReceiveBooks ==
    ASSUME IInv, Turns, Books, NEW k \in Txns, Receive(k)
    PROVE  Books'
<1>1. /\ k = next /\ next' = next /\ ~Remembered(k) /\ processed' = Remember(k)
      /\ run' = [run EXCEPT ![k] = [Idle EXCEPT !.pc = "event", !.at = 1]]
      /\ UNCHANGED netVars /\ budget' = budget
  BY DEF Receive
<1>2. \A l \in Txns : l # k => run'[l] = run[l]
  BY <1>1 DEF IInv, TypeOK
<1>3. k \in Nat /\ \A l \in Txns : l \in Nat
  BY TransactionFacts
<1>4. Unbegun(k)
  BY <1>1, <1>3 DEF Unbegun
<1>5. ASSUME NEW l \in Txns, l # k, Unbegun(l)'
      PROVE  Unbegun(l)
  <2>1. l > next
    BY <1>1, <1>3, <1>5 DEF Unbegun
  <2>2. ~Remembered(l)
    BY <1>1, <1>3, <2>1 DEF Turns, Remembered
  <2> QED BY <1>1, <1>3, <2>1, <2>2 DEF Unbegun
<1>6. \A e, p : (ToSend(e, p)' => ToSend(e, p)) /\ (ToSpawn(e, p)' => ToSpawn(e, p))
  BY <1>2, <1>4, <1>5 DEF ToSend, ToSpawn
<1> QED BY <1>1, <1>6, BooksQuiet

LEMMA HandlerBooks ==
    ASSUME IInv, Turns, NamedOnce, Books, NEW k \in Txns, HandlerStep(k)
    PROVE  Books'
<1>1. CASE BeginEvent(k)
  BY <1>1, BeginEventBooks
<1>2. CASE \E row \in run[k].todo : PassOver(k, row) \/ Deliver(k, row)
  <2>1. PICK row \in run[k].todo : PassOver(k, row) \/ Deliver(k, row)
    BY <1>2
  <2>2. CASE PassOver(k, row)
    <3>1. next' = next /\ processed' = processed /\ UNCHANGED netVars /\ UNCHANGED budget
      BY <2>2 DEF PassOver
    <3>2. /\ run[k].pc \in Busy /\ run'[k].pc \in Busy /\ run'[k].pc # "hooks" /\ run'[k].at = run[k].at
          /\ run'[k].todo \subseteq run[k].todo /\ \A l \in Txns : l # k => run'[l] = run[l]
      BY <2>2, PassOverDoes DEF Busy
    <3> QED BY <3>1, <3>2, VisitOwes, BooksMove
  <2> QED BY <2>1, <2>2, DeliverBooks
<1>3. CASE ListWebhooks(k)
  BY <1>3, ListWebhooksBooks
<1>4. CASE Posted(k)
  <2>1. next' = next /\ processed' = processed /\ UNCHANGED netVars /\ UNCHANGED budget
    BY <1>4 DEF Posted
  <2>2. /\ run[k].pc \in Busy /\ run'[k].pc \in Busy /\ run'[k].pc # "hooks" /\ run'[k].at = run[k].at
        /\ run'[k].todo \subseteq run[k].todo /\ \A l \in Txns : l # k => run'[l] = run[l]
    BY <1>4, PostedDoes DEF Busy, AfterDelivery
  <2> QED BY <2>1, <2>2, VisitOwes, BooksMove
<1>5. CASE Record(k)
  <2>1. next' = next /\ processed' = processed /\ UNCHANGED netVars /\ run[k].pc = "record"
        /\ (UNCHANGED budget \/ Spend("faults"))
    BY <1>5 DEF Record
  <2>2. CASE NextEvent(k)
    BY <2>1, <2>2, NextEventBooks
  <2>3. CASE ~NextEvent(k)
    <3>1. /\ run[k].pc \in Busy /\ run'[k].pc \in Busy /\ run'[k].pc # "hooks" /\ run'[k].at = run[k].at
          /\ run'[k].todo \subseteq run[k].todo /\ \A l \in Txns : l # k => run'[l] = run[l]
      BY <1>5, <2>1, <2>3, RecordDoes DEF Busy
    <3> QED BY <2>1, <3>1, VisitOwes, BooksMove
  <2> QED BY <2>2, <2>3
<1>6. CASE EndEvent(k)
  BY <1>6, NextEventBooks DEF EndEvent
<1>7. CASE EndTransaction(k)
  <2>1. /\ run' = [run EXCEPT ![k] = Idle] /\ UNCHANGED netVars /\ processed' = processed
        /\ budget' = budget /\ (next' = next \/ next' = next + 1)
    BY <1>7 DEF EndTransaction
  <2>2. run'[k] = Idle /\ \A l \in Txns : l # k => run'[l] = run[l]
    BY <2>1, RunExcept DEF IInv
  <2> QED BY <2>1, <2>2, IdleFacts, GivenUpBooks
<1> QED BY <1>1, <1>2, <1>3, <1>4, <1>5, <1>6, <1>7 DEF HandlerStep

LEMMA InitBooks == Init /\ IInv => Books
<1> SUFFICES ASSUME Init, IInv
             PROVE  Books
  OBVIOUS
<1>1. /\ posts = {} /\ Lives = 1
      /\ \A p \in Platforms, e \in Events : Copies(ws[p], e) = {} /\ Copies(hooks[p], e) = {}
  BY OutboundAssumption DEF Init, Lives, Copies
<1>2. Cardinality({}) = 0
  BY FS_EmptySet
<1> QED BY <1>1, <1>2 DEF Books, PostsOnce, Ledger, Underway

Once == NamedOnce => Books

LEMMA StepOnce == IInv /\ IInv' /\ Turns /\ Once /\ [Next]_vars => Once'
<1> SUFFICES ASSUME IInv, IInv', Turns, Books, NamedOnce, [Next]_vars
             PROVE  Books'
  BY DEF Once
<1>1. ASSUME NEW k \in Txns, Receive(k)
      PROVE  Books'
  BY <1>1, ReceiveBooks
<1>2. ASSUME NEW k \in Txns, AnswerDuplicate(k)
      PROVE  Books'
  BY <1>2, GivenUpBooks DEF AnswerDuplicate, bridgeVars
<1>3. ASSUME NEW k \in Txns, Break(k)
      PROVE  Books'
  <2>1. /\ run' \in {run, [run EXCEPT ![k] = Idle]} /\ UNCHANGED netVars
        /\ processed' = processed /\ next' = next /\ Spend("breaks")
    BY <1>3 DEF Break
  <2>2. \A l \in Txns : run'[l] = run[l] \/ run'[l] = Idle
    BY <2>1, RunExcept DEF IInv
  <2>3. budget'.crashes = budget.crashes
    BY <2>1, CrashesKept DEF IInv
  <2> QED BY <2>1, <2>2, <2>3, IdleFacts, GivenUpBooks
<1>4. ASSUME NEW k \in Txns, HandlerStep(k)
      PROVE  Books'
  BY <1>4, HandlerBooks
<1>5. ASSUME NEW post \in posts, Accept(post) \/ Refuse(post)
      PROVE  Books'
  BY <1>5, PostEndsBooks
<1>6. CASE \E e \in Events : RecordInbound(e)
  BY <1>6, GivenUpBooks DEF RecordInbound, bridgeVars
<1>7. CASE \E i \in DOMAIN rooms : Unlink(i)
  <2>1. UNCHANGED netVars /\ processed' = processed /\ next' = next /\ run' = run /\ Spend("unlinks")
    BY <1>7 DEF Unlink, bridgeVars
  <2>2. budget'.crashes = budget.crashes
    BY <2>1, CrashesKept DEF IInv
  <2> QED BY <2>1, <2>2, GivenUpBooks
<1>8. CASE Crash
  BY <1>8, CrashBooks
<1>9. CASE UNCHANGED vars
  BY <1>9, GivenUpBooks DEF vars, bridgeVars
<1> QED BY <1>1, <1>2, <1>3, <1>4, <1>5, <1>6, <1>7, <1>8, <1>9 DEF Next

(* Of a script that names an event once, a platform is sent an event at    *)
(* most once in each life of the bridge: broken connections, repeated      *)
(* transactions and refused posts never make it twice.                     *)
THEOREM SentOncePerLife == Spec => [](NamedOnce => OncePerLife)
<1>1. Init /\ IInv => Turns /\ Once
  BY InitTurns, InitBooks DEF Once
<1>2. IInv /\ IInv' /\ Turns /\ Once /\ [Next]_vars => (Turns /\ Once)'
  BY StepTurns, StepOnce
<1>3. Turns /\ Once => (NamedOnce => OncePerLife)
  BY DEF Once, Books, Ledger, Copies, Lives, OncePerLife
<1> QED BY <1>1, <1>2, <1>3, Invariance, PTL DEF Spec

-----------------------------------------------------------------------------
(* The homeserver's order.  As long as nothing was disturbed there is one  *)
(* handler at most, and what it has passed is settled: the platform has    *)
(* had it, or will never have it, whatever is replayed after a restart.    *)

(* A follow-up that does not end its transaction is about what a person    *)
(* wrote, and not about what is still to come.                             *)
SteadyScript ==
    /\ NamedOnce
    /\ \A k \in Txns : \A i \in DOMAIN Transactions[k] : \A f \in Events :
         f = Transactions[k][i] /\ i < Len(Transactions[k]) /\ ~IsMessage(f)
           => Author[Target[f]] = Human /\ ~Before(f, Target[f])

(* The event is in a transaction that has not been answered.               *)
Pending(e) == \E k \in Txns : k >= next /\ \E i \in DOMAIN Transactions[k] : Transactions[k][i] = e

SourceOf(e) == IF IsMessage(e) THEN Author[e] ELSE ByPrefix(Author[e])

(* The event is not meant for platform p.                                  *)
Mute(e, p) ==
    \/ IsMessage(e) /\ Author[e] = p
    \/ ~Relay /\ SourceOf(e) # Human
    \/ ~Forwarded(SourceOf(e), p)

Recorded(e, p) == \E r \in msgs : r.event = e /\ r.platform = p

(* A link before p's has the message on record already: the INSERT fails   *)
(* there and ends the event before it comes to p.                          *)
Blocked(e, p) == \E i, j \in DOMAIN rooms, q \in Platforms :
    /\ rooms[i].platform = p /\ j < i
    /\ rooms[j].platform = q /\ q # Author[e] /\ Recorded(e, q)

(* Of the rows a handler has before it, none blocks the way to this one.   *)
Clear(rows, row, e) ==
    \A r \in rows : r.id < row.id /\ r.platform # Author[e] => ~Recorded(e, r.platform)

Leads(rows, e, p) == \E row \in rows : row.platform = p /\ Clear(rows, row, e)

(* A handler is on its way to p with message e.                            *)
InHand(e, p) == \E k \in Txns, h \in Handler :
    /\ h = run[k] /\ h.pc \in Busy /\ Transactions[k][h.at] = e
    /\ IsMessage(e) /\ Leads(h.todo \cup h.cur, e, p)

Stuck(e, p) == Blocked(e, p) /\ ~InHand(e, p)

(* Platform p will never be found when the rows of t are looked up.        *)
NoWay(t, p) ==
    /\ ~Recorded(t, p) /\ Author[t] = Human
    /\ ~Pending(t) \/ ~IsMessage(t) \/ Stuck(t, p)

(* Platform p will not be sent event e any more.                           *)
Closed(e, p) ==
    \/ ~Pending(e)
    \/ Mute(e, p)
    \/ IsMessage(e) /\ Stuck(e, p)
    \/ ~IsMessage(e) /\ NoWay(Target[e], p)

Heard(e, p) == (\E i \in DOMAIN ws[p] : ws[p][i] = e) /\ (\E i \in DOMAIN hooks[p] : hooks[p][i] = e)

Given(e, p) == Mute(e, p) \/ Heard(e, p)

(* Whatever comes before an event of the feed is in it by then, or will    *)
(* never be.                                                               *)
Complete(feed, closed) == \A j \in DOMAIN feed, d \in Events :
    Before(d, feed[j]) => (\E h \in 1 .. j : feed[h] = d) \/ d \in closed

ClosedTo(p) == {d \in Events : Closed(d, p)}

FeedsComplete == \A p \in Platforms :
    /\ FirstsInOrder(ws[p]) /\ Complete(ws[p], ClosedTo(p))
    /\ FirstsInOrder(hooks[p]) /\ Complete(hooks[p], ClosedTo(p))

Visited(h, p) == \A row \in h.todo \cup h.cur : row.platform # p

(* What a handler h of transaction k knows while it is at event e.         *)
AtMessage(h, e) ==
    /\ h.todo \cup h.cur \subseteq LinkedRows
    /\ \A c \in h.cur, r \in h.todo : c.id < r.id
    /\ \A row \in h.cur : row.platform # Author[e]
    /\ \A p \in Platforms : Visited(h, p) => Given(e, p) /\ (Recorded(e, p) \/ Author[e] = p)

AtFollowUp(k, h, e) ==
    /\ \A row \in h.todo \cup h.cur : Recorded(Target[e], row.platform)
    /\ h.at < Len(Transactions[k]) => \A p \in Platforms : Visited(h, p) => Given(e, p) \/ Closed(e, p)

AtRow(k, h, e, row) ==
    /\ Mute(e, row.platform) \/ \E i \in DOMAIN ws[row.platform] : ws[row.platform][i] = e
    /\ h.pc = "posting" => \/ Given(e, row.platform)
                           \/ [txn |-> k, event |-> e, platform |-> row.platform] \in posts
    /\ h.pc = "record" => Given(e, row.platform)

AtHand(k, h, e) ==
    /\ h.src = SourceOf(e)
    /\ h.pc = "fanout" => h.cur = {}
    /\ h.pc \in {"hooks", "posting"} => Relay \/ h.src = Human
    /\ \A c, d \in h.cur : c = d
    /\ IsMessage(e) => AtMessage(h, e)
    /\ ~IsMessage(e) => AtFollowUp(k, h, e)
    /\ \A row \in h.cur : AtRow(k, h, e, row)

(* The event d has been passed; the last one of a transaction comes before *)
(* nothing else in it.                                                     *)
Passed(d, p) == Given(d, p) \/ Closed(d, p)

Tried(d, p) == IsMessage(d) => Recorded(d, p) \/ Author[d] = p \/ Blocked(d, p)

PassedAll(k, at) == \A i \in DOMAIN Transactions[k], p \in Platforms : i < at =>
    /\ i # Len(Transactions[k]) => Passed(Transactions[k][i], p)
    /\ Tried(Transactions[k][i], p)

OnlyOne(k) == \A h \in Handler : h = run[k] /\ h.pc # "idle" =>
    /\ k = next /\ waiting
    /\ PassedAll(k, h.at)
    /\ \A e \in Events : h.pc \in Busy /\ e = Transactions[k][h.at] => AtHand(k, h, e)

PostsAwaited == \A post \in posts, h \in Handler : h = run[post.txn] =>
    /\ h.pc = "posting" /\ post.event = Transactions[post.txn][h.at] /\ ~Mute(post.event, post.platform)
    /\ \E row \in h.cur : row.platform = post.platform

RowsNamed == \A r \in msgs : r.external \in Events => r.external = r.event

AllLinked == \A p \in Platforms : \E i \in DOMAIN rooms : rooms[i].platform = p

Settled ==
    /\ FeedsComplete /\ PostsAwaited /\ RowsNamed /\ AllLinked
    /\ \A k \in Txns : OnlyOne(k)

InTurn == SteadyScript /\ Undisturbed => Settled

-----------------------------------------------------------------------------
(* What is settled stays so.                                               *)

(* A step that keeps the links, and what is on record, closed or given.    *)
Grows ==
    /\ rooms' = rooms
    /\ \A p \in Platforms : \A e \in Events : Recorded(e, p) => Recorded(e, p)'
    /\ \A p \in Platforms : \A e \in Events : Closed(e, p) => Closed(e, p)'
    /\ \A p \in Platforms : \A e \in Events : Given(e, p) => Given(e, p)'

LEMMA MuteSame == \A e, p : Mute(e, p)' <=> Mute(e, p)
BY DEF Mute, SourceOf, ByPrefix, Forwarded, IsMessage

LEMMA BlockedKept ==
    ASSUME rooms' = rooms, NEW e, NEW i, \A p \in Platforms : Recorded(e, p) => Recorded(e, p)', Blocked(e, i)
    PROVE  Blocked(e, i)'
BY DEF Blocked

LEMMA ClosedKept ==
    ASSUME NEW p, NEW e \in Events, \A x \in Events : Pending(x)' => Pending(x),
           \A x \in Events : Stuck(x, p) => Stuck(x, p)',
           \A x \in Events : NoWay(x, p) => ~Recorded(x, p)',
           Closed(e, p)
    PROVE  Closed(e, p)'
<1>1. Target[e] \in Events
  BY OutboundAssumption
<1>2. NoWay(Target[e], p) => NoWay(Target[e], p)'
  BY <1>1 DEF NoWay, IsMessage
<1>3. Mute(e, p) => Mute(e, p)'
  BY MuteSame
<1>4. IsMessage(e)' <=> IsMessage(e)
  BY DEF IsMessage
<1> QED BY <1>2, <1>3, <1>4 DEF Closed

LEMMA GrowsWhen ==
    ASSUME rooms' = rooms, \A x \in Events : Pending(x)' => Pending(x),
           \A p \in Platforms, x \in Events : Recorded(x, p) => Recorded(x, p)',
           \A p \in Platforms, x \in Events : Stuck(x, p) => ~InHand(x, p)',
           \A p \in Platforms, x \in Events : NoWay(x, p) => ~Recorded(x, p)',
           \A p \in Platforms : \A i \in DOMAIN ws[p] : i \in DOMAIN ws'[p] /\ ws'[p][i] = ws[p][i],
           \A p \in Platforms : \A i \in DOMAIN hooks[p] : i \in DOMAIN hooks'[p] /\ hooks'[p][i] = hooks[p][i]
    PROVE  Grows
<1>1. \A p \in Platforms, x \in Events : Stuck(x, p) => Stuck(x, p)'
  BY BlockedKept DEF Stuck
<1>2. \A p \in Platforms, e \in Events : Closed(e, p) => Closed(e, p)'
  BY <1>1, ClosedKept
<1>3. \A p \in Platforms, e \in Events : Given(e, p) => Given(e, p)'
  BY MuteSame DEF Given, Heard
<1> QED BY <1>2, <1>3 DEF Grows

LEMMA PassedKept ==
    ASSUME Grows, NEW d \in Events, NEW p \in Platforms
    PROVE  (Passed(d, p) => Passed(d, p)') /\ (Tried(d, p) => Tried(d, p)')
<1>1. Blocked(d, p) => Blocked(d, p)'
  BY BlockedKept DEF Grows
<1> QED BY <1>1 DEF Passed, Tried, Grows, IsMessage

LEMMA PassedAllKept ==
    ASSUME Grows, NEW k \in Txns, NEW at, PassedAll(k, at)
    PROVE  PassedAll(k, at)'
<1>1. \A i \in DOMAIN Transactions[k] : Transactions[k][i] \in Events
  BY TransactionFacts
<1> QED BY <1>1, PassedKept DEF PassedAll

LEMMA FeedsStay ==
    ASSUME Grows, FeedsComplete, UNCHANGED <<ws, hooks>>
    PROVE  FeedsComplete'
<1>1. \A p \in Platforms : \A d \in ClosedTo(p) : d \in ClosedTo(p)'
  BY DEF ClosedTo, Grows
<1> QED BY <1>1 DEF FeedsComplete, Complete, FirstsInOrder

(* What a handler knows of the event it is at outlives a step that grows.  *)
LEMMA AtEventKept ==
    ASSUME Grows, NEW k \in Txns, NEW h \in Handler, NEW e \in Events
    PROVE  /\ AtMessage(h, e) => AtMessage(h, e)'
           /\ AtFollowUp(k, h, e) => AtFollowUp(k, h, e)'
<1>1. AtMessage(h, e) => AtMessage(h, e)'
  BY DEF AtMessage, Grows, LinkedRows, Visited
<1>2. Target[e] \in Events /\ \A row \in h.todo \cup h.cur : row.platform \in Platforms
  BY OutboundAssumption DEF Handler, Row
<1>3. AtFollowUp(k, h, e) => AtFollowUp(k, h, e)'
  BY <1>2 DEF AtFollowUp, Grows, Visited
<1> QED BY <1>1, <1>3

LEMMA AtHandKept ==
    ASSUME IInv, Grows, NEW k \in Txns, NEW h \in Handler, NEW e \in Events, AtHand(k, h, e),
           posts \subseteq posts', UNCHANGED ws
    PROVE  AtHand(k, h, e)'
<1>1. ASSUME NEW row \in h.cur, AtRow(k, h, e, row)
      PROVE  AtRow(k, h, e, row)'
  <2>1. row.platform \in Platforms
    BY DEF Handler, Row
  <2> QED BY <1>1, <2>1, MuteSame DEF AtRow, Grows
<1> QED BY <1>1, AtEventKept DEF AtHand, SourceOf, ByPrefix, IsMessage

-----------------------------------------------------------------------------
(* One more event in a feed.                                               *)
LEMMA Appended ==
    ASSUME NEW feed \in Seq(Events), NEW e \in Events, NEW closed, NEW more, more = Append(feed, e),
           FirstsInOrder(feed), Complete(feed, closed), e \notin closed,
           \A d \in Events : Before(d, e) => (\E h \in DOMAIN feed : feed[h] = d) \/ d \in closed
    PROVE  FirstsInOrder(more) /\ Complete(more, closed)
<1>1. PICK n \in Nat : n = Len(feed)
  OBVIOUS
<1>2. /\ DOMAIN feed = 1 .. n /\ DOMAIN more = 1 .. n + 1 /\ more[n + 1] = e
      /\ \A i \in 1 .. n : more[i] = feed[i] /\ feed[i] \in Events
  BY <1>1
<1>3. ASSUME NEW i \in DOMAIN more, NEW j \in DOMAIN more, i < j, Before(more[j], more[i])
      PROVE  \E h \in 1 .. i : more[h] = more[j]
  <2>1. i \in 1 .. n /\ more[i] = feed[i]
    BY <1>2, <1>3
  <2>2. CASE j = n + 1
    <3>1. more[j] = e
      BY <1>2, <2>2
    <3>2. \E h \in 1 .. i : feed[h] = e
      BY <1>2, <1>3, <2>1, <3>1 DEF Complete
    <3> QED BY <1>1, <1>2, <2>1, <3>1, <3>2
  <2>3. CASE j # n + 1
    <3>1. j \in 1 .. n /\ more[j] = feed[j]
      BY <1>2, <2>3
    <3>2. \E h \in 1 .. i : feed[h] = feed[j]
      BY <1>2, <1>3, <2>1, <3>1 DEF FirstsInOrder
    <3> QED BY <1>1, <1>2, <2>1, <3>1, <3>2
  <2> QED BY <2>2, <2>3
<1>4. ASSUME NEW j \in DOMAIN more, NEW d \in Events, Before(d, more[j]), d \notin closed
      PROVE  \E h \in 1 .. j : more[h] = d
  <2>1. CASE j = n + 1
    BY <1>2, <1>4, <2>1
  <2>2. CASE j # n + 1
    <3>1. j \in 1 .. n /\ more[j] = feed[j]
      BY <1>2, <2>2
    <3>2. \E h \in 1 .. j : feed[h] = d
      BY <1>2, <1>4, <3>1 DEF Complete
    <3> QED BY <1>1, <1>2, <3>1, <3>2
  <2> QED BY <2>1, <2>2
<1> QED BY <1>3, <1>4 DEF FirstsInOrder, Complete

-----------------------------------------------------------------------------
(* The one handler at work.                                                *)

LEMMA OnlyHandler ==
    ASSUME IInv, Settled, NEW k \in Txns, run[k].pc # "idle"
    PROVE  /\ k = next /\ waiting /\ run[k] \in Handler /\ PassedAll(k, run[k].at)
           /\ \A l \in Txns : l # k => run[l].pc = "idle"
           /\ \A post \in posts : post.txn = k
           /\ run[k].pc # "posting" => posts = {}
<1>1. \A l \in Txns : run[l] \in Handler
  BY DEF IInv, TypeOK
<1>2. \A l \in Txns : run[l].pc # "idle" => l = next /\ waiting /\ PassedAll(l, run[l].at)
  BY <1>1 DEF Settled, OnlyOne
<1>3. \A post \in posts : post.txn \in Txns /\ run[post.txn].pc = "posting"
  BY <1>1 DEF Settled, PostsAwaited, IInv, TypeOK, Post
<1> QED BY <1>1, <1>2, <1>3

LEMMA NobodyAtWork ==
    ASSUME IInv, Settled, ~waiting
    PROVE  posts = {} /\ \A l \in Txns : run[l].pc = "idle"
<1>1. \A l \in Txns : run[l] \in Handler
  BY DEF IInv, TypeOK
<1>2. \A l \in Txns : run[l].pc = "idle"
  BY <1>1 DEF Settled, OnlyOne
<1>3. \A post \in posts : post.txn \in Txns /\ run[post.txn].pc = "posting"
  BY <1>1 DEF Settled, PostsAwaited, IInv, TypeOK, Post
<1> QED BY <1>2, <1>3

LEMMA HandFacts ==
    ASSUME IInv, Settled, NEW k \in Txns, run[k].pc \in Busy, NEW e, e = Event(k)
    PROVE  /\ e \in Events /\ e = Transactions[k][run[k].at] /\ AtHand(k, run[k], e)
           /\ run[k].at \in DOMAIN Transactions[k] /\ run[k].at <= Len(Transactions[k])
           /\ Pending(e) /\ run[k].pc # "idle" /\ k = next
<1>1. run[k] \in Handler /\ e \in Events /\ e = Transactions[k][run[k].at]
  BY AtRun
<1>2. run[k].pc # "idle"
  BY DEF Busy
<1>3. AtHand(k, run[k], e)
  BY <1>1, <1>2 DEF Settled, OnlyOne
<1>4. run[k].at \in Nat /\ run[k].at >= 1 /\ run[k].at <= Len(Transactions[k])
  BY <1>1, AtRun DEF Handler, Orderly, Busy
<1>5. run[k].at \in DOMAIN Transactions[k]
  BY <1>4, TransactionFacts
<1>6. k = next /\ k \in Nat
  BY <1>2, OnlyHandler, TransactionFacts
<1>7. Pending(e)
  BY <1>1, <1>5, <1>6 DEF Pending
<1> QED BY <1>1, <1>2, <1>3, <1>4, <1>5, <1>6, <1>7

(* Whatever comes before the event at hand has been given to the platforms *)
(* or will not be.                                                         *)
LEMMA BeforeThis ==
    ASSUME IInv, Settled, SteadyScript, NEW k \in Txns, run[k].pc \in Busy, NEW e, e = Event(k),
           NEW d \in Events, Before(d, e), NEW p \in Platforms
    PROVE  Given(d, p) \/ Closed(d, p)
<1>1. /\ e = Transactions[k][run[k].at] /\ run[k].at \in DOMAIN Transactions[k]
      /\ run[k].at <= Len(Transactions[k]) /\ run[k].pc # "idle" /\ k = next
  BY HandFacts
<1>0. PICK l, m \in Txns : \E i \in DOMAIN Transactions[l], j \in DOMAIN Transactions[m] :
        /\ Transactions[l][i] = d /\ Transactions[m][j] = e
        /\ l < m \/ (l = m /\ i < j)
  BY DEF Before
<1>2. PICK i \in DOMAIN Transactions[l], j \in DOMAIN Transactions[m] :
        /\ Transactions[l][i] = d /\ Transactions[m][j] = e
        /\ l < m \/ (l = m /\ i < j)
  BY <1>0
<1>3. m = k /\ j = run[k].at
  BY <1>1, <1>2 DEF SteadyScript, NamedOnce
<1>4. CASE l < k
  <2>1. l \in Nat /\ k \in Nat
    BY TransactionFacts
  <2>2. ~Pending(d)
    <3> SUFFICES ASSUME NEW n \in Txns, n >= next, NEW g \in DOMAIN Transactions[n], Transactions[n][g] = d
                 PROVE  FALSE
      BY DEF Pending
    <3>1. n = l
      BY <1>2 DEF SteadyScript, NamedOnce
    <3> QED BY <1>1, <1>4, <2>1, <3>1
  <2> QED BY <2>2 DEF Closed
<1>5. CASE l = k /\ i < run[k].at
  <2>1. i # Len(Transactions[k])
    <3>1. i \in Nat /\ run[k].at \in Nat /\ Len(Transactions[k]) \in Nat
      BY <1>1, <1>5, TransactionFacts
    <3> QED BY <1>1, <1>5, <3>1
  <2>2. i # Len(Transactions[k]) => Passed(d, p)
    BY <1>1, <1>2, <1>5, OnlyHandler DEF PassedAll
  <2> QED BY <2>1, <2>2 DEF Passed
<1> QED BY <1>2, <1>3, <1>4, <1>5

(* On the way to a platform the event is not closed to it.                 *)
LEMMA OpenInHand ==
    ASSUME IInv, Settled, NEW k \in Txns, run[k].pc \in Busy, NEW e, e = Event(k),
           NEW p, ~Mute(e, p), NEW row \in run[k].todo \cup run[k].cur, row.platform = p,
           IsMessage(e) => Clear(run[k].todo \cup run[k].cur, row, e)
    PROVE  ~Closed(e, p)
<1>1. /\ e \in Events /\ e = Transactions[k][run[k].at] /\ AtHand(k, run[k], e) /\ Pending(e)
      /\ run[k] \in Handler
  BY HandFacts, AtRun
<1>2. CASE IsMessage(e)
  <2>1. InHand(e, p)
    BY <1>1, <1>2 DEF InHand, Leads
  <2> QED BY <1>1, <1>2, <2>1 DEF Closed, Stuck
<1>3. CASE ~IsMessage(e)
  <2>1. Recorded(Target[e], p)
    BY <1>1, <1>3 DEF AtHand, AtFollowUp
  <2> QED BY <1>1, <1>3, <2>1 DEF Closed, NoWay
<1> QED BY <1>2, <1>3

(* The row that is delivered to is the first one that is left.             *)
LEMMA CurClear ==
    ASSUME IInv, Settled, NEW k \in Txns, run[k].pc \in Busy, NEW e, e = Event(k), IsMessage(e),
           NEW row \in run[k].cur
    PROVE  Clear(run[k].todo \cup run[k].cur, row, e)
<1>1. AtHand(k, run[k], e) /\ run[k] \in Handler
  BY HandFacts, AtRun
<1>2. /\ \A c, d \in run[k].cur : c = d
      /\ \A c \in run[k].cur, r \in run[k].todo : c.id < r.id
  BY <1>1 DEF AtHand, AtMessage
<1>3. \A r \in run[k].todo \cup run[k].cur : r.id \in Nat
  BY <1>1 DEF Handler, Row
<1>4. ASSUME NEW r \in run[k].todo \cup run[k].cur, r.id < row.id
      PROVE  FALSE
  <2>1. r \in run[k].todo => row.id < r.id
    BY <1>2
  <2>2. r \in run[k].cur => r = row
    BY <1>2
  <2> QED BY <1>3, <1>4, <2>1, <2>2
<1> QED BY <1>4 DEF Clear

(* A handler goes on, or is dropped: what blocked it still does.           *)
LEMMA HandShrinks ==
    ASSUME IInv, IInv', \A p \in Platforms, x \in Events : Recorded(x, p) => Recorded(x, p)',
           \A l \in Txns : \/ run'[l].pc \notin Busy \/ run'[l] = run[l]
                           \/ /\ run[l].pc \in Busy /\ run'[l].at = run[l].at
                              /\ run'[l].todo \cup run'[l].cur \subseteq run[l].todo \cup run[l].cur
                              /\ \A e \in Events, r \in run[l].todo \cup run[l].cur :
                                   e = Event(l) /\ IsMessage(e) /\ r \notin run'[l].todo \cup run'[l].cur
                                     => r.platform = Author[e]
    PROVE  \A p \in Platforms, x \in Events : InHand(x, p)' => InHand(x, p)
<1> SUFFICES ASSUME NEW p \in Platforms, NEW x \in Events, InHand(x, p)'
             PROVE  InHand(x, p)
  OBVIOUS
<1>1. PICK l \in Txns, h \in Handler :
        /\ h = run'[l] /\ h.pc \in Busy /\ Transactions[l][h.at] = x
        /\ IsMessage(x) /\ Leads(h.todo \cup h.cur, x, p)'
  BY DEF InHand, IsMessage
<1>2. PICK row \in h.todo \cup h.cur : row.platform = p /\ Clear(h.todo \cup h.cur, row, x)'
  BY <1>1 DEF Leads
<1>3. \A r \in h.todo \cup h.cur : r.id < row.id /\ r.platform # Author[x] => ~Recorded(x, r.platform)
  <2>1. \A r \in h.todo \cup h.cur : r.platform \in Platforms
    BY DEF Handler, Row
  <2> QED BY <1>2, <2>1 DEF Clear
<1>4. PICK g : g = run[l]
  OBVIOUS
<1>5. g \in Handler
  BY <1>4, AtRun
<1>6. /\ g.pc \in Busy /\ g.at = h.at /\ h.todo \cup h.cur \subseteq g.todo \cup g.cur
      /\ \A r \in g.todo \cup g.cur : r \notin h.todo \cup h.cur => r.platform = Author[x]
  <2>1. CASE h = g
    BY <1>1, <2>1
  <2>2. CASE h # g
    <3>1. /\ g.pc \in Busy /\ g.at = h.at /\ h.todo \cup h.cur \subseteq g.todo \cup g.cur
          /\ \A e \in Events, r \in g.todo \cup g.cur :
               e = Event(l) /\ IsMessage(e) /\ r \notin h.todo \cup h.cur => r.platform = Author[e]
      BY <1>1, <1>4, <2>2
    <3>2. x = Event(l)
      BY <1>1, <1>4, <3>1, AtRun
    <3> QED BY <1>1, <3>1, <3>2
  <2> QED BY <2>1, <2>2
<1>7. Leads(g.todo \cup g.cur, x, p)
  BY <1>2, <1>3, <1>6 DEF Leads, Clear
<1> QED BY <1>1, <1>4, <1>5, <1>6, <1>7 DEF InHand

-----------------------------------------------------------------------------
(* Steps.                                                                  *)

(* The handler goes on.                                                    *)
LEMMA GoesOn ==
    ASSUME IInv, IInv', Settled, Grows, NEW k \in Txns, run[k].pc # "idle",
           \A l \in Txns : l # k => run'[l] = run[l], next' = next, waiting' = waiting,
           FeedsComplete', PostsAwaited', RowsNamed',
           NEW h \in Handler, h = run'[k], PassedAll(k, h.at)',
           \A e \in Events : h.pc \in Busy /\ e = Transactions[k][h.at] => AtHand(k, h, e)'
    PROVE  Settled'
<1>1. k = next /\ waiting /\ \A l \in Txns : l # k => run[l].pc = "idle"
  BY OnlyHandler
<1>2. AllLinked'
  BY DEF Settled, AllLinked, Grows
<1>3. OnlyOne(k)'
  BY <1>1 DEF OnlyOne
<1>4. \A l \in Txns : l # k => OnlyOne(l)'
  BY <1>1 DEF OnlyOne
<1> QED BY <1>2, <1>3, <1>4 DEF Settled

(* It stays at the event.                                                  *)
LEMMA StaysAtEvent ==
    ASSUME IInv, IInv', Settled, Grows, NEW k \in Txns, run[k].pc \in Busy, NEW e, e = Event(k),
           \A l \in Txns : l # k => run'[l] = run[l], next' = next, waiting' = waiting,
           FeedsComplete', PostsAwaited', RowsNamed',
           NEW h \in Handler, h = run'[k], h.at = run[k].at, AtHand(k, h, e)'
    PROVE  Settled'
<1>1. e = Transactions[k][h.at] /\ run[k].pc # "idle"
  BY HandFacts
<1>2. PassedAll(k, h.at)'
  BY <1>1, OnlyHandler, PassedAllKept
<1> QED BY <1>1, <1>2, GoesOn

(* It goes on with the next one.                                           *)
LEMMA LeavesEvent ==
    ASSUME IInv, IInv', Settled, Grows, NEW k \in Txns, run[k].pc \in Busy, run[k].pc # "posting",
           NEW e, e = Event(k), NextEvent(k), next' = next, waiting' = waiting,
           UNCHANGED <<ws, hooks, posts>>, RowsNamed',
           NEW n, n = run[k].at,
           \A p \in Platforms : (n # Len(Transactions[k]) => Passed(e, p)') /\ Tried(e, p)'
    PROVE  Settled'
<1>1. /\ e = Transactions[k][n] /\ run[k].pc # "idle" /\ run[k].at \in DOMAIN Transactions[k]
      /\ n \in Nat
  BY HandFacts, AtRun DEF Handler
<1>0. PICK m \in Nat : m = n + 1
  BY <1>1
<1>2. PICK h : h = [Idle EXCEPT !.pc = "event", !.at = m]
  OBVIOUS
<1>3. h.pc = "event" /\ h.at = n + 1 /\ h \in Handler
  BY <1>0, <1>2 DEF Idle, Handler, Sources
<1>4. run' = [run EXCEPT ![k] = h]
  BY <1>0, <1>2 DEF NextEvent
<1>5. h = run'[k] /\ \A l \in Txns : l # k => run'[l] = run[l]
  BY <1>4, RunExcept DEF IInv
<1>6. PassedAll(k, n)'
  BY <1>1, OnlyHandler, PassedAllKept
<1>7. PassedAll(k, h.at)'
  <2> SUFFICES ASSUME NEW i \in DOMAIN Transactions[k], NEW p \in Platforms, i < n + 1
               PROVE  /\ i # Len(Transactions[k]) => Passed(Transactions[k][i], p)'
                      /\ Tried(Transactions[k][i], p)'
    BY <1>3 DEF PassedAll
  <2>1. CASE i = n
    BY <1>1, <2>1
  <2>2. CASE i # n
    <3>1. i \in Nat
      BY TransactionFacts
    <3>2. i < n
      BY <1>1, <2>2, <3>1
    <3> QED BY <1>6, <3>2 DEF PassedAll
  <2> QED BY <2>1, <2>2
<1>8. posts = {}
  BY <1>1, OnlyHandler
<1>9. PostsAwaited'
  BY <1>8 DEF PostsAwaited
<1>10. FeedsComplete'
  BY FeedsStay DEF Settled
<1>11. h.pc \notin Busy
  BY <1>3 DEF Busy
<1> QED BY <1>1, <1>3, <1>5, <1>7, <1>9, <1>10, <1>11, GoesOn

(* Nobody is at work afterwards.                                           *)
LEMMA NobodyLeft ==
    ASSUME IInv', Settled, Grows, \A l \in Txns : run'[l].pc = "idle", posts' = {},
           UNCHANGED <<ws, hooks>>, RowsNamed'
    PROVE  Settled'
<1>1. PostsAwaited' /\ \A l \in Txns : OnlyOne(l)'
  BY DEF PostsAwaited, OnlyOne
<1>2. FeedsComplete'
  BY FeedsStay DEF Settled
<1>3. AllLinked'
  BY DEF Settled, AllLinked, Grows
<1> QED BY <1>1, <1>2, <1>3 DEF Settled

(* A step that leaves the tables alone.                                    *)
LEMMA TablesStay ==
    ASSUME Settled, UNCHANGED storeVars
    PROVE  /\ RowsNamed' /\ rooms' = rooms /\ msgs' = msgs
           /\ \A p, x : Recorded(x, p)' <=> Recorded(x, p)
           /\ \A p, x : NoWay(x, p) => ~Recorded(x, p)'
BY DEF Settled, RowsNamed, storeVars, Recorded, NoWay

LEMMA PendingStays ==
    ASSUME IInv, next' = next \/ next' = next + 1
    PROVE  \A x \in Events : Pending(x)' => Pending(x)
<1>1. next \in Nat /\ \A k \in Txns : k \in Nat
  BY TransactionFacts DEF IInv, TypeOK
<1>2. \A k \in Txns : k >= next' => k >= next
  BY <1>1
<1> QED BY <1>2 DEF Pending

(* No feed grows, no row is written and nothing comes nearer to a platform.*)
LEMMA QuietGrows ==
    ASSUME IInv, Settled, UNCHANGED storeVars, next' = next \/ next' = next + 1, UNCHANGED <<ws, hooks>>,
           \A p \in Platforms, x \in Events : Stuck(x, p) => ~InHand(x, p)'
    PROVE  Grows
BY TablesStay, PendingStays, GrowsWhen

LEMMA HandlersThere ==
    ASSUME IInv, IInv', NEW k \in Txns
    PROVE  run[k] \in Handler /\ run'[k] \in Handler
BY DEF IInv, TypeOK

LEMMA PassOverOrder ==
    ASSUME IInv, IInv', Settled, NEW k \in Txns, NEW row, PassOver(k, row)
    PROVE  Settled'
<1>0. PICK h \in Handler, g \in Handler : h = run[k] /\ g = run'[k]
  BY HandlersThere
<1>1. /\ h.pc = "fanout" /\ row \in h.todo
      /\ Skips(Event(k), h.src, row.platform) \/ ~Reachable(Event(k), row.platform)
      /\ UNCHANGED <<storeVars, netVars>> /\ next' = next /\ waiting' = waiting
  BY <1>0 DEF PassOver, Turn
<1>2. /\ g.pc = "fanout" /\ g.at = h.at /\ g.src = h.src /\ g.todo = h.todo \ {row} /\ g.cur = h.cur
      /\ \A l \in Txns : l # k => run'[l] = run[l]
  BY <1>0, PassOverDoes
<1>3. PICK e \in Events : e = Event(k)
  BY <1>0, <1>1, AtRun DEF Busy
<1>4. h.pc \in Busy /\ AtHand(k, h, e) /\ h.pc # "idle" /\ h.cur = {}
  BY <1>0, <1>1, <1>3, HandFacts DEF Busy, AtHand
<1>5. row.platform \in Platforms
  BY <1>1 DEF Handler, Row
<1>6. IsMessage(e) /\ row.platform = Author[e]
  <2>1. \E i \in DOMAIN rooms : rooms[i].platform = row.platform
    BY <1>5 DEF Settled, AllLinked
  <2>2. Reachable(e, row.platform)
    BY <2>1 DEF Reachable
  <2>3. IsMessage(e) /\ row.platform = h.src
    BY <1>1, <1>3, <2>2 DEF Skips
  <2> QED BY <1>4, <2>3 DEF AtHand, SourceOf
<1>7. posts = {} /\ posts' = posts /\ ws' = ws /\ hooks' = hooks
  BY <1>0, <1>1, <1>4, OnlyHandler DEF netVars
<1>8. Grows
  <2>1. \A p \in Platforms, x \in Events : InHand(x, p)' => InHand(x, p)
    <3>1. \A p \in Platforms, x \in Events : Recorded(x, p) => Recorded(x, p)'
      BY <1>1, TablesStay
    <3>2. /\ h.pc \in Busy /\ g.at = h.at /\ g.todo \cup g.cur \subseteq h.todo \cup h.cur
          /\ \A d \in Events, r \in h.todo \cup h.cur :
               d = Event(k) /\ IsMessage(d) /\ r \notin g.todo \cup g.cur => r.platform = Author[d]
      BY <1>2, <1>3, <1>4, <1>6
    <3> QED BY <1>0, <1>2, <3>1, <3>2, HandShrinks
  <2> QED BY <1>1, <1>7, <2>1, QuietGrows DEF Stuck
<1>9. AtHand(k, h, e)'
  BY <1>4, <1>7, <1>8, AtHandKept
<1>10. AtMessage(g, e)'
  <2>1. AtMessage(h, e)'
    BY <1>6, <1>9 DEF AtHand, IsMessage
  <2>2. ASSUME NEW p \in Platforms, Visited(g, p)
        PROVE  Given(e, p)' /\ (Recorded(e, p)' \/ Author[e] = p)
    <3>1. CASE p = row.platform
      <4>1. Mute(e, p)'
        BY <1>6, <3>1, MuteSame DEF Mute
      <4> QED BY <1>6, <3>1, <4>1 DEF Given
    <3>2. CASE p # row.platform
      <4>1. Visited(h, p)
        BY <1>2, <2>2, <3>2 DEF Visited
      <4> QED BY <2>1, <4>1 DEF AtMessage, Visited
    <3> QED BY <3>1, <3>2
  <2>3. g.todo \subseteq h.todo /\ g.cur = {}
    BY <1>2, <1>4
  <2> QED BY <2>1, <2>2, <2>3 DEF AtMessage, Visited
<1>11. AtHand(k, g, e)'
  <2>1. h.src = SourceOf(e)'
    BY <1>9 DEF AtHand
  <2> QED BY <1>2, <1>4, <1>6, <1>10, <2>1 DEF AtHand, IsMessage
<1>12. FeedsComplete' /\ PostsAwaited'
  BY <1>7, <1>8, FeedsStay DEF Settled, PostsAwaited
<1>13. RowsNamed'
  BY <1>1, TablesStay
<1> QED BY <1>0, <1>1, <1>2, <1>3, <1>4, <1>8, <1>11, <1>12, <1>13, StaysAtEvent

(* One more event reaches platform p's WebSocket clients, or its webhook.  *)
LEMMA FeedGrows ==
    ASSUME IInv, Settled, SteadyScript, Grows, NEW k \in Txns, run[k].pc \in Busy, NEW e, e = Event(k),
           NEW p \in Platforms, ~Closed(e, p),
           \/ ws' = [ws EXCEPT ![p] = Append(@, e)] /\ hooks' = hooks
           \/ hooks' = [hooks EXCEPT ![p] = Append(@, e)] /\ ws' = ws
    PROVE  FeedsComplete'
<1>1. e \in Events
  BY HandFacts
<1>2. \A d \in Events : Before(d, e) => d \in ClosedTo(p) \/
        ((\E i \in DOMAIN ws[p] : ws[p][i] = d) /\ (\E i \in DOMAIN hooks[p] : hooks[p][i] = d))
  <2>1. \A d \in Events : Before(d, e) => Given(d, p) \/ Closed(d, p)
    BY BeforeThis
  <2> QED BY <2>1 DEF Given, Heard, ClosedTo, Closed
<1>3. e \notin ClosedTo(p)
  BY DEF ClosedTo
<1>4. ws[p] \in Seq(Events) /\ hooks[p] \in Seq(Events)
  BY DEF IInv, TypeOK
<1>5. \A q \in Platforms : \A d \in ClosedTo(q) : d \in ClosedTo(q)'
  BY DEF ClosedTo, Grows
<1>6. \A q \in Platforms : /\ FirstsInOrder(ws[q]) /\ Complete(ws[q], ClosedTo(q))
                           /\ FirstsInOrder(hooks[q]) /\ Complete(hooks[q], ClosedTo(q))
  BY DEF Settled, FeedsComplete
<1>7. \A feed, a, b : a \subseteq b /\ Complete(feed, a) => Complete(feed, b)
  BY DEF Complete
<1>8. PICK closed : closed = ClosedTo(p)
  OBVIOUS
<1>9. ASSUME NEW feed, feed \in {ws[p], hooks[p]}, NEW more, more = Append(feed, e)
      PROVE  FirstsInOrder(more) /\ Complete(more, closed)
  <2>1. feed \in Seq(Events) /\ FirstsInOrder(feed) /\ Complete(feed, closed) /\ e \notin closed
    BY <1>3, <1>4, <1>6, <1>8, <1>9
  <2>2. \A d \in Events : Before(d, e) => (\E h \in DOMAIN feed : feed[h] = d) \/ d \in closed
    BY <1>2, <1>8, <1>9
  <2> QED BY <1>1, <1>9, <2>1, <2>2, Appended
<1>10. ASSUME NEW q \in Platforms
       PROVE  /\ FirstsInOrder(ws'[q]) /\ Complete(ws'[q], ClosedTo(q))
              /\ FirstsInOrder(hooks'[q]) /\ Complete(hooks'[q], ClosedTo(q))
  <2>1. /\ ws'[q] = ws[q] \/ (q = p /\ ws'[q] = Append(ws[p], e))
        /\ hooks'[q] = hooks[q] \/ (q = p /\ hooks'[q] = Append(hooks[p], e))
    BY DEF IInv, TypeOK
  <2> QED BY <1>6, <1>8, <1>9, <2>1
<1>11. ASSUME NEW q \in Platforms
       PROVE  Complete(ws'[q], ClosedTo(q)') /\ Complete(hooks'[q], ClosedTo(q)')
  <2>1. ClosedTo(q) \subseteq ClosedTo(q)'
    BY <1>5
  <2> QED BY <1>7, <1>10, <2>1
<1> QED BY <1>10, <1>11 DEF FeedsComplete, Complete, FirstsInOrder

LEMMA DeliverOrder ==
    ASSUME IInv, IInv', Settled, SteadyScript, NEW k \in Txns, NEW row, Deliver(k, row)
    PROVE  Settled'
<1>0. PICK h \in Handler, g \in Handler : h = run[k] /\ g = run'[k]
  BY HandlersThere
<1>1. PICK p : p = row.platform
  OBVIOUS
<1>2. PICK e \in Events : e = Event(k)
  BY AtRun DEF Busy, Deliver
<1>3. PICK relayed \in BOOLEAN : relayed = (Relay \/ h.src = Human)
  OBVIOUS
<1>4. /\ h.pc = "fanout" /\ row \in h.todo /\ ~Skips(e, h.src, p)
      /\ IsMessage(e) => \A r \in h.todo : row.id <= r.id
      /\ ws' = IF relayed /\ Forwarded(h.src, p) THEN [ws EXCEPT ![p] = Append(@, e)] ELSE ws
      /\ UNCHANGED <<storeVars, posts, hooks>> /\ next' = next /\ waiting' = waiting
  BY <1>0, <1>1, <1>2, <1>3 DEF Deliver, Turn
<1>5. /\ g.pc \in {"hooks", "record", "fanout"} /\ g.at = h.at /\ g.src = h.src
      /\ g.todo = h.todo \ {row} /\ g.cur \subseteq {row}
      /\ relayed => g.pc = "hooks" /\ g.cur = {row}
      /\ ~relayed => g.pc = AfterDelivery(e)
      /\ IsMessage(e) => g.cur = {row}
      /\ ~relayed /\ ~IsMessage(e) => g.cur = {}
      /\ \A l \in Txns : l # k => run'[l] = run[l]
  BY <1>0, <1>2, <1>3, DeliverDoes
<1>6. h.pc \in Busy /\ AtHand(k, h, e) /\ h.pc # "idle" /\ h.cur = {} /\ h.src = SourceOf(e)
  BY <1>0, <1>2, <1>4, HandFacts DEF Busy, AtHand
<1>7. p \in Platforms
  BY <1>1, <1>4 DEF Handler, Row
<1>8. relayed /\ Forwarded(h.src, p) <=> ~Mute(e, p)
  BY <1>3, <1>4, <1>6 DEF Mute, Skips, SourceOf
<1>9. posts = {}
  BY <1>0, <1>4, <1>6, OnlyHandler
<1>10. Grows
  <2>1. \A q \in Platforms, x \in Events : InHand(x, q)' => InHand(x, q)
    <3>1. \A q \in Platforms, x \in Events : Recorded(x, q) => Recorded(x, q)'
      BY <1>4, TablesStay
    <3>2. /\ h.pc \in Busy /\ g.at = h.at /\ g.todo \cup g.cur \subseteq h.todo \cup h.cur
          /\ \A d \in Events, r \in h.todo \cup h.cur :
               d = Event(k) /\ IsMessage(d) /\ r \notin g.todo \cup g.cur => r.platform = Author[d]
      BY <1>2, <1>4, <1>5, <1>6
    <3> QED BY <1>0, <1>5, <3>1, <3>2, HandShrinks
  <2>2. \A q \in Platforms : \A i \in DOMAIN ws[q] : i \in DOMAIN ws'[q] /\ ws'[q][i] = ws[q][i]
    <3>1. ASSUME NEW q \in Platforms
          PROVE  ws[q] \in Seq(Events) /\ (ws'[q] = ws[q] \/ ws'[q] = Append(ws[q], e))
      BY <1>4 DEF IInv, TypeOK
    <3> QED BY <3>1
  <2> QED BY <1>4, <2>1, <2>2, TablesStay, PendingStays, GrowsWhen DEF Stuck
<1>11. FeedsComplete'
  <2>1. CASE Mute(e, p)
    BY <1>4, <1>8, <1>10, <2>1, FeedsStay DEF Settled
  <2>2. CASE ~Mute(e, p)
    <3>1. IsMessage(e) => Clear(h.todo \cup h.cur, row, e)
      <4>1. row.id \in Nat /\ \A r \in h.todo : r.id \in Nat
        BY <1>4 DEF Handler, Row
      <4> QED BY <1>4, <1>6, <4>1 DEF Clear
    <3>2. ~Closed(e, p)
      BY <1>0, <1>1, <1>2, <1>4, <1>6, <2>2, <3>1, OpenInHand
    <3> QED BY <1>0, <1>2, <1>4, <1>6, <1>7, <1>8, <1>10, <2>2, <3>2, FeedGrows
  <2> QED BY <2>1, <2>2
<1>12. Mute(e, p) \/ \E i \in DOMAIN ws'[p] : ws'[p][i] = e
  <2>1. CASE ~Mute(e, p)
    <3>1. ws[p] \in Seq(Events) /\ ws'[p] = Append(ws[p], e)
      BY <1>4, <1>7, <1>8, <2>1 DEF IInv, TypeOK
    <3>2. Len(ws[p]) + 1 \in DOMAIN ws'[p] /\ ws'[p][Len(ws[p]) + 1] = e
      BY <3>1
    <3> QED BY <3>2
  <2> QED BY <2>1
<1>13. ~relayed => Given(e, p)'
  BY <1>8, MuteSame DEF Given
<1>14. IsMessage(e) => AtMessage(g, e)'
  <2> SUFFICES ASSUME IsMessage(e)
               PROVE  AtMessage(g, e)'
    OBVIOUS
  <2>1. AtMessage(h, e) /\ g.todo \cup g.cur = h.todo \cup h.cur /\ g.cur = {row}
    BY <1>4, <1>5, <1>6 DEF AtHand
  <2>2. LinkedRows' = LinkedRows
    BY <1>10 DEF Grows, LinkedRows
  <2>3. \A r \in g.todo : row.id < r.id
    <3>1. ASSUME NEW r \in g.todo
          PROVE  r.id # row.id
      BY <1>5, <2>1, <3>1 DEF AtMessage, LinkedRows
    <3>2. row.id \in Nat /\ \A r \in h.todo : r.id \in Nat
      BY <1>4 DEF Handler, Row
    <3> QED BY <1>4, <1>5, <3>1, <3>2
  <2>4. p # Author[e]
    BY <1>4, <1>6 DEF Skips, SourceOf
  <2>5. \A q \in Platforms : Visited(g, q) => Given(e, q)' /\ (Recorded(e, q)' \/ Author[e] = q)
    BY <1>10, <2>1 DEF Visited, AtMessage, Grows
  <2> QED BY <1>1, <2>1, <2>2, <2>3, <2>4, <2>5 DEF AtMessage, Visited
<1>15. ~IsMessage(e) => AtFollowUp(k, g, e)'
  <2> SUFFICES ASSUME ~IsMessage(e)
               PROVE  AtFollowUp(k, g, e)'
    OBVIOUS
  <2>1. AtFollowUp(k, h, e) /\ Target[e] \in Events
    BY <1>6, OutboundAssumption DEF AtHand
  <2>2. \A r \in g.todo \cup g.cur : Recorded(Target[e], r.platform)'
    <3>1. \A r \in h.todo : r.platform \in Platforms /\ Recorded(Target[e], r.platform)
      BY <2>1 DEF AtFollowUp, Handler, Row
    <3>2. g.todo \cup g.cur \subseteq h.todo
      BY <1>4, <1>5
    <3> QED BY <1>10, <2>1, <3>1, <3>2 DEF Grows
  <2>3. ASSUME NEW q \in Platforms, Visited(g, q), g.at < Len(Transactions[k])
        PROVE  Given(e, q)' \/ Closed(e, q)'
    <3>1. CASE Visited(h, q)
      BY <1>5, <1>10, <2>1, <2>3, <3>1 DEF AtFollowUp, Grows
    <3>2. CASE ~Visited(h, q)
      <4>1. q = p /\ g.cur # {row}
        BY <1>1, <1>5, <1>6, <2>3, <3>2 DEF Visited
      <4> QED BY <1>5, <1>13, <4>1
    <3> QED BY <3>1, <3>2
  <2> QED BY <2>2, <2>3 DEF AtFollowUp, Visited
<1>16. ASSUME NEW r \in g.cur
       PROVE  AtRow(k, g, e, r)'
  <2>1. r = row /\ r.platform = p /\ g.pc # "posting"
    BY <1>1, <1>5, <1>16
  <2>2. g.pc = "record" => ~relayed
    BY <1>5
  <2> QED BY <1>12, <1>13, <2>1, <2>2, MuteSame DEF AtRow
<1>17. AtHand(k, g, e)'
  <2>1. g.src = SourceOf(e)'
    BY <1>5, <1>6 DEF SourceOf, ByPrefix, IsMessage
  <2>2. g.pc = "fanout" => g.cur = {}
    BY <1>5 DEF AfterDelivery
  <2>3. g.pc \in {"hooks", "posting"} => Relay \/ g.src = Human
    BY <1>3, <1>5 DEF AfterDelivery
  <2>4. \A c, d \in g.cur : c = d
    BY <1>5
  <2> QED BY <1>14, <1>15, <1>16, <2>1, <2>2, <2>3, <2>4 DEF AtHand, IsMessage
<1>18. PostsAwaited' /\ RowsNamed'
  BY <1>4, <1>9, TablesStay DEF PostsAwaited
<1> QED BY <1>0, <1>2, <1>4, <1>5, <1>6, <1>10, <1>11, <1>17, <1>18, StaysAtEvent

LEMMA ListWebhooksOrder ==
    ASSUME IInv, IInv', Settled, NEW k \in Txns, ListWebhooks(k), ~Spend("faults")
    PROVE  Settled'
<1>0. PICK h \in Handler, g \in Handler : h = run[k] /\ g = run'[k]
  BY HandlersThere
<1>1. PICK e \in Events : e = Event(k)
  BY AtRun DEF Busy, ListWebhooks
<1>2. /\ h.pc = "hooks" /\ \A l \in Txns : l # k => run'[l] = run[l]
      /\ g.at = h.at /\ g.src = h.src /\ g.todo = h.todo /\ g.cur = h.cur /\ g.pc = "posting"
      /\ posts' = posts \union {post \in PostOf(k) : Forwarded(h.src, post.platform)}
  BY <1>0, ListWebhooksDoes
<1>3. UNCHANGED <<storeVars, ws, hooks>> /\ next' = next /\ waiting' = waiting
  BY DEF ListWebhooks
<1>4. h.pc \in Busy /\ AtHand(k, h, e) /\ h.pc # "idle" /\ h.src = SourceOf(e) /\ e = Transactions[k][h.at]
  BY <1>0, <1>1, <1>2, HandFacts DEF Busy, AtHand
<1>5. posts = {}
  BY <1>0, <1>2, <1>4, OnlyHandler
<1>6. Relay \/ h.src = Human
  BY <1>2, <1>4 DEF AtHand
<1>7. ASSUME NEW row \in h.cur
      PROVE  Forwarded(h.src, row.platform) <=> ~Mute(e, row.platform)
  <2>1. IsMessage(e) => row.platform # Author[e]
    BY <1>4 DEF AtHand, AtMessage
  <2> QED BY <1>4, <1>6, <2>1 DEF Mute
<1>8. PostOf(k) = {[txn |-> k, event |-> e, platform |-> row.platform] : row \in h.cur}
  BY <1>0, <1>1 DEF PostOf
<1>9. Grows
  <2>1. \A p \in Platforms, x \in Events : InHand(x, p)' => InHand(x, p)
    <3>1. \A p \in Platforms, x \in Events : Recorded(x, p) => Recorded(x, p)'
      BY <1>3, TablesStay
    <3>2. /\ h.pc \in Busy /\ g.at = h.at /\ g.todo \cup g.cur = h.todo \cup h.cur
      BY <1>2, <1>4
    <3> QED BY <1>0, <1>2, <3>1, <3>2, HandShrinks
  <2> QED BY <1>3, <2>1, QuietGrows DEF Stuck
<1>10. AtHand(k, h, e)'
  BY <1>2, <1>3, <1>4, <1>9, AtHandKept
<1>11. ASSUME NEW row \in g.cur
       PROVE  AtRow(k, g, e, row)'
  <2>1. row \in h.cur /\ AtRow(k, h, e, row)'
    BY <1>2, <1>10 DEF AtHand
  <2>2. CASE Mute(e, row.platform)
    <3>1. Given(e, row.platform)'
      BY <2>2, MuteSame DEF Given
    <3> QED BY <2>1, <3>1 DEF AtRow
  <2>3. CASE ~Mute(e, row.platform)
    <3>1. PICK post : post = [txn |-> k, event |-> e, platform |-> row.platform]
      OBVIOUS
    <3>2. post \in PostOf(k) /\ post.platform = row.platform
      BY <1>8, <2>1, <3>1
    <3>3. post \in posts'
      BY <1>2, <1>7, <2>1, <2>3, <3>2
    <3> QED BY <1>2, <2>1, <3>1, <3>3 DEF AtRow
  <2> QED BY <2>2, <2>3
<1>12. AtHand(k, g, e)'
  <2>1. IsMessage(e) => AtMessage(g, e)'
    BY <1>2, <1>10 DEF AtHand, AtMessage, Visited, IsMessage
  <2>2. ~IsMessage(e) => AtFollowUp(k, g, e)'
    BY <1>2, <1>10 DEF AtHand, AtFollowUp, Visited, IsMessage
  <2> QED BY <1>2, <1>6, <1>10, <1>11, <2>1, <2>2 DEF AtHand, IsMessage
<1>13. PostsAwaited'
  <2> SUFFICES ASSUME NEW post \in posts', NEW f \in Handler, f = run'[post.txn]
               PROVE  /\ f.pc = "posting" /\ post.event = Transactions[post.txn][f.at]
                      /\ ~Mute(post.event, post.platform)'
                      /\ \E row \in f.cur : row.platform = post.platform
    BY DEF PostsAwaited
  <2>1. PICK row \in h.cur : post = [txn |-> k, event |-> e, platform |-> row.platform]
    BY <1>2, <1>5, <1>8
  <2>2. post.txn = k /\ post.event = e /\ post.platform = row.platform /\ Forwarded(h.src, post.platform)
    BY <1>2, <1>5, <2>1
  <2>3. ~Mute(e, row.platform)'
    BY <1>7, <2>2, MuteSame
  <2> QED BY <1>0, <1>2, <1>4, <2>2, <2>3
<1>14. FeedsComplete' /\ RowsNamed'
  BY <1>3, <1>9, FeedsStay, TablesStay DEF Settled
<1> QED BY <1>0, <1>1, <1>2, <1>3, <1>4, <1>9, <1>12, <1>13, <1>14, StaysAtEvent

(* The webhook takes a post.                                               *)
LEMMA AcceptOrder ==
    ASSUME IInv, IInv', Settled, SteadyScript, NEW post \in posts, Accept(post)
    PROVE  Settled'
<1>1. PICK k \in Txns, e \in Events, p \in Platforms : k = post.txn /\ e = post.event /\ p = post.platform
                                                  /\ post = [txn |-> k, event |-> e, platform |-> p]
  BY DEF IInv, TypeOK, Post
<1>2. PICK h \in Handler : h = run[k]
  BY AtRun
<1>3. /\ posts' = posts \ {post} /\ hooks' = [hooks EXCEPT ![p] = Append(@, e)]
      /\ UNCHANGED <<storeVars, ws>> /\ run' = run /\ next' = next /\ waiting' = waiting
  BY <1>1 DEF Accept, bridgeVars
<1>4. h.pc = "posting" /\ e = Transactions[k][h.at] /\ ~Mute(e, p) /\ \E row \in h.cur : row.platform = p
  BY <1>1, <1>2 DEF Settled, PostsAwaited
<1>5. h.pc \in Busy /\ e = Event(k)
  BY <1>2, <1>4 DEF Busy, Event
<1>6. AtHand(k, h, e)
  BY <1>2, <1>5, HandFacts
<1>7. PICK row \in h.cur : row.platform = p
  BY <1>4
<1>8. ~Closed(e, p)
  <2>1. IsMessage(e) => Clear(h.todo \cup h.cur, row, e)
    BY <1>2, <1>5, CurClear
  <2> QED BY <1>2, <1>4, <1>5, <1>7, <2>1, OpenInHand
<1>9. hooks[p] \in Seq(Events) /\ hooks'[p] = Append(hooks[p], e) /\ \A q \in Platforms : q # p => hooks'[q] = hooks[q]
  BY <1>3 DEF IInv, TypeOK
<1>10. Grows
  <2>1. \A q \in Platforms, x \in Events : InHand(x, q)' => InHand(x, q)
    <3>1. \A q \in Platforms, x \in Events : Recorded(x, q) => Recorded(x, q)'
      BY <1>3, TablesStay
    <3> QED BY <1>3, <3>1, HandShrinks
  <2>2. \A q \in Platforms : \A i \in DOMAIN hooks[q] : i \in DOMAIN hooks'[q] /\ hooks'[q][i] = hooks[q][i]
    BY <1>9
  <2> QED BY <1>3, <2>1, <2>2, TablesStay, PendingStays, GrowsWhen DEF Stuck
<1>11. FeedsComplete'
  BY <1>2, <1>3, <1>5, <1>8, <1>10, FeedGrows
<1>12. Given(e, p)'
  <2>1. \E i \in DOMAIN hooks'[p] : hooks'[p][i] = e
    <3>1. Len(hooks[p]) + 1 \in DOMAIN hooks'[p] /\ hooks'[p][Len(hooks[p]) + 1] = e
      BY <1>9
    <3> QED BY <3>1
  <2>2. \E i \in DOMAIN ws[p] : ws[p][i] = e
    BY <1>4, <1>6, <1>7 DEF AtHand, AtRow
  <2> QED BY <1>3, <2>1, <2>2 DEF Given, Heard
<1>13. ASSUME NEW r \in h.cur
       PROVE  AtRow(k, h, e, r)'
  <2>1. AtRow(k, h, e, r) /\ r.platform \in Platforms
    BY <1>6 DEF AtHand, Handler, Row
  <2>2. r.platform # p => [txn |-> k, event |-> e, platform |-> r.platform] # post
    BY <1>1
  <2>3. CASE r.platform = p
    BY <1>3, <1>4, <1>12, <2>1, <2>3, MuteSame DEF AtRow
  <2>4. CASE r.platform # p
    BY <1>3, <1>4, <1>10, <2>1, <2>2, <2>4, MuteSame DEF AtRow, Grows
  <2> QED BY <2>3, <2>4
<1>14. AtHand(k, h, e)'
  BY <1>6, <1>10, <1>13, AtEventKept DEF AtHand, SourceOf, ByPrefix, IsMessage
<1>15. PostsAwaited'
  BY <1>3, MuteSame DEF Settled, PostsAwaited
<1>16. RowsNamed'
  BY <1>3, TablesStay
<1> QED BY <1>2, <1>3, <1>5, <1>10, <1>11, <1>14, <1>15, <1>16, StaysAtEvent

LEMMA PostedOrder ==
    ASSUME IInv, IInv', Settled, NEW k \in Txns, Posted(k)
    PROVE  Settled'
<1>0. PICK h \in Handler, g \in Handler : h = run[k] /\ g = run'[k]
  BY HandlersThere
<1>1. PICK e \in Events : e = Event(k)
  BY AtRun DEF Busy, Posted
<1>2. /\ h.pc = "posting" /\ \A l \in Txns : l # k => run'[l] = run[l]
      /\ g.pc = AfterDelivery(e) /\ g.at = h.at /\ g.src = h.src
      /\ g.todo = h.todo /\ g.cur = (IF IsMessage(e) THEN h.cur ELSE {})
  BY <1>0, <1>1, PostedDoes
<1>3. /\ UNCHANGED <<storeVars, ws, hooks, posts>> /\ next' = next /\ waiting' = waiting
      /\ PostOf(k) \cap posts = {}
  BY DEF Posted, netVars
<1>4. h.pc \in Busy /\ AtHand(k, h, e) /\ h.pc # "idle" /\ e = Transactions[k][h.at]
  BY <1>0, <1>1, <1>2, HandFacts DEF Busy
<1>5. PostOf(k) = {[txn |-> k, event |-> e, platform |-> row.platform] : row \in h.cur}
  BY <1>0, <1>1 DEF PostOf
<1>6. posts = {}
  <2> SUFFICES ASSUME NEW post \in posts
               PROVE  FALSE
    OBVIOUS
  <2>1. post \in Post /\ post.txn = k
    BY <1>0, <1>4, OnlyHandler DEF IInv, TypeOK
  <2>2. post.event = e /\ \E row \in h.cur : row.platform = post.platform
    BY <1>0, <1>4, <2>1 DEF Settled, PostsAwaited
  <2>3. post = [txn |-> k, event |-> e, platform |-> post.platform]
    BY <2>1, <2>2 DEF Post
  <2> QED BY <1>3, <1>5, <2>2, <2>3
<1>7. \A row \in h.cur : Given(e, row.platform)
  BY <1>2, <1>4, <1>6 DEF AtHand, AtRow
<1>8. Grows
  <2>1. \A p \in Platforms, x \in Events : InHand(x, p)' => InHand(x, p)
    <3>1. \A p \in Platforms, x \in Events : Recorded(x, p) => Recorded(x, p)'
      BY <1>3, TablesStay
    <3>2. /\ h.pc \in Busy /\ g.at = h.at /\ g.todo \cup g.cur \subseteq h.todo \cup h.cur
          /\ \A d \in Events, r \in h.todo \cup h.cur :
               d = Event(k) /\ IsMessage(d) /\ r \notin g.todo \cup g.cur => r.platform = Author[d]
      BY <1>1, <1>2, <1>4
    <3> QED BY <1>0, <1>2, <3>1, <3>2, HandShrinks
  <2> QED BY <1>3, <2>1, QuietGrows DEF Stuck
<1>9. AtHand(k, h, e)'
  BY <1>3, <1>4, <1>8, AtHandKept
<1>10. \A row \in h.cur : Given(e, row.platform)'
  <2>1. \A row \in h.cur : row.platform \in Platforms
    BY DEF Handler, Row
  <2> QED BY <1>7, <1>8, <2>1 DEF Grows
<1>11. IsMessage(e) => AtMessage(g, e)'
  BY <1>2, <1>9 DEF AtHand, AtMessage, Visited, IsMessage
<1>12. ~IsMessage(e) => AtFollowUp(k, g, e)'
  <2> SUFFICES ASSUME ~IsMessage(e)
               PROVE  AtFollowUp(k, g, e)'
    OBVIOUS
  <2>1. AtFollowUp(k, h, e)'
    BY <1>9 DEF AtHand, IsMessage
  <2>2. ASSUME NEW p \in Platforms, Visited(g, p), ~Visited(h, p)
        PROVE  Given(e, p)'
    <3>1. PICK row \in h.cur : row.platform = p
      BY <1>2, <2>2 DEF Visited
    <3> QED BY <1>10, <3>1
  <2> QED BY <1>2, <2>1, <2>2 DEF AtFollowUp, Visited
<1>13. \A row \in g.cur : AtRow(k, g, e, row)'
  BY <1>2, <1>9, <1>10 DEF AtHand, AtRow, AfterDelivery
<1>14. AtHand(k, g, e)'
  BY <1>2, <1>9, <1>11, <1>12, <1>13 DEF AtHand, AfterDelivery, IsMessage
<1>15. FeedsComplete' /\ RowsNamed' /\ PostsAwaited'
  BY <1>3, <1>6, <1>8, FeedsStay, TablesStay DEF Settled, PostsAwaited
<1> QED BY <1>0, <1>1, <1>2, <1>3, <1>4, <1>8, <1>14, <1>15, StaysAtEvent

(* On to the next event, with every platform given this one or closed.     *)
LEMMA EndEventOrder ==
    ASSUME IInv, IInv', Settled, NEW k \in Txns, EndEvent(k), ~Spend("faults")
    PROVE  Settled'
<1>0. PICK h \in Handler, e \in Events, n \in Nat : h = run[k] /\ e = Event(k) /\ n = h.at
  BY AtRun DEF Busy, EndEvent, Handler
<1>1. /\ h.pc = "fanout" /\ h.todo = {} /\ NextEvent(k) /\ UNCHANGED <<storeVars, ws, hooks, posts>>
      /\ next' = next /\ waiting' = waiting
  BY <1>0 DEF EndEvent, netVars
<1>2. /\ h.pc \in Busy /\ AtHand(k, h, e) /\ h.cur = {} /\ h.at <= Len(Transactions[k])
      /\ h.at \in DOMAIN Transactions[k]
  BY <1>0, <1>1, HandFacts DEF Busy, AtHand
<1>3. \A l \in Txns : run'[l].pc \notin Busy \/ run'[l] = run[l]
  BY <1>1 DEF NextEvent, IInv, TypeOK, Idle, Busy
<1>4. Grows
  <2>1. \A p \in Platforms, x \in Events : InHand(x, p)' => InHand(x, p)
    <3>1. \A p \in Platforms, x \in Events : Recorded(x, p) => Recorded(x, p)'
      BY <1>1, TablesStay
    <3> QED BY <1>3, <3>1, HandShrinks
  <2> QED BY <1>1, <2>1, QuietGrows DEF Stuck
<1>5. ASSUME NEW p \in Platforms
      PROVE  (n # Len(Transactions[k]) => Passed(e, p)) /\ Tried(e, p)
  <2>1. Visited(h, p)
    BY <1>1, <1>2 DEF Visited
  <2>2. n # Len(Transactions[k]) => h.at < Len(Transactions[k])
    BY <1>0, <1>2, TransactionFacts
  <2> QED BY <1>2, <2>1, <2>2 DEF AtHand, AtMessage, AtFollowUp, Passed, Tried
<1>6. \A p \in Platforms : (n # Len(Transactions[k]) => Passed(e, p)') /\ Tried(e, p)'
  BY <1>4, <1>5, PassedKept
<1>7. RowsNamed'
  BY <1>1, TablesStay
<1> QED BY <1>0, <1>1, <1>2, <1>4, <1>6, <1>7, LeavesEvent

(* The row could not be written: an earlier life wrote it.                 *)
LEMMA RefusedOrder ==
    ASSUME IInv, IInv', Settled, NEW k \in Txns, NEW e, e = Event(k), NEW row \in run[k].cur,
           run[k].pc = "record", ~CanRecord(e, row.platform, e, row.id), NextEvent(k),
           UNCHANGED <<storeVars, ws, hooks, posts>>, next' = next, waiting' = waiting
    PROVE  Settled'
<1>0. PICK h \in Handler, n \in Nat : h = run[k] /\ n = h.at
  BY AtRun DEF Handler
<1>1. h.pc \in Busy /\ AtHand(k, h, e) /\ e \in Events
  BY <1>0, HandFacts DEF Busy
<1>2. IsMessage(e) /\ AtMessage(h, e)
  BY <1>0, <1>1, AtRun DEF AtEvent, AtHand
<1>3. row \in LinkedRows /\ row.platform # Author[e] /\ row.platform \in Platforms
  BY <1>0, <1>2 DEF AtMessage, Handler, Row
<1>4. Recorded(e, row.platform)
  <2>1. row.id \in DOMAIN rooms
    BY <1>3 DEF LinkedRows
  <2>2. PICK r \in msgs : r.platform = row.platform /\ (r.event = e \/ r.external = e)
    BY <2>1 DEF CanRecord
  <2>3. r.event = e
    BY <1>1, <2>2 DEF Settled, RowsNamed
  <2> QED BY <2>2, <2>3 DEF Recorded
<1>5. \A l \in Txns : run'[l].pc \notin Busy
  <2>1. \A l \in Txns : run'[l].pc \notin Busy \/ (l # k /\ run'[l] = run[l])
    BY DEF NextEvent, IInv, TypeOK, Idle, Busy
  <2>2. \A l \in Txns : l # k => run[l].pc = "idle"
    BY <1>0, <1>1, OnlyHandler DEF Busy
  <2> QED BY <2>1, <2>2 DEF Busy
<1>6. \A p \in Platforms, x \in Events : ~InHand(x, p)'
  BY <1>5 DEF InHand
<1>7. Grows
  BY <1>6, QuietGrows
<1>8. ASSUME NEW p \in Platforms
      PROVE  Passed(e, p)' /\ Tried(e, p)'
  <2>1. CASE Visited(h, p)
    <3>1. Given(e, p) /\ (Recorded(e, p) \/ Author[e] = p)
      BY <1>2, <2>1 DEF AtMessage
    <3>2. Passed(e, p) /\ Tried(e, p)
      BY <3>1 DEF Passed, Tried
    <3> QED BY <1>1, <1>7, <3>2, PassedKept
  <2>2. CASE \E r \in h.cur : r.platform = p
    <3>1. Given(e, p) /\ Recorded(e, p)
      BY <1>0, <1>1, <1>4, <2>2 DEF AtHand, AtRow
    <3>2. Passed(e, p) /\ Tried(e, p)
      BY <3>1 DEF Passed, Tried
    <3> QED BY <1>1, <1>7, <3>2, PassedKept
  <2>3. CASE \E r \in h.todo : r.platform = p
    <3>1. PICK r \in h.todo : r.platform = p
      BY <2>3
    <3>2. r \in LinkedRows /\ row.id < r.id
      BY <1>0, <1>2, <3>1 DEF AtMessage
    <3>3. /\ row.id \in DOMAIN rooms /\ rooms[row.id].platform = row.platform
          /\ r.id \in DOMAIN rooms /\ rooms[r.id].platform = p
      BY <1>3, <3>1, <3>2 DEF LinkedRows
    <3>4. Blocked(e, p)
      BY <1>3, <1>4, <3>2, <3>3 DEF Blocked
    <3>5. Blocked(e, p)'
      BY <1>1, <1>7, <3>4, BlockedKept DEF Grows
    <3> QED BY <1>1, <1>2, <1>6, <3>5 DEF Passed, Tried, Closed, Stuck, IsMessage
  <2> QED BY <2>1, <2>2, <2>3 DEF Visited
<1>9. RowsNamed'
  BY TablesStay
<1> QED BY <1>0, <1>1, <1>7, <1>8, <1>9, LeavesEvent

(* The row is written.                                                     *)
LEMMA WrittenOrder ==
    ASSUME IInv, IInv', Settled, NEW k \in Txns, NEW e, e = Event(k), NEW row \in run[k].cur,
           run[k].pc = "record", RecordMessage(e, row.platform, e, row.id),
           NEW g \in Handler, g = run'[k], g.pc = "fanout", g.cur = {}, g.todo = run[k].todo,
           g.at = run[k].at, g.src = run[k].src, \A l \in Txns : l # k => run'[l] = run[l],
           UNCHANGED <<ws, hooks, posts>>, next' = next, waiting' = waiting
    PROVE  Settled'
<1>0. PICK h \in Handler : h = run[k]
  BY AtRun
<1>1. /\ h.pc \in Busy /\ AtHand(k, h, e) /\ e \in Events /\ h.pc # "idle" /\ Pending(e)
      /\ e = Transactions[k][h.at]
  BY <1>0, HandFacts DEF Busy
<1>2. IsMessage(e) /\ AtMessage(h, e)
  BY <1>0, <1>1, AtRun DEF AtEvent, AtHand
<1>3. PICK p \in Platforms : p = row.platform
  BY <1>0 DEF Handler, Row
<1>4. p # Author[e] /\ \A c \in h.cur : c = row
  BY <1>0, <1>1, <1>2, <1>3 DEF AtHand, AtMessage
<1>5. /\ rooms' = rooms /\ ~Recorded(e, p) /\ Recorded(e, p)'
      /\ \A r \in msgs' : r \in msgs \/ (r.event = e /\ r.platform = p /\ r.external = e)
      /\ \A r \in msgs : r \in msgs'
  <2>1. PICK new : new = [event |-> e, platform |-> p, external |-> e, room |-> row.id]
    OBVIOUS
  <2>2. new.event = e /\ new.platform = p /\ new.external = e
    BY <2>1
  <2>3. rooms' = rooms /\ msgs' = msgs \cup {new} /\ \A r \in msgs : r.platform = p => r.event # e
    BY <1>3, <2>1 DEF RecordMessage, CanRecord
  <2> QED BY <2>2, <2>3 DEF Recorded
<1>6. \A x, q : /\ Recorded(x, q) => Recorded(x, q)'
                /\ Recorded(x, q)' => Recorded(x, q) \/ (x = e /\ q = p)
  BY <1>5 DEF Recorded
<1>7. InHand(e, p)
  <2>1. Clear(h.todo \cup h.cur, row, e)
    BY <1>0, <1>1, <1>2, CurClear
  <2> QED BY <1>0, <1>1, <1>2, <1>3, <2>1 DEF InHand, Leads
<1>8. ASSUME NEW q \in Platforms, NEW x \in Events, InHand(x, q)'
      PROVE  InHand(x, q)
  <2>1. PICK l \in Txns, f \in Handler :
          /\ f = run'[l] /\ f.pc \in Busy /\ Transactions[l][f.at] = x
          /\ IsMessage(x) /\ Leads(f.todo \cup f.cur, x, q)'
    BY <1>8 DEF InHand, IsMessage
  <2>2. l = k /\ f = g /\ x = e
    <3>1. l = k
      BY <1>0, <1>1, <2>1, OnlyHandler DEF Busy
    <3> QED BY <1>0, <1>1, <2>1, <3>1
  <2>3. PICK r \in g.todo : r.platform = q /\ Clear(g.todo \cup g.cur, r, e)'
    BY <2>1, <2>2 DEF Leads
  <2>4. ASSUME NEW c \in h.todo \cup h.cur, c.id < r.id, c.platform # Author[e]
        PROVE  ~Recorded(e, c.platform)
    <3>1. CASE c \in h.todo
      <4>1. ~Recorded(e, c.platform)'
        BY <1>0, <2>3, <2>4, <3>1 DEF Clear
      <4> QED BY <1>6, <4>1
    <3>2. CASE c \in h.cur
      BY <1>3, <1>4, <1>5, <3>2
    <3> QED BY <3>1, <3>2
  <2>5. Leads(h.todo \cup h.cur, e, q)
    BY <1>0, <2>3, <2>4 DEF Leads, Clear
  <2> QED BY <1>0, <1>1, <1>2, <2>2, <2>5 DEF InHand
<1>9. \A q \in Platforms, x \in Events : NoWay(x, q) => ~Recorded(x, q)'
  BY <1>1, <1>2, <1>6, <1>7 DEF NoWay, Stuck
<1>10. Grows
  BY <1>5, <1>6, <1>8, <1>9, PendingStays, GrowsWhen DEF Stuck
<1>11. AtHand(k, h, e)'
  BY <1>1, <1>10, AtHandKept
<1>12. Given(e, p)'
  BY <1>0, <1>3, <1>11 DEF AtHand, AtRow
<1>13. AtMessage(g, e)'
  <2>1. AtMessage(h, e)'
    BY <1>2, <1>11 DEF AtHand, IsMessage
  <2>2. ASSUME NEW q \in Platforms, Visited(g, q)
        PROVE  Given(e, q)' /\ (Recorded(e, q)' \/ Author[e] = q)
    <3>1. CASE q = p
      BY <1>5, <1>12, <3>1
    <3>2. CASE q # p
      <4>1. Visited(h, q)
        BY <1>0, <1>3, <1>4, <2>2, <3>2 DEF Visited
      <4> QED BY <2>1, <4>1 DEF AtMessage, Visited
    <3> QED BY <3>1, <3>2
  <2> QED BY <1>0, <2>1, <2>2 DEF AtMessage, Visited
<1>14. AtHand(k, g, e)'
  BY <1>0, <1>2, <1>11, <1>13 DEF AtHand, IsMessage
<1>15. posts = {}
  BY <1>0, <1>1, OnlyHandler
<1>16. FeedsComplete' /\ PostsAwaited'
  BY <1>10, <1>15, FeedsStay DEF Settled, PostsAwaited
<1>17. RowsNamed'
  BY <1>5 DEF Settled, RowsNamed
<1> QED BY <1>0, <1>1, <1>10, <1>14, <1>16, <1>17, StaysAtEvent

LEMMA RecordOrder ==
    ASSUME IInv, IInv', Settled, NEW k \in Txns, Record(k), ~Spend("faults")
    PROVE  Settled'
<1>1. PICK e : e = Event(k)
  OBVIOUS
<1>2. /\ run[k].pc = "record" /\ UNCHANGED <<ws, hooks, posts>> /\ next' = next /\ waiting' = waiting
  BY DEF Record, netVars
<1>3. PICK row \in run[k].cur :
        \/ /\ RecordMessage(e, row.platform, e, row.id)
           /\ run'[k].pc = "fanout" /\ run'[k].cur = {} /\ run'[k].todo = run[k].todo
           /\ run'[k].at = run[k].at /\ run'[k].src = run[k].src
           /\ \A l \in Txns : l # k => run'[l] = run[l]
        \/ /\ ~CanRecord(e, row.platform, e, row.id)
           /\ NextEvent(k) /\ UNCHANGED storeVars
  BY <1>1, RecordDoes
<1>4. PICK g \in Handler : g = run'[k]
  BY HandlersThere
<1> QED BY <1>1, <1>2, <1>3, <1>4, WrittenOrder, RefusedOrder

-----------------------------------------------------------------------------
(* An event is begun.                                                      *)

LEMMA BeginMessageOrder ==
    ASSUME IInv, IInv', Settled, Turns, NEW k \in Txns, NEW e \in Events, e = Event(k),
           run[k].pc = "event", run[k].at <= Len(Transactions[k]), IsMessage(e),
           FanOutTo(k, Author[e], LinkedRows),
           UNCHANGED <<storeVars, ws, hooks, posts>>, next' = next, waiting' = waiting
    PROVE  Settled'
<1>0. PICK h \in Handler, g \in Handler : h = run[k] /\ g = run'[k]
  BY HandlersThere
<1>1. h.cur = {} /\ h.pc # "idle"
  BY <1>0, AtRun DEF Orderly
<1>2. /\ g.pc = "fanout" /\ g.src = Author[e] /\ g.todo = LinkedRows /\ g.cur = {} /\ g.at = h.at
      /\ \A l \in Txns : l # k => run'[l] = run[l]
  BY <1>0, <1>1 DEF FanOutTo, IInv, TypeOK, Handler
<1>3. \A l \in Txns : l # k => run[l].pc = "idle"
  BY <1>0, <1>1, OnlyHandler
<1>4. ASSUME NEW p \in Platforms, NEW x \in Events, InHand(x, p)'
      PROVE  ~Blocked(x, p)
  <2>1. PICK l \in Txns, f \in Handler :
          /\ f = run'[l] /\ f.pc \in Busy /\ Leads(f.todo \cup f.cur, x, p)'
    BY <1>4 DEF InHand
  <2>2. f = g
    BY <1>0, <1>2, <1>3, <2>1 DEF Busy
  <2>0. PICK rows : rows = LinkedRows
    OBVIOUS
  <2>3. PICK row \in rows : row.platform = p /\ Clear(rows, row, x)'
    <3>1. f.todo \cup f.cur = rows
      BY <1>2, <2>0, <2>2
    <3>2. Leads(rows, x, p)'
      BY <2>1, <3>1 DEF Leads, Clear
    <3> QED BY <3>2 DEF Leads
  <2>4. row.id \in DOMAIN rooms /\ rooms[row.id].platform = p
    BY <2>0, <2>3 DEF LinkedRows
  <2>5. ASSUME NEW j \in DOMAIN rooms, j < row.id, NEW q, q = rooms[j].platform, q # Author[x]
        PROVE  ~Recorded(x, q)
    <3>1. PICK r : r = [id |-> j, platform |-> q]
      OBVIOUS
    <3>2. r \in rows /\ r.id = j /\ r.platform = q
      BY <2>0, <2>5, <3>1 DEF LinkedRows
    <3>3. ~Recorded(x, r.platform)'
      BY <2>3, <2>5, <3>2 DEF Clear
    <3> QED BY <3>2, <3>3, TablesStay
  <2>6. \A i \in DOMAIN rooms : rooms[i].platform = p => i = row.id
    BY <2>4 DEF Turns, OneLink
  <2> QED BY <2>5, <2>6 DEF Blocked
<1>5. Grows
  BY <1>4, QuietGrows DEF Stuck
<1>6. \A p \in Platforms : ~Visited(g, p)
  <2> SUFFICES ASSUME NEW p \in Platforms
               PROVE  ~Visited(g, p)
    OBVIOUS
  <2>1. PICK i \in DOMAIN rooms : rooms[i].platform = p
    BY DEF Settled, AllLinked
  <2>2. PICK r : r = [id |-> i, platform |-> p]
    OBVIOUS
  <2>3. r \in g.todo /\ r.platform = p
    BY <1>2, <2>1, <2>2 DEF LinkedRows
  <2> QED BY <2>3 DEF Visited
<1>7. LinkedRows' = LinkedRows
  BY <1>5 DEF Grows, LinkedRows
<1>8. AtMessage(g, e)'
  BY <1>2, <1>6, <1>7 DEF AtMessage, Visited
<1>9. AtHand(k, g, e)'
  BY <1>2, <1>8 DEF AtHand, SourceOf, IsMessage
<1>10. posts = {}
  BY <1>0, <1>1, OnlyHandler
<1>11. FeedsComplete' /\ PostsAwaited' /\ RowsNamed'
  BY <1>5, <1>10, FeedsStay, TablesStay DEF Settled, PostsAwaited
<1>12. PassedAll(k, g.at)'
  BY <1>0, <1>1, <1>2, <1>5, OnlyHandler, PassedAllKept
<1>13. e = Transactions[k][g.at]
  BY <1>0, <1>2 DEF Event
<1> QED BY <1>0, <1>1, <1>2, <1>5, <1>9, <1>11, <1>12, <1>13, GoesOn

LEMMA BeginFollowUpOrder ==
    ASSUME IInv, IInv', Settled, SteadyScript, NEW k \in Txns, NEW e \in Events, e = Event(k),
           run[k].pc = "event", run[k].at <= Len(Transactions[k]), ~IsMessage(e),
           FanOutTo(k, ByPrefix(Author[e]), TargetRows(e)),
           UNCHANGED <<storeVars, ws, hooks, posts>>, next' = next, waiting' = waiting
    PROVE  Settled'
<1>0. PICK h \in Handler, g \in Handler, rows \in SUBSET Row : h = run[k] /\ g = run'[k] /\ rows = TargetRows(e)
  <2>1. TargetRows(e) \subseteq Row
    BY DEF TargetRows, Row, IInv, TypeOK, StoreTypeOK, MessageRow
  <2> QED BY <2>1, HandlersThere
<1>1. h.cur = {} /\ h.pc # "idle" /\ h.at \in Nat /\ h.at >= 1
  BY <1>0, AtRun DEF Orderly, Handler
<1>2. /\ g.pc = "fanout" /\ g.src = ByPrefix(Author[e]) /\ g.todo = rows /\ g.cur = {} /\ g.at = h.at
      /\ \A l \in Txns : l # k => run'[l] = run[l]
  BY <1>0, <1>1 DEF FanOutTo, IInv, TypeOK, Handler
<1>3. /\ k = next /\ PassedAll(k, h.at) /\ posts = {} /\ \A l \in Txns : l # k => run[l].pc = "idle"
  BY <1>0, <1>1, OnlyHandler
<1>4. e = Transactions[k][h.at] /\ h.at \in DOMAIN Transactions[k]
  BY <1>0, <1>1, TransactionFacts DEF Event
<1>5. \A p \in Platforms, x \in Events : ~InHand(x, p)'
  <2> SUFFICES ASSUME NEW p \in Platforms, NEW x \in Events, InHand(x, p)'
               PROVE  FALSE
    OBVIOUS
  <2>1. PICK l \in Txns, f \in Handler :
          f = run'[l] /\ f.pc \in Busy /\ Transactions[l][f.at] = x /\ IsMessage(x)
    BY DEF InHand, IsMessage
  <2>2. l = k
    BY <1>2, <1>3, <2>1 DEF Busy
  <2> QED BY <1>0, <1>2, <1>4, <2>1, <2>2
<1>6. Grows
  BY <1>5, QuietGrows
<1>7. Target[e] \in Events /\ Target[e] # e /\ Human \notin Platforms
  BY OutboundAssumption DEF IsMessage
<1>8. \A row \in rows : row.platform \in Platforms /\ Recorded(Target[e], row.platform)
  BY <1>0 DEF TargetRows, Recorded, IInv, TypeOK, StoreTypeOK, MessageRow
<1>9. ASSUME NEW p \in Platforms, Visited(g, p), h.at < Len(Transactions[k])
      PROVE  Closed(e, p)'
  <2>1. PICK t \in Events : t = Target[e]
    BY <1>7
  <2>2. ~Recorded(t, p)
    <3> SUFFICES ASSUME NEW r \in msgs, r.event = t, r.platform = p
                 PROVE  FALSE
      BY DEF Recorded
    <3>1. PICK row : row = [id |-> r.room, platform |-> p]
      OBVIOUS
    <3>2. row \in rows /\ row.platform = p
      BY <1>0, <2>1, <3>1 DEF TargetRows
    <3> QED BY <1>2, <1>9, <3>2 DEF Visited
  <2>3. Author[t] = Human /\ ~Before(e, t)
    BY <1>4, <1>9, <2>1 DEF SteadyScript
  <2>4. Pending(t) /\ IsMessage(t) => Blocked(t, p)
    <3> SUFFICES ASSUME IsMessage(t), NEW l \in Txns, l >= next, NEW j \in DOMAIN Transactions[l],
                        Transactions[l][j] = t
                 PROVE  Blocked(t, p)
      BY DEF Pending
    <3>1. l \in Nat /\ k \in Nat /\ j \in Nat
      BY TransactionFacts
    <3>2. ~(k < l) /\ ~(k = l /\ h.at < j)
      BY <1>4, <2>3 DEF Before
    <3>3. l = k /\ j < h.at
      <4>1. l = k
        BY <1>3, <3>1, <3>2
      <4>2. j # h.at
        BY <1>4, <1>7, <2>1, <4>1
      <4> QED BY <1>1, <3>1, <3>2, <4>1, <4>2
    <3>4. Tried(t, p)
      BY <1>3, <3>3 DEF PassedAll
    <3> QED BY <1>7, <2>2, <2>3, <3>4 DEF Tried
  <2>5. NoWay(t, p)'
    <3>1. Blocked(t, p) => Blocked(t, p)'
      BY <1>6, BlockedKept DEF Grows
    <3>2. Pending(t)' => Pending(t)
      BY PendingStays
    <3>3. ~Recorded(t, p)'
      BY <2>2, TablesStay
    <3> QED BY <1>5, <2>3, <2>4, <3>1, <3>2, <3>3 DEF NoWay, Stuck, IsMessage
  <2> QED BY <2>1, <2>5 DEF Closed, IsMessage
<1>10. AtFollowUp(k, g, e)'
  <2>1. \A row \in rows : Recorded(Target[e], row.platform)'
    BY <1>8, TablesStay
  <2> QED BY <1>2, <1>9, <2>1 DEF AtFollowUp, Visited
<1>11. AtHand(k, g, e)'
  BY <1>2, <1>10 DEF AtHand, SourceOf, ByPrefix, IsMessage
<1>12. FeedsComplete' /\ PostsAwaited' /\ RowsNamed'
  BY <1>3, <1>6, FeedsStay, TablesStay DEF Settled, PostsAwaited
<1>13. PassedAll(k, g.at)'
  BY <1>2, <1>3, <1>6, PassedAllKept
<1> QED BY <1>0, <1>1, <1>2, <1>4, <1>6, <1>11, <1>12, <1>13, GoesOn

LEMMA BeginEventOrder ==
    ASSUME IInv, IInv', Settled, Turns, SteadyScript, NEW k \in Txns, BeginEvent(k), ~Spend("faults")
    PROVE  Settled'
<1>1. /\ run[k].pc = "event" /\ run[k].at <= Len(Transactions[k])
      /\ UNCHANGED <<storeVars, ws, hooks, posts>> /\ next' = next /\ waiting' = waiting
  BY DEF BeginEvent, netVars
<1>2. PICK e \in Events : e = Event(k)
  BY <1>1, AtRun, TransactionFacts DEF Orderly, Handler, Event
<1>3. \/ IsMessage(e) /\ FanOutTo(k, Author[e], LinkedRows)
      \/ ~IsMessage(e) /\ FanOutTo(k, ByPrefix(Author[e]), TargetRows(e))
  BY <1>2 DEF BeginEvent, BeginMessage, BeginFollowUp
<1> QED BY <1>1, <1>2, <1>3, BeginMessageOrder, BeginFollowUpOrder

-----------------------------------------------------------------------------
(* The transaction endpoint and the other handlers.                        *)

LEMMA ReceiveOrder ==
    ASSUME IInv, IInv', Settled, NEW k \in Txns, Receive(k)
    PROVE  Settled'
<1>1. /\ k = next /\ ~waiting /\ waiting' = TRUE /\ next' = next
      /\ run' = [run EXCEPT ![k] = [Idle EXCEPT !.pc = "event", !.at = 1]]
      /\ UNCHANGED <<storeVars, ws, hooks, posts>>
  BY DEF Receive, netVars
<1>2. posts = {} /\ \A l \in Txns : run[l].pc = "idle"
  BY <1>1, NobodyAtWork
<1>3. run'[k].pc = "event" /\ run'[k].at = 1 /\ \A l \in Txns : l # k => run'[l].pc = "idle"
  BY <1>1, <1>2 DEF IInv, TypeOK, Idle
<1>4. \A p \in Platforms, x \in Events : ~InHand(x, p)'
  BY <1>3 DEF InHand, Busy
<1>5. Grows
  BY <1>1, <1>4, QuietGrows
<1>6. \A i \in DOMAIN Transactions[k] : ~(i < 1)
  BY TransactionFacts
<1>7. OnlyOne(k)'
  BY <1>1, <1>3, <1>6 DEF OnlyOne, PassedAll, Busy
<1>8. \A l \in Txns : OnlyOne(l)'
  BY <1>3, <1>7 DEF OnlyOne
<1>9. FeedsComplete' /\ PostsAwaited' /\ RowsNamed'
  BY <1>1, <1>2, <1>5, FeedsStay, TablesStay DEF Settled, PostsAwaited
<1>10. AllLinked'
  BY <1>5 DEF Settled, AllLinked, Grows
<1> QED BY <1>8, <1>9, <1>10 DEF Settled

LEMMA AnsweredOrder ==
    ASSUME IInv, IInv', Settled, NEW k \in Txns, AnswerDuplicate(k) \/ EndTransaction(k)
    PROVE  Settled'
<1>1. /\ UNCHANGED storeVars /\ UNCHANGED <<ws, hooks>> /\ UNCHANGED posts
      /\ (next' = next \/ next' = next + 1)
  BY DEF AnswerDuplicate, EndTransaction, netVars
<1>2. posts = {} /\ \A l \in Txns : run'[l].pc = "idle"
  <2>1. CASE AnswerDuplicate(k)
    BY <2>1, NobodyAtWork DEF AnswerDuplicate, bridgeVars
  <2>2. CASE EndTransaction(k)
    <3>1. run[k].pc = "event" /\ run' = [run EXCEPT ![k] = Idle]
      BY <2>2 DEF EndTransaction
    <3>2. posts = {} /\ \A l \in Txns : l # k => run[l].pc = "idle"
      BY <3>1, OnlyHandler
    <3>3. run'[k] = Idle /\ \A l \in Txns : l # k => run'[l] = run[l]
      BY <3>1, RunExcept DEF IInv
    <3> QED BY <3>2, <3>3, IdleFacts
  <2> QED BY <2>1, <2>2
<1>3. \A p \in Platforms, x \in Events : ~InHand(x, p)'
  BY <1>2 DEF InHand, Busy
<1>4. Grows
  BY <1>1, <1>3, QuietGrows
<1> QED BY <1>1, <1>2, <1>4, TablesStay, NobodyLeft

LEMMA CrashOrder ==
    ASSUME IInv, IInv', Settled, Crash
    PROVE  Settled'
<1>1. /\ UNCHANGED storeVars /\ UNCHANGED <<ws, hooks>> /\ next' = next /\ posts' = {}
      /\ run' = [k \in Txns |-> Idle]
  BY DEF Crash
<1>2. \A l \in Txns : run'[l].pc = "idle"
  BY <1>1, IdleFacts
<1>3. \A p \in Platforms, x \in Events : ~InHand(x, p)'
  BY <1>2 DEF InHand, Busy
<1>4. Grows
  BY <1>1, <1>3, QuietGrows
<1> QED BY <1>1, <1>2, <1>4, TablesStay, NobodyLeft

(* Nothing moves but the rows of what puppets said.                        *)
LEMMA HandlersStay ==
    ASSUME IInv, IInv', Settled, Grows, UNCHANGED <<ws, hooks, posts, run>>, next' = next, waiting' = waiting,
           RowsNamed'
    PROVE  Settled'
<1>1. ASSUME NEW k \in Txns
      PROVE  OnlyOne(k)'
  <2> SUFFICES ASSUME NEW h \in Handler, h = run'[k], h.pc # "idle"
               PROVE  /\ k = next' /\ waiting' /\ PassedAll(k, h.at)'
                      /\ \A e \in Events : h.pc \in Busy /\ e = Transactions[k][h.at] => AtHand(k, h, e)'
    BY DEF OnlyOne
  <2>1. /\ k = next /\ waiting /\ PassedAll(k, h.at)
        /\ \A e \in Events : h.pc \in Busy /\ e = Transactions[k][h.at] => AtHand(k, h, e)
    BY DEF Settled, OnlyOne
  <2> QED BY <2>1, PassedAllKept, AtHandKept
<1>2. PostsAwaited'
  BY MuteSame DEF Settled, PostsAwaited
<1>3. FeedsComplete' /\ AllLinked'
  BY FeedsStay DEF Settled, AllLinked, Grows
<1> QED BY <1>1, <1>2, <1>3 DEF Settled

LEMMA RecordInboundOrder ==
    ASSUME IInv, IInv', Settled, NEW e \in Events, RecordInbound(e)
    PROVE  Settled'
<1>1. PICK x \in Messages \ Events, i \in DOMAIN rooms :
        rooms[i].platform = Author[e] /\ RecordMessage(e, Author[e], x, i)
  BY DEF RecordInbound
<1>2. UNCHANGED <<ws, hooks, posts, run>> /\ next' = next /\ waiting' = waiting
  BY DEF RecordInbound, bridgeVars, netVars
<1>3. PICK p \in Platforms : p = Author[e]
  BY <1>1 DEF IInv, TypeOK, StoreTypeOK, RoomRow
<1>4. /\ rooms' = rooms
      /\ \A r \in msgs' : r \in msgs \/ (r.event = e /\ r.platform = p /\ r.external = x)
      /\ \A r \in msgs : r \in msgs'
  <2>1. PICK new : new = [event |-> e, platform |-> p, external |-> x, room |-> i]
    OBVIOUS
  <2>2. new.event = e /\ new.platform = p /\ new.external = x
    BY <2>1
  <2>3. rooms' = rooms /\ msgs' = msgs \cup {new}
    BY <1>1, <1>3, <2>1 DEF RecordMessage
  <2> QED BY <2>2, <2>3
<1>5. \A y, q : /\ Recorded(y, q) => Recorded(y, q)'
                /\ Recorded(y, q)' => Recorded(y, q) \/ (y = e /\ q = p)
  BY <1>4 DEF Recorded
<1>6. \A q \in Platforms, y \in Events : InHand(y, q)' => InHand(y, q)
  BY <1>2, <1>5, HandShrinks
<1>7. \A q \in Platforms, y \in Events : NoWay(y, q) => ~Recorded(y, q)'
  BY <1>3, <1>5, OutboundAssumption DEF NoWay
<1>8. Grows
  BY <1>2, <1>4, <1>5, <1>6, <1>7, PendingStays, GrowsWhen DEF Stuck
<1>9. RowsNamed'
  BY <1>1, <1>4 DEF Settled, RowsNamed
<1> QED BY <1>2, <1>8, <1>9, HandlersStay

-----------------------------------------------------------------------------
(* The invariant.                                                          *)

LEMMA BudgetKept ==
    ASSUME TypeOK, Undisturbed'
    PROVE  /\ ~Spend("faults") /\ ~Spend("breaks") /\ ~Spend("unlinks")
           /\ UNCHANGED budget \/ Spend("crashes") => Undisturbed
<1>1. /\ budget.faults \in 0 .. MaxFaults /\ budget.breaks \in 0 .. MaxBreaks
      /\ budget.unlinks \in 0 .. MaxUnlinks
  BY DEF TypeOK
<1>2. /\ budget'.faults = MaxFaults /\ budget'.breaks = MaxBreaks /\ budget'.unlinks = MaxUnlinks
  BY DEF Undisturbed
<1>3. MaxFaults \in Nat /\ MaxBreaks \in Nat /\ MaxUnlinks \in Nat
  BY OutboundAssumption
<1>4. ~Spend("faults")
  BY <1>1, <1>2, <1>3 DEF Spend, TypeOK
<1>5. ~Spend("breaks")
  BY <1>1, <1>2, <1>3 DEF Spend, TypeOK
<1>6. ~Spend("unlinks")
  BY <1>1, <1>2, <1>3 DEF Spend, TypeOK
<1>7. UNCHANGED budget \/ Spend("crashes") => Undisturbed
  BY <1>2 DEF Spend, TypeOK, Undisturbed
<1> QED BY <1>4, <1>5, <1>6, <1>7

LEMMA InitOrder == Init => Settled
<1> SUFFICES ASSUME Init
             PROVE  Settled
  OBVIOUS
<1>1. /\ msgs = {} /\ posts = {} /\ run = [k \in Txns |-> Idle]
      /\ \A p \in Platforms : ws[p] = <<>> /\ hooks[p] = <<>>
  BY DEF Init
<1>2. FeedsComplete
  <2>1. \A feed, closed : feed = <<>> => FirstsInOrder(feed) /\ Complete(feed, closed)
    BY DEF FirstsInOrder, Complete
  <2> QED BY <1>1, <2>1 DEF FeedsComplete
<1>3. \A k \in Txns : OnlyOne(k)
  BY <1>1, IdleFacts DEF OnlyOne
<1>4. AllLinked
  BY DEF Init, AllLinked
<1> QED BY <1>1, <1>2, <1>3, <1>4 DEF Settled, PostsAwaited, RowsNamed

LEMMA HandlerOrder ==
    ASSUME IInv, IInv', Settled, Turns, SteadyScript, NEW k \in Txns, HandlerStep(k), ~Spend("faults")
    PROVE  Settled'
BY BeginEventOrder, ListWebhooksOrder, PostedOrder, RecordOrder, EndEventOrder, AnsweredOrder,
   PassOverOrder, DeliverOrder DEF HandlerStep

LEMMA StutterOrder ==
    ASSUME IInv, IInv', Settled, UNCHANGED vars
    PROVE  Settled'
<1>1. /\ UNCHANGED storeVars /\ UNCHANGED <<ws, hooks>> /\ UNCHANGED <<ws, hooks, posts, run>>
      /\ next' = next /\ waiting' = waiting
  BY DEF vars, bridgeVars, netVars
<1>2. \A p \in Platforms, x \in Events : InHand(x, p)' => InHand(x, p)
  BY <1>1, TablesStay, HandShrinks
<1> QED BY <1>1, <1>2, QuietGrows, TablesStay, HandlersStay DEF Stuck

LEMMA StepOrder == IInv /\ IInv' /\ Turns /\ InTurn /\ [Next]_vars => InTurn'
<1> SUFFICES ASSUME IInv, IInv', Turns, InTurn, [Next]_vars, SteadyScript, Undisturbed'
             PROVE  Settled'
  BY DEF InTurn, SteadyScript, IsMessage, NamedOnce, Before
<1>1. /\ ~Spend("faults") /\ ~Spend("breaks") /\ ~Spend("unlinks")
      /\ UNCHANGED budget \/ Spend("crashes") => Undisturbed
  BY BudgetKept DEF IInv
<1>2. ASSUME NEW k \in Txns, Receive(k) \/ AnswerDuplicate(k) \/ Break(k)
      PROVE  Settled'
  <2>1. ~Break(k)
    BY <1>1 DEF Break
  <2>2. Settled
    BY <1>1, <1>2, <2>1 DEF InTurn, Receive, AnswerDuplicate
  <2> QED BY <1>2, <2>1, <2>2, ReceiveOrder, AnsweredOrder
<1>3. ASSUME NEW k \in Txns, HandlerStep(k)
      PROVE  Settled'
  <2>1. UNCHANGED budget
    BY <1>1, <1>3 DEF HandlerStep, BeginEvent, BeginMessage, BeginFollowUp, ListWebhooks, Posted, Record,
                      EndEvent, EndTransaction, PassOver, Deliver
  <2> QED BY <1>1, <1>3, <2>1, HandlerOrder DEF InTurn
<1>4. ASSUME NEW post \in posts, Accept(post) \/ Refuse(post)
      PROVE  Settled'
  <2>1. Accept(post) /\ UNCHANGED budget
    BY <1>1, <1>4 DEF Accept, Refuse
  <2> QED BY <1>1, <2>1, AcceptOrder DEF InTurn
<1>5. ASSUME NEW e \in Events, RecordInbound(e)
      PROVE  Settled'
  <2>1. UNCHANGED budget
    BY <1>5 DEF RecordInbound
  <2> QED BY <1>1, <1>5, <2>1, RecordInboundOrder DEF InTurn
<1>6. ASSUME NEW i \in DOMAIN rooms, Unlink(i)
      PROVE  FALSE
  BY <1>1, <1>6 DEF Unlink
<1>7. CASE Crash
  <2>1. Spend("crashes")
    BY <1>7 DEF Crash
  <2> QED BY <1>1, <1>7, <2>1, CrashOrder DEF InTurn
<1>8. CASE UNCHANGED vars
  <2>1. UNCHANGED budget
    BY <1>8 DEF vars
  <2> QED BY <1>1, <1>8, <2>1, StutterOrder DEF InTurn
<1> QED BY <1>2, <1>3, <1>4, <1>5, <1>6, <1>7, <1>8 DEF Next

(* As long as nothing was disturbed, a platform hears of events for the    *)
(* first time in the homeserver's order, through any number of restarts    *)
(* (tests/e2e/16-concurrent-messages.test.ts:5), if what follows up inside *)
(* a transaction is about what a person wrote before it.  handle_room_     *)
(* message may resend what a replay visits again, never what it skipped.   *)
THEOREM FirstsStayInOrder == Spec => [](SteadyScript => InOrderUndisturbed)
<1>1. Init => Turns /\ InTurn
  BY InitTurns, InitOrder DEF InTurn
<1>2. IInv /\ IInv' /\ Turns /\ InTurn /\ [Next]_vars => (Turns /\ InTurn)'
  BY StepTurns, StepOrder
<1>3. InTurn => (SteadyScript => InOrderUndisturbed)
  BY DEF InTurn, Settled, FeedsComplete, InOrderUndisturbed, InOrder
<1> QED BY <1>1, <1>2, <1>3, Invariance, PTL DEF Spec

=============================================================================
