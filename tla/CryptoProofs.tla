------------------------------ MODULE CryptoProofs ------------------------------
(***************************************************************************)
(* Proofs about CryptoPool, for any handlers, puppets, members and devices *)
(* and any configurations: room keys reach every device their machine was  *)
(* told of, no crypto store is opened twice, keys are uploaded, and files  *)
(* and events agree about encryption; the pool's locks never make all      *)
(* handlers wait, and no machine misses a changed device list.             *)
(* The argument for the room keys: a tracked user that is not dirty is     *)
(* known as well as the machine was told of it, an answer that is awaited  *)
(* covers what the machine was told of those it was asked for, and nobody  *)
(* tells a machine anything while a handler holds its lock; so what the    *)
(* holder goes through passes on everything that was told.                 *)
(* For the locks and the lists: a handler is in the pool's queue once and  *)
(* only while it waits, and a transaction with news of a user has before   *)
(* it every machine in use that does not have them yet.                    *)
(***************************************************************************)
EXTENDS CryptoPool, SequenceTheorems, TLAPS

Locked == {"ask", "answer", "claim", "share", "seal"}

(* What a job may rely on, wherever it is.                                  *)
Orderly(j) ==
  /\ j.pc \in {"hint", "media", "share", "seal", "device", "post"} => j.phase = "send"
  /\ j.pc = "claim" => j.phase \in {"send", "event"}
  /\ j.pc \in {"get", "write", "init", "sign"} => j.who \in Puppets
  /\ j.pc = "sign" => j.who \in published
  /\ j.pc = "read" => j.phase \in {"broadcast", "puppets"}
  /\ j.phase = "send" /\ perUser => j.who \in Puppets
  /\ \A u \in Members : j.news[u] <= devices[u]
  /\ j.file \in {"clear", "sealed"} => (j.file = "sealed") = j.enc
  /\ j.pc \in {"hint", "media"} => j.file \in {"none", "link"}
  /\ j.pc = "hint" => /\ "known" \in j.since => flagged
                      /\ "encrypted" \in j.since => encrypted
  /\ j.phase = "send" /\ j.pc # "hint" =>
       /\ "encrypted" \in j.since => j.enc \/ "query" \in j.failed
       /\ "known" \in j.since => j.enc \/ "read" \in j.failed

(* What it may rely on while it queries, claims, shares and seals.          *)
InStep(j) ==
  /\ j.pc = "answer" =>
       \A u \in Members : j.asked[u] # 0 => told[j.who][u] <= j.asked[u]
  /\ j.phase \in {"send", "event"} /\ j.pc \in Locked => store[j.who].tracked = Members
  /\ j.phase \in {"send", "event"} /\ j.pc = "answer" => store[j.who].dirty \subseteq Named(j.asked)
  /\ j.pc = "claim" => \A u \in Members : told[j.who][u] <= store[j.who].known[u]
  /\ j.pc = "share" => \A u \in Members : told[j.who][u] <= store[j.who].olm[u]
  /\ j.pc = "seal" => \A u \in Members : told[j.who][u] <= store[j.who].shared[u]

Holds(j, m) ==
  j.pc \in Locked /\ j.phase \in {"send", "bot", "named", "broadcast", "event"} /\ j.who = m

Writes(j) == j.pc \in {"init", "sign"}

Types ==
  /\ scenario \in Scenarios
  /\ devices \in Counts /\ \A u \in Members : devices[u] >= 1
  /\ store \in [Machines -> Store]
  /\ told \in [Machines -> Counts]
  /\ open \subseteq Puppets
  /\ encrypted \in BOOLEAN /\ flagged \in BOOLEAN /\ up \in BOOLEAN
  /\ faults \in Nat
  /\ call \in [Calls -> Job \union {Idle}]

(* A machine is told of devices there are, and knows them or asks again.    *)
Informed == \A m \in Machines, u \in Members :
  /\ told[m][u] <= devices[u]
  /\ u \in store[m].tracked /\ u \notin store[m].dirty => told[m][u] <= store[m].known[u]

KeysUp ==
  /\ \A m \in Machines : store[m].uploaded => m \in published
  /\ Published

Jobs == \A c \in Calls : call[c] = Idle \/ (Orderly(call[c]) /\ InStep(call[c]))

(* One handler at a time holds a machine.                                   *)
OneHolder == \A c, d \in Calls : \A m \in Machines :
  Holds(call[c], m) /\ Holds(call[d], m) => c = d

DownIdle == ~up => open = {} /\ \A c \in Calls : call[c] = Idle

IInv == Types /\ Informed /\ KeysUp /\ Jobs /\ OneHolder /\ OneMachine /\ DownIdle

-----------------------------------------------------------------------------
(* Jobs.                                                                    *)

LEMMA IdleIsIdle ==
  Idle.pc = "idle" /\ Idle \notin Job /\ ~Writes(Idle) /\ \A m : ~Holds(Idle, m)
BY DEF Idle, Job, Writes, Holds, Locked

LEMMA Sets ==
  /\ Count \subseteq Nat /\ 0 \in Count
  /\ Nothing \in Counts /\ \A u \in Members : Nothing[u] = 0
  /\ Bot \in Machines /\ Bot \notin Puppets /\ Puppets \subseteq Machines
BY CryptoAssumption DEF Count, Counts, Nothing, Machines

LEMMA AtWork ==
  ASSUME IInv, NEW c \in Calls, call[c].pc # "idle"
  PROVE  /\ call[c] \in Job /\ Orderly(call[c]) /\ InStep(call[c])
         /\ c \in Active /\ up
BY IdleIsIdle DEF IInv, Types, Jobs, Active, DownIdle

LEMMA Holding ==
  ASSUME IInv, NEW c \in Calls, NEW m
  PROVE  HoldsMachine(c, m) <=> Holds(call[c], m)
<1>1. CASE call[c] = Idle
  BY <1>1, IdleIsIdle DEF HoldsMachine, In, Active
<1>2. CASE call[c] # Idle
  BY <1>2 DEF HoldsMachine, Holds, In, Active, Locked
<1> QED BY <1>1, <1>2

LEMMA Writing ==
  ASSUME IInv, NEW c \in Calls
  PROVE  WritesPool(c) <=> Writes(call[c])
BY IdleIsIdle DEF WritesPool, Writes, Active

(* k is j but for its stage and what it is about to find out.               *)
Kin(k, j) ==
  /\ k.phase = j.phase /\ k.who = j.who /\ k.news = j.news /\ k.named = j.named /\ k.todo = j.todo
  /\ k.olmEvents = j.olmEvents /\ k.event = j.event /\ k.since = j.since

Alike(k, j) == Kin(k, j) /\ k.failed = j.failed

Stages == {"hint", "media", "get", "write", "init", "sign", "lock", "ask", "answer", "claim",
           "share", "seal", "device", "post", "read", "event"}

LEMMA GotoFields ==
  ASSUME NEW j \in Job, NEW s \in Stages, NEW k, k = [j EXCEPT !.pc = s]
  PROVE  k \in Job /\ Alike(k, j) /\ Kin(k, j) /\ k.pc = s /\ k.asked = j.asked /\ k.enc = j.enc /\ k.file = j.file
BY DEF Job, Alike, Kin, Stages

LEMMA AskedFields ==
  ASSUME NEW j \in Job, NEW s \in Stages, NEW a \in Counts, NEW k,
         k = [j EXCEPT !.pc = s, !.asked = a]
  PROVE  k \in Job /\ Alike(k, j) /\ Kin(k, j) /\ k.pc = s /\ k.asked = a /\ k.enc = j.enc /\ k.file = j.file
BY DEF Job, Alike, Kin, Stages

(* A job that has come to another machine, the room's events or the flush.  *)
Elsewhere(k) ==
  /\ k \in Job
  /\ k.phase \in {"named", "broadcast", "event", "flush", "puppets"}
  /\ k.pc \in {"get", "read", "lock", "event", "ask"}
  /\ k.pc = "ask" => k.phase \in {"flush", "puppets"}
  /\ k.pc = "get" => k.who \in Puppets
  /\ k.pc = "read" => k.phase \in {"broadcast", "puppets"}

Lands(k, j) ==
  k = Idle \/ (Elsewhere(k) /\ k.enc = j.enc /\ k.file = j.file /\ k.news \in {j.news, Nothing})

LEMMA FlushLands ==
  ASSUME NEW j \in Job
  PROVE  Lands(Flush(j), j) /\ Flush(j) \in Job /\ Flush(j).news = Nothing
         /\ Flush(j).enc = j.enc /\ Flush(j).file = j.file
<1> DEFINE k == Flush(j)
<1>1. k \in Job
  BY Sets DEF Flush, Job
<1>2. /\ k.phase = "flush" /\ k.pc = "ask" /\ k.enc = j.enc /\ k.file = j.file /\ k.news = Nothing
  BY DEF Flush, Job
<1> HIDE DEF k
<1> QED BY <1>1, <1>2 DEF Lands, Elsewhere, k

LEMMA EventFields ==
  ASSUME NEW j \in Job, NEW e \in {"none", "encryption", "member"}, NEW k,
         k = [j EXCEPT !.phase = "event", !.pc = "event", !.event = e]
  PROVE  k \in Job
BY DEF Job

LEMMA EventsLand ==
  ASSUME NEW j \in Job
  PROVE  Lands(Events(j), j)
<1>1. CASE j.event = "none"
  BY <1>1, FlushLands DEF Events
<1>2. CASE j.event # "none"
  <2> DEFINE f == Flush(j)
             k == [f EXCEPT !.phase = "event", !.pc = "event", !.event = j.event]
  <2>1. f \in Job /\ f.news = Nothing /\ f.enc = j.enc /\ f.file = j.file
    BY FlushLands
  <2> HIDE DEF f
  <2>2. j.event \in {"none", "encryption", "member"}
    BY DEF Job
  <2>4. k \in Job
    BY <2>1, <2>2, EventFields
  <2>5. k.phase = "event" /\ k.pc = "event" /\ k.enc = f.enc /\ k.file = f.file /\ k.news = f.news
    BY <2>1 DEF Job
  <2>3. Events(j) = k
    BY <1>2 DEF Events, f
  <2> HIDE DEF k
  <2> QED BY <2>1, <2>3, <2>4, <2>5 DEF Lands, Elsewhere
<1> QED BY <1>1, <1>2

LEMMA NamedLands ==
  ASSUME NEW j \in Job, NEW k \in NamedNext(j)
  PROVE  Lands(k, j)
<1>1. CASE j.todo # {}
  <2>1. PICK m \in j.todo : k = [j EXCEPT !.phase = "named", !.pc = "get", !.who = m, !.todo = @ \ {m},
                                          !.asked = Nothing]
    BY <1>1 DEF NamedNext
  <2>2. m \in Puppets /\ m \in Machines
    BY Sets DEF Job
  <2>3. k \in Job /\ k.phase = "named" /\ k.pc = "get" /\ k.who = m /\ k.enc = j.enc /\ k.file = j.file
        /\ k.news = j.news
    BY <2>1, <2>2, Sets DEF Job
  <2> QED BY <2>2, <2>3 DEF Lands, Elsewhere
<1>2. CASE j.todo = {} /\ Named(j.news) # {}
  <2>1. k = [j EXCEPT !.phase = "broadcast", !.pc = "read", !.who = Bot, !.asked = Nothing]
    BY <1>2 DEF NamedNext
  <2>2. k \in Job /\ k.phase = "broadcast" /\ k.pc = "read" /\ k.enc = j.enc /\ k.file = j.file
        /\ k.news = j.news
    BY <2>1, Sets DEF Job
  <2> QED BY <2>2 DEF Lands, Elsewhere
<1>3. CASE j.todo = {} /\ Named(j.news) = {}
  BY <1>3, EventsLand DEF NamedNext
<1> QED BY <1>1, <1>2, <1>3

LEMMA BroadcastLands ==
  ASSUME NEW j \in Job, j.phase = "broadcast", NEW k \in BroadcastNext(j)
  PROVE  Lands(k, j)
<1>1. CASE j.todo # {}
  <2>1. PICK m \in j.todo : k = [j EXCEPT !.pc = "lock", !.who = m, !.todo = @ \ {m}, !.asked = Nothing]
    BY <1>1 DEF BroadcastNext
  <2>2. m \in Puppets /\ m \in Machines
    BY Sets DEF Job
  <2>3. k \in Job /\ k.phase = "broadcast" /\ k.pc = "lock" /\ k.enc = j.enc /\ k.file = j.file
        /\ k.news = j.news
    BY <2>1, <2>2, Sets DEF Job
  <2> QED BY <2>3 DEF Lands, Elsewhere
<1>2. CASE j.todo = {}
  BY <1>2, EventsLand DEF BroadcastNext
<1> QED BY <1>1, <1>2

LEMMA FlushNextLands ==
  ASSUME NEW j \in Job, j.phase = "puppets", NEW k \in FlushNext(j)
  PROVE  Lands(k, j)
<1>1. CASE j.todo # {}
  <2>1. PICK m \in j.todo : k = [j EXCEPT !.pc = "ask", !.who = m, !.todo = @ \ {m}, !.asked = Nothing]
    BY <1>1 DEF FlushNext
  <2>2. m \in Puppets /\ m \in Machines
    BY Sets DEF Job
  <2>3. k \in Job /\ k.phase = "puppets" /\ k.pc = "ask" /\ k.enc = j.enc /\ k.file = j.file
        /\ k.news = j.news
    BY <2>1, <2>2, Sets DEF Job
  <2> QED BY <2>3 DEF Lands, Elsewhere
<1>2. CASE j.todo = {}
  BY <1>2 DEF FlushNext, Lands
<1> QED BY <1>1, <1>2

LEMMA MoveOnLands ==
  ASSUME NEW j \in Job, NEW k \in MoveOn(j)
  PROVE  Lands(k, j)
<1>1. j.phase \in {"send", "bot", "named", "broadcast", "event", "flush", "puppets"}
  BY DEF Job
<1>2. CASE j.phase = "send" \/ j.phase = "flush"
  BY <1>2 DEF MoveOn, Lands
<1>3. CASE j.phase = "bot"
  BY <1>3, NamedLands, EventsLand DEF MoveOn
<1>4. CASE j.phase = "named"
  BY <1>4, NamedLands DEF MoveOn
<1>5. CASE j.phase = "broadcast"
  BY <1>5, BroadcastLands DEF MoveOn
<1>6. CASE j.phase = "event"
  BY <1>6, FlushLands DEF MoveOn
<1>7. CASE j.phase = "puppets"
  BY <1>7, FlushNextLands DEF MoveOn
<1> QED BY <1>1, <1>2, <1>3, <1>4, <1>5, <1>6, <1>7

LEMMA FlushedLands ==
  ASSUME NEW j \in Job, NEW k \in Flushed(j)
  PROVE  \/ Lands(k, j)
         \/ j.phase \in {"send", "event"} /\ k = [j EXCEPT !.pc = "claim", !.asked = Nothing]
<1>1. CASE j.phase \in {"send", "event"}
  BY <1>1 DEF Flushed
<1>2. CASE j.phase = "flush" /\ perUser
  <2>1. k = [j EXCEPT !.phase = "puppets", !.pc = "read", !.asked = Nothing]
    BY <1>2 DEF Flushed
  <2>2. k \in Job /\ k.phase = "puppets" /\ k.pc = "read" /\ k.enc = j.enc /\ k.file = j.file
        /\ k.news = j.news
    BY <2>1, Sets DEF Job
  <2> QED BY <2>2 DEF Lands, Elsewhere
<1>3. CASE j.phase \notin {"send", "event"} /\ ~(j.phase = "flush" /\ perUser)
  BY <1>3, MoveOnLands DEF Flushed
<1> QED BY <1>1, <1>2, <1>3

-----------------------------------------------------------------------------
(* How jobs outlast a step.                                                 *)

(* What a step may do to what Orderly is about.                             *)
Later ==
  /\ scenario' = scenario
  /\ devices' \in Counts /\ \A u \in Members : devices'[u] >= devices[u]
  /\ published \intersect Puppets \subseteq published'
  /\ flagged => flagged'
  /\ encrypted => encrypted'
  /\ faults' \in Nat /\ faults' >= faults

LEMMA FaultsGrow ==
  ASSUME IInv, Fault \/ NoFault
  PROVE  faults' \in Nat /\ faults' >= faults
BY DEF IInv, Types, Fault, NoFault

LEMMA OrderlyLasts ==
  ASSUME IInv, Later, NEW j \in Job, Orderly(j)
  PROVE  Orderly(j)'
<1>1. \A u \in Members : j.news[u] <= devices'[u]
  <2>1. \A u \in Members : j.news[u] \in Nat /\ devices[u] \in Nat /\ devices'[u] \in Nat
    BY Sets DEF Later, IInv, Types, Job, Counts
  <2> QED BY <2>1 DEF Later, Orderly
<1>2. j.pc = "sign" => j.who \in published'
  BY DEF Later, Orderly
<1> QED BY <1>1, <1>2 DEF Orderly, Later, perUser

LEMMA InStepLasts ==
  ASSUME NEW j, InStep(j), store'[j.who] = store[j.who], told'[j.who] = told[j.who]
  PROVE  InStep(j)'
BY DEF InStep

LEMMA ElsewhereIsFree ==
  ASSUME NEW k, Elsewhere(k)
  PROVE  InStep(k)' /\ ~Writes(k) /\ \A m : ~Holds(k, m)
BY DEF Elsewhere, InStep, Writes, Holds, Locked

LEMMA LandedOK ==
  ASSUME IInv, Later, NEW j \in Job, Orderly(j), NEW k, Lands(k, j), k # Idle
  PROVE  k \in Job /\ Orderly(k)' /\ InStep(k)' /\ ~Writes(k) /\ \A m : ~Holds(k, m)
<1>1. Elsewhere(k) /\ k.enc = j.enc /\ k.file = j.file /\ k.news \in {j.news, Nothing}
  BY DEF Lands
<1>2. \A u \in Members : k.news[u] <= devices'[u]
  <2>1. \A u \in Members : j.news[u] <= devices'[u]
    BY OrderlyLasts DEF Orderly
  <2>2. \A u \in Members : Nothing[u] <= devices'[u]
    <3>1. \A u \in Members : devices'[u] \in Nat
      BY Sets DEF Later, Counts
    <3> QED BY <3>1, Sets
  <2> QED BY <1>1, <2>1, <2>2
<1>3. k.file \in {"clear", "sealed"} => (k.file = "sealed") = k.enc
  BY <1>1 DEF Orderly
<1>4. Orderly(k)'
  BY <1>1, <1>2, <1>3 DEF Orderly, Elsewhere
<1> QED BY <1>1, <1>4, ElsewhereIsFree DEF Elsewhere

(* Handler c goes on as k.                                                  *)
LEMMA StepKeeps ==
  ASSUME IInv, NEW c \in Calls, NEW k, call' = [call EXCEPT ![c] = k],
         k = Idle \/ (k \in Job /\ Orderly(k)' /\ InStep(k)'),
         Later, up, up' = up,
         \A d \in Calls \ {c} : call[d] # Idle => InStep(call[d])',
         \A m \in Machines : Holds(k, m) => Holds(call[c], m) \/ MachineFree(m),
         Writes(k) => /\ k.who \notin open'
                      /\ Writes(call[c]) \/ \A d \in Calls : ~WritesPool(d),
         open' \subseteq open \/ Writes(call[c]),
         scenario' = scenario, store' \in [Machines -> Store], told' \in [Machines -> Counts],
         open' \subseteq Puppets, encrypted' \in BOOLEAN, flagged' \in BOOLEAN,
         Informed', KeysUp'
  PROVE  IInv'
<1>1. \A d \in Calls : call'[d] = IF d = c THEN k ELSE call[d]
  BY DEF IInv, Types
<1>2. Types'
  <2>1. call' \in [Calls -> Job \union {Idle}]
    BY DEF IInv, Types
  <2>2. \A u \in Members : devices'[u] >= 1
    <3>1. \A u \in Members : devices[u] \in Nat /\ devices'[u] \in Nat
      BY Sets DEF Later, IInv, Types, Counts
    <3> QED BY <3>1 DEF Later, IInv, Types
  <2> QED BY <2>1, <2>2 DEF IInv, Types, Later
<1>3. Jobs'
  <2>1. ASSUME NEW d \in Calls, d # c, call[d] # Idle PROVE Orderly(call[d])' /\ InStep(call[d])'
    <3>1. call[d] \in Job /\ Orderly(call[d])
      BY <2>1 DEF IInv, Types, Jobs
    <3>2. PICK j : j = call[d]
      OBVIOUS
    <3> QED BY <1>1, <2>1, <3>1, <3>2, OrderlyLasts
  <2> QED BY <1>1, <2>1 DEF Jobs
<1>4. OneHolder'
  <2>1. SUFFICES ASSUME NEW d \in Calls, NEW e \in Calls, NEW m \in Machines,
                        Holds(call'[d], m), Holds(call'[e], m), d # e
                 PROVE  FALSE
    BY DEF OneHolder
  <2>2. Holds(call[d], m) \/ (d = c /\ MachineFree(m))
    BY <1>1, <2>1
  <2>3. Holds(call[e], m) \/ (e = c /\ MachineFree(m))
    BY <1>1, <2>1
  <2> QED BY <2>1, <2>2, <2>3, Holding DEF IInv, OneHolder, MachineFree
<1>5. OneMachine'
  <2>1. \A d \in Calls : WritesPool(d)' <=> Writes(call'[d])
    <3>1. \A d \in Calls : call'[d] # Idle <=> d \in Active'
      BY DEF Active
    <3> QED BY <3>1, IdleIsIdle DEF WritesPool, Writes
  <2>2. SUFFICES ASSUME NEW d \in Calls, Writes(call'[d])
                 PROVE  call'[d].who \notin open' /\ \A e \in Calls : Writes(call'[e]) => d = e
    BY <2>1 DEF OneMachine
  <2>3. \A d1, d2 \in Calls :
          Writes(call[d1]) => call[d1].who \notin open /\ (Writes(call[d2]) => d1 = d2)
    BY Writing DEF IInv, OneMachine
  <2>4. \A e \in Calls : Writes(call'[e]) => d = e
    BY <1>1, <2>2, <2>3, Writing
  <2>5. CASE d = c
    BY <1>1, <2>2, <2>4, <2>5
  <2>6. CASE d # c
    BY <1>1, <2>2, <2>3, <2>4, <2>6
  <2> QED BY <2>5, <2>6
<1> QED BY <1>2, <1>3, <1>4, <1>5 DEF IInv, DownIdle

(* Handler c goes on as k, and stores and homeserver stay.                  *)
LEMMA JobStep ==
  ASSUME IInv, NEW c \in Calls, NEW k, call' = [call EXCEPT ![c] = k], up \/ call[c] # Idle,
         k = Idle \/ (k \in Job /\ Orderly(k)' /\ InStep(k)'),
         UNCHANGED <<scenario, devices, encrypted, published, store, up, open, told>>,
         flagged' \in BOOLEAN, flagged => flagged', faults' \in Nat, faults' >= faults,
         \A m \in Machines : Holds(k, m) => Holds(call[c], m) \/ MachineFree(m),
         Writes(k) => /\ k.who \notin open
                      /\ Writes(call[c]) \/ \A d \in Calls : ~WritesPool(d)
  PROVE  IInv'
<1>1. up
  BY DEF IInv, DownIdle
<1>2. Later
  <2>1. \A u \in Members : devices[u] \in Nat
    BY Sets DEF IInv, Types, Counts
  <2> QED BY <2>1 DEF Later, IInv, Types
<1>3. \A d \in Calls \ {c} : call[d] # Idle => InStep(call[d])'
  <2>1. SUFFICES ASSUME NEW d \in Calls, d # c, call[d] # Idle PROVE InStep(call[d])'
    OBVIOUS
  <2>2. InStep(call[d])
    BY <2>1 DEF IInv, Jobs
  <2>3. call'[d] = call[d]
    BY <2>1 DEF IInv, Types
  <2>4. PICK j : j = call[d]
    OBVIOUS
  <2>5. InStep(j)'
    BY <2>2, <2>4, InStepLasts
  <2> QED BY <2>3, <2>4, <2>5
<1>4. Informed' /\ KeysUp'
  BY DEF IInv, Informed, KeysUp, Published
<1> QED BY <1>1, <1>2, <1>3, <1>4, StepKeeps DEF IInv, Types

(* Handler c goes on somewhere else.                                        *)
LEMMA LandingStep ==
  ASSUME IInv, NEW c \in Calls, call[c].pc # "idle", NEW k, call' = [call EXCEPT ![c] = k],
         Lands(k, call[c]),
         UNCHANGED <<scenario, devices, encrypted, published, store, up, open, told>>,
         flagged' \in BOOLEAN, flagged => flagged', faults' \in Nat, faults' >= faults
  PROVE  IInv'
<1>1. call[c] \in Job /\ Orderly(call[c]) /\ call[c] # Idle
  BY AtWork, IdleIsIdle
<1>2. Later
  <2>1. \A u \in Members : devices[u] \in Nat
    BY Sets DEF IInv, Types, Counts
  <2> QED BY <2>1 DEF Later, IInv, Types
<1>3. k = Idle \/ (k \in Job /\ Orderly(k)' /\ InStep(k)' /\ ~Writes(k) /\ \A m : ~Holds(k, m))
  BY <1>1, <1>2, LandedOK
<1> QED BY <1>1, <1>3, JobStep, IdleIsIdle

(* A job that goes on with the same errand.                                 *)
LEMMA AlikeOrderly ==
  ASSUME IInv, Later, NEW j \in Job, Orderly(j), j.pc # "hint",
         NEW k, Alike(k, j), k.enc = j.enc, k.file = j.file, k.pc \notin {"hint", "media", "read"},
         k.pc \in {"share", "seal", "device", "post"} => j.phase = "send",
         k.pc = "claim" => j.phase \in {"send", "event"},
         k.pc \in {"get", "write", "init", "sign"} => j.who \in Puppets,
         k.pc = "sign" => j.who \in published'
  PROVE  Orderly(k)'
<1>1. Orderly(j)'
  BY OrderlyLasts
<1>2. \A u \in Members : k.news[u] <= devices'[u]
  BY <1>1 DEF Orderly, Alike, Kin
<1>3. k.file \in {"clear", "sealed"} => (k.file = "sealed") = k.enc
  BY DEF Orderly
<1>4. k.phase = "send" => /\ "encrypted" \in k.since => k.enc \/ "query" \in k.failed
                          /\ "known" \in k.since => k.enc \/ "read" \in k.failed
  BY <1>1 DEF Orderly, Alike, Kin
<1>5. k.phase = "send" /\ perUser' => k.who \in Puppets
  BY <1>1 DEF Orderly, Alike, Kin
<1> QED BY <1>2, <1>3, <1>4, <1>5 DEF Orderly, Alike, Kin

(* Handler c only comes to another stage, under no machine's lock.          *)
LEMMA StageStep ==
  ASSUME IInv, NEW c \in Calls, call[c].pc \notin {"idle", "hint"},
         NEW s \in {"lock", "write", "init", "device", "post"}, Goto(c, s),
         s \in {"device", "post"} => call[c].phase = "send",
         s \in {"write", "init"} => call[c].who \in Puppets,
         s = "init" => call[c].who \notin open /\ \A d \in Calls : ~WritesPool(d),
         UNCHANGED <<scenario, devices, encrypted, published, store, up, open, told>>,
         flagged' \in BOOLEAN, flagged => flagged', faults' \in Nat, faults' >= faults
  PROVE  IInv'
<1>1. call[c] \in Job /\ Orderly(call[c]) /\ call[c] # Idle
  BY AtWork, IdleIsIdle
<1>2. PICK k : k = [call[c] EXCEPT !.pc = s]
  OBVIOUS
<1>3. call' = [call EXCEPT ![c] = k]
  BY <1>2 DEF Goto, IInv, Types
<1>4. k \in Job /\ Alike(k, call[c]) /\ k.pc = s /\ k.enc = call[c].enc /\ k.file = call[c].file
  BY <1>1, <1>2, GotoFields DEF Stages
<1>5. Later
  <2>1. \A u \in Members : devices[u] \in Nat
    BY Sets DEF IInv, Types, Counts
  <2> QED BY <2>1 DEF Later, IInv, Types
<1>6. Orderly(k)'
  BY <1>1, <1>4, <1>5, AlikeOrderly
<1>7. InStep(k)' /\ \A m : ~Holds(k, m)
  BY <1>4 DEF InStep, Holds, Locked
<1>8. Writes(k) => k.who \notin open /\ \A d \in Calls : ~WritesPool(d)
  BY <1>4 DEF Writes, Alike, Kin
<1> QED BY <1>1, <1>3, <1>4, <1>6, <1>7, <1>8, JobStep

-----------------------------------------------------------------------------
(* Messages.                                                                *)

LEMMA AskHintKeeps ==
  ASSUME IInv, NEW c \in Calls, AskHint(c)
  PROVE  IInv'
<1>1. call[c] \in Job /\ Orderly(call[c]) /\ call[c].pc = "hint" /\ call[c].phase = "send"
  BY AtWork DEF AskHint, At, Orderly
<1>2. PICK enc \in BOOLEAN, failed \in SUBSET Failures :
        /\ IsEncrypted(enc, failed)
        /\ call' = [call EXCEPT ![c].pc = "media", ![c].enc = enc, ![c].failed = failed]
  BY DEF AskHint
<1>3. UNCHANGED <<scenario, devices, encrypted, published, store, up, open, told>>
  BY DEF AskHint, serverVars, poolVars, histVars
<1>4. /\ flagged' \in BOOLEAN /\ (flagged => flagged') /\ faults' \in Nat /\ faults' >= faults
      /\ (flagged => enc \/ "read" \in failed) /\ (encrypted => enc \/ "query" \in failed)
  <2>1. Fault \/ NoFault
    BY <1>2 DEF IsEncrypted, Answered
  <2>2. flagged \in BOOLEAN /\ encrypted \in BOOLEAN /\ faults \in Nat
    BY DEF IInv, Types
  <2> QED BY <1>2, <2>1, <2>2, FaultsGrow DEF IsEncrypted, Answered
<1> DEFINE j == call[c]
           k == [j EXCEPT !.pc = "media", !.enc = enc, !.failed = failed]
<1>5. call' = [call EXCEPT ![c] = k]
  BY <1>2 DEF IInv, Types
<1>6. k \in Job /\ k.pc = "media" /\ k.enc = enc /\ k.failed = failed /\ k.phase = "send" /\ k.file = j.file
      /\ k.news = j.news /\ k.since = j.since /\ k.who = j.who
  BY <1>1 DEF Job
<1> HIDE DEF k
<1>7. PICK kk : kk = k
  OBVIOUS
<1>10. \A u \in Members : kk.news[u] <= devices'[u]
  BY <1>1, <1>3, <1>6, <1>7 DEF Orderly
<1>11. kk.file \in {"none", "link"}
  BY <1>1, <1>6, <1>7 DEF Orderly
<1>12. /\ "encrypted" \in kk.since => kk.enc \/ "query" \in kk.failed
       /\ "known" \in kk.since => kk.enc \/ "read" \in kk.failed
  BY <1>1, <1>4, <1>6, <1>7 DEF Orderly
<1>13. perUser' => kk.who \in Puppets
  BY <1>1, <1>3, <1>6, <1>7 DEF Orderly, perUser
<1>8. Orderly(kk)'
  BY <1>6, <1>7, <1>10, <1>11, <1>12, <1>13 DEF Orderly
<1>9. InStep(kk)' /\ ~Writes(kk) /\ \A m : ~Holds(kk, m)
  BY <1>6, <1>7 DEF InStep, Writes, Holds, Locked
<1> QED BY <1>1, <1>3, <1>4, <1>5, <1>6, <1>7, <1>8, <1>9, IdleIsIdle, JobStep

LEMMA ReuploadKeeps ==
  ASSUME IInv, NEW c \in Calls, Reupload(c)
  PROVE  IInv'
<1>1. call[c] \in Job /\ Orderly(call[c]) /\ call[c].pc = "media" /\ call[c].phase = "send"
      /\ call[c] # Idle
  BY AtWork, IdleIsIdle DEF Reupload, At, Orderly
<1>2. /\ UNCHANGED <<scenario, devices, encrypted, published, store, flagged, up, open, told>>
      /\ Fault \/ NoFault
  BY DEF Reupload, Failed, serverVars, storeVars, histVars
<1>3. /\ flagged' \in BOOLEAN /\ (flagged => flagged') /\ faults' \in Nat /\ faults' >= faults
  BY <1>2, FaultsGrow DEF IInv, Types
<1>4. CASE Failed(c)
  <2>1. PICK k \in MoveOn(call[c]) : call' = [call EXCEPT ![c] = k]
    BY <1>4 DEF Failed, Continue
  <2>2. Lands(k, call[c])
    BY <1>1, <2>1, MoveOnLands
  <2> QED BY <1>1, <1>2, <1>3, <2>1, <2>2, LandingStep
<1>5. CASE ~Failed(c)
  <2>1. PICK s \in {"post", "get", "lock"} :
          s = CASE ~call[c].enc -> "post" [] call[c].enc /\ perUser -> "get" [] OTHER -> "lock"
    OBVIOUS
  <2>2. s = "get" => perUser
    BY <2>1
  <2>3. PICK made \in {"clear", "sealed"} : made = IF call[c].enc THEN "sealed" ELSE "clear"
    OBVIOUS
  <2> DEFINE after == [call[c] EXCEPT !.pc = s]
             given == [after EXCEPT !.file = IF @ = "none" THEN @ ELSE made]
  <2>4. \/ call' = [call EXCEPT ![c] = given]
        \/ call' = [call EXCEPT ![c] = after] /\ call[c].file = "link"
    BY <1>5, <2>1, <2>3 DEF Reupload, Continue
  <2>5. after \in Job /\ Alike(after, call[c]) /\ after.pc = s /\ after.asked = call[c].asked
        /\ after.enc = call[c].enc /\ after.file = call[c].file
    BY <1>1, GotoFields DEF Stages
  <2> HIDE DEF after
  <2>6. /\ given \in Job /\ given.pc = s /\ Alike(given, call[c]) /\ given.enc = call[c].enc
        /\ given.file = IF call[c].file = "none" THEN "none" ELSE made
    BY <2>5 DEF Job, Alike, Kin
  <2> HIDE DEF given
  <2>7. PICK k : /\ call' = [call EXCEPT ![c] = k] /\ k \in Job /\ k.pc = s /\ Alike(k, call[c])
                 /\ k.enc = call[c].enc /\ k.file \in {"none", "link", made}
    BY <1>1, <2>4, <2>5, <2>6 DEF Orderly
  <2>11. \A u \in Members : k.news[u] <= devices'[u]
    BY <1>1, <1>2, <2>7 DEF Orderly, Alike, Kin
  <2>12. k.file \in {"clear", "sealed"} => (k.file = "sealed") = k.enc
    <3>1. k.enc \in BOOLEAN
      BY <2>7 DEF Job
    <3>2. CASE k.enc = TRUE
      BY <2>3, <2>7, <3>2
    <3>3. CASE k.enc = FALSE
      BY <2>3, <2>7, <3>3
    <3> QED BY <3>1, <3>2, <3>3
  <2>13. /\ "encrypted" \in k.since => k.enc \/ "query" \in k.failed
         /\ "known" \in k.since => k.enc \/ "read" \in k.failed
    BY <1>1, <2>7 DEF Orderly, Alike, Kin
  <2>14. (perUser' => k.who \in Puppets) /\ (k.pc = "get" => k.who \in Puppets)
    BY <1>1, <1>2, <2>2, <2>7 DEF Orderly, Alike, Kin, perUser
  <2>8. Orderly(k)'
    BY <1>1, <2>7, <2>11, <2>12, <2>13, <2>14 DEF Orderly, Alike, Kin
  <2>9. InStep(k)' /\ ~Writes(k) /\ \A m : ~Holds(k, m)
    BY <2>7 DEF InStep, Writes, Holds, Locked
  <2> QED BY <1>1, <1>2, <1>3, <2>7, <2>8, <2>9, JobStep
<1> QED BY <1>4, <1>5

LEMMA PostKeeps ==
  ASSUME IInv, NEW c \in Calls, Post(c)
  PROVE  IInv'
<1>1. call[c].pc = "post" /\ call' = [call EXCEPT ![c] = Idle]
      /\ UNCHANGED <<scenario, devices, encrypted, published, store, flagged, up, open, told, faults>>
  BY DEF Post, At, Continue, serverVars, storeVars, histVars
<1>2. flagged' \in BOOLEAN /\ (flagged => flagged') /\ faults' \in Nat /\ faults' >= faults
  BY <1>1 DEF IInv, Types
<1>3. Lands(Idle, call[c])
  BY DEF Lands
<1> QED BY <1>1, <1>2, <1>3, LandingStep

-----------------------------------------------------------------------------
(* get_or_init.                                                             *)

LEMMA GetKeeps ==
  ASSUME IInv, NEW c \in Calls, Get(c)
  PROVE  IInv'
<1>1. call[c] \in Job /\ Orderly(call[c]) /\ call[c].pc = "get" /\ call[c].who \in Puppets
  BY AtWork DEF Get, At, Orderly
<1>2. UNCHANGED <<scenario, devices, encrypted, published, store, flagged, up, open, told, faults>>
  BY DEF Get, serverVars, storeVars, histVars
<1>3. flagged' \in BOOLEAN /\ (flagged => flagged') /\ faults' \in Nat /\ faults' >= faults
  BY <1>2 DEF IInv, Types
<1>4. CASE Goto(c, "lock") \/ Goto(c, "write")
  BY <1>1, <1>2, <1>3, <1>4, StageStep
<1>5. CASE ~(Goto(c, "lock") \/ Goto(c, "write"))
  <2>1. PICK k \in MoveOn(call[c]) : call' = [call EXCEPT ![c] = k]
    BY <1>5 DEF Get
  <2>2. Lands(k, call[c])
    BY <1>1, <2>1, MoveOnLands
  <2> QED BY <1>1, <1>2, <1>3, <2>1, <2>2, LandingStep
<1> QED BY <1>4, <1>5

LEMMA LookAgainKeeps ==
  ASSUME IInv, NEW c \in Calls, LookAgain(c)
  PROVE  IInv'
<1>1. call[c].pc = "write" /\ call[c].who \in Puppets
  BY AtWork DEF LookAgain, At, Orderly
<1>2. UNCHANGED <<scenario, devices, encrypted, published, store, flagged, up, open, told, faults>>
  BY DEF LookAgain, serverVars, storeVars, histVars
<1>3. flagged' \in BOOLEAN /\ (flagged => flagged') /\ faults' \in Nat /\ faults' >= faults
  BY <1>2 DEF IInv, Types
<1>4. \A d \in Calls : ~WritesPool(d)
  BY DEF LookAgain, CanWrite
<1>5. CASE call[c].who \in open
  <2>1. Goto(c, "lock")
    BY <1>5 DEF LookAgain
  <2> QED BY <1>1, <1>2, <1>3, <2>1, StageStep
<1>6. CASE call[c].who \notin open
  <2>1. Goto(c, "init")
    BY <1>6 DEF LookAgain
  <2> QED BY <1>1, <1>2, <1>3, <1>4, <1>6, <2>1, StageStep
<1> QED BY <1>5, <1>6

(* A machine that is opened is informed as before or better.                *)
LEMMA OpenedFacts ==
  ASSUME IInv, NEW m \in Machines
  PROVE  /\ Opened(store[m]) \in Store /\ Opened(store[m]).uploaded /\ Opened(store[m]).dirty = {}
         /\ Opened(store[m]).tracked = store[m].tracked
         /\ Opened(store[m]).olm = store[m].olm /\ Opened(store[m]).shared = store[m].shared
         /\ \A u \in Members : Opened(store[m]).known[u] \in Nat /\
              Opened(store[m]).known[u] = IF u \in store[m].dirty THEN devices[u] ELSE store[m].known[u]
<1>1. store[m] \in Store /\ devices \in Counts
  BY DEF IInv, Types
<1> DEFINE known == [u \in Members |-> IF u \in store[m].dirty THEN devices[u] ELSE store[m].known[u]]
<1>2. known \in Counts
  BY <1>1 DEF Counts, Store
<1>3. Opened(store[m]) = [store[m] EXCEPT !.uploaded = TRUE, !.dirty = {}, !.known = known]
  BY <1>1 DEF Opened, Store
<1>4. \A u \in Members : known[u] \in Nat /\ known[u] = IF u \in store[m].dirty THEN devices[u]
                                                          ELSE store[m].known[u]
  BY <1>2, Sets DEF Counts
<1> HIDE DEF known
<1>5. /\ Opened(store[m]) \in Store /\ Opened(store[m]).uploaded /\ Opened(store[m]).dirty = {}
      /\ Opened(store[m]).tracked = store[m].tracked /\ Opened(store[m]).known = known
      /\ Opened(store[m]).olm = store[m].olm /\ Opened(store[m]).shared = store[m].shared
  BY <1>1, <1>2, <1>3 DEF Store
<1> QED BY <1>4, <1>5

-----------------------------------------------------------------------------
(* Steps that change a machine's store.                                     *)

(* s is m's store, with less to ask and no less known.                      *)
Better(s, m) ==
  /\ s.tracked = store[m].tracked /\ s.dirty \subseteq store[m].dirty
  /\ s.olm = store[m].olm /\ s.shared = store[m].shared
  /\ \A u \in Members : told[m][u] <= store[m].known[u] => told[m][u] <= s.known[u]

LEMMA BetterInStep ==
  ASSUME NEW j, NEW s, InStep(j), Better(s, j.who), store'[j.who] = s, told' = told
  PROVE  InStep(j)'
BY DEF InStep, Better

(* Only a holder relies on more than the answer it waits for.               *)
LEMMA OutsideInStep ==
  ASSUME NEW j, Orderly(j), ~Holds(j, j.who),
         j.pc = "answer" => \A u \in Members : j.asked[u] # 0 => told'[j.who][u] <= j.asked[u]
  PROVE  InStep(j)'
BY DEF InStep, Orderly, Holds, Locked

LEMMA StoreStep ==
  ASSUME IInv, NEW c \in Calls, call[c] # Idle, NEW m \in Machines, NEW s \in Store, NEW k,
         call' = [call EXCEPT ![c] = k], store' = [store EXCEPT ![m] = s],
         UNCHANGED <<scenario, devices, encrypted, flagged, up, open, told>>,
         published \subseteq published', s.uploaded => m \in published',
         faults' \in Nat, faults' >= faults,
         \A u \in Members : u \in s.tracked /\ u \notin s.dirty => told[m][u] <= s.known[u],
         Better(s, m) \/ \A d \in Calls \ {c} : ~Holds(call[d], m),
         k = Idle \/ (k \in Job /\ Orderly(k)' /\ InStep(k)'),
         \A n \in Machines : Holds(k, n) => Holds(call[c], n) \/ MachineFree(n),
         Writes(k) => Writes(call[c]) /\ k.who \notin open
  PROVE  IInv'
<1>1. up
  BY DEF IInv, DownIdle
<1>2. Later
  <2>1. \A u \in Members : devices[u] \in Nat
    BY Sets DEF IInv, Types, Counts
  <2> QED BY <2>1 DEF Later, IInv, Types
<1>3. /\ store' \in [Machines -> Store]
      /\ \A n \in Machines : store'[n] = IF n = m THEN s ELSE store[n]
  BY DEF IInv, Types
<1>4. \A d \in Calls \ {c} : call[d] # Idle => InStep(call[d])'
  <2>1. SUFFICES ASSUME NEW d \in Calls, d # c, call[d] # Idle PROVE InStep(call[d])'
    OBVIOUS
  <2>2. call[d] \in Job /\ Orderly(call[d]) /\ InStep(call[d]) /\ call'[d] = call[d]
    BY <2>1 DEF IInv, Types, Jobs
  <2>3. PICK j : j = call[d]
    OBVIOUS
  <2>4. j.who \in Machines
    BY <2>2, <2>3 DEF Job
  <2>5. InStep(j)'
    <3>1. CASE j.who # m
      <4>1. store'[j.who] = store[j.who]
        BY <1>3, <2>4, <3>1
      <4> QED BY <2>2, <2>3, <4>1, InStepLasts
    <3>2. CASE j.who = m /\ Better(s, m)
      BY <1>3, <2>2, <2>3, <3>2, BetterInStep
    <3>3. CASE j.who = m /\ ~Better(s, m)
      <4>1. ~Holds(j, j.who)
        BY <2>1, <2>3, <3>3
      <4>2. j.pc = "answer" => \A u \in Members : j.asked[u] # 0 => told'[j.who][u] <= j.asked[u]
        BY <2>2, <2>3 DEF InStep
      <4> QED BY <2>2, <2>3, <4>1, <4>2, OutsideInStep
    <3> QED BY <3>1, <3>2, <3>3
  <2> QED BY <2>2, <2>3, <2>5
<1>5. Informed'
  BY <1>3 DEF IInv, Informed
<1>6. KeysUp'
  BY <1>3, Sets DEF IInv, KeysUp, Published
<1> QED BY <1>1, <1>2, <1>3, <1>4, <1>5, <1>6, StepKeeps DEF IInv, Types

LEMMA InitPuppetKeeps ==
  ASSUME IInv, NEW c \in Calls, InitPuppet(c)
  PROVE  IInv'
<1> DEFINE j == call[c]
           m == call[c].who
<1>1. j \in Job /\ Orderly(j) /\ InStep(j) /\ j.pc = "init" /\ m \in Puppets /\ m \in Machines /\ j # Idle
  BY AtWork, IdleIsIdle, Sets DEF InitPuppet, At, Orderly
<1>2. UNCHANGED <<scenario, devices, encrypted, flagged, up, open, told>> /\ (Fault \/ NoFault)
  BY DEF InitPuppet, Failed, histVars
<1>3. faults' \in Nat /\ faults' >= faults
  BY <1>2, FaultsGrow
<1>4. published \subseteq Upload(m) /\ m \in Upload(m)
  BY <1>1 DEF Upload, IInv, KeysUp
<1>5. m \notin open
  BY <1>1, Writing DEF Writes, IInv, OneMachine
<1>6. Later
  <2>1. \A u \in Members : devices[u] \in Nat
    BY Sets DEF IInv, Types, Counts
  <2>2. published \subseteq published'
    BY <1>4 DEF InitPuppet
  <2> QED BY <1>2, <1>3, <2>1, <2>2 DEF Later, IInv, Types
<1>7. CASE store' = [store EXCEPT ![m] = Opened(@)] /\ published' = Upload(m) /\ Goto(c, "sign")
  <2>1. PICK k : k = [j EXCEPT !.pc = "sign"]
    OBVIOUS
  <2>2. call' = [call EXCEPT ![c] = k]
    BY <1>7, <2>1 DEF Goto, IInv, Types
  <2>3. k \in Job /\ Alike(k, j) /\ k.pc = "sign" /\ k.enc = j.enc /\ k.file = j.file
    BY <1>1, <2>1, GotoFields DEF Stages
  <2>4. Orderly(k)'
    BY <1>1, <1>4, <1>6, <1>7, <2>3, AlikeOrderly
  <2>5. InStep(k)' /\ (\A n : ~Holds(k, n)) /\ k.who = m /\ Writes(j)
    BY <1>1, <2>3 DEF InStep, Holds, Locked, Alike, Kin, Writes
  <2> DEFINE s == Opened(store[m])
  <2>6. s \in Store /\ store' = [store EXCEPT ![m] = s]
    BY <1>1, <1>7, OpenedFacts DEF IInv, Types
  <2>7. \A u \in Members : told[m][u] <= devices[u]
    BY <1>1 DEF IInv, Informed
  <2>8. \A u \in Members : u \in s.tracked /\ u \notin s.dirty => told[m][u] <= s.known[u]
    BY <1>1, <2>7, OpenedFacts DEF IInv, Informed
  <2>9. Better(s, m)
    BY <1>1, <2>7, OpenedFacts DEF Better
  <2> HIDE DEF s
  <2> QED BY <1>1, <1>2, <1>3, <1>4, <1>5, <1>7, <2>2, <2>3, <2>4, <2>5, <2>6, <2>8, <2>9, StoreStep
<1>8. CASE Failed(c)
  <2>1. PICK k \in MoveOn(j) : call' = [call EXCEPT ![c] = k]
    BY <1>8 DEF Failed, Continue
  <2>2. Lands(k, j)
    BY <1>1, <2>1, MoveOnLands
  <2>3. k = Idle \/ (k \in Job /\ Orderly(k)' /\ InStep(k)')
    BY <1>1, <1>6, <2>2, LandedOK
  <2>4. ~Writes(k) /\ \A n : ~Holds(k, n)
    BY <1>1, <1>6, <2>2, LandedOK, IdleIsIdle
  <2>5. CASE UNCHANGED <<store, published>>
    BY <1>1, <1>2, <1>3, <2>1, <2>2, <2>5, LandingStep, IdleIsIdle DEF IInv, Types
  <2>6. CASE store' = [store EXCEPT ![m].uploaded = TRUE] /\ published' = Upload(m)
    <3> DEFINE s == [store[m] EXCEPT !.uploaded = TRUE]
    <3>1. store[m] \in Store
      BY <1>1 DEF IInv, Types
    <3>2. s \in Store /\ s.tracked = store[m].tracked /\ s.dirty = store[m].dirty /\ s.olm = store[m].olm
          /\ s.shared = store[m].shared /\ s.known = store[m].known
      BY <3>1 DEF Store
    <3>3. store' = [store EXCEPT ![m] = s]
      BY <2>6 DEF IInv, Types
    <3> HIDE DEF s
    <3>4. Better(s, m) /\ \A u \in Members : u \in s.tracked /\ u \notin s.dirty => told[m][u] <= s.known[u]
      BY <1>1, <3>2 DEF Better, IInv, Informed
    <3> QED BY <1>1, <1>2, <1>3, <1>4, <2>1, <2>3, <2>4, <2>6, <3>2, <3>3, <3>4, StoreStep
  <2> QED BY <1>7, <1>8, <2>5, <2>6 DEF InitPuppet
<1> QED BY <1>7, <1>8 DEF InitPuppet

LEMMA InsertKeeps ==
  ASSUME IInv, NEW c \in Calls, Insert(c)
  PROVE  IInv'
<1> DEFINE j == call[c]
<1>1. j \in Job /\ Orderly(j) /\ InStep(j) /\ j.pc = "sign" /\ j.who \in Puppets /\ j.who \in published /\ up
  BY AtWork DEF Insert, At, Orderly
<1>2. /\ UNCHANGED <<scenario, devices, encrypted, published, store, flagged, up, told, faults>>
      /\ open' = open \union {j.who}
  BY DEF Insert, serverVars, storeVars, histVars
<1>3. PICK k : k = [j EXCEPT !.pc = "lock"]
  OBVIOUS
<1>4. call' = [call EXCEPT ![c] = k]
  BY <1>3 DEF Insert, Goto, IInv, Types
<1>5. k \in Job /\ Alike(k, j) /\ k.pc = "lock" /\ k.enc = j.enc /\ k.file = j.file
  BY <1>1, <1>3, GotoFields DEF Stages
<1>6. Later
  <2>1. \A u \in Members : devices[u] \in Nat
    BY Sets DEF IInv, Types, Counts
  <2> QED BY <1>2, <2>1 DEF Later, IInv, Types
<1>7. Orderly(k)'
  BY <1>1, <1>5, <1>6, AlikeOrderly
<1>8. InStep(k)' /\ ~Writes(k) /\ (\A m : ~Holds(k, m)) /\ Writes(j)
  BY <1>1, <1>5 DEF InStep, Holds, Locked, Writes
<1>9. \A d \in Calls \ {c} : call[d] # Idle => InStep(call[d])'
  <2>1. SUFFICES ASSUME NEW d \in Calls, d # c, call[d] # Idle PROVE InStep(call[d])'
    OBVIOUS
  <2>2. InStep(call[d]) /\ call'[d] = call[d]
    BY <1>4, <2>1 DEF IInv, Types, Jobs
  <2>3. PICK i : i = call[d]
    OBVIOUS
  <2>4. InStep(i)'
    BY <1>2, <2>2, <2>3, InStepLasts
  <2> QED BY <2>2, <2>3, <2>4
<1>10. Informed' /\ KeysUp'
  BY <1>1, <1>2 DEF IInv, Informed, KeysUp, Published
<1> QED BY <1>1, <1>2, <1>4, <1>5, <1>6, <1>7, <1>8, <1>9, <1>10, StepKeeps DEF IInv, Types

-----------------------------------------------------------------------------
(* Under a machine's lock.                                                  *)

(* Nobody else holds what one handler holds or finds free.                  *)
LEMMA OnlyHolder ==
  ASSUME IInv, NEW c \in Calls, NEW m \in Machines, Holds(call[c], m) \/ MachineFree(m)
  PROVE  \A d \in Calls \ {c} : ~Holds(call[d], m)
BY Holding DEF IInv, OneHolder, MachineFree

LEMMA Known ==
  ASSUME IInv, NEW m \in Machines, store[m].tracked = Members, store[m].dirty = {}
  PROVE  \A u \in Members : told[m][u] <= store[m].known[u]
BY DEF IInv, Informed

LEMMA SameCalm ==
  ASSUME IInv, UNCHANGED <<scenario, devices, encrypted, published, flagged>>,
         faults' \in Nat, faults' >= faults
  PROVE  Later
<1>1. \A u \in Members : devices[u] \in Nat
  BY Sets DEF IInv, Types, Counts
<1> QED BY <1>1 DEF Later, IInv, Types

LEMMA TrackKeeps ==
  ASSUME IInv, NEW c \in Calls, Track(c)
  PROVE  IInv'
<1> DEFINE j == call[c]
           m == call[c].who
<1>1. /\ j \in Job /\ Orderly(j) /\ j.pc = "lock" /\ j # Idle /\ m \in Machines
      /\ j.phase \in {"send", "event"} /\ MachineFree(m)
  BY AtWork, IdleIsIdle DEF Track, At, In, Job
<1>2. /\ UNCHANGED <<scenario, devices, encrypted, published, flagged, up, open, told, faults>>
      /\ faults' \in Nat /\ faults' >= faults
  BY DEF Track, serverVars, poolVars, histVars, IInv, Types
<1>3. PICK k : k = [j EXCEPT !.pc = "ask"]
  OBVIOUS
<1>4. call' = [call EXCEPT ![c] = k]
  BY <1>3 DEF Track, Goto, IInv, Types
<1>5. k \in Job /\ Alike(k, j) /\ k.pc = "ask" /\ k.enc = j.enc /\ k.file = j.file
  BY <1>1, <1>3, GotoFields DEF Stages
<1>6. Later
  BY <1>2, SameCalm
<1>7. Orderly(k)'
  BY <1>1, <1>5, <1>6, AlikeOrderly
<1> DEFINE s == [store[m] EXCEPT !.tracked = Members, !.dirty = store[m].dirty \union (Members \ store[m].tracked)]
<1>8. store' = [store EXCEPT ![m] = s] /\ store[m] \in Store
  BY <1>1 DEF Track, IInv, Types
<1>9. /\ s \in Store /\ s.tracked = Members /\ s.dirty = store[m].dirty \union (Members \ store[m].tracked)
      /\ s.known = store[m].known /\ s.uploaded = store[m].uploaded
  BY <1>8 DEF Store
<1>10. store'[m] = s
  BY <1>1, <1>8 DEF IInv, Types
<1> HIDE DEF s
<1>11. \A u \in Members : u \in s.tracked /\ u \notin s.dirty => told[m][u] <= s.known[u]
  BY <1>1, <1>9 DEF IInv, Informed
<1>12. InStep(k)' /\ ~Writes(k)
  BY <1>5, <1>9, <1>10 DEF InStep, Locked, Writes, Alike, Kin
<1>13. \A d \in Calls \ {c} : ~Holds(call[d], m)
  BY <1>1, OnlyHolder
<1>14. \A n \in Machines : Holds(k, n) => MachineFree(n)
  BY <1>1, <1>5 DEF Holds, Alike, Kin
<1>15. s.uploaded => m \in published'
  BY <1>1, <1>2, <1>9 DEF IInv, KeysUp
<1> QED BY <1>1, <1>2, <1>4, <1>5, <1>7, <1>8, <1>9, <1>11, <1>12, <1>13, <1>14, <1>15, StoreStep

LEMMA AskKeeps ==
  ASSUME IInv, NEW c \in Calls, Ask(c)
  PROVE  IInv'
<1> DEFINE j == call[c]
           m == call[c].who
<1>1. /\ j \in Job /\ Orderly(j) /\ InStep(j) /\ j.pc = "ask" /\ j # Idle /\ m \in Machines
  BY AtWork, IdleIsIdle DEF Ask, At, Job
<1>7. UNCHANGED <<scenario, devices, encrypted, published, store, flagged, up, open, told, faults>>
  BY DEF Ask, serverVars, storeVars, histVars
<1>2. /\ UNCHANGED <<scenario, devices, encrypted, published, store, flagged, up, open, told, faults>>
      /\ flagged' \in BOOLEAN /\ (flagged => flagged') /\ faults' \in Nat /\ faults' >= faults
  BY <1>7 DEF IInv, Types
<1>3. Later
  BY <1>2, SameCalm
<1>4. store[m] \in Store
  BY <1>1 DEF IInv, Types
<1>5. CASE store[m].dirty = {}
  <2>1. PICK k \in Flushed(j) : call' = [call EXCEPT ![c] = k]
    BY <1>5 DEF Ask, Continue
  <2>2. CASE Lands(k, j)
    BY <1>1, <1>2, <2>1, <2>2, LandingStep
  <2>3. CASE j.phase \in {"send", "event"} /\ k = [j EXCEPT !.pc = "claim", !.asked = Nothing]
    <3>1. k \in Job /\ Alike(k, j) /\ k.pc = "claim" /\ k.enc = j.enc /\ k.file = j.file
      BY <1>1, <2>3, Sets DEF Job, Alike, Kin
    <3>2. Orderly(k)'
      BY <1>1, <1>3, <2>3, <3>1, AlikeOrderly
    <3>3. store[m].tracked = Members
      BY <1>1, <2>3 DEF InStep, Locked
    <3>4. \A u \in Members : told[m][u] <= store[m].known[u]
      BY <1>1, <1>5, <3>3, Known
    <3>5. InStep(k)' /\ ~Writes(k)
      BY <1>2, <3>1, <3>3, <3>4 DEF InStep, Alike, Kin, Writes
    <3>6. \A n \in Machines : Holds(k, n) => Holds(j, n)
      BY <1>1, <2>3, <3>1 DEF Holds, Alike, Kin, Locked
    <3> QED BY <1>1, <1>2, <2>1, <3>1, <3>2, <3>5, <3>6, JobStep
  <2> QED BY <1>1, <2>1, <2>2, <2>3, FlushedLands
<1>6. CASE store[m].dirty # {}
  <2> DEFINE a == [u \in Members |-> IF u \in store[m].dirty THEN devices[u] ELSE 0]
  <2>1. a \in Counts /\ Named(a) = store[m].dirty
        /\ \A u \in Members : a[u] # 0 => a[u] = devices[u]
    <3>1. devices \in Counts /\ \A u \in Members : devices[u] >= 1
      BY DEF IInv, Types
    <3>2. a \in Counts
      BY <3>1, Sets DEF Counts
    <3>3. \A u \in Members : a[u] # 0 <=> u \in store[m].dirty
      BY <3>1
    <3> QED BY <1>4, <3>2, <3>3 DEF Named, Store
  <2>2. PICK b, k : b = a /\ k = [j EXCEPT !.pc = "answer", !.asked = b]
    OBVIOUS
  <2>3. call' = [call EXCEPT ![c] = k]
    BY <1>6, <2>2 DEF Ask, Continue
  <2> HIDE DEF a
  <2>4. k \in Job /\ Alike(k, j) /\ k.pc = "answer" /\ k.asked = b /\ k.enc = j.enc /\ k.file = j.file
    BY <1>1, <2>1, <2>2 DEF Job, Alike, Kin
  <2>5. Orderly(k)'
    BY <1>1, <1>3, <2>4, AlikeOrderly
  <2>6. \A u \in Members : k.asked[u] # 0 => told[m][u] <= k.asked[u]
    BY <1>1, <2>1, <2>2, <2>4 DEF IInv, Informed
  <2>7. InStep(k)' /\ ~Writes(k)
    BY <1>1, <1>2, <2>1, <2>2, <2>4, <2>6 DEF InStep, Alike, Kin, Writes, Locked
  <2>8. \A n \in Machines : Holds(k, n) => Holds(j, n)
    BY <1>1, <2>4 DEF Holds, Alike, Kin, Locked
  <2> QED BY <1>1, <1>2, <2>3, <2>4, <2>5, <2>7, <2>8, JobStep
<1> QED BY <1>5, <1>6

LEMMA LargerFacts ==
  ASSUME NEW f \in Counts, NEW g \in Counts
  PROVE  Larger(f, g) \in Counts /\ \A u \in Members :
           /\ Larger(f, g)[u] \in Nat /\ f[u] \in Nat /\ g[u] \in Nat
           /\ Larger(f, g)[u] >= f[u] /\ Larger(f, g)[u] >= g[u]
           /\ Larger(f, g)[u] \in {f[u], g[u]}
<1>1. \A u \in Members : f[u] \in Count /\ g[u] \in Count /\ f[u] \in Nat /\ g[u] \in Nat
  BY Sets DEF Counts
<1> QED BY <1>1 DEF Larger, Counts

LEMMA AnswerKeeps ==
  ASSUME IInv, NEW c \in Calls, Answer(c)
  PROVE  IInv'
<1> DEFINE j == call[c]
           m == call[c].who
<1>1. /\ j \in Job /\ Orderly(j) /\ InStep(j) /\ j.pc = "answer" /\ j # Idle /\ m \in Machines
      /\ j.asked \in Counts
  BY AtWork, IdleIsIdle DEF Answer, At, Job
<1>2. UNCHANGED <<scenario, devices, encrypted, published, flagged, up, open, told>> /\ (Fault \/ NoFault)
  BY DEF Answer, Failed, serverVars, histVars
<1>3. faults' \in Nat /\ faults' >= faults
  BY <1>2, FaultsGrow
<1>4. Later
  BY <1>2, <1>3, SameCalm
<1>5. store[m] \in Store /\ store[m].known \in Counts /\ told[m] \in Counts
  BY <1>1 DEF IInv, Types, Store
<1>6. CASE Failed(c) /\ store' = store
  <2>1. PICK k \in MoveOn(j) : call' = [call EXCEPT ![c] = k]
    BY <1>6 DEF Failed, Continue
  <2>2. Lands(k, j)
    BY <1>1, <2>1, MoveOnLands
  <2>3. flagged' \in BOOLEAN /\ (flagged => flagged')
    BY <1>2 DEF IInv, Types
  <2> QED BY <1>1, <1>2, <1>3, <1>6, <2>1, <2>2, <2>3, LandingStep
<1>7. CASE ~(Failed(c) /\ store' = store)
  <2> DEFINE known == Larger(store[m].known, j.asked)
             s == [store[m] EXCEPT !.known = known, !.dirty = store[m].dirty \ Named(j.asked)]
  <2>1. store' = [store EXCEPT ![m] = s]
    BY <1>1, <1>5, <1>7 DEF Answer, IInv, Types
  <2>2. PICK k \in Flushed(j) : call' = [call EXCEPT ![c] = k]
    BY <1>7 DEF Answer, Continue
  <2>3. known \in Counts /\ \A u \in Members :
          /\ known[u] \in Nat /\ store[m].known[u] \in Nat /\ j.asked[u] \in Nat /\ told[m][u] \in Nat
          /\ known[u] >= store[m].known[u] /\ known[u] >= j.asked[u]
    <3>1. \A u \in Members : told[m][u] \in Nat
      BY <1>5, Sets DEF Counts
    <3> QED BY <1>1, <1>5, <3>1, LargerFacts
  <2> HIDE DEF known
  <2>4. /\ s \in Store /\ s.tracked = store[m].tracked /\ s.dirty = store[m].dirty \ Named(j.asked)
        /\ s.known = known /\ s.olm = store[m].olm /\ s.shared = store[m].shared
        /\ s.uploaded = store[m].uploaded
    BY <1>5, <2>3 DEF Store
  <2>5. store'[m] = s
    BY <1>1, <2>1 DEF IInv, Types
  <2> HIDE DEF s
  <2>6. \A u \in Members : u \in s.tracked /\ u \notin s.dirty => told[m][u] <= s.known[u]
    <3>1. SUFFICES ASSUME NEW u \in Members, u \in store[m].tracked,
                          u \notin store[m].dirty \/ u \in Named(j.asked)
                   PROVE  told[m][u] <= known[u]
      BY <2>4
    <3>2. CASE u \notin store[m].dirty
      <4>1. told[m][u] <= store[m].known[u]
        BY <1>1, <3>1, <3>2 DEF IInv, Informed
      <4> QED BY <2>3, <4>1
    <3>3. CASE u \in Named(j.asked)
      <4>1. told[m][u] <= j.asked[u]
        BY <1>1, <3>3 DEF InStep, Named
      <4> QED BY <2>3, <4>1
    <3> QED BY <3>1, <3>2, <3>3
  <2>7. Better(s, m)
    BY <2>3, <2>4 DEF Better
  <2>8. s.uploaded => m \in published'
    BY <1>1, <1>2, <2>4 DEF IInv, KeysUp
  <2>9. CASE Lands(k, j)
    <3>1. k = Idle \/ (k \in Job /\ Orderly(k)' /\ InStep(k)')
      BY <1>1, <1>4, <2>9, LandedOK
    <3>2. ~Writes(k) /\ \A n : ~Holds(k, n)
      BY <1>1, <1>4, <2>9, LandedOK, IdleIsIdle
    <3> QED BY <1>1, <1>2, <1>3, <2>1, <2>2, <2>4, <2>6, <2>7, <2>8, <3>1, <3>2, StoreStep
  <2>10. CASE j.phase \in {"send", "event"} /\ k = [j EXCEPT !.pc = "claim", !.asked = Nothing]
    <3>1. k \in Job /\ Alike(k, j) /\ k.pc = "claim" /\ k.enc = j.enc /\ k.file = j.file
      BY <1>1, <2>10, Sets DEF Job, Alike, Kin
    <3>2. Orderly(k)'
      BY <1>1, <1>4, <2>10, <3>1, AlikeOrderly
    <3>3. store[m].tracked = Members /\ store[m].dirty \subseteq Named(j.asked)
      BY <1>1, <2>10 DEF InStep, Locked
    <3>4. \A u \in Members : told[m][u] <= s.known[u]
      BY <2>4, <2>6, <3>3
    <3>5. InStep(k)' /\ ~Writes(k)
      BY <1>2, <2>4, <2>5, <3>1, <3>3, <3>4 DEF InStep, Alike, Kin, Writes
    <3>6. \A n \in Machines : Holds(k, n) => Holds(j, n)
      BY <1>1, <2>10, <3>1 DEF Holds, Alike, Kin, Locked
    <3> QED BY <1>1, <1>2, <1>3, <2>1, <2>2, <2>4, <2>6, <2>7, <2>8, <3>1, <3>2, <3>5, <3>6, StoreStep
  <2> QED BY <1>1, <2>2, <2>9, <2>10, FlushedLands
<1> QED BY <1>6, <1>7

LEMMA ClaimKeeps ==
  ASSUME IInv, NEW c \in Calls, Claim(c)
  PROVE  IInv'
<1> DEFINE j == call[c]
           m == call[c].who
<1>1. /\ j \in Job /\ Orderly(j) /\ InStep(j) /\ j.pc = "claim" /\ j # Idle /\ m \in Machines
      /\ j.phase \in {"send", "event"} /\ Holds(j, m)
  BY AtWork, IdleIsIdle DEF Claim, At, Job, Orderly, Holds, Locked
<1>2. UNCHANGED <<scenario, devices, encrypted, published, flagged, up, open, told>> /\ (Fault \/ NoFault)
  BY DEF Claim, Failed, serverVars, histVars
<1>3. faults' \in Nat /\ faults' >= faults
  BY <1>2, FaultsGrow
<1>4. Later
  BY <1>2, <1>3, SameCalm
<1>5. store[m] \in Store
  BY <1>1 DEF IInv, Types
<1>6. CASE Failed(c) /\ store' = store
  <2>1. PICK k \in MoveOn(j) : call' = [call EXCEPT ![c] = k]
    BY <1>6 DEF Failed, Continue
  <2>2. Lands(k, j)
    BY <1>1, <2>1, MoveOnLands
  <2>3. flagged' \in BOOLEAN /\ (flagged => flagged')
    BY <1>2 DEF IInv, Types
  <2> QED BY <1>1, <1>2, <1>3, <1>6, <2>1, <2>2, <2>3, LandingStep
<1>7. CASE ~(Failed(c) /\ store' = store)
  <2> DEFINE s == [store[m] EXCEPT !.olm = store[m].known]
  <2>1. store' = [store EXCEPT ![m] = s]
    BY <1>1, <1>5, <1>7 DEF Claim, IInv, Types
  <2>4. /\ s \in Store /\ s.tracked = store[m].tracked /\ s.dirty = store[m].dirty
        /\ s.known = store[m].known /\ s.olm = store[m].known /\ s.uploaded = store[m].uploaded
    BY <1>5 DEF Store
  <2>5. store'[m] = s
    BY <1>1, <2>1 DEF IInv, Types
  <2> HIDE DEF s
  <2>6. \A u \in Members : u \in s.tracked /\ u \notin s.dirty => told[m][u] <= s.known[u]
    BY <1>1, <2>4 DEF IInv, Informed
  <2>7. \A d \in Calls \ {c} : ~Holds(call[d], m)
    BY <1>1, OnlyHolder
  <2>8. s.uploaded => m \in published'
    BY <1>1, <1>2, <2>4 DEF IInv, KeysUp
  <2>9. CASE j.phase = "send"
    <3>1. PICK k : k = [j EXCEPT !.pc = "share"]
      OBVIOUS
    <3>2. call' = [call EXCEPT ![c] = k]
      BY <1>7, <2>9, <3>1 DEF Claim, Goto, IInv, Types
    <3>3. k \in Job /\ Alike(k, j) /\ k.pc = "share" /\ k.enc = j.enc /\ k.file = j.file
      BY <1>1, <3>1, GotoFields DEF Stages
    <3>4. Orderly(k)'
      BY <1>1, <1>4, <2>9, <3>3, AlikeOrderly
    <3>5. InStep(k)' /\ ~Writes(k)
      BY <1>1, <1>2, <2>4, <2>5, <3>3 DEF InStep, Alike, Kin, Writes, Locked
    <3>6. \A n \in Machines : Holds(k, n) => Holds(j, n)
      BY <1>1, <3>3 DEF Holds, Alike, Kin, Locked
    <3> QED BY <1>1, <1>2, <1>3, <2>1, <2>4, <2>6, <2>7, <2>8, <3>2, <3>3, <3>4, <3>5, <3>6, StoreStep
  <2>10. CASE j.phase # "send"
    <3>1. PICK k \in MoveOn(j) : call' = [call EXCEPT ![c] = k]
      BY <1>7, <2>10 DEF Claim, Continue
    <3>2. Lands(k, j)
      BY <1>1, <3>1, MoveOnLands
    <3>3. k = Idle \/ (k \in Job /\ Orderly(k)' /\ InStep(k)')
      BY <1>1, <1>4, <3>2, LandedOK
    <3>4. ~Writes(k) /\ \A n : ~Holds(k, n)
      BY <1>1, <1>4, <3>2, LandedOK, IdleIsIdle
    <3> QED BY <1>1, <1>2, <1>3, <2>1, <2>4, <2>6, <2>7, <2>8, <3>1, <3>3, <3>4, StoreStep
  <2> QED BY <2>9, <2>10
<1> QED BY <1>6, <1>7

LEMMA ShareKeeps ==
  ASSUME IInv, NEW c \in Calls, Share(c)
  PROVE  IInv'
<1> DEFINE j == call[c]
           m == call[c].who
<1>1. /\ j \in Job /\ Orderly(j) /\ InStep(j) /\ j.pc = "share" /\ j # Idle /\ m \in Machines
      /\ j.phase = "send" /\ Holds(j, m)
  BY AtWork, IdleIsIdle DEF Share, At, Job, Orderly, Holds, Locked
<1>2. UNCHANGED <<scenario, devices, encrypted, published, flagged, up, open, told, faults>>
  BY DEF Share, serverVars, poolVars, histVars
<1>3. faults' \in Nat /\ faults' >= faults
  BY <1>2 DEF IInv, Types
<1>4. Later
  BY <1>2, <1>3, SameCalm
<1>5. store[m] \in Store
  BY <1>1 DEF IInv, Types
<1> DEFINE s == [store[m] EXCEPT !.shared = store[m].olm]
<1>6. store' = [store EXCEPT ![m] = s]
  BY <1>1, <1>5 DEF Share, IInv, Types
<1>7. /\ s \in Store /\ s.tracked = store[m].tracked /\ s.dirty = store[m].dirty
      /\ s.known = store[m].known /\ s.shared = store[m].olm /\ s.uploaded = store[m].uploaded
  BY <1>5 DEF Store
<1>8. store'[m] = s
  BY <1>1, <1>6 DEF IInv, Types
<1> HIDE DEF s
<1>9. \A u \in Members : u \in s.tracked /\ u \notin s.dirty => told[m][u] <= s.known[u]
  BY <1>1, <1>7 DEF IInv, Informed
<1>10. \A d \in Calls \ {c} : ~Holds(call[d], m)
  BY <1>1, OnlyHolder
<1>11. s.uploaded => m \in published'
  BY <1>1, <1>2, <1>7 DEF IInv, KeysUp
<1>12. PICK k : k = [j EXCEPT !.pc = "seal"]
  OBVIOUS
<1>13. call' = [call EXCEPT ![c] = k]
  BY <1>12 DEF Share, Goto, IInv, Types
<1>14. k \in Job /\ Alike(k, j) /\ k.pc = "seal" /\ k.enc = j.enc /\ k.file = j.file
  BY <1>1, <1>12, GotoFields DEF Stages
<1>15. Orderly(k)'
  BY <1>1, <1>4, <1>14, AlikeOrderly
<1>16. InStep(k)' /\ ~Writes(k)
  BY <1>1, <1>2, <1>7, <1>8, <1>14 DEF InStep, Alike, Kin, Writes, Locked
<1>17. \A n \in Machines : Holds(k, n) => Holds(j, n)
  BY <1>1, <1>14 DEF Holds, Alike, Kin, Locked
<1> QED BY <1>1, <1>2, <1>3, <1>6, <1>7, <1>9, <1>10, <1>11, <1>13, <1>14, <1>15, <1>16, <1>17, StoreStep

(* Having told a machine, a handler asks next; what others wait to hear of  *)
(* those whose list changed does not count any more.                        *)
LEMMA ReceivedJobs ==
  ASSUME IInv, NEW c \in Calls, Receive(c)
  PROVE  /\ call'[c] \in Job /\ Alike(call'[c], call[c]) /\ call'[c].pc = "ask"
         /\ call'[c].enc = call[c].enc /\ call'[c].file = call[c].file /\ call'[c].asked = call[c].asked
         /\ \A d \in Calls : d # c /\ call[d] # Idle =>
              /\ call'[d] \in Job /\ call'[d].pc = call[d].pc /\ Alike(call'[d], call[d])
              /\ call'[d].enc = call[d].enc /\ call'[d].file = call[d].file
              /\ call[d].who = call[c].who => \A u \in Members : call'[d].asked[u] # 0 =>
                   call[c].news[u] = 0 /\ call'[d].asked[u] = call[d].asked[u]
              /\ call[d].who # call[c].who => call'[d] = call[d]
         /\ \A d \in Calls : d # c /\ call[d] = Idle => call'[d] = Idle
<1>0. PICK m, news : m = call[c].who /\ news = call[c].news
  OBVIOUS
<1>1. call[c] \in Job
  BY AtWork DEF Receive, At
<1>21. PICK k : k = [call[c] EXCEPT !.pc = "ask"]
  OBVIOUS
<1> DEFINE Less(d) == [call[d] EXCEPT !.asked = [u \in Members |-> IF news[u] = 0 THEN @[u] ELSE 0]]
<1>12. \A d \in Calls : call'[d] = IF d = c THEN k
                                   ELSE IF d \in Active /\ call[d].who = m THEN Less(d) ELSE call[d]
  BY <1>0, <1>21 DEF Receive
<1>13. k \in Job /\ Alike(k, call[c]) /\ k.pc = "ask" /\ k.enc = call[c].enc /\ k.file = call[c].file
       /\ k.asked = call[c].asked
  BY <1>1, <1>21, GotoFields DEF Stages
<1>14. ASSUME NEW d \in Calls, d # c, d \in Active, call[d].who = m
       PROVE  /\ Less(d) \in Job /\ Alike(Less(d), call[d]) /\ Less(d).pc = call[d].pc
              /\ Less(d).enc = call[d].enc /\ Less(d).file = call[d].file
              /\ \A u \in Members : Less(d).asked[u] # 0 => news[u] = 0 /\ Less(d).asked[u] = call[d].asked[u]
  <2>1. call[d] \in Job
    BY <1>14 DEF Active, IInv, Types
  <2> DEFINE a == [u \in Members |-> IF news[u] = 0 THEN call[d].asked[u] ELSE 0]
  <2>2. call[d].asked \in Counts
    BY <2>1 DEF Job
  <2>3. a \in Counts
    BY <2>2, Sets DEF Counts
  <2>4. Less(d) = [call[d] EXCEPT !.asked = a]
    BY <2>1 DEF Job
  <2>5. \A u \in Members : a[u] # 0 => news[u] = 0 /\ a[u] = call[d].asked[u]
    OBVIOUS
  <2> HIDE DEF a
  <2>6. /\ Less(d) \in Job /\ Alike(Less(d), call[d]) /\ Less(d).pc = call[d].pc
        /\ Less(d).enc = call[d].enc /\ Less(d).file = call[d].file /\ Less(d).asked = a
    BY <2>1, <2>3, <2>4 DEF Job, Alike, Kin
  <2> QED BY <2>5, <2>6
<1> HIDE DEF Less
<1>15. ASSUME NEW d \in Calls, d # c, call[d] # Idle
       PROVE  /\ call'[d] \in Job /\ call'[d].pc = call[d].pc /\ Alike(call'[d], call[d])
              /\ call'[d].enc = call[d].enc /\ call'[d].file = call[d].file
              /\ call[d].who = m => \A u \in Members : call'[d].asked[u] # 0 =>
                                       news[u] = 0 /\ call'[d].asked[u] = call[d].asked[u]
              /\ call[d].who # m => call'[d] = call[d]
  <2>1. call[d] \in Job /\ d \in Active
    BY <1>15 DEF Active, IInv, Types
  <2>2. CASE call[d].who = m
    BY <1>12, <1>14, <1>15, <2>1, <2>2
  <2>3. CASE call[d].who # m
    BY <1>12, <1>15, <2>1, <2>3 DEF Alike, Kin
  <2> QED BY <2>2, <2>3
<1>16. \A d \in Calls : d # c /\ call[d] = Idle => call'[d] = Idle
  BY <1>12 DEF Active
<1> QED BY <1>0, <1>12, <1>13, <1>15, <1>16

LEMMA ReceiveKeeps ==
  ASSUME IInv, NEW c \in Calls, Receive(c)
  PROVE  IInv'
<1>0. PICK m, news : m = call[c].who /\ news = call[c].news
  OBVIOUS
<1>1. /\ call[c] \in Job /\ Orderly(call[c]) /\ call[c].pc = "lock" /\ m \in Machines
      /\ call[c].phase \in {"bot", "named", "broadcast"} /\ MachineFree(m) /\ up
      /\ news \in Counts /\ \A u \in Members : news[u] \in Nat /\ news[u] <= devices[u]
  <2>1. call[c] \in Job /\ Orderly(call[c]) /\ call[c].pc = "lock" /\ up
        /\ call[c].phase \in {"bot", "named", "broadcast"} /\ MachineFree(m)
    BY <1>0, AtWork DEF Receive, At, In
  <2>2. m \in Machines /\ news \in Counts
    BY <1>0, <2>1 DEF Job
  <2>3. \A u \in Members : news[u] \in Nat
    BY <2>2, Sets DEF Counts
  <2> QED BY <1>0, <2>1, <2>2, <2>3 DEF Orderly
<1>2. UNCHANGED <<scenario, devices, encrypted, published, flagged, up, open, faults>>
  BY DEF Receive, serverVars, poolVars
<1>3. faults' \in Nat /\ faults' >= faults
  BY <1>2 DEF IInv, Types
<1>4. Later
  BY <1>2, <1>3, SameCalm
<1>5. store[m] \in Store /\ told[m] \in Counts
  BY <1>1 DEF IInv, Types
<1>20. PICK s, now :
         /\ s = [store[m] EXCEPT !.dirty = store[m].dirty \union (Named(news) \intersect store[m].tracked)]
         /\ now = Larger(told[m], news)
  OBVIOUS
<1>6. store' = [store EXCEPT ![m] = s] /\ told' = [told EXCEPT ![m] = now]
  BY <1>0, <1>1, <1>5, <1>20 DEF Receive, IInv, Types
<1>7. /\ s \in Store /\ s.tracked = store[m].tracked /\ s.known = store[m].known
      /\ s.dirty = store[m].dirty \union (Named(news) \intersect store[m].tracked)
      /\ s.uploaded = store[m].uploaded
  BY <1>5, <1>20 DEF Store
<1>8. now \in Counts /\ \A u \in Members : now[u] <= devices[u] /\ (u \notin Named(news) => now[u] = told[m][u])
  <2>1. \A u \in Members : told[m][u] <= devices[u] /\ devices[u] \in Nat
    BY <1>1, Sets DEF IInv, Informed, Types, Counts
  <2>2. \A u \in Members : u \notin Named(news) => news[u] = 0
    BY DEF Named
  <2> QED BY <1>1, <1>5, <1>20, <2>1, <2>2, LargerFacts
<1>9. /\ store' \in [Machines -> Store] /\ told' \in [Machines -> Counts]
      /\ store'[m] = s /\ told'[m] = now
      /\ \A n \in Machines \ {m} : store'[n] = store[n] /\ told'[n] = told[n]
  <2>1. store \in [Machines -> Store] /\ told \in [Machines -> Counts] /\ m \in Machines
    BY <1>1 DEF IInv, Types
  <2>2. s \in Store /\ now \in Counts
    BY <1>7, <1>8
  <2> QED BY <1>6, <2>1, <2>2
<1>10. Informed'
  <2>1. SUFFICES ASSUME NEW n \in Machines, NEW u \in Members
                 PROVE  /\ told'[n][u] <= devices[u]
                        /\ u \in store'[n].tracked /\ u \notin store'[n].dirty =>
                             told'[n][u] <= store'[n].known[u]
    BY <1>2 DEF Informed
  <2>2. CASE n = m
    <3>1. now[u] <= devices[u] /\ (u \in s.tracked /\ u \notin s.dirty => now[u] <= s.known[u])
      BY <1>1, <1>7, <1>8 DEF IInv, Informed
    <3> QED BY <1>9, <2>2, <3>1
  <2>3. CASE n # m
    <3>1. store'[n] = store[n] /\ told'[n] = told[n]
      BY <1>9, <2>3
    <3> QED BY <3>1 DEF IInv, Informed
  <2> QED BY <2>2, <2>3
<1>11. KeysUp'
  <2>1. ASSUME NEW n \in Machines, store'[n].uploaded PROVE n \in published
    <3>1. store[n].uploaded
      BY <1>7, <1>9, <2>1, Sets
    <3> QED BY <2>1, <3>1 DEF IInv, KeysUp
  <2> QED BY <1>2, <2>1 DEF IInv, KeysUp, Published
<1>15. /\ call'[c] \in Job /\ Alike(call'[c], call[c]) /\ call'[c].pc = "ask"
       /\ call'[c].enc = call[c].enc /\ call'[c].file = call[c].file
       /\ \A d \in Calls : d # c /\ call[d] # Idle =>
            /\ call'[d] \in Job /\ call'[d].pc = call[d].pc /\ Alike(call'[d], call[d])
            /\ call'[d].enc = call[d].enc /\ call'[d].file = call[d].file
            /\ call[d].who = m => \A u \in Members : call'[d].asked[u] # 0 =>
                                     news[u] = 0 /\ call'[d].asked[u] = call[d].asked[u]
            /\ call[d].who # m => call'[d] = call[d]
       /\ \A d \in Calls : d # c /\ call[d] = Idle => call'[d] = Idle
  BY <1>0, ReceivedJobs
<1>21. PICK k : k = call'[c]
  OBVIOUS
<1>13. k \in Job /\ Alike(k, call[c]) /\ k.pc = "ask" /\ k.enc = call[c].enc /\ k.file = call[c].file
  BY <1>15, <1>21
<1>16. \A d \in Calls : d # c /\ call[d] = Idle => call'[d] = Idle
  BY <1>15
<1>17. Types'
  <2>1. \A d \in Calls : call'[d] \in Job \union {Idle}
    BY <1>15, <1>16
  <2>2. call' = [d \in Calls |-> call'[d]]
    BY DEF Receive
  <2>3. call' \in [Calls -> Job \union {Idle}]
    BY <2>1, <2>2
  <2> QED BY <1>2, <1>9, <2>3 DEF IInv, Types
<1>18. Jobs'
  <2>1. Orderly(call[c])' /\ InStep(call[c])'
    <3>1. PICK i : i = call'[c]
      OBVIOUS
    <3>2. i = k
      BY <1>21, <3>1
    <3>3. Orderly(i)'
      BY <1>1, <1>4, <1>13, <3>2, AlikeOrderly
    <3>4. InStep(i)'
      BY <1>1, <1>13, <3>2 DEF InStep, Alike, Kin
    <3> QED BY <3>1, <3>3, <3>4
  <2>2. ASSUME NEW d \in Calls, d # c, call[d] # Idle PROVE Orderly(call[d])' /\ InStep(call[d])'
    <3>1. call[d] \in Job /\ Orderly(call[d]) /\ InStep(call[d])
      BY <2>2 DEF IInv, Types, Jobs
    <3>2. PICK i, l : i = call[d] /\ l = call'[d]
      OBVIOUS
    <3>3. /\ l \in Job /\ l.pc = i.pc /\ Alike(l, i) /\ l.enc = i.enc /\ l.file = i.file
          /\ i.who = m => \A u \in Members : l.asked[u] # 0 => news[u] = 0 /\ l.asked[u] = i.asked[u]
          /\ i.who # m => l = i
      BY <1>15, <2>2, <3>2
    <3>4. i.who \in Machines
      BY <3>1, <3>2 DEF Job
    <3>5. Orderly(l)'
      <4>1. Orderly(i)'
        BY <1>4, <3>1, <3>2, OrderlyLasts
      <4> QED BY <3>3, <4>1 DEF Orderly, Alike, Kin
    <3>6. InStep(l)'
      <4>1. CASE i.who = m
        <5>1. ~Holds(l, l.who)
          <6>1. ~Holds(i, m)
            BY <1>1, <2>2, <3>2, OnlyHolder
          <6> QED BY <3>3, <4>1, <6>1 DEF Holds, Alike, Kin
        <5>2. l.pc = "answer" => \A u \in Members : l.asked[u] # 0 => told'[l.who][u] <= l.asked[u]
          <6>1. SUFFICES ASSUME l.pc = "answer", NEW u \in Members, l.asked[u] # 0
                         PROVE  told'[m][u] <= l.asked[u]
            BY <3>3, <4>1 DEF Alike, Kin
          <6>2. news[u] = 0 /\ l.asked[u] = i.asked[u]
            BY <3>3, <4>1, <6>1
          <6>3. told'[m][u] = told[m][u]
            BY <1>1, <1>8, <1>9, <6>2 DEF Named
          <6>4. told[m][u] <= i.asked[u]
            BY <3>1, <3>2, <3>3, <4>1, <6>1, <6>2 DEF InStep
          <6> QED BY <6>2, <6>3, <6>4
        <5>3. l.pc \notin {"claim", "share", "seal"}
          BY <3>1, <3>2, <3>3, <5>1 DEF Orderly, Holds, Locked, Alike, Kin
        <5> QED BY <5>1, <5>2, <5>3 DEF InStep, Holds, Locked
      <4>2. CASE i.who # m
        <5>1. store'[i.who] = store[i.who] /\ told'[i.who] = told[i.who] /\ l = i
          BY <1>9, <3>3, <3>4, <4>2
        <5> QED BY <3>1, <3>2, <5>1, InStepLasts
      <4> QED BY <4>1, <4>2
    <3> QED BY <3>2, <3>5, <3>6
  <2> QED BY <1>16, <2>1, <2>2 DEF Jobs
<1>19. \A d \in Calls : d # c => \A n : Holds(call'[d], n) <=> Holds(call[d], n)
  <2>1. SUFFICES ASSUME NEW d \in Calls, d # c PROVE \A n : Holds(call'[d], n) <=> Holds(call[d], n)
    OBVIOUS
  <2>2. CASE call[d] = Idle
    BY <1>16, <2>1, <2>2
  <2>3. CASE call[d] # Idle
    BY <1>15, <2>1, <2>3 DEF Holds, Alike, Kin
  <2> QED BY <2>2, <2>3
<1>22. OneHolder'
  <2>1. \A n : Holds(call'[c], n) => n = m
    BY <1>0, <1>13, <1>21 DEF Holds, Alike, Kin
  <2>2. \A d \in Calls \ {c} : ~Holds(call[d], m)
    BY <1>1, OnlyHolder
  <2> QED BY <1>19, <2>1, <2>2 DEF IInv, OneHolder
<1>23. OneMachine'
  <2>1. \A d \in Calls : Writes(call'[d]) => Writes(call[d]) /\ call'[d].who = call[d].who
    <3>1. SUFFICES ASSUME NEW d \in Calls, Writes(call'[d])
                   PROVE  Writes(call[d]) /\ call'[d].who = call[d].who
      OBVIOUS
    <3>2. d # c
      BY <1>13, <1>21, <3>1 DEF Writes
    <3>3. call[d] # Idle
      BY <1>16, <3>1, <3>2, IdleIsIdle
    <3> QED BY <1>15, <3>1, <3>2, <3>3 DEF Writes, Alike, Kin
  <2>2. \A d \in Calls : WritesPool(d)' => Writes(call'[d])
    BY DEF WritesPool, Writes
  <2>3. \A d, e \in Calls : Writes(call[d]) => call[d].who \notin open /\ (Writes(call[e]) => d = e)
    BY Writing DEF IInv, OneMachine
  <2> QED BY <1>2, <2>1, <2>2, <2>3 DEF OneMachine
<1> QED BY <1>1, <1>2, <1>10, <1>11, <1>17, <1>18, <1>22, <1>23 DEF IInv, DownIdle

LEMMA SealKeeps ==
  ASSUME IInv, NEW c \in Calls, Seal(c)
  PROVE  IInv'
<1>1. call[c].pc = "seal" /\ call[c].phase = "send"
  BY AtWork DEF Seal, At, Orderly
<1>2. UNCHANGED <<scenario, devices, encrypted, published, store, flagged, up, open, told, faults>>
  BY DEF Seal, serverVars, storeVars, histVars
<1>3. flagged' \in BOOLEAN /\ (flagged => flagged') /\ faults' \in Nat /\ faults' >= faults
  BY <1>2 DEF IInv, Types
<1>4. PICK s \in {"device", "post"} : s = IF perUser THEN "device" ELSE "post"
  OBVIOUS
<1>5. Goto(c, s)
  BY <1>4 DEF Seal, Continue, Goto, IInv, Types
<1> QED BY <1>1, <1>2, <1>3, <1>4, <1>5, StageStep

LEMMA LookUpDeviceKeeps ==
  ASSUME IInv, NEW c \in Calls, LookUpDevice(c)
  PROVE  IInv'
<1>1. call[c].pc = "device" /\ call[c].phase = "send" /\ Goto(c, "post")
  BY AtWork DEF LookUpDevice, At, Orderly
<1>2. UNCHANGED <<scenario, devices, encrypted, published, store, flagged, up, open, told, faults>>
  BY DEF LookUpDevice, serverVars, storeVars, histVars
<1>3. flagged' \in BOOLEAN /\ (flagged => flagged') /\ faults' \in Nat /\ faults' >= faults
  BY <1>2 DEF IInv, Types
<1> QED BY <1>1, <1>2, <1>3, StageStep

-----------------------------------------------------------------------------
(* Transactions.                                                            *)

LEMMA TodoFields ==
  ASSUME NEW j \in Job, NEW P \in SUBSET Puppets, NEW i, i = [j EXCEPT !.todo = P]
  PROVE  i \in Job /\ i.phase = j.phase /\ i.enc = j.enc /\ i.file = j.file /\ i.news = j.news
BY DEF Job

LEMMA ReadMapKeeps ==
  ASSUME IInv, NEW c \in Calls, ReadMap(c)
  PROVE  IInv'
<1>1. call[c] \in Job /\ call[c].pc = "read" /\ c \in Active /\ call[c].phase \in {"broadcast", "puppets"}
  BY AtWork DEF ReadMap, At, Orderly
<1>2. UNCHANGED <<scenario, devices, encrypted, published, store, flagged, up, open, told, faults>>
  BY DEF ReadMap, serverVars, storeVars, histVars
<1>3. flagged' \in BOOLEAN /\ (flagged => flagged') /\ faults' \in Nat /\ faults' >= faults
  BY <1>2 DEF IInv, Types
<1>4. open \in SUBSET Puppets /\ open \ call[c].named \in SUBSET Puppets
  BY DEF IInv, Types
<1>5. \E k : call' = [call EXCEPT ![c] = k] /\ Lands(k, call[c])
  <2>1. CASE call[c].phase = "puppets"
    <3>1. PICK i : i = [call[c] EXCEPT !.todo = open]
      OBVIOUS
    <3>2. PICK k \in FlushNext(i) : call' = [call EXCEPT ![c] = k]
      BY <1>1, <2>1, <3>1 DEF ReadMap, In
    <3>3. i \in Job /\ i.phase = "puppets" /\ i.enc = call[c].enc /\ i.file = call[c].file
          /\ i.news = call[c].news
      BY <1>1, <1>4, <2>1, <3>1, TodoFields
    <3>4. Lands(k, i)
      BY <3>2, <3>3, FlushNextLands
    <3> QED BY <3>2, <3>3, <3>4 DEF Lands
  <2>2. CASE call[c].phase = "broadcast"
    <3>0. PICK P \in SUBSET Puppets : P = open \ call[c].named
      BY <1>4
    <3>1. PICK i : i = [call[c] EXCEPT !.todo = P]
      OBVIOUS
    <3>2. PICK k \in BroadcastNext(i) : call' = [call EXCEPT ![c] = k]
      BY <1>1, <2>2, <3>0, <3>1 DEF ReadMap, In
    <3>3. i \in Job /\ i.phase = "broadcast" /\ i.enc = call[c].enc /\ i.file = call[c].file
          /\ i.news = call[c].news
      BY <1>1, <2>2, <3>1, TodoFields
    <3>4. Lands(k, i)
      BY <3>2, <3>3, BroadcastLands
    <3> QED BY <3>2, <3>3, <3>4 DEF Lands
  <2> QED BY <1>1, <2>1, <2>2
<1> QED BY <1>1, <1>2, <1>3, <1>5, LandingStep

LEMMA HandleEventKeeps ==
  ASSUME IInv, NEW c \in Calls, HandleEvent(c)
  PROVE  IInv'
<1>1. call[c] \in Job /\ call[c].pc = "event"
  BY AtWork DEF HandleEvent, At
<1>2. UNCHANGED <<scenario, devices, encrypted, published, store, up, open, told>>
  BY DEF HandleEvent, serverVars, histVars
<1>3. /\ Fault \/ NoFault
      /\ flagged' \in BOOLEAN /\ (flagged => flagged')
  <2>1. flagged \in BOOLEAN /\ encrypted \in BOOLEAN
    BY DEF IInv, Types
  <2> QED BY <2>1 DEF HandleEvent, IsEncrypted, Answered
<1>4. faults' \in Nat /\ faults' >= faults
  BY <1>3, FaultsGrow
<1>5. CASE Goto(c, "lock")
  BY <1>1, <1>2, <1>3, <1>4, <1>5, StageStep
<1>6. CASE ~Goto(c, "lock")
  <2>1. PICK k \in MoveOn(call[c]) : call' = [call EXCEPT ![c] = k]
    <3>1. \A job : call' = [call EXCEPT ![c] = job] /\ job = [call[c] EXCEPT !.pc = "lock"] => Goto(c, "lock")
      BY DEF Goto, IInv, Types
    <3> QED BY <1>6, <3>1 DEF HandleEvent, Continue
  <2>2. Lands(k, call[c])
    BY <1>1, <2>1, MoveOnLands
  <2> QED BY <1>1, <1>2, <1>3, <1>4, <2>1, <2>2, LandingStep
<1> QED BY <1>5, <1>6

(* A free slot takes a new job, which holds nothing.                        *)
LEMMA ArrivalStep ==
  ASSUME IInv, NEW c \in Calls, up, NEW k \in Job, call' = [call EXCEPT ![c] = k],
         k.pc \in {"hint", "lock"}, Orderly(k)',
         UNCHANGED <<scenario, devices, encrypted, published, store, flagged, up, open, told, faults>>
  PROVE  IInv'
<1>1. InStep(k)' /\ ~Writes(k) /\ \A m : ~Holds(k, m)
  BY DEF InStep, Writes, Holds, Locked
<1>2. flagged' \in BOOLEAN /\ (flagged => flagged') /\ faults' \in Nat /\ faults' >= faults
  BY DEF IInv, Types
<1> QED BY <1>1, <1>2, JobStep

LEMMA SendKeeps ==
  ASSUME IInv, NEW c \in Calls, NEW sender \in Puppets, NEW file \in scenario.files,
         Send(c, sender, file)
  PROVE  IInv'
<1>1. UNCHANGED <<scenario, devices, encrypted, published, store, flagged, up, open, told, faults>> /\ up
  BY DEF Send, Accepts, serverVars, storeVars, histVars
<1>2. file \in {"none", "link"} /\ MachineOf(sender) \in Machines /\ (perUser => MachineOf(sender) \in Puppets)
  BY CryptoAssumption, Sets DEF IInv, Types, MachineOf
<1>3. PICK k : /\ call' = [call EXCEPT ![c] = k]
               /\ k = [phase |-> "send", pc |-> "hint", who |-> MachineOf(sender), news |-> Nothing,
                       asked |-> Nothing, named |-> {}, todo |-> {}, olmEvents |-> TRUE, event |-> "none",
                       since |-> Since, enc |-> FALSE, failed |-> {}, file |-> file]
  BY DEF Send, Continue
<1>4. Since \in SUBSET {"encrypted", "known"} /\ ("known" \in Since => flagged)
      /\ ("encrypted" \in Since => encrypted)
  BY DEF Since
<1>5. k \in Job /\ k.pc = "hint" /\ k.phase = "send" /\ k.news = Nothing /\ k.file = file
      /\ k.since = Since /\ k.who = MachineOf(sender)
  BY <1>2, <1>3, <1>4, Sets DEF Job
<1>6. \A u \in Members : k.news[u] <= devices'[u]
  <2>1. \A u \in Members : devices[u] \in Nat
    BY Sets DEF IInv, Types, Counts
  <2> QED BY <1>1, <1>5, <2>1, Sets
<1>7. perUser' => k.who \in Puppets
  BY <1>1, <1>2, <1>5 DEF perUser
<1>8. ("known" \in k.since => flagged') /\ ("encrypted" \in k.since => encrypted')
  BY <1>1, <1>4, <1>5
<1>9. Orderly(k)'
  BY <1>2, <1>5, <1>6, <1>7, <1>8 DEF Orderly
<1> QED BY <1>1, <1>3, <1>5, <1>9, ArrivalStep

LEMMA DeliverKeeps ==
  ASSUME IInv, NEW c \in Calls, NEW txn \in scenario.transactions, Deliver(c, txn)
  PROVE  IInv'
<1>1. UNCHANGED <<scenario, devices, encrypted, published, store, flagged, up, open, told, faults>> /\ up
  BY DEF Deliver, Accepts, storeVars, histVars
<1>2. txn.named \in SUBSET Puppets /\ txn.olmEvents \in BOOLEAN /\ txn.event \in {"none", "encryption", "member"}
  BY CryptoAssumption DEF IInv, Types
<1>3. PICK news : news = [u \in Members |-> IF u \in outbox THEN devices[u] ELSE 0]
  OBVIOUS
<1>4. news \in Counts /\ \A u \in Members : news[u] <= devices'[u]
  <2>1. \A u \in Members : devices[u] \in Count /\ devices[u] \in Nat /\ devices'[u] = devices[u]
    BY <1>1, Sets DEF IInv, Types, Counts
  <2> QED BY <1>3, <2>1, Sets DEF Counts
<1>5. PICK k : /\ call' = [call EXCEPT ![c] = k]
               /\ k = [phase |-> "bot", pc |-> "lock", who |-> Bot, news |-> news,
                       asked |-> Nothing, named |-> txn.named, todo |-> txn.named,
                       olmEvents |-> txn.olmEvents, event |-> txn.event, since |-> {},
                       enc |-> FALSE, failed |-> {}, file |-> "none"]
  BY <1>3 DEF Deliver, Continue
<1>6. k \in Job /\ k.pc = "lock" /\ k.phase = "bot" /\ k.news = news /\ k.file = "none"
  BY <1>2, <1>4, <1>5, Sets DEF Job
<1>7. Orderly(k)'
  BY <1>4, <1>6 DEF Orderly
<1> QED BY <1>1, <1>5, <1>6, <1>7, ArrivalStep

LEMMA DropKeeps ==
  ASSUME IInv, NEW c \in Calls, Drop(c)
  PROVE  IInv'
<1>1. call[c].pc # "idle"
  BY DEF Drop, Active, IInv, Types, Job
<1>2. /\ UNCHANGED <<scenario, devices, encrypted, published, store, flagged, up, open, told>>
      /\ Fault /\ call' = [call EXCEPT ![c] = Idle]
  BY DEF Drop, serverVars, storeVars
<1>3. flagged' \in BOOLEAN /\ (flagged => flagged') /\ faults' \in Nat /\ faults' >= faults
  BY <1>2, FaultsGrow DEF IInv, Types
<1>4. Lands(Idle, call[c])
  BY DEF Lands
<1> QED BY <1>1, <1>2, <1>3, <1>4, LandingStep

-----------------------------------------------------------------------------
(* The homeserver, and the bridge's starts and stops.                       *)

(* Handlers and stores stay as they are.                                    *)
LEMMA QuietStep ==
  ASSUME IInv, Later, KeysUp', encrypted' \in BOOLEAN,
         UNCHANGED <<scenario, store, flagged, up, open, call, told>>
  PROVE  IInv'
<1>1. \A u \in Members : devices[u] \in Nat /\ devices'[u] \in Nat
  BY Sets DEF Later, IInv, Types, Counts
<1>2. Types'
  BY <1>1 DEF Later, IInv, Types
<1>3. Informed'
  <2>1. \A m \in Machines, u \in Members : told[m][u] \in Nat
    BY Sets DEF IInv, Types, Counts
  <2> QED BY <1>1, <2>1 DEF Later, IInv, Informed
<1>4. Jobs'
  <2>1. SUFFICES ASSUME NEW c \in Calls, call[c] # Idle PROVE Orderly(call[c])' /\ InStep(call[c])'
    BY DEF Jobs
  <2>2. call[c] \in Job /\ Orderly(call[c]) /\ InStep(call[c])
    BY <2>1 DEF IInv, Types, Jobs
  <2>3. PICK j : j = call[c] /\ j = call'[c]
    OBVIOUS
  <2>4. Orderly(j)'
    BY <2>2, <2>3, OrderlyLasts
  <2>5. InStep(j)'
    BY <2>2, <2>3, InStepLasts
  <2> QED BY <2>3, <2>4, <2>5
<1>5. OneHolder' /\ DownIdle'
  BY DEF IInv, OneHolder, DownIdle
<1>6. OneMachine'
  BY DEF IInv, OneMachine, WritesPool, Active
<1> QED BY <1>2, <1>3, <1>4, <1>5, <1>6 DEF IInv

LEMMA NewDeviceKeeps ==
  ASSUME IInv, NEW u \in Members, NewDevice(u)
  PROVE  IInv'
<1>1. /\ UNCHANGED <<scenario, encrypted, published, store, flagged, up, open, call, told, faults>>
      /\ devices' = [devices EXCEPT ![u] = @ + 1] /\ devices[u] < MaxDevices
  BY DEF NewDevice, storeVars, poolVars, histVars
<1>2. devices \in [Members -> 0..MaxDevices] /\ MaxDevices \in Nat
  BY CryptoAssumption DEF IInv, Types, Counts, Count
<1>3. devices' \in [Members -> 0..MaxDevices]
      /\ \A v \in Members : devices'[v] >= devices[v]
  BY <1>1, <1>2
<1>4. Later
  BY <1>1, <1>3 DEF Later, IInv, Types, Counts, Count
<1>5. KeysUp' /\ encrypted' \in BOOLEAN
  BY <1>1 DEF IInv, KeysUp, Published, Types
<1> QED BY <1>1, <1>4, <1>5, QuietStep

LEMMA EncryptRoomKeeps ==
  ASSUME IInv, EncryptRoom
  PROVE  IInv'
<1>1. /\ UNCHANGED <<scenario, devices, published, store, flagged, up, open, call, told, faults>>
      /\ encrypted' = TRUE
  BY DEF EncryptRoom, storeVars, poolVars, histVars
<1>2. Later
  <2>1. \A u \in Members : devices[u] \in Nat
    BY Sets DEF IInv, Types, Counts
  <2> QED BY <1>1, <2>1 DEF Later, IInv, Types
<1>3. KeysUp'
  BY <1>1 DEF IInv, KeysUp, Published
<1> QED BY <1>1, <1>2, <1>3, QuietStep

LEMMA DeleteBotDeviceKeeps ==
  ASSUME IInv, DeleteBotDevice
  PROVE  IInv'
<1>1. UNCHANGED <<scenario, devices, encrypted, published, store, flagged, up, open, call, told>> /\ Fault
  BY DEF DeleteBotDevice, storeVars, poolVars, histVars
<1>2. Later
  <2>1. \A u \in Members : devices[u] \in Nat
    BY Sets DEF IInv, Types, Counts
  <2> QED BY <1>1, <2>1, FaultsGrow DEF Later, IInv, Types
<1>3. KeysUp'
  BY <1>1 DEF IInv, KeysUp, Published
<1> QED BY <1>1, <1>2, <1>3, QuietStep DEF IInv, Types

(* Nothing is at work before and after.                                     *)
LEMMA RestStep ==
  ASSUME IInv, call' = [c \in Calls |-> Idle], Informed', KeysUp',
         UNCHANGED <<scenario, devices, encrypted>>,
         store' \in [Machines -> Store], told' \in [Machines -> Counts], open' \subseteq Puppets,
         flagged' \in BOOLEAN, up' \in BOOLEAN, faults' \in Nat, up' \/ open' = {}
  PROVE  IInv'
<1>1. \A c \in Calls : call'[c] = Idle
  OBVIOUS
<1>2. Types'
  BY DEF IInv, Types
<1>3. Jobs' /\ DownIdle'
  BY <1>1 DEF Jobs, DownIdle
<1>4. OneHolder'
  BY <1>1, IdleIsIdle DEF OneHolder
<1>5. OneMachine'
  BY <1>1 DEF OneMachine, WritesPool, Active
<1> QED BY <1>2, <1>3, <1>4, <1>5 DEF IInv

LEMMA FreshFacts ==
  Fresh \in Store /\ ~Fresh.uploaded /\ Fresh.tracked = {}
BY Sets DEF Fresh, Store

LEMMA OpenedFresh ==
  ASSUME IInv
  PROVE  Opened(Fresh) \in Store /\ Opened(Fresh).tracked = {}
<1>1. PICK s : s = Fresh
  OBVIOUS
<1>2. s \in Store /\ s.tracked = {} /\ s.dirty = {} /\ s.known = Nothing
  BY <1>1, FreshFacts DEF Fresh
<1> DEFINE known == [u \in Members |-> IF u \in s.dirty THEN devices[u] ELSE s.known[u]]
<1>3. known \in Counts
  BY <1>2, Sets DEF Counts
<1>4. PICK o : o = Opened(s)
  OBVIOUS
<1>5. o = [s EXCEPT !.uploaded = TRUE, !.dirty = {}, !.known = known]
  BY <1>2, <1>4 DEF Opened, Store
<1> HIDE DEF known
<1>6. o \in Store /\ o.tracked = {}
  BY <1>2, <1>3, <1>5 DEF Store
<1> QED BY <1>1, <1>4, <1>6

LEMMA StartBridgeKeeps ==
  ASSUME IInv, StartBridge
  PROVE  IInv'
<1> DEFINE Gone == deleted /\ store[Bot].uploaded /\ ~scenario.others
<1>1. /\ UNCHANGED <<scenario, devices, encrypted, open, call>> /\ ~up
      /\ Fault \/ NoFault
  BY DEF StartBridge
<1>2. call' = [c \in Calls |-> Idle]
  BY <1>1 DEF IInv, DownIdle, Types
<1>3. faults' \in Nat
  BY <1>1, FaultsGrow
<1>4. \A u \in Members : devices[u] \in Nat
  BY Sets DEF IInv, Types, Counts
<1>5. Bot \in Machines /\ Bot \notin Puppets /\ Puppets \subseteq Machines /\ store \in [Machines -> Store]
      /\ open \subseteq Puppets /\ up \in BOOLEAN
  BY Sets DEF IInv, Types
<1>6. CASE ~Gone
  <2>1. /\ store' = [store EXCEPT ![Bot] = Opened(store[Bot])] /\ published' = Upload(Bot) /\ up' = TRUE
        /\ UNCHANGED <<flagged, told>>
    BY <1>5, <1>6 DEF StartBridge
  <2>2. PICK s : s = Opened(store[Bot])
    OBVIOUS
  <2>3. s \in Store /\ \A u \in Members : u \in s.tracked => told[Bot][u] <= s.known[u]
    BY <1>4, <1>5, <2>2, OpenedFacts DEF IInv, Informed
  <2>4. /\ store' \in [Machines -> Store] /\ store'[Bot] = s
        /\ \A m \in Machines \ {Bot} : store'[m] = store[m]
    BY <1>5, <2>1, <2>2, <2>3
  <2>5. Informed'
    BY <1>1, <2>1, <2>3, <2>4 DEF IInv, Informed
  <2>6. KeysUp'
    BY <1>1, <1>5, <1>6, <2>1, <2>4 DEF IInv, KeysUp, Published, Upload
  <2>7. flagged' \in BOOLEAN /\ up' \in BOOLEAN /\ told' \in [Machines -> Counts] /\ open' \subseteq Puppets
    BY <1>1, <2>1 DEF IInv, Types
  <2> QED BY <1>1, <1>2, <1>3, <2>1, <2>4, <2>5, <2>6, <2>7, RestStep
<1>7. CASE Gone
  <2>1. /\ flagged' = FALSE /\ told' = [m \in Machines |-> Nothing]
        /\ up' \in BOOLEAN
        /\ up' => Bot \in published'
    <3>1. flagged' = FALSE /\ told' = [m \in Machines |-> Nothing]
      BY <1>7 DEF StartBridge
    <3>2. \/ published' = {Bot} /\ up' = TRUE
          \/ up' = FALSE
      BY <1>1, <1>5, <1>7 DEF StartBridge
    <3> QED BY <3>1, <3>2
  <2>2. PICK first : /\ store' = [m \in Machines |-> IF m = Bot THEN first ELSE Fresh]
                     /\ \/ first = Opened(Fresh) /\ published' = {Bot}
                        \/ first = Fresh
    BY <1>7 DEF StartBridge
  <2>3. first \in Store /\ first.tracked = {}
    BY <2>2, FreshFacts, OpenedFresh
  <2>4. /\ store' \in [Machines -> Store]
        /\ \A m \in Machines : store'[m].tracked = {}
        /\ \A m \in Puppets : ~store'[m].uploaded
    BY <1>5, <2>2, <2>3, FreshFacts
  <2>5. told' \in [Machines -> Counts] /\ \A m \in Machines, u \in Members : told'[m][u] = 0
    BY <2>1, Sets
  <2>6. Informed'
    BY <1>1, <1>4, <2>4, <2>5 DEF Informed
  <2>8. open' = {}
    BY <1>1 DEF IInv, DownIdle
  <2>7. KeysUp'
    <3>2. \A m \in Machines : store'[m].uploaded => m \in published'
      BY <1>5, <2>2, <2>4, FreshFacts DEF Machines
    <3> QED BY <2>1, <2>8, <3>2 DEF KeysUp, Published
  <2> QED BY <1>1, <1>2, <1>3, <1>5, <2>1, <2>4, <2>5, <2>6, <2>7, <2>8, RestStep
<1> QED BY <1>6, <1>7

LEMMA StopKeeps ==
  ASSUME IInv, Stop
  PROVE  IInv'
<1>1. /\ UNCHANGED <<scenario, devices, encrypted, published, store, flagged, told>>
      /\ up' = FALSE /\ open' = {} /\ call' = [c \in Calls |-> Idle] /\ Fault
  BY DEF Stop, serverVars, storeVars
<1>2. Informed' /\ KeysUp'
  BY <1>1 DEF IInv, Informed, KeysUp, Published
<1>3. faults' \in Nat
  BY <1>1, FaultsGrow
<1> QED BY <1>1, <1>2, <1>3, RestStep DEF IInv, Types

-----------------------------------------------------------------------------
LEMMA InitHolds == Init => IInv
<1> SUFFICES ASSUME Init PROVE IInv
  OBVIOUS
<1>1. /\ scenario \in Scenarios /\ devices = [u \in Members |-> 1] /\ encrypted = FALSE /\ published = {}
      /\ store = [m \in Machines |-> Fresh] /\ flagged = FALSE /\ up = FALSE /\ open = {}
      /\ call = [c \in Calls |-> Idle] /\ told = [m \in Machines |-> Nothing] /\ faults = 0
  BY DEF Init
<1>2. \A c \in Calls : call[c] = Idle
  BY <1>1
<1>3. Informed
  BY <1>1, FreshFacts, Sets DEF Informed
<1>4. KeysUp
  BY <1>1, FreshFacts, Sets DEF KeysUp, Published
<1>5. Jobs /\ DownIdle /\ OneHolder
  BY <1>1, <1>2, IdleIsIdle DEF Jobs, DownIdle, OneHolder
<1>6. OneMachine
  BY <1>2 DEF OneMachine, WritesPool, Active
<1>7. CASE Members = {}
  <2>1. devices \in Counts /\ \A u \in Members : devices[u] >= 1
    BY <1>1, <1>7 DEF Counts
  <2> QED BY <1>1, <1>3, <1>4, <1>5, <1>6, <2>1, FreshFacts, Sets DEF IInv, Types
<1>8. CASE Members # {}
  <2>1. devices \in Counts /\ \A u \in Members : devices[u] >= 1
    <3>1. 1 \in Count
      BY CryptoAssumption DEF Count
    <3> QED BY <1>1, <3>1 DEF Counts
  <2> QED BY <1>1, <1>3, <1>4, <1>5, <1>6, <2>1, FreshFacts, Sets DEF IInv, Types
<1> QED BY <1>7, <1>8

LEMMA HandleKeeps ==
  ASSUME IInv, NEW c \in Calls, Handle(c)
  PROVE  IInv'
BY AskHintKeeps, ReuploadKeeps, GetKeeps, LookAgainKeeps, InitPuppetKeeps, InsertKeeps, TrackKeeps,
   ReceiveKeeps, AskKeeps, AnswerKeeps, ClaimKeeps, ShareKeeps, SealKeeps, LookUpDeviceKeeps,
   PostKeeps, ReadMapKeeps, HandleEventKeeps DEF Handle

LEMMA NextKeeps == IInv /\ [Next]_vars => IInv'
<1> SUFFICES ASSUME IInv, [Next]_vars PROVE IInv'
  OBVIOUS
<1>1. CASE UNCHANGED vars
  <2>1. UNCHANGED <<scenario, devices, encrypted, published, store, flagged, up, open, call, told, faults>>
    BY <1>1 DEF vars, serverVars, storeVars, poolVars, histVars
  <2>2. Later
    BY <2>1, SameCalm DEF IInv, Types
  <2>3. KeysUp' /\ encrypted' \in BOOLEAN
    BY <2>1 DEF IInv, KeysUp, Published, Types
  <2> QED BY <2>1, <2>2, <2>3, QuietStep
<1>2. ASSUME NEW c \in Calls, Handle(c) \/ Arrive(c) \/ Drop(c)
      PROVE  IInv'
  BY <1>2, HandleKeeps, SendKeeps, DeliverKeeps, DropKeeps DEF Arrive
<1>3. ASSUME NEW u \in Members, NewDevice(u)
      PROVE  IInv'
  BY <1>3, NewDeviceKeeps
<1> QED BY <1>1, <1>2, <1>3, EncryptRoomKeeps, StartBridgeKeeps, StopKeeps, DeleteBotDeviceKeeps DEF Next

(* The inductive invariant: what the machines were told, what their stores   *)
(* know, and what the handlers at work rely on.                              *)
THEOREM Invariance == Spec => []IInv
BY InitHolds, NextKeeps, PTL DEF Spec

-----------------------------------------------------------------------------
(* When an event is sealed, every device its machine was told of has the     *)
(* room's key: the lock of crypto_manager/mod.rs is held from the tracking   *)
(* to the sealing, and only answers to queries come in between.              *)
THEOREM KeysReachTheTold == Spec => []SealedForTold
<1>1. IInv => SealedForTold
  <2> SUFFICES ASSUME IInv, NEW c \in Calls, At(c, "seal"), NEW u \in Members
               PROVE  store[call[c].who].shared[u] >= told[call[c].who][u]
    BY DEF SealedForTold
  <2>1. call[c] \in Job /\ InStep(call[c]) /\ call[c].pc = "seal"
    BY AtWork DEF At
  <2>2. call[c].who \in Machines
    BY <2>1 DEF Job
  <2>3. store[call[c].who].shared \in Counts /\ told[call[c].who] \in Counts
    BY <2>2 DEF IInv, Types, Store
  <2>4. store[call[c].who].shared[u] \in Nat /\ told[call[c].who][u] \in Nat
    BY <2>3, Sets DEF Counts
  <2> QED BY <2>1, <2>4 DEF InStep
<1> QED BY <1>1, Invariance, PTL

(* A crypto store is never open twice: the second look under the write lock  *)
(* of get_or_init.                                                           *)
THEOREM StoresOpenedOnce == Spec => []OneMachine
<1>1. IInv => OneMachine
  BY DEF IInv
<1> QED BY <1>1, Invariance, PTL

(* No machine is used whose store's device keys were never taken by the      *)
(* homeserver: a failed upload leaves it closed, and a rebuild throws away   *)
(* every store before any is opened again.                                   *)
THEOREM KeysPublished == Spec => []Published
<1>1. IInv => Published
  BY DEF IInv, KeysUp
<1> QED BY <1>1, Invariance, PTL

(* A file is encrypted if and only if its event is: both follow the one      *)
(* answer that dispatch_message_to_matrix got.                               *)
THEOREM AttachmentsMatch == Spec => []AttachmentMatchesEvent
<1>1. IInv => AttachmentMatchesEvent
  BY DEF IInv, Jobs, Orderly, AttachmentMatchesEvent, Active
<1> QED BY <1>1, Invariance, PTL

(* A message to an encrypted room goes in clear only if its own query        *)
(* failed, and to one known to be encrypted only if its own read of the      *)
(* bot's store failed too.                                                   *)
THEOREM KnownRoomsEncrypted == Spec => []EncryptedOnceKnown
<1>1. IInv => EncryptedOnceKnown
  BY DEF IInv, Jobs, Orderly, EncryptedOnceKnown, In, At, Active
<1> QED BY <1>1, Invariance, PTL

-----------------------------------------------------------------------------
(* The pool's queue, and the news.  A handler is in the queue once, and     *)
(* only while it waits; so whoever keeps its head waiting goes on.  Of a    *)
(* user whose devices a machine does not know all of, and is not to query   *)
(* again, the news are on their way: in the homeserver's outbox, or with a  *)
(* transaction that is still to come to the machine.                        *)

Waits(j) == j.pc \in {"get", "write", "device", "read"}

Line(q) == {q[i] : i \in DOMAIN q}
Clean(q) == q \in Seq(Calls) /\ \A i, k \in DOMAIN q : q[i] = q[k] => i = k

QueueOK == Clean(queue) /\ \A d \in Line(queue) : Waits(call[d])

(* Where a job can be, and with what.                                       *)
Placed(j) ==
  /\ j.pc \in {"get", "write", "init", "sign"} => j.phase \in {"send", "named"}
  /\ j.pc \in {"get", "write", "init", "sign"} \/ j.phase = "named" => perUser
  /\ j.phase = "send" /\ ~perUser => j.who = Bot
  /\ j.phase \in {"bot", "flush", "event"} => j.who = Bot
  /\ j.phase = "bot" => j.todo = j.named
  /\ j.pc = "lock" \/ j.pc \in Locked => j.who \in open \union {Bot}
  /\ j.phase \in {"broadcast", "puppets"} /\ j.pc # "read" => j.todo \subseteq open
  /\ j.phase \notin {"bot", "named", "broadcast"} => j.news = Nothing
  /\ j.pc = "event" => j.phase = "event"
  /\ \A u \in Members : j.asked[u] <= devices[u]

(* A transaction has still to bring its news to machine m: it is there, or  *)
(* has m before it.                                                         *)
Here(j, m) ==
  j.phase \in {"bot", "named", "broadcast"} /\ j.who = m /\ j.pc \notin {"ask", "answer", "read"}
Ahead(j, m) ==
  \/ j.phase = "bot" /\ m \in Puppets
  \/ j.phase = "named" /\ m \in j.todo \union (Puppets \ j.named)
  \/ j.phase = "broadcast" /\ m \in (IF j.pc = "read" THEN Puppets \ j.named ELSE j.todo)

Carried(m, u) == \E c \in Active :
  call[c].news[u] = devices[u] /\ (Here(call[c], m) \/ Ahead(call[c], m))

Covered(m, u) ==
  store[m].known[u] = devices[u] \/ u \in store[m].dirty \union outbox \/ Carried(m, u)

(* An answer that is awaited will cover those it was asked for.             *)
AskedWell(j) == j.pc = "answer" => \A u \in Members : j.asked[u] # 0 =>
  j.asked[u] = devices[u] \/ u \in outbox \/ Carried(j.who, u)

InUse(m) == up /\ m \in open \union {Bot}

Caught ==
  /\ \A m \in Machines : ~InUse(m) => store[m].tracked = {}
  /\ \A m \in Machines : \A u \in store[m].tracked : Covered(m, u)
  /\ \A c \in Active : AskedWell(call[c])

KnownReal == \A m \in Machines, u \in Members : store[m].known[u] <= devices[u]

PInv ==
  /\ QueueOK
  /\ \A c \in Active : Placed(call[c])
  /\ ~perUser \/ ~up => open = {}
  /\ KnownReal
  /\ lapses = {} => Caught

-----------------------------------------------------------------------------
(* The queue.                                                               *)

LEMMA TailClean ==
  ASSUME NEW q, Clean(q), q # <<>>
  PROVE  Clean(Tail(q)) /\ Line(Tail(q)) \subseteq Line(q) \ {Head(q)}
<1>1. PICK n \in Nat : n = Len(q)
  BY DEF Clean
<1>2. q \in Seq(Calls) /\ n >= 1 /\ DOMAIN q = 1 .. n
  BY <1>1 DEF Clean
<1>3. PICK t : t = Tail(q)
  OBVIOUS
<1>4. t \in Seq(Calls) /\ DOMAIN t = 1 .. n - 1 /\ \A i \in 1 .. n - 1 : t[i] = q[i + 1]
  BY <1>1, <1>2, <1>3
<1>5. \A i \in 1 .. n - 1 : i + 1 \in 1 .. n /\ i + 1 # 1
  BY <1>1
<1>6. Head(q) = q[1] /\ 1 \in 1 .. n
  BY <1>1, <1>2
<1>7. \A i, k \in 1 .. n - 1 : q[i + 1] = q[k + 1] => i = k
  BY <1>2, <1>5 DEF Clean
<1>8. \A i \in 1 .. n - 1 : q[i + 1] # q[1]
  BY <1>2, <1>5, <1>6 DEF Clean
<1>9. Clean(t)
  BY <1>4, <1>7 DEF Clean
<1>10. Line(t) \subseteq Line(q) \ {Head(q)}
  BY <1>2, <1>4, <1>5, <1>6, <1>8 DEF Line
<1> QED BY <1>3, <1>9, <1>10

LEMMA AppendClean ==
  ASSUME NEW q, Clean(q), NEW c \in Calls, c \notin Line(q)
  PROVE  Clean(Append(q, c)) /\ Line(Append(q, c)) = Line(q) \union {c}
<1>1. PICK n \in Nat : n = Len(q)
  BY DEF Clean
<1>2. q \in Seq(Calls) /\ DOMAIN q = 1 .. n
  BY <1>1 DEF Clean
<1>3. PICK t : t = Append(q, c)
  OBVIOUS
<1>4. t \in Seq(Calls) /\ DOMAIN t = 1 .. n + 1 /\ t[n + 1] = c /\ \A i \in 1 .. n : t[i] = q[i]
  BY <1>1, <1>2, <1>3
<1>5. \A i \in 1 .. n + 1 : i = n + 1 \/ i \in 1 .. n
  BY <1>1
<1>6. \A i \in 1 .. n : i \in 1 .. n + 1 /\ i # n + 1 /\ q[i] # c
  BY <1>1, <1>2 DEF Line
<1>7. \A i, k \in 1 .. n : q[i] = q[k] => i = k
  BY <1>2 DEF Clean
<1>8. \A i, k \in 1 .. n + 1 : t[i] = t[k] => i = k
  BY <1>4, <1>5, <1>6, <1>7
<1>9. Clean(t)
  BY <1>4, <1>8 DEF Clean
<1>10. n + 1 \in 1 .. n + 1
  BY <1>1
<1>11. Line(t) = Line(q) \union {c}
  BY <1>2, <1>4, <1>5, <1>6, <1>10 DEF Line
<1> QED BY <1>3, <1>9, <1>11

Cut(q, i) == SubSeq(q, 1, i - 1) \o SubSeq(q, i + 1, Len(q))

LEMMA CutClean ==
  ASSUME NEW q, Clean(q), NEW i \in DOMAIN q, NEW t, t = Cut(q, i)
  PROVE  Clean(t) /\ Line(t) \subseteq Line(q) \ {q[i]}
<1>1. PICK n \in Nat : n = Len(q)
  BY DEF Clean
<1>2. q \in Seq(Calls) /\ DOMAIN q = 1 .. n /\ i \in 1 .. n
  BY <1>1 DEF Clean
<1>0. \A x, y \in Nat : (x - 1) + (y - x) = y - 1
  OBVIOUS
<1>3. PICK a, b : a = SubSeq(q, 1, i - 1) /\ b = SubSeq(q, i + 1, n)
  OBVIOUS
<1>4. /\ a \in Seq(Calls) /\ Len(a) = i - 1 /\ \A k \in 1 .. i - 1 : a[k] = q[k]
  BY <1>1, <1>2, <1>3
<1>5. /\ b \in Seq(Calls) /\ Len(b) = n - i /\ \A k \in 1 .. n - i : b[k] = q[i + k]
  BY <1>1, <1>2, <1>3
<1>6. t = a \o b
  BY <1>1, <1>3 DEF Cut
<1>7. /\ a \o b \in Seq(Calls) /\ Len(a \o b) = Len(a) + Len(b)
      /\ \A k \in 1 .. Len(a) + Len(b) : (a \o b)[k] = IF k <= Len(a) THEN a[k] ELSE b[k - Len(a)]
  BY <1>4, <1>5, ConcatProperties, Zenon
<1>8. t \in Seq(Calls) /\ Len(t) = n - 1 /\ DOMAIN t = 1 .. n - 1
  <2>1. t \in Seq(Calls) /\ Len(t) = Len(a) + Len(b)
    BY <1>6, <1>7, Zenon
  <2>2. (i - 1) + (n - i) = n - 1
    <3>1. i \in Nat /\ n \in Nat
      BY <1>1, <1>2
    <3> QED BY <1>0, <3>1, Zenon
  <2>3. Len(t) = n - 1
    BY <1>4, <1>5, <2>1, <2>2, Zenon
  <2> QED BY <2>1, <2>3, LenProperties, Zenon
<1>9. \A k \in 1 .. n - 1 : t[k] = IF k <= i - 1 THEN a[k] ELSE b[k - (i - 1)]
  <2>1. \A k \in 1 .. Len(a) + Len(b) : t[k] = IF k <= Len(a) THEN a[k] ELSE b[k - Len(a)]
    BY <1>6, <1>7, Zenon
  <2>2. (i - 1) + (n - i) = n - 1
    <3>1. i \in Nat /\ n \in Nat
      BY <1>1, <1>2
    <3> QED BY <1>0, <3>1, Zenon
  <2> QED BY <1>4, <1>5, <2>1, <2>2, Zenon
<1>10. ASSUME NEW k \in 1 .. n - 1
       PROVE  \E l \in 1 .. n : t[k] = q[l] /\ (k <= i - 1 => l = k) /\ (~(k <= i - 1) => l = k + 1)
  <2>1. CASE k <= i - 1
    BY <1>1, <1>2, <1>4, <1>9, <2>1
  <2>2. CASE ~(k <= i - 1)
    <3>1. k - (i - 1) \in 1 .. n - i /\ i + (k - (i - 1)) = k + 1 /\ k + 1 \in 1 .. n
      BY <1>1, <1>2, <2>2
    <3>2. t[k] = q[k + 1]
      BY <1>5, <1>9, <2>2, <3>1
    <3> QED BY <2>2, <3>1, <3>2
  <2> QED BY <2>1, <2>2
<1>11. \A k, l \in 1 .. n : q[k] = q[l] => k = l
  BY <1>2 DEF Clean
<1>12. \A k, l \in 1 .. n - 1 : t[k] = t[l] => k = l
  <2> SUFFICES ASSUME NEW k \in 1 .. n - 1, NEW l \in 1 .. n - 1, t[k] = t[l]
               PROVE  k = l
    OBVIOUS
  <2>1. PICK x \in 1 .. n : t[k] = q[x] /\ (k <= i - 1 => x = k) /\ (~(k <= i - 1) => x = k + 1)
    BY <1>10
  <2>2. PICK y \in 1 .. n : t[l] = q[y] /\ (l <= i - 1 => y = l) /\ (~(l <= i - 1) => y = l + 1)
    BY <1>10
  <2>3. x = y
    BY <1>11, <2>1, <2>2
  <2> QED BY <1>1, <1>2, <2>1, <2>2, <2>3
<1>13. \A k \in 1 .. n - 1 : t[k] \in Line(q) \ {q[i]}
  <2> SUFFICES ASSUME NEW k \in 1 .. n - 1
               PROVE  t[k] \in Line(q) \ {q[i]}
    OBVIOUS
  <2>1. PICK x \in 1 .. n : t[k] = q[x] /\ (k <= i - 1 => x = k) /\ (~(k <= i - 1) => x = k + 1)
    BY <1>10
  <2>2. x # i
    BY <1>1, <1>2, <2>1
  <2> QED BY <1>2, <1>11, <2>1, <2>2 DEF Line
<1>14. Clean(t)
  BY <1>8, <1>12, Zenon DEF Clean
<1> QED BY <1>8, <1>13, <1>14 DEF Line

(* Handler c goes on as k, and stands in line if it has to wait.            *)
LEMMA QueueMoves ==
  ASSUME IInv, QueueOK, NEW c \in Calls, NEW k, call' = [call EXCEPT ![c] = k],
         Clean(queue'), Line(queue') \subseteq (Line(queue) \ {c}) \union {d \in {c} : Waits(k)}
  PROVE  QueueOK'
<1>1. \A d \in Calls : call'[d] = IF d = c THEN k ELSE call[d]
  BY DEF IInv, Types
<1>2. Line(queue) \subseteq Calls
  BY DEF QueueOK, Clean, Line
<1>3. \A d \in Line(queue') : Waits(call'[d])
  BY <1>1, <1>2 DEF QueueOK
<1> QED BY <1>3 DEF QueueOK, Clean, Line

LEMMA LeavesQueue ==
  ASSUME IInv, QueueOK, NEW c \in Calls, NEW k, call' = [call EXCEPT ![c] = k], First(c),
         \/ queue' = Tail(queue)
         \/ queue' = Append(Tail(queue), c) /\ Waits(k)
  PROVE  QueueOK'
<1>1. queue # <<>> /\ Head(queue) = c
  BY DEF First
<1>2. Clean(Tail(queue)) /\ Line(Tail(queue)) \subseteq Line(queue) \ {c}
  BY <1>1, TailClean DEF QueueOK
<1>3. PICK t : t = Tail(queue)
  OBVIOUS
<1>4. Clean(Append(t, c)) /\ Line(Append(t, c)) = Line(t) \union {c}
  BY <1>2, <1>3, AppendClean
<1>5. Clean(queue') /\ Line(queue') \subseteq (Line(queue) \ {c}) \union {d \in {c} : Waits(k)}
  BY <1>2, <1>3, <1>4
<1> QED BY <1>5, QueueMoves

LEMMA JoinsQueue ==
  ASSUME IInv, QueueOK, NEW c \in Calls, NEW k, call' = [call EXCEPT ![c] = k], ~Waits(call[c]),
         queue' = queue \/ (queue' = Append(queue, c) /\ Waits(k))
  PROVE  QueueOK'
<1>1. c \notin Line(queue)
  BY DEF QueueOK
<1>2. Clean(queue) /\ Clean(Append(queue, c)) /\ Line(Append(queue, c)) = Line(queue) \union {c}
  BY <1>1, AppendClean DEF QueueOK
<1>3. Clean(queue') /\ Line(queue') \subseteq (Line(queue) \ {c}) \union {d \in {c} : Waits(k)}
  BY <1>1, <1>2
<1> QED BY <1>3, QueueMoves

(* Whoever keeps the head of the queue waiting, or a machine's lock, is not *)
(* kept waiting itself.                                                     *)
LEMMA SomebodyRuns == IInv /\ PInv => SomeHandlerRuns
<1> SUFFICES ASSUME IInv, PInv, NEW c \in Active, \A d \in Active : Blocked(d)
             PROVE  FALSE
  BY DEF SomeHandlerRuns
<1>1. \A d \in Calls : d \in Line(queue) => Waits(call[d])
  BY DEF PInv, QueueOK
<1>2. \A d : d \in {queue[i] : i \in DOMAIN queue} <=> d \in Line(queue)
  BY DEF Line
<1>3. \A d \in Calls : \A m : ~HoldsMachine(d, m)
  <2> SUFFICES ASSUME NEW d \in Calls, NEW m, HoldsMachine(d, m)
               PROVE  FALSE
    OBVIOUS
  <2>1. d \in Active /\ call[d].pc \in Locked
    BY DEF HoldsMachine, In, Locked
  <2>2. ~Waits(call[d]) /\ ~At(d, "lock")
    BY <2>1 DEF Waits, Locked, At
  <2> QED BY <1>1, <1>2, <2>1, <2>2 DEF Blocked
<1>4. \A d \in Calls : ~WritesPool(d)
  <2> SUFFICES ASSUME NEW d \in Calls, WritesPool(d)
               PROVE  FALSE
    OBVIOUS
  <2>1. d \in Active /\ ~Waits(call[d]) /\ ~At(d, "lock")
    BY DEF WritesPool, Waits, At
  <2> QED BY <1>1, <1>2, <2>1 DEF Blocked
<1>5. \A d \in Active : d \in Line(queue)
  BY <1>2, <1>3 DEF Blocked, MachineFree
<1>6. \A d \in Calls : ~ReadsPool(d)
  <2> SUFFICES ASSUME NEW d \in Calls, ReadsPool(d)
               PROVE  FALSE
    OBVIOUS
  <2>1. d \in Active /\ call[d].phase \in {"broadcast", "puppets"} /\ call[d].pc # "read"
    BY DEF ReadsPool, In, At
  <2>2. call[d].pc \in {"get", "write", "device"}
    BY <1>1, <1>5, <2>1 DEF Waits
  <2>3. Placed(call[d]) /\ Orderly(call[d])
    BY <2>1 DEF PInv, IInv, Jobs, Active
  <2> QED BY <2>1, <2>2, <2>3 DEF Placed, Orderly
<1>7. PICK h : h = Head(queue)
  OBVIOUS
<1>8. queue \in Seq(Calls) /\ queue # <<>> /\ h \in Calls /\ h \in Line(queue)
  <2>1. queue \in Seq(Calls)
    BY DEF PInv, QueueOK, Clean
  <2>2. PICK i \in DOMAIN queue : queue[i] = c
    BY <1>5 DEF Line
  <2>3. queue # <<>>
    BY <2>2
  <2>4. h = queue[1] /\ 1 \in DOMAIN queue
    BY <1>7, <2>1, <2>3
  <2> QED BY <2>1, <2>3, <2>4 DEF Line
<1>9. CanRead(h) /\ CanWrite(h)
  BY <1>4, <1>6, <1>7, <1>8 DEF CanRead, CanWrite, First
<1>10. h \in Active
  BY <1>1, <1>8, IdleIsIdle DEF Active, Waits
<1> QED BY <1>1, <1>3, <1>8, <1>9, <1>10 DEF Blocked, MachineFree, Waits, At
-----------------------------------------------------------------------------
(* How a job goes on, and what becomes of its news.                         *)

(* What j has before it in machines that are in use, k has.                 *)
Carries(k, j, m) == \A u \in Members : j.news[u] # 0 =>
  k # Idle /\ k.news[u] = j.news[u] /\ (Here(k, m) \/ Ahead(k, m))

Passes(k, j) == \A m \in open \union {Bot} : Ahead(j, m) => Carries(k, j, m)

HandsOn(k, j) == \A m \in open \union {Bot} : Here(j, m) \/ Ahead(j, m) => Carries(k, j, m)

Goes(k) == k = Idle \/ (k \in Job /\ Placed(k) /\ k.pc # "answer")

LEMMA AskedNone ==
  ASSUME IInv
  PROVE  /\ \A u \in Members : Nothing[u] <= devices[u] /\ devices[u] \in Nat /\ devices[u] # 0
         /\ \A j \in Job : Named(j.news) = {} => \A u \in Members : j.news[u] = 0
<1>1. \A u \in Members : devices[u] \in Nat /\ devices[u] >= 1
  BY Sets DEF IInv, Types, Counts
<1> QED BY <1>1, Sets DEF Named

LEMMA FlushGoes ==
  ASSUME IInv, NEW j \in Job
  PROVE  Flush(j) \in Job /\ Placed(Flush(j)) /\ Flush(j).pc = "ask" /\ Flush(j).phase = "flush"
         /\ Flush(j).who = Bot /\ Flush(j).news = Nothing /\ Flush(j).asked = Nothing
<1> DEFINE k == Flush(j)
<1>1. k \in Job
  BY Sets DEF Flush, Job
<1>2. k.phase = "flush" /\ k.pc = "ask" /\ k.who = Bot /\ k.news = Nothing /\ k.asked = Nothing
  BY DEF Flush, Job
<1> HIDE DEF k
<1>3. Placed(k)
  BY <1>2, AskedNone DEF Placed
<1> QED BY <1>1, <1>2, <1>3 DEF k

LEMMA EventsGo ==
  ASSUME IInv, NEW j \in Job
  PROVE  Goes(Events(j)) /\ Events(j).pc \in {"ask", "event"} /\ Events(j) # Idle
<1>1. CASE j.event = "none"
  BY <1>1, FlushGoes, IdleIsIdle DEF Events, Goes
<1>2. CASE j.event # "none"
  <2>1. PICK f \in Job : f = Flush(j) /\ f.who = Bot /\ f.news = Nothing /\ f.asked = Nothing
    BY FlushGoes
  <2>2. PICK k : k = [f EXCEPT !.phase = "event", !.pc = "event", !.event = j.event]
    OBVIOUS
  <2>3. j.event \in {"none", "encryption", "member"}
    BY DEF Job
  <2>4. k \in Job
    BY <2>2, <2>3, EventFields
  <2>5. k.phase = "event" /\ k.pc = "event" /\ k.who = Bot /\ k.news = Nothing /\ k.asked = Nothing
    BY <2>1, <2>2 DEF Job
  <2>6. Events(j) = k
    BY <1>2, <2>1, <2>2 DEF Events
  <2>7. Placed(k)
    BY <2>5, AskedNone DEF Placed, Locked
  <2> QED BY <2>4, <2>5, <2>6, <2>7, IdleIsIdle DEF Goes
<1> QED BY <1>1, <1>2

LEMMA NamedGoes ==
  ASSUME IInv, NEW j \in Job, Placed(j), perUser, j.phase \in {"bot", "named"}, NEW k \in NamedNext(j)
  PROVE  Goes(k) /\ Passes(k, j)
<1>1. CASE j.todo # {}
  <2>1. PICK m \in j.todo : k = [j EXCEPT !.phase = "named", !.pc = "get", !.who = m, !.todo = @ \ {m},
                                          !.asked = Nothing]
    BY <1>1 DEF NamedNext
  <2>2. m \in Puppets /\ m \in Machines
    BY Sets DEF Job
  <2>3. k \in Job /\ k.phase = "named" /\ k.pc = "get" /\ k.who = m /\ k.news = j.news
        /\ k.todo = j.todo \ {m} /\ k.named = j.named /\ k.asked = Nothing
    BY <2>1, <2>2, Sets DEF Job
  <2>4. Placed(k)
    BY <2>3, AskedNone DEF Placed, Locked
  <2>5. ASSUME NEW n, Ahead(j, n)
        PROVE  Here(k, n) \/ Ahead(k, n)
    BY <2>3, <2>5 DEF Here, Ahead, Placed
  <2> QED BY <2>3, <2>4, <2>5, IdleIsIdle DEF Goes, Passes, Carries
<1>2. CASE j.todo = {} /\ Named(j.news) # {}
  <2>1. k = [j EXCEPT !.phase = "broadcast", !.pc = "read", !.who = Bot, !.asked = Nothing]
    BY <1>2 DEF NamedNext
  <2>2. k \in Job /\ k.phase = "broadcast" /\ k.pc = "read" /\ k.news = j.news /\ k.named = j.named
        /\ k.asked = Nothing
    BY <2>1, Sets DEF Job
  <2>3. Placed(k)
    BY <2>2, AskedNone DEF Placed, Locked
  <2>4. ASSUME NEW n, Ahead(j, n)
        PROVE  Here(k, n) \/ Ahead(k, n)
    BY <1>2, <2>2, <2>4 DEF Here, Ahead, Placed
  <2> QED BY <2>2, <2>3, <2>4, IdleIsIdle DEF Goes, Passes, Carries
<1>3. CASE j.todo = {} /\ Named(j.news) = {}
  <2>1. k = Events(j) /\ \A u \in Members : j.news[u] = 0
    BY <1>3, AskedNone DEF NamedNext
  <2> QED BY <2>1, EventsGo DEF Passes, Carries
<1> QED BY <1>1, <1>2, <1>3

LEMMA BroadcastGoes ==
  ASSUME IInv, NEW j \in Job, j.phase = "broadcast", j.todo \subseteq open, NEW k \in BroadcastNext(j)
  PROVE  Goes(k) /\ \A m \in j.todo : Carries(k, j, m)
<1>1. CASE j.todo # {}
  <2>1. PICK m \in j.todo : k = [j EXCEPT !.pc = "lock", !.who = m, !.todo = @ \ {m}, !.asked = Nothing]
    BY <1>1 DEF BroadcastNext
  <2>2. m \in Puppets /\ m \in Machines
    BY Sets DEF Job
  <2>3. k \in Job /\ k.phase = "broadcast" /\ k.pc = "lock" /\ k.who = m /\ k.news = j.news
        /\ k.todo = j.todo \ {m} /\ k.asked = Nothing
    BY <2>1, <2>2, Sets DEF Job
  <2>4. Placed(k)
    BY <2>3, AskedNone DEF Placed, Locked
  <2>5. \A n \in j.todo : Here(k, n) \/ Ahead(k, n)
    BY <2>3 DEF Here, Ahead
  <2> QED BY <2>3, <2>4, <2>5, IdleIsIdle DEF Goes, Carries
<1>2. CASE j.todo = {}
  BY <1>2, EventsGo DEF BroadcastNext
<1> QED BY <1>1, <1>2

LEMMA FlushNextGoes ==
  ASSUME IInv, NEW j \in Job, j.phase = "puppets", j.news = Nothing, j.todo \subseteq open,
         NEW k \in FlushNext(j)
  PROVE  Goes(k)
<1>1. CASE j.todo # {}
  <2>1. PICK m \in j.todo : k = [j EXCEPT !.pc = "ask", !.who = m, !.todo = @ \ {m}, !.asked = Nothing]
    BY <1>1 DEF FlushNext
  <2>2. m \in Puppets /\ m \in Machines
    BY Sets DEF Job
  <2>3. k \in Job /\ k.phase = "puppets" /\ k.pc = "ask" /\ k.who = m /\ k.news = j.news
        /\ k.todo = j.todo \ {m} /\ k.asked = Nothing
    BY <2>1, <2>2, Sets DEF Job
  <2>4. Placed(k)
    BY <2>3, AskedNone DEF Placed, Locked
  <2> QED BY <2>3, <2>4 DEF Goes
<1>2. CASE j.todo = {}
  BY <1>2 DEF FlushNext, Goes
<1> QED BY <1>1, <1>2

LEMMA NoNews ==
  ASSUME NEW j, j.news = Nothing, NEW k
  PROVE  Passes(k, j) /\ HandsOn(k, j)
BY Sets DEF Passes, HandsOn, Carries

LEMMA MoveOnGoes ==
  ASSUME IInv, NEW j \in Job, Placed(j), j.pc # "read", ~perUser => open = {}, NEW k \in MoveOn(j)
  PROVE  Goes(k) /\ Passes(k, j)
<1>1. j.phase \in {"send", "bot", "named", "broadcast", "event", "flush", "puppets"}
  BY DEF Job
<1>2. CASE j.phase \in {"send", "flush"}
  BY <1>2, NoNews DEF MoveOn, Goes, Placed
<1>3. CASE j.phase = "bot" /\ perUser
  BY <1>3, NamedGoes DEF MoveOn
<1>4. CASE j.phase = "bot" /\ ~perUser
  <2>1. k = Events(j)
    BY <1>4 DEF MoveOn
  <2>2. \A m \in open \union {Bot} : ~Ahead(j, m)
    BY <1>4, Sets DEF Ahead
  <2> QED BY <2>1, <2>2, EventsGo DEF Passes
<1>5. CASE j.phase = "named"
  BY <1>5, NamedGoes DEF MoveOn, Placed
<1>6. CASE j.phase = "broadcast"
  <2>1. j.todo \subseteq open /\ k \in BroadcastNext(j)
    BY <1>6 DEF MoveOn, Placed
  <2>2. \A m : Ahead(j, m) => m \in j.todo
    BY <1>6 DEF Ahead
  <2> QED BY <1>6, <2>1, <2>2, BroadcastGoes DEF Passes
<1>7. CASE j.phase = "event"
  BY <1>7, FlushGoes, NoNews, IdleIsIdle DEF MoveOn, Goes, Placed
<1>8. CASE j.phase = "puppets"
  BY <1>8, FlushNextGoes, NoNews DEF MoveOn, Placed
<1> QED BY <1>1, <1>2, <1>3, <1>4, <1>5, <1>6, <1>7, <1>8

LEMMA FlushedGoes ==
  ASSUME IInv, NEW j \in Job, Placed(j), j.pc \in {"ask", "answer"}, ~perUser => open = {},
         NEW k \in Flushed(j)
  PROVE  Goes(k) /\ HandsOn(k, j)
<1>1. CASE j.phase \in {"send", "event"}
  <2>1. k = [j EXCEPT !.pc = "claim", !.asked = Nothing]
    BY <1>1 DEF Flushed
  <2>2. k \in Job /\ k.pc = "claim" /\ k.asked = Nothing /\ Kin(k, j)
    BY <2>1, Sets DEF Job, Kin
  <2>3. Placed(k)
    BY <1>1, <2>2, AskedNone DEF Placed, Kin, Locked
  <2> QED BY <1>1, <2>2, <2>3, NoNews DEF Goes, Placed
<1>2. CASE j.phase = "flush" /\ perUser
  <2>1. k = [j EXCEPT !.phase = "puppets", !.pc = "read", !.asked = Nothing]
    BY <1>2 DEF Flushed
  <2>2. k \in Job /\ k.phase = "puppets" /\ k.pc = "read" /\ k.news = j.news /\ k.asked = Nothing
    BY <2>1, Sets DEF Job
  <2>3. Placed(k)
    BY <1>2, <2>2, AskedNone DEF Placed, Locked
  <2> QED BY <1>2, <2>2, <2>3, NoNews DEF Goes, Placed
<1>3. CASE j.phase \notin {"send", "event"} /\ ~(j.phase = "flush" /\ perUser)
  <2>1. k \in MoveOn(j)
    BY <1>3 DEF Flushed
  <2>2. Goes(k) /\ Passes(k, j)
    BY <2>1, MoveOnGoes
  <2>3. \A m : ~Here(j, m)
    BY DEF Here
  <2> QED BY <2>2, <2>3 DEF Passes, HandsOn
<1> QED BY <1>1, <1>2, <1>3

(* A job outlasts a step that opens machines and adds devices.              *)
LEMMA PlacedLasts ==
  ASSUME IInv, IInv', scenario' = scenario, open \subseteq open',
         \A u \in Members : devices'[u] >= devices[u],
         NEW j \in Job, Placed(j)
  PROVE  Placed(j)'
<1>1. \A u \in Members : j.asked[u] \in Nat /\ devices[u] \in Nat /\ devices'[u] \in Nat
  BY Sets DEF IInv, Types, Job, Counts
<1>2. \A u \in Members : j.asked[u] <= devices'[u]
  BY <1>1 DEF Placed
<1>3. j.pc = "lock" \/ j.pc \in Locked => j.who \in open' \union {Bot}
  BY DEF Placed
<1>4. j.phase \in {"broadcast", "puppets"} /\ j.pc # "read" => j.todo \subseteq open'
  BY DEF Placed
<1> QED BY <1>2, <1>3, <1>4 DEF Placed, perUser

LEMMA Moved ==
  ASSUME NEW d, NEW j, call'[d] = j
  PROVE  (Placed(j)' => Placed(call[d])') /\ (AskedWell(j)' => AskedWell(call[d])')
BY DEF Placed, AskedWell, Carried

(* What machine m is to know of u is seen to.                               *)
Tended(m, u) ==
  \/ u \in store'[m].dirty
  \/ /\ u \in store[m].tracked /\ store'[m].known[u] = store[m].known[u]
     /\ u \in store[m].dirty => u \in store'[m].dirty
  \/ /\ m \in open \union {Bot}
     /\ store'[m].known[u] = devices[u] \/ u \in outbox \/ Carried(m, u)

LEMMA CarriedOn ==
  ASSUME IInv, NEW c \in Calls, NEW k, call' = [call EXCEPT ![c] = k], devices' = devices,
         call[c] = Idle \/ HandsOn(k, call[c]),
         NEW m \in open \union {Bot}, NEW u \in Members, Carried(m, u)
  PROVE  Carried(m, u)'
<1>1. PICK d \in Active : call[d].news[u] = devices[u] /\ (Here(call[d], m) \/ Ahead(call[d], m))
  BY DEF Carried
<1>2. d \in Calls /\ call[d] # Idle /\ call[d].news[u] # 0
  BY <1>1, AskedNone DEF Active
<1>3. CASE d # c
  <2>1. call'[d] = call[d]
    BY <1>2, <1>3 DEF IInv, Types
  <2> QED BY <1>1, <1>2, <2>1 DEF Carried, Active
<1>4. CASE d = c
  <2>1. call'[d] = k
    BY <1>4 DEF IInv, Types
  <2>2. k # Idle /\ k.news[u] = devices[u] /\ (Here(k, m) \/ Ahead(k, m))
    BY <1>1, <1>2, <1>4 DEF HandsOn, Carries
  <2> QED BY <1>2, <2>1, <2>2 DEF Carried, Active
<1> QED BY <1>3, <1>4

(* Handler c goes on as k, or starts as k; what leaves the outbox is carried. *)
LEMMA CallMoves ==
  ASSUME IInv, IInv', PInv, NEW c \in Calls, up,
         NEW k, call' = [call EXCEPT ![c] = k], k = Idle \/ (k \in Job /\ Placed(k)'),
         UNCHANGED <<scenario, devices, up>>, lapses \subseteq lapses', open \subseteq open', QueueOK',
         open' = open \/ perUser, KnownReal',
         \A u \in outbox \intersect Members : u \in outbox' \/ \A m \in open \union {Bot} : Carried(m, u)',
         lapses' = {} =>
           /\ call[c] = Idle \/ HandsOn(k, call[c])
           /\ k.pc = "answer" => \A u \in Members : k.asked[u] # 0 =>
                k.asked[u] = devices[u] \/ u \in outbox' \/ Carried(k.who, u)'
           /\ \A m \in Machines : /\ store'[m].tracked \subseteq store[m].tracked \/ m \in open \union {Bot}
                                  /\ \A u \in store'[m].tracked : Tended(m, u)
  PROVE  PInv'
<1>1. \A d \in Calls : call'[d] = IF d = c THEN k ELSE call[d]
  BY DEF IInv, Types
<1>2. up /\ up' /\ scenario' = scenario
  OBVIOUS
<1>3. \A d \in Active' : Placed(call[d])'
  <2>1. \A u \in Members : devices[u] \in Nat /\ devices'[u] >= devices[u]
    BY AskedNone
  <2> SUFFICES ASSUME NEW d \in Calls, d # c, call[d] # Idle
               PROVE  Placed(call[d])'
    <3>1. call'[c] # Idle => Placed(call[c])'
      BY <1>1, Moved
    <3> QED BY <1>1, <3>1 DEF Active
  <2>2. PICK j : j = call[d]
    OBVIOUS
  <2>3. j \in Job /\ Placed(j)
    BY <2>2 DEF IInv, Types, PInv, Active
  <2>4. Placed(j)'
    BY <2>1, <2>3, PlacedLasts
  <2> QED BY <1>1, <2>2, <2>4, Moved
<1>4. ~perUser' \/ ~up' => open' = {}
  BY <1>2 DEF PInv, perUser
<1>5. ASSUME lapses' = {}
      PROVE  Caught'
  <2>1. Caught /\ (call[c] = Idle \/ HandsOn(k, call[c]))
    BY <1>5 DEF PInv
  <2>2. \A m \in open \union {Bot}, u \in Members : Carried(m, u) => Carried(m, u)'
    BY <2>1, CarriedOn
  <2>3. ASSUME NEW m \in Machines, ~InUse(m)'
        PROVE  store'[m].tracked = {}
    <3>1. m \notin open \union {Bot} /\ ~InUse(m)
      BY <1>2, <2>3 DEF InUse
    <3> QED BY <1>5, <2>1, <3>1 DEF Caught
  <2>4. ASSUME NEW m \in Machines, NEW u \in store'[m].tracked
        PROVE  Covered(m, u)'
    <3>1. Tended(m, u) /\ u \in Members
      BY <1>5, <2>4 DEF IInv, Types, Store
    <3>2. CASE u \in store'[m].dirty
      BY <3>2 DEF Covered
    <3>3. CASE m \in open \union {Bot} /\ (store'[m].known[u] = devices[u] \/ u \in outbox \/ Carried(m, u))
      BY <2>2, <3>1, <3>3 DEF Covered
    <3>4. CASE /\ u \in store[m].tracked /\ store'[m].known[u] = store[m].known[u]
               /\ u \in store[m].dirty => u \in store'[m].dirty
      <4>1. Covered(m, u) /\ m \in open \union {Bot}
        BY <2>1, <3>4 DEF Caught, InUse
      <4> QED BY <2>2, <3>1, <3>4, <4>1 DEF Covered
    <3> QED BY <3>1, <3>2, <3>3, <3>4 DEF Tended
  <2>5. ASSUME NEW d \in Active'
        PROVE  AskedWell(call[d])'
    <3>1. d \in Calls /\ call'[d] # Idle
      BY <2>5 DEF Active
    <3>2. CASE d = c
      <4>1. AskedWell(k)'
        BY <1>5 DEF AskedWell
      <4> QED BY <1>1, <3>2, <4>1, Moved
    <3>3. CASE d # c
      <4>1. call'[d] = call[d] /\ d \in Active
        BY <1>1, <3>1, <3>3 DEF Active
      <4>2. call[d].pc = "answer" => call[d].who \in open \union {Bot}
        BY <4>1 DEF PInv, Placed, Locked
      <4>3. PICK j : j = call[d]
        OBVIOUS
      <4>4. AskedWell(j) /\ (j.pc = "answer" => j.who \in open \union {Bot})
        BY <2>1, <4>1, <4>2, <4>3 DEF Caught
      <4>5. AskedWell(j)'
        <5> SUFFICES ASSUME j.pc = "answer", NEW u \in Members, j.asked[u] # 0
                     PROVE  j.asked[u] = devices'[u] \/ u \in outbox' \/ Carried(j.who, u)'
          BY DEF AskedWell
        <5>1. PICK m \in open \union {Bot} : m = j.who
          BY <4>4
        <5>2. j.asked[u] = devices[u] \/ u \in outbox \/ Carried(m, u)
          BY <4>4, <5>1 DEF AskedWell
        <5>3. j.asked[u] = devices[u] \/ u \in outbox' \/ Carried(m, u)'
          BY <2>2, <5>2
        <5> QED BY <5>1, <5>3
      <4> QED BY <4>1, <4>3, <4>5, Moved
    <3> QED BY <3>2, <3>3
  <2> QED BY <2>3, <2>4, <2>5 DEF Caught
<1> QED BY <1>3, <1>4, <1>5 DEF PInv

LEMMA MoveKeeps ==
  ASSUME IInv, IInv', PInv, NEW c \in Calls, call[c] # Idle,
         NEW k, call' = [call EXCEPT ![c] = k], k = Idle \/ (k \in Job /\ Placed(k)'),
         UNCHANGED <<scenario, devices, outbox, up>>, lapses \subseteq lapses', open \subseteq open', QueueOK',
         open' = open \/ perUser, KnownReal',
         lapses' = {} =>
           /\ HandsOn(k, call[c])
           /\ k.pc = "answer" => \A u \in Members : k.asked[u] # 0 =>
                k.asked[u] = devices[u] \/ u \in outbox \/ Carried(k.who, u)'
           /\ \A m \in Machines : /\ store'[m].tracked \subseteq store[m].tracked \/ m \in open \union {Bot}
                                  /\ \A u \in store'[m].tracked : Tended(m, u)
  PROVE  PInv'
<1>1. up
  BY DEF IInv, DownIdle
<1> QED BY <1>1, CallMoves

(* ... and the stores keep their lists.                                     *)
SameLists(m) ==
  /\ store'[m].tracked = store[m].tracked /\ store'[m].dirty = store[m].dirty
  /\ store'[m].known = store[m].known

LEMMA PlainMove ==
  ASSUME IInv, IInv', PInv, NEW c \in Calls, call[c] # Idle,
         NEW k, call' = [call EXCEPT ![c] = k], k = Idle \/ (k \in Job /\ Placed(k)), k.pc # "answer",
         UNCHANGED <<scenario, devices, outbox, up, open, lapses>>, QueueOK',
         \A m \in Machines : SameLists(m),
         HandsOn(k, call[c])
  PROVE  PInv'
<1>1. KnownReal'
  BY DEF PInv, KnownReal, SameLists
<1>2. k = Idle \/ (k \in Job /\ Placed(k)')
  BY DEF Placed, perUser
<1>3. \A m \in Machines : \A u \in store'[m].tracked : Tended(m, u)
  BY DEF SameLists, Tended
<1>4. \A m \in Machines : store'[m].tracked \subseteq store[m].tracked
  BY DEF SameLists
<1> QED BY <1>1, <1>2, <1>3, <1>4, MoveKeeps

-----------------------------------------------------------------------------
(* The handlers' steps.                                                     *)

LEMMA Working ==
  ASSUME IInv, PInv, NEW c \in Calls, call[c].pc # "idle"
  PROVE  /\ call[c] \in Job /\ Orderly(call[c]) /\ Placed(call[c]) /\ call[c] # Idle
         /\ call[c].who \in Machines /\ up /\ QueueOK /\ (~perUser => open = {})
BY AtWork DEF PInv, Active, Job

LEMMA ContinueMove ==
  ASSUME IInv, PInv, NEW c \in Calls, ~Waits(call[c]), NEW jobs, Continue(c, jobs)
  PROVE  \E k \in jobs : call' = [call EXCEPT ![c] = k] /\ QueueOK'
<1>1. PICK k \in jobs :
        /\ call' = [call EXCEPT ![c] = k]
        /\ queue' = IF k.pc \in {"get", "device", "read"} THEN Append(queue, c) ELSE queue
  BY DEF Continue
<1>2. queue' = queue \/ (queue' = Append(queue, c) /\ Waits(k))
  BY <1>1 DEF Waits
<1> QED BY <1>1, <1>2, JoinsQueue DEF PInv

LEMMA GotoMove ==
  ASSUME IInv, NEW c \in Calls, call[c] \in Job, NEW s \in Stages, Goto(c, s)
  PROVE  \E k \in Job : /\ call' = [call EXCEPT ![c] = k] /\ Kin(k, call[c]) /\ k.pc = s
                        /\ k.asked = call[c].asked
<1>1. PICK k : k = [call[c] EXCEPT !.pc = s]
  OBVIOUS
<1>2. call' = [call EXCEPT ![c] = k]
  BY <1>1 DEF Goto, IInv, Types
<1>3. k \in Job /\ Kin(k, call[c]) /\ k.pc = s /\ k.asked = call[c].asked
  BY <1>1, GotoFields
<1> QED BY <1>2, <1>3

(* At its own machine, a job keeps its news until it has told them.         *)
LEMMA KinHands ==
  ASSUME NEW k \in Job, NEW j, Kin(k, j), k.pc # "read", j.pc # "read",
         k.pc \notin {"ask", "answer"} \/ j.pc \in {"ask", "answer"}
  PROVE  HandsOn(k, j)
<1>1. k # Idle /\ k.news = j.news
  BY IdleIsIdle DEF Kin
<1>2. \A m : Here(j, m) \/ Ahead(j, m) => Here(k, m) \/ Ahead(k, m)
  BY DEF Here, Ahead, Kin
<1> QED BY <1>1, <1>2 DEF HandsOn, Carries

(* A step failed, or there is no more to do for the machine.                *)
LEMMA FailedMove ==
  ASSUME IInv, PInv, NEW c \in Calls, call[c].pc # "idle", ~Waits(call[c]), Failed(c)
  PROVE  \E k : call' = [call EXCEPT ![c] = k] /\ Goes(k) /\ Passes(k, call[c]) /\ QueueOK'
<1>1. PICK k \in MoveOn(call[c]) : call' = [call EXCEPT ![c] = k] /\ QueueOK'
  BY ContinueMove DEF Failed
<1>2. call[c].pc # "read"
  BY DEF Waits
<1> QED BY <1>1, <1>2, Working, MoveOnGoes

LEMMA PassesOn ==
  ASSUME NEW k, NEW j, Passes(k, j), j.phase \in {"send", "event"} \/ j.who \notin open \union {Bot}
                                      \/ j.pc \in {"ask", "answer"}
  PROVE  HandsOn(k, j)
BY DEF HandsOn, Passes, Here

LEMMA StoresSame ==
  ASSUME store' = store
  PROVE  \A m \in Machines : SameLists(m)
BY DEF SameLists

LEMMA AskHintMoves ==
  ASSUME IInv, IInv', PInv, NEW c \in Calls, AskHint(c)
  PROVE  PInv'
<1>1. call[c].pc = "hint"
  BY DEF AskHint, At
<1>2. call[c] \in Job /\ Placed(call[c]) /\ call[c].phase = "send" /\ call[c] # Idle /\ QueueOK
  BY <1>1, Working DEF Orderly
<1>3. PICK enc \in BOOLEAN, failed \in SUBSET Failures :
        call' = [call EXCEPT ![c].pc = "media", ![c].enc = enc, ![c].failed = failed]
  BY DEF AskHint
<1>4. PICK k : k = [call[c] EXCEPT !.pc = "media", !.enc = enc, !.failed = failed]
  OBVIOUS
<1>5. call' = [call EXCEPT ![c] = k]
  BY <1>3, <1>4 DEF IInv, Types
<1>6. k \in Job /\ k.pc = "media" /\ Kin(k, call[c]) /\ k.asked = call[c].asked
  BY <1>2, <1>4 DEF Job, Kin
<1>7. Placed(k)
  BY <1>2, <1>6 DEF Placed, Kin, Locked
<1>8. /\ UNCHANGED <<scenario, devices, outbox, up, open, lapses>> /\ queue' = queue /\ store' = store
  BY DEF AskHint, serverVars, poolVars, histVars
<1>9. QueueOK'
  BY <1>1, <1>2, <1>5, <1>8, JoinsQueue DEF Waits
<1> QED BY <1>1, <1>2, <1>5, <1>6, <1>7, <1>8, <1>9, NoNews, StoresSame, PlainMove DEF Placed

LEMMA FileFields ==
  ASSUME NEW j \in Job, NEW f \in {"none", "clear", "sealed", "link"}, NEW k, k = [j EXCEPT !.file = f]
  PROVE  k \in Job /\ Kin(k, j) /\ k.pc = j.pc /\ k.asked = j.asked
BY DEF Job, Kin

LEMMA ReuploadMoves ==
  ASSUME IInv, IInv', PInv, NEW c \in Calls, Reupload(c)
  PROVE  PInv'
<1>1. call[c].pc = "media" /\ ~Waits(call[c])
  BY DEF Reupload, At, Waits
<1>2. call[c] \in Job /\ Placed(call[c]) /\ call[c].phase = "send" /\ call[c].news = Nothing /\ call[c] # Idle
  BY <1>1, Working DEF Orderly, Placed
<1>3. UNCHANGED <<scenario, devices, outbox, up, open, lapses>> /\ store' = store
  BY DEF Reupload, serverVars, storeVars, histVars
<1>4. CASE Failed(c)
  <2>1. PICK k : call' = [call EXCEPT ![c] = k] /\ Goes(k) /\ QueueOK'
    BY <1>1, <1>4, FailedMove
  <2> QED BY <1>2, <1>3, <2>1, NoNews, StoresSame, PlainMove, IdleIsIdle DEF Goes
<1>5. CASE ~Failed(c)
  <2>1. PICK after, file :
          /\ after = [call[c] EXCEPT !.pc = CASE ~call[c].enc -> "post"
                                             [] call[c].enc /\ perUser -> "get"
                                             [] OTHER -> "lock"]
          /\ file \in {"none", "clear", "sealed", "link"}
          /\ Continue(c, {[after EXCEPT !.file = file]}) \/ Continue(c, {after})
    <3>1. PICK after : after = [call[c] EXCEPT !.pc = CASE ~call[c].enc -> "post"
                                             [] call[c].enc /\ perUser -> "get"
                                             [] OTHER -> "lock"]
      OBVIOUS
    <3>2. after.file = call[c].file
      BY <1>2, <3>1 DEF Job
    <3>3. PICK file : file = IF after.file = "none" THEN after.file
                             ELSE IF call[c].enc THEN "sealed" ELSE "clear"
      OBVIOUS
    <3>4. file \in {"none", "clear", "sealed", "link"}
      BY <3>3
    <3>5. [after EXCEPT !.file = IF @ = "none" THEN @ ELSE IF call[c].enc THEN "sealed" ELSE "clear"]
            = [after EXCEPT !.file = file]
      BY <3>3
    <3>6. Continue(c, {[after EXCEPT !.file = file]}) \/ Continue(c, {after})
      BY <1>5, <3>1, <3>5 DEF Reupload
    <3> QED BY <3>1, <3>4, <3>6
  <2>2. PICK k : /\ call' = [call EXCEPT ![c] = k] /\ QueueOK'
                 /\ k = [after EXCEPT !.file = file] \/ k = after
    BY <1>1, <2>1, ContinueMove
  <2>3. /\ k \in Job /\ Kin(k, call[c]) /\ k.asked = call[c].asked
        /\ k.pc \in {"post", "get", "lock"} /\ (k.pc = "get" => perUser) /\ (k.pc = "lock" => ~perUser)
    <3>1. PICK s : s = CASE ~call[c].enc -> "post"
                         [] call[c].enc /\ perUser -> "get"
                         [] OTHER -> "lock"
      OBVIOUS
    <3>2. s \in {"post", "get", "lock"} /\ (s = "get" => perUser) /\ (s = "lock" => ~perUser)
      BY <1>2, <3>1 DEF Job
    <3>3. after = [call[c] EXCEPT !.pc = s]
      BY <2>1, <3>1
    <3>4. after \in Job /\ Kin(after, call[c]) /\ after.pc = s /\ after.asked = call[c].asked
      BY <1>2, <3>2, <3>3 DEF Job, Kin
    <3>5. /\ k \in Job /\ Kin(k, after) /\ k.pc = after.pc /\ k.asked = after.asked
      <4>1. CASE k = after
        BY <3>4, <4>1 DEF Kin
      <4>2. CASE k = [after EXCEPT !.file = file]
        <5>1. after \in Job /\ file \in {"none", "clear", "sealed", "link"}
          BY <2>1, <3>4
        <5> QED BY <4>2, <5>1, FileFields
      <4> QED BY <2>2, <4>1, <4>2
    <3> QED BY <3>2, <3>4, <3>5 DEF Kin
  <2>4. Placed(k)
    BY <1>2, <2>3 DEF Placed, Kin, Locked
  <2> QED BY <1>2, <1>3, <2>2, <2>3, <2>4, NoNews, StoresSame, PlainMove
<1> QED BY <1>4, <1>5

LEMMA PostMoves ==
  ASSUME IInv, IInv', PInv, NEW c \in Calls, Post(c)
  PROVE  PInv'
<1>1. call[c].pc = "post" /\ ~Waits(call[c]) /\ Continue(c, {Idle})
  BY DEF Post, At, Waits
<1>2. call[c] # Idle /\ call[c].news = Nothing
  BY <1>1, Working DEF Orderly, Placed
<1>3. UNCHANGED <<scenario, devices, outbox, up, open, lapses>> /\ store' = store
  BY DEF Post, serverVars, storeVars, histVars
<1>4. call' = [call EXCEPT ![c] = Idle] /\ QueueOK'
  BY <1>1, ContinueMove
<1> QED BY <1>2, <1>3, <1>4, NoNews, StoresSame, PlainMove, IdleIsIdle

(* A handler that had waited for the pool's lock goes on.                   *)
LEMMA StageMove ==
  ASSUME IInv, IInv', PInv, NEW c \in Calls, call[c].pc \notin {"idle", "read"},
         NEW s \in {"lock", "write", "init", "post"}, Goto(c, s),
         s \in {"write", "init"} => call[c].pc \in {"get", "write"},
         s = "lock" => call[c].who \in open \union {Bot},
         UNCHANGED <<scenario, devices, outbox, up, open, lapses>>, store' = store, QueueOK'
  PROVE  PInv'
<1>1. call[c] \in Job /\ Placed(call[c]) /\ call[c] # Idle /\ s \in Stages
  BY Working DEF Stages
<1>2. PICK k \in Job : /\ call' = [call EXCEPT ![c] = k] /\ Kin(k, call[c]) /\ k.pc = s
                       /\ k.asked = call[c].asked
  BY <1>1, GotoMove
<1>3. Placed(k)
  BY <1>1, <1>2 DEF Placed, Kin, Locked
<1>4. HandsOn(k, call[c])
  BY <1>2, KinHands
<1> QED BY <1>1, <1>2, <1>3, <1>4, StoresSame, PlainMove

LEMMA GetMoves ==
  ASSUME IInv, IInv', PInv, NEW c \in Calls, Get(c)
  PROVE  PInv'
<1>1. call[c].pc = "get" /\ First(c)
  BY DEF Get, At, CanRead
<1>2. /\ call[c] \in Job /\ Placed(call[c]) /\ call[c] # Idle /\ QueueOK /\ call[c].who \in Puppets
      /\ (~perUser => open = {})
  BY <1>1, Working DEF Orderly
<1>3. UNCHANGED <<scenario, devices, outbox, up, open, lapses>> /\ store' = store
  BY DEF Get, serverVars, storeVars, histVars
<1>4. CASE call[c].who \in open /\ Goto(c, "lock") /\ queue' = Tail(queue)
  <2>1. QueueOK'
    BY <1>1, <1>2, <1>4, LeavesQueue, GotoMove DEF Stages
  <2> QED BY <1>1, <1>3, <1>4, <2>1, StageMove
<1>5. CASE Goto(c, "write") /\ queue' = Append(Tail(queue), c)
  <2>1. PICK k \in Job : call' = [call EXCEPT ![c] = k] /\ k.pc = "write"
    BY <1>2, <1>5, GotoMove DEF Stages
  <2>2. QueueOK'
    BY <1>1, <1>2, <1>5, <2>1, LeavesQueue DEF Waits
  <2> QED BY <1>1, <1>3, <1>5, <2>2, StageMove
<1>6. CASE /\ call[c].who \notin open
           /\ \E job \in MoveOn(call[c]) :
                /\ call' = [call EXCEPT ![c] = job]
                /\ queue' = IF job.pc \in {"get", "read"} THEN Append(Tail(queue), c) ELSE Tail(queue)
  <2>1. PICK k \in MoveOn(call[c]) :
          /\ call' = [call EXCEPT ![c] = k]
          /\ queue' = IF k.pc \in {"get", "read"} THEN Append(Tail(queue), c) ELSE Tail(queue)
    BY <1>6
  <2>2. QueueOK'
    BY <1>1, <1>2, <2>1, LeavesQueue DEF Waits
  <2>3. Goes(k) /\ Passes(k, call[c])
    BY <1>1, <1>2, <2>1, MoveOnGoes
  <2>4. HandsOn(k, call[c])
    BY <1>2, <1>6, <2>3, Sets, PassesOn
  <2> QED BY <1>2, <1>3, <2>1, <2>2, <2>3, <2>4, StoresSame, PlainMove, IdleIsIdle DEF Goes
<1> QED BY <1>4, <1>5, <1>6 DEF Get

LEMMA LookAgainMoves ==
  ASSUME IInv, IInv', PInv, NEW c \in Calls, LookAgain(c)
  PROVE  PInv'
<1>1. call[c].pc = "write" /\ First(c) /\ queue' = Tail(queue)
  BY DEF LookAgain, At, CanWrite
<1>2. PICK s \in {"lock", "init"} : Goto(c, s) /\ (s = "lock" => call[c].who \in open)
  BY DEF LookAgain
<1>3. UNCHANGED <<scenario, devices, outbox, up, open, lapses>> /\ store' = store
  BY DEF LookAgain, serverVars, storeVars, histVars
<1>4. call[c] \in Job /\ QueueOK /\ s \in Stages
  BY <1>1, Working DEF Stages
<1>5. QueueOK'
  BY <1>1, <1>2, <1>4, GotoMove, LeavesQueue
<1> QED BY <1>1, <1>2, <1>3, <1>5, StageMove

LEMMA LookUpDeviceMoves ==
  ASSUME IInv, IInv', PInv, NEW c \in Calls, LookUpDevice(c)
  PROVE  PInv'
<1>1. call[c].pc = "device" /\ First(c) /\ queue' = Tail(queue) /\ Goto(c, "post")
  BY DEF LookUpDevice, At, CanRead
<1>2. UNCHANGED <<scenario, devices, outbox, up, open, lapses>> /\ store' = store
  BY DEF LookUpDevice, serverVars, storeVars, histVars
<1>3. call[c] \in Job /\ QueueOK /\ "post" \in Stages
  BY <1>1, Working DEF Stages
<1>4. QueueOK'
  BY <1>1, <1>3, GotoMove, LeavesQueue
<1> QED BY <1>1, <1>2, <1>4, StageMove

(* A machine whose store keeps its lists.                                   *)
LEMMA StoreKept ==
  ASSUME IInv, NEW n \in Machines, NEW s \in Store, store' = [store EXCEPT ![n] = s],
         s.tracked = store[n].tracked, s.dirty = store[n].dirty, s.known = store[n].known
  PROVE  \A m \in Machines : SameLists(m)
BY DEF SameLists, IInv, Types

LEMMA InitPuppetMoves ==
  ASSUME IInv, IInv', PInv, NEW c \in Calls, InitPuppet(c)
  PROVE  PInv'
<1>1. call[c].pc = "init" /\ ~Waits(call[c])
  BY DEF InitPuppet, At, Waits
<1>2. PICK n : n = call[c].who
  OBVIOUS
<1>3. /\ call[c] \in Job /\ Placed(call[c]) /\ call[c] # Idle /\ QueueOK /\ n \in Puppets /\ n \in Machines
      /\ n \notin open \union {Bot} /\ up
  BY <1>1, <1>2, Working, Writing, Sets DEF Orderly, Writes, IInv, OneMachine
<1>4. UNCHANGED <<scenario, devices, outbox, up, open, lapses>>
  BY DEF InitPuppet, histVars
<1>5. lapses = {} => store[n].tracked = {}
  BY <1>3 DEF PInv, Caught, InUse
<1>6. CASE store' = [store EXCEPT ![n] = Opened(@)] /\ Goto(c, "sign") /\ UNCHANGED queue
  <2>1. PICK k \in Job : call' = [call EXCEPT ![c] = k] /\ Kin(k, call[c]) /\ k.pc = "sign"
                         /\ k.asked = call[c].asked
    BY <1>3, <1>6, GotoMove DEF Stages
  <2>2. Placed(k)
    BY <1>1, <1>3, <2>1 DEF Placed, Kin, Locked
  <2>3. HandsOn(k, call[c])
    BY <1>1, <2>1, KinHands
  <2>4. QueueOK'
    BY <1>1, <1>3, <1>6, <2>1, JoinsQueue
  <2>5. PICK o : o = Opened(store[n])
    OBVIOUS
  <2>6. /\ o.tracked = store[n].tracked
        /\ \A u \in Members : o.known[u] = IF u \in store[n].dirty THEN devices[u] ELSE store[n].known[u]
    BY <1>3, <2>5, OpenedFacts
  <2>7. \A m \in Machines : store'[m] = IF m = n THEN o ELSE store[m]
    BY <1>6, <2>5 DEF IInv, Types
  <2>8. KnownReal'
    <3> SUFFICES ASSUME NEW m \in Machines, NEW u \in Members
                 PROVE  store'[m].known[u] <= devices[u]
      BY <1>4 DEF KnownReal
    <3>1. store[m].known[u] <= devices[u] /\ devices[u] \in Nat
      BY AskedNone DEF PInv, KnownReal
    <3> QED BY <2>6, <2>7, <3>1
  <2>9. \A m \in Machines : store'[m].tracked = store[m].tracked
    BY <2>6, <2>7
  <2>10. lapses = {} => \A m \in Machines : \A u \in store'[m].tracked : Tended(m, u)
    BY <1>5, <2>7, <2>9 DEF Tended
  <2>11. Placed(k)'
    BY <1>4, <2>2 DEF Placed, perUser
  <2> QED BY <1>3, <1>4, <2>1, <2>3, <2>4, <2>8, <2>9, <2>10, <2>11, MoveKeeps
<1>7. CASE Failed(c) /\ (store' = store \/ store' = [store EXCEPT ![n].uploaded = TRUE])
  <2>1. PICK k : call' = [call EXCEPT ![c] = k] /\ Goes(k) /\ Passes(k, call[c]) /\ QueueOK'
    BY <1>1, <1>7, FailedMove
  <2>2. HandsOn(k, call[c])
    BY <1>2, <1>3, <2>1, PassesOn
  <2>3. \A m \in Machines : SameLists(m)
    <3>1. CASE store' = store
      BY <3>1, StoresSame
    <3>2. CASE store' = [store EXCEPT ![n].uploaded = TRUE]
      <4>1. PICK s : s = [store[n] EXCEPT !.uploaded = TRUE]
        OBVIOUS
      <4>2. /\ s \in Store /\ s.tracked = store[n].tracked /\ s.dirty = store[n].dirty
            /\ s.known = store[n].known
        BY <1>3, <4>1 DEF IInv, Types, Store
      <4>3. store' = [store EXCEPT ![n] = s]
        BY <1>3, <3>2, <4>1 DEF IInv, Types
      <4> QED BY <1>3, <4>2, <4>3, StoreKept
    <3> QED BY <1>7, <3>1, <3>2
  <2> QED BY <1>3, <1>4, <2>1, <2>2, <2>3, PlainMove, IdleIsIdle DEF Goes
<1> QED BY <1>2, <1>6, <1>7 DEF InitPuppet

LEMMA InsertMoves ==
  ASSUME IInv, IInv', PInv, NEW c \in Calls, Insert(c)
  PROVE  PInv'
<1>1. call[c].pc = "sign" /\ ~Waits(call[c])
  BY DEF Insert, At, Waits
<1>2. call[c] \in Job /\ Placed(call[c]) /\ call[c] # Idle /\ QueueOK /\ perUser
  BY <1>1, Working DEF Placed
<1>3. /\ UNCHANGED <<scenario, devices, outbox, up, lapses>> /\ queue' = queue /\ store' = store
      /\ open' = open \union {call[c].who}
  BY DEF Insert, serverVars, storeVars, histVars
<1>4. PICK k \in Job : call' = [call EXCEPT ![c] = k] /\ Kin(k, call[c]) /\ k.pc = "lock"
                       /\ k.asked = call[c].asked
  BY <1>2, GotoMove DEF Insert, Stages
<1>5. HandsOn(k, call[c])
  BY <1>1, <1>4, KinHands
<1>6. QueueOK'
  BY <1>1, <1>2, <1>3, <1>4, JoinsQueue
<1>7. Placed(k)'
  BY <1>1, <1>2, <1>3, <1>4 DEF Placed, Kin, perUser, Locked
<1>8. KnownReal'
  BY <1>3 DEF PInv, KnownReal
<1>9. \A m \in Machines : \A u \in store'[m].tracked : Tended(m, u)
  BY <1>3 DEF Tended
<1> QED BY <1>2, <1>3, <1>4, <1>5, <1>6, <1>7, <1>8, <1>9, MoveKeeps

LEMMA TrackMoves ==
  ASSUME IInv, IInv', PInv, NEW c \in Calls, Track(c)
  PROVE  PInv'
<1>1. /\ call[c].pc = "lock" /\ ~Waits(call[c]) /\ call[c].phase \in {"send", "event"} /\ Goto(c, "ask")
  BY DEF Track, At, In, Waits
<1>2. PICK n : n = call[c].who
  OBVIOUS
<1>3. /\ call[c] \in Job /\ Placed(call[c]) /\ call[c] # Idle /\ QueueOK /\ n \in Machines
      /\ n \in open \union {Bot}
  BY <1>1, <1>2, Working DEF Placed
<1>4. UNCHANGED <<scenario, devices, outbox, up, open, lapses>> /\ queue' = queue
  BY DEF Track, serverVars, poolVars, histVars
<1>5. PICK k \in Job : call' = [call EXCEPT ![c] = k] /\ Kin(k, call[c]) /\ k.pc = "ask"
                       /\ k.asked = call[c].asked
  BY <1>1, <1>3, GotoMove DEF Stages
<1>6. Placed(k)' /\ QueueOK'
  <2>1. QueueOK'
    BY <1>1, <1>3, <1>4, <1>5, JoinsQueue
  <2>2. Placed(k)
    BY <1>1, <1>3, <1>5 DEF Placed, Kin, Locked
  <2> QED BY <1>4, <2>1, <2>2 DEF Placed, perUser
<1>7. HandsOn(k, call[c])
  BY <1>1, <1>3, NoNews DEF Placed
<1>8. PICK s : s = [store[n] EXCEPT !.tracked = Members, !.dirty = @ \union (Members \ store[n].tracked)]
  OBVIOUS
<1>9. store[n] \in Store
  BY <1>3 DEF IInv, Types
<1>10. /\ s.tracked = Members /\ s.dirty = store[n].dirty \union (Members \ store[n].tracked)
       /\ s.known = store[n].known
  BY <1>8, <1>9 DEF Store
<1>11. \A m \in Machines : store'[m] = IF m = n THEN s ELSE store[m]
  BY <1>2, <1>3, <1>8 DEF Track, IInv, Types
<1>12. KnownReal'
  BY <1>4, <1>10, <1>11 DEF PInv, KnownReal
<1>13. \A m \in Machines : \A u \in store'[m].tracked : Tended(m, u)
  BY <1>10, <1>11 DEF Tended
<1>14. \A m \in Machines : store'[m].tracked \subseteq store[m].tracked \/ m \in open \union {Bot}
  BY <1>3, <1>11
<1> QED BY <1>3, <1>4, <1>5, <1>6, <1>7, <1>12, <1>13, <1>14, MoveKeeps

LEMMA AskMoves ==
  ASSUME IInv, IInv', PInv, NEW c \in Calls, Ask(c)
  PROVE  PInv'
<1>1. call[c].pc = "ask" /\ ~Waits(call[c])
  BY DEF Ask, At, Waits
<1>2. PICK n : n = call[c].who
  OBVIOUS
<1>3. /\ call[c] \in Job /\ Placed(call[c]) /\ call[c] # Idle /\ n \in Machines /\ (~perUser => open = {})
  BY <1>1, <1>2, Working
<1>4. UNCHANGED <<scenario, devices, outbox, up, open, lapses>> /\ store' = store
  BY DEF Ask, serverVars, storeVars, histVars
<1>5. CASE Continue(c, Flushed(call[c]))
  <2>1. PICK k \in Flushed(call[c]) : call' = [call EXCEPT ![c] = k] /\ QueueOK'
    BY <1>1, <1>5, ContinueMove
  <2>2. Goes(k) /\ HandsOn(k, call[c])
    BY <1>1, <1>3, <2>1, FlushedGoes
  <2> QED BY <1>3, <1>4, <2>1, <2>2, StoresSame, PlainMove, IdleIsIdle DEF Goes
<1>6. CASE Continue(c, {[call[c] EXCEPT !.pc = "answer",
                          !.asked = [u \in Members |-> IF u \in store[n].dirty THEN devices[u] ELSE 0]]})
  <2>1. PICK a : a = [u \in Members |-> IF u \in store[n].dirty THEN devices[u] ELSE 0]
    OBVIOUS
  <2>2. PICK k : k = [call[c] EXCEPT !.pc = "answer", !.asked = a]
    OBVIOUS
  <2>10. Continue(c, {k})
    BY <1>6, <2>1, <2>2
  <2>3. call' = [call EXCEPT ![c] = k] /\ QueueOK'
    BY <1>1, <2>10, ContinueMove
  <2>4. a \in Counts /\ \A u \in Members : a[u] <= devices[u] /\ (a[u] # 0 => a[u] = devices[u])
    <3>1. devices \in Counts /\ \A u \in Members : devices[u] \in Nat
      BY AskedNone DEF IInv, Types
    <3> QED BY <2>1, <3>1, Sets DEF Counts
  <2>5. k \in Job /\ Kin(k, call[c]) /\ k.pc = "answer" /\ k.asked = a
    BY <1>3, <2>2, <2>4 DEF Job, Kin
  <2>6. Placed(k)'
    <3>1. Placed(k)
      BY <1>1, <1>3, <2>4, <2>5 DEF Placed, Kin, Locked
    <3> QED BY <1>4, <3>1 DEF Placed, perUser
  <2>7. HandsOn(k, call[c])
    BY <1>1, <2>5, KinHands
  <2>8. KnownReal' /\ \A m \in Machines : \A u \in store'[m].tracked : Tended(m, u)
    BY <1>4 DEF PInv, KnownReal, Tended
  <2>9. \A m \in Machines : store'[m].tracked \subseteq store[m].tracked
    BY <1>4
  <2> QED BY <1>3, <1>4, <2>3, <2>4, <2>5, <2>6, <2>7, <2>8, <2>9, MoveKeeps
<1> QED BY <1>2, <1>5, <1>6 DEF Ask

LEMMA AnswerMoves ==
  ASSUME IInv, IInv', PInv, NEW c \in Calls, Answer(c)
  PROVE  PInv'
<1>1. call[c].pc = "answer" /\ ~Waits(call[c])
  BY DEF Answer, At, Waits
<1>2. PICK n : n = call[c].who
  OBVIOUS
<1>3. /\ call[c] \in Job /\ Placed(call[c]) /\ call[c] # Idle /\ n \in Machines /\ (~perUser => open = {})
      /\ n \in open \union {Bot} /\ c \in Active
  BY <1>1, <1>2, Working DEF Placed, Locked, Active
<1>4. UNCHANGED <<scenario, devices, outbox, up, open, lapses>>
  BY DEF Answer, serverVars, histVars
<1>5. CASE Failed(c) /\ UNCHANGED store
  <2>1. PICK k : call' = [call EXCEPT ![c] = k] /\ Goes(k) /\ Passes(k, call[c]) /\ QueueOK'
    BY <1>1, <1>5, FailedMove
  <2>2. HandsOn(k, call[c])
    BY <1>1, <2>1, PassesOn
  <2> QED BY <1>3, <1>4, <1>5, <2>1, <2>2, StoresSame, PlainMove, IdleIsIdle DEF Goes
<1>6. CASE /\ store' = [store EXCEPT ![n].known = Larger(@, call[c].asked),
                                     ![n].dirty = @ \ Named(call[c].asked)]
           /\ Continue(c, Flushed(call[c]))
  <2>1. PICK k \in Flushed(call[c]) : call' = [call EXCEPT ![c] = k] /\ QueueOK'
    BY <1>1, <1>6, ContinueMove
  <2>2. Goes(k) /\ HandsOn(k, call[c])
    BY <1>1, <1>3, <2>1, FlushedGoes
  <2>3. PICK a : a = call[c].asked
    OBVIOUS
  <2>4. a \in Counts /\ \A u \in Members : a[u] \in Nat /\ a[u] <= devices[u]
    BY <1>3, <2>3, Sets DEF Job, Counts, Placed
  <2>5. PICK s : s = [store[n] EXCEPT !.known = Larger(store[n].known, a), !.dirty = @ \ Named(a)]
    OBVIOUS
  <2>6. store[n] \in Store /\ \A u \in Members : store[n].known[u] \in Nat
    BY <1>3, Sets DEF IInv, Types, Store, Counts
  <2>7. s.tracked = store[n].tracked /\ s.dirty = store[n].dirty \ Named(a) /\ s.known = Larger(store[n].known, a)
    BY <2>5, <2>6 DEF Store
  <2>8. \A m \in Machines : store'[m] = IF m = n THEN s ELSE store[m]
    BY <1>3, <1>6, <2>3, <2>5 DEF IInv, Types
  <2>9. \A u \in Members : s.known[u] = IF store[n].known[u] >= a[u] THEN store[n].known[u] ELSE a[u]
    BY <2>7 DEF Larger
  <2>10. KnownReal'
    <3> SUFFICES ASSUME NEW m \in Machines, NEW u \in Members
                 PROVE  store'[m].known[u] <= devices[u]
      BY <1>4 DEF KnownReal
    <3>1. store[m].known[u] <= devices[u]
      BY DEF PInv, KnownReal
    <3> QED BY <2>4, <2>8, <2>9, <3>1
  <2>11. \A m \in Machines : store'[m].tracked = store[m].tracked
    BY <2>7, <2>8
  <2>12. ASSUME lapses = {}, NEW m \in Machines, NEW u \in store[m].tracked
         PROVE  Tended(m, u)
    <3>1. u \in Members
      BY <2>12 DEF IInv, Types, Store
    <3>2. CASE m # n
      BY <2>8, <3>2 DEF Tended
    <3>3. CASE m = n /\ u \notin Named(a)
      <4>1. a[u] = 0 /\ store'[m].known[u] = store[m].known[u]
        BY <2>4, <2>6, <2>8, <2>9, <3>1, <3>3 DEF Named
      <4> QED BY <2>7, <2>8, <3>3, <4>1 DEF Tended
    <3>4. CASE m = n /\ u \in Named(a)
      <4>1. AskedWell(call[c])
        BY <1>3, <2>12 DEF PInv, Caught
      <4>2. a[u] = devices[u] \/ u \in outbox \/ Carried(m, u)
        BY <1>1, <1>2, <2>3, <3>1, <3>4, <4>1 DEF AskedWell, Named
      <4>3. a[u] = devices[u] => store'[m].known[u] = devices[u]
        <5>1. store[n].known[u] <= devices[u]
          BY <1>3, <3>1 DEF PInv, KnownReal
        <5> QED BY <2>4, <2>6, <2>8, <2>9, <3>1, <3>4, <5>1
      <4> QED BY <1>3, <3>4, <4>2, <4>3 DEF Tended
    <3> QED BY <3>2, <3>3, <3>4
  <2>13. k = Idle \/ (k \in Job /\ Placed(k)')
    BY <1>4, <2>2 DEF Goes, Placed, perUser
  <2>14. k.pc # "answer"
    BY <2>2, IdleIsIdle DEF Goes
  <2> QED BY <1>3, <1>4, <2>1, <2>2, <2>10, <2>11, <2>12, <2>13, <2>14, MoveKeeps
<1> QED BY <1>2, <1>5, <1>6 DEF Answer

LEMMA ClaimMoves ==
  ASSUME IInv, IInv', PInv, NEW c \in Calls, Claim(c)
  PROVE  PInv'
<1>1. call[c].pc = "claim" /\ ~Waits(call[c])
  BY DEF Claim, At, Waits
<1>2. PICK n : n = call[c].who
  OBVIOUS
<1>3. /\ call[c] \in Job /\ Placed(call[c]) /\ call[c] # Idle /\ n \in Machines /\ (~perUser => open = {})
      /\ call[c].phase \in {"send", "event"} /\ call[c].news = Nothing /\ QueueOK
  BY <1>1, <1>2, Working DEF Orderly, Placed
<1>4. UNCHANGED <<scenario, devices, outbox, up, open, lapses>>
  BY DEF Claim, serverVars, histVars
<1>5. \A m \in Machines : SameLists(m)
  <2>1. PICK s : s = [store[n] EXCEPT !.olm = store[n].known]
    OBVIOUS
  <2>2. store[n] \in Store
    BY <1>3 DEF IInv, Types
  <2>3. s \in Store /\ s.tracked = store[n].tracked /\ s.dirty = store[n].dirty /\ s.known = store[n].known
    BY <2>1, <2>2 DEF Store
  <2>4. store' = store \/ store' = [store EXCEPT ![n] = s]
    BY <1>2, <1>3, <2>1 DEF Claim, IInv, Types
  <2> QED BY <1>3, <2>3, <2>4, StoreKept, StoresSame
<1>6. CASE Failed(c) \/ Continue(c, MoveOn(call[c]))
  <2>1. PICK k \in MoveOn(call[c]) : call' = [call EXCEPT ![c] = k] /\ QueueOK'
    BY <1>1, <1>6, ContinueMove DEF Failed
  <2>2. Goes(k)
    BY <1>1, <1>3, <2>1, MoveOnGoes
  <2> QED BY <1>3, <1>4, <1>5, <2>1, <2>2, NoNews, PlainMove, IdleIsIdle DEF Goes
<1>7. CASE Goto(c, "share") /\ UNCHANGED queue
  <2>1. PICK k \in Job : call' = [call EXCEPT ![c] = k] /\ Kin(k, call[c]) /\ k.pc = "share"
                         /\ k.asked = call[c].asked
    BY <1>3, <1>7, GotoMove DEF Stages
  <2>2. QueueOK'
    BY <1>1, <1>3, <1>7, <2>1, JoinsQueue
  <2>3. Placed(k)
    BY <1>1, <1>3, <2>1 DEF Placed, Kin, Locked
  <2> QED BY <1>3, <1>4, <1>5, <2>1, <2>2, <2>3, NoNews, PlainMove
<1> QED BY <1>6, <1>7 DEF Claim

LEMMA ShareMoves ==
  ASSUME IInv, IInv', PInv, NEW c \in Calls, Share(c)
  PROVE  PInv'
<1>1. call[c].pc = "share" /\ ~Waits(call[c]) /\ Goto(c, "seal")
  BY DEF Share, At, Waits
<1>2. PICK n : n = call[c].who
  OBVIOUS
<1>3. /\ call[c] \in Job /\ Placed(call[c]) /\ call[c] # Idle /\ n \in Machines
      /\ call[c].news = Nothing /\ QueueOK
  BY <1>1, <1>2, Working DEF Orderly, Placed
<1>4. UNCHANGED <<scenario, devices, outbox, up, open, lapses>> /\ queue' = queue
  BY DEF Share, serverVars, poolVars, histVars
<1>5. \A m \in Machines : SameLists(m)
  <2>1. PICK s : s = [store[n] EXCEPT !.shared = store[n].olm]
    OBVIOUS
  <2>2. store[n] \in Store
    BY <1>3 DEF IInv, Types
  <2>3. s \in Store /\ s.tracked = store[n].tracked /\ s.dirty = store[n].dirty /\ s.known = store[n].known
    BY <2>1, <2>2 DEF Store
  <2>4. store' = [store EXCEPT ![n] = s]
    BY <1>2, <1>3, <2>1 DEF Share, IInv, Types
  <2> QED BY <1>3, <2>3, <2>4, StoreKept
<1>6. PICK k \in Job : call' = [call EXCEPT ![c] = k] /\ Kin(k, call[c]) /\ k.pc = "seal"
                       /\ k.asked = call[c].asked
  BY <1>1, <1>3, GotoMove DEF Stages
<1>7. QueueOK'
  BY <1>1, <1>3, <1>4, <1>6, JoinsQueue
<1>8. Placed(k)
  BY <1>1, <1>3, <1>6 DEF Placed, Kin, Locked
<1> QED BY <1>3, <1>4, <1>5, <1>6, <1>7, <1>8, NoNews, PlainMove

LEMMA SealMoves ==
  ASSUME IInv, IInv', PInv, NEW c \in Calls, Seal(c)
  PROVE  PInv'
<1>1. call[c].pc = "seal" /\ ~Waits(call[c])
  BY DEF Seal, At, Waits
<1>2. call[c] \in Job /\ Placed(call[c]) /\ call[c] # Idle /\ call[c].news = Nothing
      /\ call[c].phase = "send"
  BY <1>1, Working DEF Orderly, Placed
<1>3. UNCHANGED <<scenario, devices, outbox, up, open, lapses>> /\ store' = store
  BY DEF Seal, serverVars, storeVars, histVars
<1>4. PICK s \in Stages : s \in {"device", "post"} /\ s = IF perUser THEN "device" ELSE "post"
  BY DEF Stages
<1>5. PICK k : k = [call[c] EXCEPT !.pc = s]
  OBVIOUS
<1>6. Continue(c, {k})
  BY <1>4, <1>5 DEF Seal
<1>7. call' = [call EXCEPT ![c] = k] /\ QueueOK'
  BY <1>1, <1>6, ContinueMove
<1>8. k \in Job /\ Kin(k, call[c]) /\ k.pc = s /\ k.asked = call[c].asked
  BY <1>2, <1>5, GotoFields
<1>9. Placed(k)
  BY <1>2, <1>4, <1>8 DEF Placed, Kin, Locked
<1> QED BY <1>2, <1>3, <1>4, <1>7, <1>8, <1>9, NoNews, StoresSame, PlainMove

LEMMA ReadMapMoves ==
  ASSUME IInv, IInv', PInv, NEW c \in Calls, ReadMap(c)
  PROVE  PInv'
<1>1. call[c].pc = "read" /\ First(c) /\ queue' = Tail(queue)
  BY DEF ReadMap, At, CanRead
<1>2. /\ call[c] \in Job /\ Placed(call[c]) /\ call[c] # Idle /\ QueueOK
      /\ call[c].phase \in {"broadcast", "puppets"} /\ c \in Active
  BY <1>1, Working DEF Orderly, Active
<1>3. UNCHANGED <<scenario, devices, outbox, up, open, lapses>> /\ store' = store
  BY DEF ReadMap, serverVars, storeVars, histVars
<1>4. open \in SUBSET Puppets /\ open \ call[c].named \in SUBSET Puppets
  BY DEF IInv, Types
<1>5. PICK k : call' = [call EXCEPT ![c] = k] /\ Goes(k) /\ HandsOn(k, call[c])
  <2>1. CASE call[c].phase = "puppets"
    <3>1. PICK i : i = [call[c] EXCEPT !.todo = open]
      OBVIOUS
    <3>2. PICK k \in FlushNext(i) : call' = [call EXCEPT ![c] = k]
      BY <1>2, <2>1, <3>1 DEF ReadMap, In
    <3>3. i \in Job /\ i.phase = "puppets" /\ i.news = Nothing /\ call[c].news = Nothing /\ i.todo = open
      BY <1>2, <1>4, <2>1, <3>1 DEF Job, Placed
    <3>4. Goes(k)
      BY <3>2, <3>3, FlushNextGoes
    <3> QED BY <3>2, <3>3, <3>4, NoNews
  <2>2. CASE call[c].phase = "broadcast"
    <3>1. PICK i : i = [call[c] EXCEPT !.todo = open \ call[c].named]
      OBVIOUS
    <3>2. PICK k \in BroadcastNext(i) : call' = [call EXCEPT ![c] = k]
      BY <1>2, <2>2, <3>1 DEF ReadMap, In
    <3>3. i \in Job /\ i.phase = "broadcast" /\ i.news = call[c].news /\ i.todo = open \ call[c].named
      BY <1>2, <1>4, <2>2, <3>1 DEF Job
    <3>4. Goes(k) /\ \A m \in i.todo : Carries(k, i, m)
      BY <3>2, <3>3, BroadcastGoes
    <3>5. \A m \in open \union {Bot} : Here(call[c], m) \/ Ahead(call[c], m) => m \in i.todo
      BY <1>1, <2>2, <3>3, Sets DEF Here, Ahead
    <3>6. HandsOn(k, call[c])
      BY <3>3, <3>4, <3>5 DEF HandsOn, Carries
    <3> QED BY <3>2, <3>4, <3>6
  <2> QED BY <1>2, <2>1, <2>2
<1>6. QueueOK'
  BY <1>1, <1>2, <1>5, LeavesQueue
<1> QED BY <1>2, <1>3, <1>5, <1>6, StoresSame, PlainMove, IdleIsIdle DEF Goes

LEMMA HandleEventMoves ==
  ASSUME IInv, IInv', PInv, NEW c \in Calls, HandleEvent(c)
  PROVE  PInv'
<1>1. call[c].pc = "event" /\ ~Waits(call[c])
  BY DEF HandleEvent, At, Waits
<1>2. /\ call[c] \in Job /\ Placed(call[c]) /\ call[c] # Idle /\ QueueOK
      /\ (~perUser => open = {})
  BY <1>1, Working
<1>3. UNCHANGED <<scenario, devices, outbox, up, open, lapses>> /\ store' = store
  BY DEF HandleEvent, serverVars, histVars
<1>4. call[c].phase = "event" => call[c].news = Nothing /\ call[c].who = Bot
  BY <1>2 DEF Placed
<1>5. PICK k : k = [call[c] EXCEPT !.pc = "lock"]
  OBVIOUS
<1>6. k \in Job /\ Kin(k, call[c]) /\ k.pc = "lock" /\ k.asked = call[c].asked
  BY <1>2, <1>5, GotoFields DEF Stages
<1>7. call[c].phase = "event"
  BY <1>1, <1>2 DEF Placed
<1>8. Placed(k)
  BY <1>2, <1>4, <1>6, <1>7 DEF Placed, Kin, Locked
<1>9. CASE call' = [call EXCEPT ![c] = k] /\ QueueOK'
  BY <1>2, <1>3, <1>4, <1>6, <1>7, <1>8, <1>9, NoNews, StoresSame, PlainMove
<1>10. CASE Continue(c, MoveOn(call[c]))
  <2>1. PICK m \in MoveOn(call[c]) : call' = [call EXCEPT ![c] = m] /\ QueueOK'
    BY <1>1, <1>10, ContinueMove
  <2>2. Goes(m)
    BY <1>1, <1>2, <2>1, MoveOnGoes
  <2> QED BY <1>2, <1>3, <1>4, <1>7, <2>1, <2>2, NoNews, StoresSame, PlainMove, IdleIsIdle DEF Goes
<1>11. CASE Goto(c, "lock") /\ UNCHANGED queue
  <2>1. call' = [call EXCEPT ![c] = k]
    BY <1>5, <1>11 DEF Goto, IInv, Types
  <2>2. QueueOK'
    BY <1>1, <1>2, <1>11, <2>1, JoinsQueue
  <2> QED BY <1>9, <2>1, <2>2
<1>12. CASE Continue(c, {k})
  <2>1. call' = [call EXCEPT ![c] = k] /\ QueueOK'
    BY <1>1, <1>12, ContinueMove
  <2> QED BY <1>9, <2>1
<1> QED BY <1>5, <1>10, <1>11, <1>12 DEF HandleEvent, Failed

LEMMA ReceiveMoves ==
  ASSUME IInv, IInv', PInv, NEW c \in Calls, Receive(c)
  PROVE  PInv'
<1>1. call[c].pc = "lock" /\ call[c] # Idle /\ call[c] \in Job /\ Placed(call[c]) /\ QueueOK
  <2>1. call[c].pc = "lock"
    BY DEF Receive, At
  <2> QED BY <2>1, Working
<1>2. PICK m, news : m = call[c].who /\ news = call[c].news
  OBVIOUS
<1>3. UNCHANGED <<scenario, devices, outbox, up, open, queue, lapses>>
  BY DEF Receive, serverVars, poolVars
<1>4. /\ call'[c] \in Job /\ Kin(call'[c], call[c]) /\ call'[c].pc = "ask" /\ call'[c].asked = call[c].asked
      /\ \A d \in Calls : d # c /\ call[d] # Idle =>
           /\ call'[d] \in Job /\ call'[d].pc = call[d].pc /\ Kin(call'[d], call[d])
           /\ call[d].who = m => \A u \in Members : call'[d].asked[u] # 0 =>
                news[u] = 0 /\ call'[d].asked[u] = call[d].asked[u]
           /\ call[d].who # m => call'[d] = call[d]
      /\ \A d \in Calls : d # c /\ call[d] = Idle => call'[d] = Idle
  BY <1>2, ReceivedJobs DEF Alike
<1>5. m \in Machines /\ store[m] \in Store
  BY <1>1, <1>2 DEF Job, IInv, Types
<1>6. PICK s : s = [store[m] EXCEPT !.dirty = store[m].dirty \union (Named(news) \intersect store[m].tracked)]
  OBVIOUS
<1>7. /\ s.tracked = store[m].tracked /\ s.known = store[m].known
      /\ s.dirty = store[m].dirty \union (Named(news) \intersect store[m].tracked)
  BY <1>5, <1>6 DEF Store
<1>8. \A n \in Machines : store'[n] = IF n = m THEN s ELSE store[n]
  BY <1>2, <1>5, <1>6 DEF Receive, IInv, Types
<1>9. QueueOK'
  <2>1. \A d \in Line(queue) : d \in Calls /\ Waits(call[d])
    BY <1>1 DEF QueueOK, Clean, Line
  <2>2. \A d \in Line(queue) : d # c /\ call[d] # Idle
    BY <1>1, <2>1, IdleIsIdle DEF Waits
  <2>3. \A d \in Line(queue) : Waits(call'[d])
    BY <1>4, <2>1, <2>2 DEF Waits
  <2> QED BY <1>1, <1>3, <2>3 DEF QueueOK
<1>10. ASSUME NEW d \in Calls, call[d] # Idle
       PROVE  call'[d] # Idle /\ Placed(call[d])'
  <2>1. PICK i, l : i = call[d] /\ l = call'[d]
    OBVIOUS
  <2>2. i \in Job /\ Placed(i)
    BY <1>10, <2>1 DEF IInv, Types, PInv, Active
  <2>3. /\ l \in Job /\ Kin(l, i) /\ (d # c => l.pc = i.pc) /\ (d = c => l.pc = "ask" /\ i.pc = "lock")
        /\ \A u \in Members : l.asked[u] = i.asked[u] \/ l.asked[u] = 0
    BY <1>1, <1>4, <1>10, <2>1
  <2>4. \A u \in Members : l.asked[u] <= devices[u]
    <3>1. \A u \in Members : devices[u] \in Nat
      BY AskedNone
    <3> QED BY <2>2, <2>3, <3>1 DEF Placed
  <2>5. Placed(l)
    <3>1. CASE d = c
      BY <2>2, <2>3, <2>4, <3>1 DEF Placed, Kin, Locked
    <3>2. CASE d # c
      BY <2>2, <2>3, <2>4, <3>2 DEF Placed, Kin
    <3> QED BY <3>1, <3>2
  <2>6. Placed(l)'
    BY <1>3, <2>5 DEF Placed, perUser
  <2> QED BY <2>1, <2>3, <2>6, Moved, IdleIsIdle
<1>11. \A d \in Active' : d \in Active
  BY <1>1, <1>4 DEF Active
<1>12. KnownReal'
  BY <1>3, <1>7, <1>8 DEF PInv, KnownReal
<1>13. ASSUME NEW n, NEW u \in Members, n # m \/ news[u] = 0, Carried(n, u)
       PROVE  Carried(n, u)'
  <2>1. PICK d \in Active : call[d].news[u] = devices[u] /\ (Here(call[d], n) \/ Ahead(call[d], n))
    BY <1>13 DEF Carried
  <2>2. d \in Calls /\ call[d] # Idle /\ call[d].news[u] # 0
    BY <2>1, AskedNone DEF Active
  <2>3. PICK i, l : i = call[d] /\ l = call'[d]
    OBVIOUS
  <2>4. l # Idle /\ l.news = i.news
    BY <1>1, <1>4, <1>10, <2>2, <2>3 DEF Kin
  <2>5. Here(l, n) \/ Ahead(l, n)
    <3>1. CASE d = c
      <4>1. n # m
        BY <1>2, <1>13, <2>2, <3>1
      <4>2. Ahead(i, n)
        BY <1>2, <2>1, <2>3, <3>1, <4>1 DEF Here
      <4>3. l.pc # "read" /\ i.pc # "read" /\ Kin(l, i)
        BY <1>1, <1>4, <2>3, <3>1
      <4> QED BY <4>2, <4>3 DEF Ahead, Kin
    <3>2. CASE d # c
      <4>1. l.pc = i.pc /\ Kin(l, i)
        BY <1>4, <2>2, <2>3, <3>2
      <4> QED BY <2>1, <2>3, <4>1 DEF Here, Ahead, Kin
    <3> QED BY <3>1, <3>2
  <2> QED BY <1>3, <2>1, <2>2, <2>3, <2>4, <2>5 DEF Carried, Active
<1>14. ASSUME lapses = {}
       PROVE  Caught'
  <2>1. Caught
    BY <1>14 DEF PInv
  <2>2. \A n \in Machines : ~InUse(n)' => store'[n].tracked = {}
    BY <1>3, <1>7, <1>8, <2>1 DEF Caught, InUse
  <2>3. ASSUME NEW n \in Machines, NEW u \in store'[n].tracked
        PROVE  Covered(n, u)'
    <3>1. u \in Members /\ u \in store[n].tracked
      BY <1>7, <1>8, <2>3 DEF IInv, Types, Store
    <3>2. Covered(n, u)
      BY <2>1, <3>1 DEF Caught
    <3>3. CASE n = m /\ news[u] # 0
      BY <1>7, <1>8, <3>1, <3>3 DEF Covered, Named
    <3>4. CASE n # m \/ news[u] = 0
      BY <1>3, <1>7, <1>8, <1>13, <3>1, <3>2, <3>4 DEF Covered
    <3> QED BY <3>3, <3>4
  <2>4. ASSUME NEW d \in Active'
        PROVE  AskedWell(call[d])'
    <3>1. PICK i, l : i = call[d] /\ l = call'[d]
      OBVIOUS
    <3>2. d \in Calls /\ d \in Active /\ i # Idle /\ AskedWell(i)
      BY <1>11, <2>1, <2>4, <3>1 DEF Active, Caught
    <3>3. CASE d = c
      <4>1. l.pc = "ask"
        BY <1>4, <3>1, <3>3
      <4>2. AskedWell(l)'
        BY <4>1 DEF AskedWell
      <4> QED BY <3>1, <4>2, Moved
    <3>4. CASE d # c
      <4>1. l.pc = i.pc /\ l.who = i.who
        BY <1>4, <3>1, <3>2, <3>4 DEF Kin
      <4>2. SUFFICES ASSUME l.pc = "answer", NEW u \in Members, l.asked[u] # 0
                     PROVE  l.asked[u] = devices'[u] \/ u \in outbox' \/ Carried(l.who, u)'
        <5>1. AskedWell(l)'
          BY <4>2 DEF AskedWell
        <5> QED BY <3>1, <5>1, Moved
      <4>3. l.asked[u] = i.asked[u] /\ (i.who # m \/ news[u] = 0)
        BY <1>4, <3>1, <3>2, <3>4, <4>2
      <4>4. i.asked[u] = devices[u] \/ u \in outbox \/ Carried(i.who, u)
        BY <3>2, <4>1, <4>2, <4>3 DEF AskedWell
      <4>5. Carried(i.who, u) => Carried(i.who, u)'
        <5>1. PICK n : n = i.who
          OBVIOUS
        <5> QED BY <1>13, <4>3, <5>1
      <4>6. PICK n : n = i.who /\ n = l.who
        BY <4>1
      <4> QED BY <1>3, <4>3, <4>4, <4>5, <4>6
    <3> QED BY <3>3, <3>4
  <2> QED BY <2>2, <2>3, <2>4 DEF Caught
<1>15. \A d \in Active' : Placed(call[d])'
  BY <1>10, <1>11 DEF Active
<1>16. ~perUser' \/ ~up' => open' = {}
  BY <1>3 DEF PInv, perUser
<1> QED BY <1>3, <1>9, <1>12, <1>14, <1>15, <1>16 DEF PInv

-----------------------------------------------------------------------------
(* Handlers come and go.                                                    *)

(* A new job has nothing to wait for.                                       *)
LEMMA StartQueues ==
  ASSUME IInv, PInv, NEW c \in Calls, Accepts(c), NEW k, k.pc \in {"hint", "lock"}, Continue(c, {k})
  PROVE  call' = [call EXCEPT ![c] = k] /\ QueueOK' /\ call[c] = Idle /\ up
<1>1. call[c] = Idle /\ up
  BY DEF Accepts, Active
<1>2. ~Waits(call[c])
  BY <1>1, IdleIsIdle DEF Waits
<1>3. call' = [call EXCEPT ![c] = k] /\ queue' = queue
  BY DEF Continue
<1> QED BY <1>1, <1>2, <1>3, JoinsQueue DEF PInv

LEMMA SendMoves ==
  ASSUME IInv, IInv', PInv, NEW c \in Calls, NEW sender \in Puppets, NEW file \in scenario.files,
         Send(c, sender, file)
  PROVE  PInv'
<1>1. UNCHANGED <<scenario, devices, outbox, up, open, lapses>> /\ store' = store
  BY DEF Send, Accepts, serverVars, storeVars, histVars
<1>2. PICK k : /\ k = [phase |-> "send", pc |-> "hint", who |-> MachineOf(sender), news |-> Nothing,
                       asked |-> Nothing, named |-> {}, todo |-> {}, olmEvents |-> TRUE, event |-> "none",
                       since |-> Since, enc |-> FALSE, failed |-> {}, file |-> file]
  OBVIOUS
<1>3. Accepts(c) /\ Continue(c, {k})
  BY <1>2 DEF Send
<1>11. k.pc = "hint"
  BY <1>2
<1>4. call' = [call EXCEPT ![c] = k] /\ QueueOK' /\ call[c] = Idle /\ up
  BY <1>3, <1>11, StartQueues
<1>5. call'[c] = k /\ k # Idle
  BY <1>2, <1>4 DEF IInv, Types, Idle
<1>6. k \in Job
  BY <1>5 DEF IInv, Types
<1>7. k.phase = "send" /\ k.pc = "hint" /\ k.news = Nothing /\ k.asked = Nothing /\ k.who = MachineOf(sender)
  BY <1>2
<1>8. Placed(k)'
  <2>1. Placed(k)
    BY <1>7, AskedNone DEF Placed, Locked, MachineOf
  <2> QED BY <1>1, <2>1 DEF Placed, perUser
<1>9. \A m \in Machines : \A u \in store'[m].tracked : Tended(m, u)
  BY <1>1 DEF Tended
<1>10. KnownReal'
  BY <1>1 DEF PInv, KnownReal
<1> QED BY <1>1, <1>4, <1>6, <1>7, <1>8, <1>9, <1>10, CallMoves

LEMMA DeliverMoves ==
  ASSUME IInv, IInv', PInv, NEW c \in Calls, NEW txn \in scenario.transactions, Deliver(c, txn)
  PROVE  PInv'
<1>1. UNCHANGED <<scenario, devices, up, open, lapses>> /\ store' = store
  BY DEF Deliver, Accepts, storeVars, histVars
<1>2. PICK news : news = [u \in Members |-> IF u \in outbox THEN devices[u] ELSE 0]
  OBVIOUS
<1>3. PICK k : /\ k = [phase |-> "bot", pc |-> "lock", who |-> Bot, news |-> news,
                       asked |-> Nothing, named |-> txn.named, todo |-> txn.named,
                       olmEvents |-> txn.olmEvents, event |-> txn.event, since |-> {},
                       enc |-> FALSE, failed |-> {}, file |-> "none"]
  OBVIOUS
<1>4. Accepts(c) /\ Continue(c, {k})
  BY <1>2, <1>3 DEF Deliver
<1>13. k.pc = "lock"
  BY <1>3
<1>5. call' = [call EXCEPT ![c] = k] /\ QueueOK' /\ call[c] = Idle /\ up
  BY <1>4, <1>13, StartQueues
<1>6. call'[c] = k /\ k # Idle
  BY <1>3, <1>5 DEF IInv, Types, Idle
<1>7. k \in Job
  BY <1>6 DEF IInv, Types
<1>8. k.phase = "bot" /\ k.pc = "lock" /\ k.news = news /\ k.asked = Nothing /\ k.who = Bot /\ k.todo = k.named
  BY <1>3
<1>9. Placed(k)'
  <2>1. Placed(k)
    BY <1>8, AskedNone DEF Placed, Locked
  <2> QED BY <1>1, <2>1 DEF Placed, perUser
<1>10. \A u \in outbox \intersect Members : \A m \in open \union {Bot} : Carried(m, u)'
  <2> SUFFICES ASSUME NEW u \in outbox \intersect Members, NEW m \in open \union {Bot}
               PROVE  Carried(m, u)'
    OBVIOUS
  <2>1. m = Bot \/ m \in Puppets
    BY DEF IInv, Types
  <2>2. Here(k, m) \/ Ahead(k, m)
    BY <1>8, <2>1 DEF Here, Ahead
  <2>3. k.news[u] = devices'[u]
    BY <1>1, <1>2, <1>8
  <2> QED BY <1>6, <2>2, <2>3 DEF Carried, Active
<1>11. \A m \in Machines : \A u \in store'[m].tracked : Tended(m, u)
  BY <1>1 DEF Tended
<1>12. KnownReal'
  BY <1>1 DEF PInv, KnownReal
<1> QED BY <1>1, <1>5, <1>7, <1>8, <1>9, <1>10, <1>11, <1>12, CallMoves

LEMMA DropMoves ==
  ASSUME IInv, IInv', PInv, NEW c \in Calls, Drop(c)
  PROVE  PInv'
<1>1. call[c] # Idle /\ call[c] \in Job /\ QueueOK /\ c \in Active
  BY DEF Drop, Active, IInv, Types, PInv
<1>2. UNCHANGED <<scenario, devices, outbox, up, open>> /\ store' = store /\ call' = [call EXCEPT ![c] = Idle]
  BY DEF Drop, serverVars, storeVars
<1>3. QueueOK'
  <2>1. CASE c \notin Line(queue) /\ queue' = queue
    BY <1>1, <1>2, <2>1, QueueMoves DEF QueueOK
  <2>2. CASE \E i \in DOMAIN queue :
               queue[i] = c /\ queue' = SubSeq(queue, 1, i - 1) \o SubSeq(queue, i + 1, Len(queue))
    <3>1. PICK i \in DOMAIN queue :
            queue[i] = c /\ queue' = SubSeq(queue, 1, i - 1) \o SubSeq(queue, i + 1, Len(queue))
      BY <2>2
    <3>2. PICK t : t = Cut(queue, i)
      OBVIOUS
    <3>3. Clean(t) /\ Line(t) \subseteq Line(queue) \ {queue[i]}
      <4>1. Clean(queue)
        BY <1>1 DEF QueueOK
      <4> QED BY <3>2, <4>1, CutClean
    <3>4. queue' = t
      BY <3>1, <3>2 DEF Cut
    <3>5. Clean(queue') /\ Line(queue') \subseteq (Line(queue) \ {c}) \union {d \in {c} : Waits(Idle)}
      BY <3>1, <3>3, <3>4
    <3> QED BY <1>1, <1>2, <3>5, QueueMoves
  <2> QED BY <2>1, <2>2 DEF Drop, Line
<1>4. lapses \subseteq lapses' /\ (lapses' = {} => call[c].phase = "send")
  BY <1>1 DEF Drop, In
<1>5. lapses' = {} => HandsOn(Idle, call[c])
  <2>1. Placed(call[c])
    BY <1>1 DEF PInv
  <2> QED BY <1>4, <2>1, NoNews DEF Placed
<1>6. \A m \in Machines : \A u \in store'[m].tracked : Tended(m, u)
  BY <1>2 DEF Tended
<1>7. KnownReal'
  BY <1>2 DEF PInv, KnownReal
<1> QED BY <1>1, <1>2, <1>3, <1>4, <1>5, <1>6, <1>7, MoveKeeps, IdleIsIdle

-----------------------------------------------------------------------------
(* The homeserver, and the bridge's starts and stops.                       *)

(* Only members' devices change, and those that do are in the outbox.       *)
LEMMA QuietMove ==
  ASSUME IInv, IInv', PInv, UNCHANGED <<scenario, store, up, open, queue, call, lapses>>,
         outbox \subseteq outbox',
         \A u \in Members : devices'[u] >= devices[u] /\ (devices'[u] = devices[u] \/ u \in outbox')
  PROVE  PInv'
<1>1. QueueOK'
  BY DEF PInv, QueueOK
<1>2. ASSUME NEW d \in Active'
      PROVE  Placed(call[d])'
  <2>1. PICK j : j = call[d]
    OBVIOUS
  <2>2. j \in Job /\ Placed(j)
    BY <1>2, <2>1 DEF PInv, IInv, Types, Active
  <2>3. Placed(j)'
    BY <2>2, PlacedLasts
  <2> QED BY <2>1, <2>3, Moved
<1>3. KnownReal'
  <2> SUFFICES ASSUME NEW m \in Machines, NEW u \in Members
               PROVE  store[m].known[u] <= devices'[u]
    BY DEF KnownReal
  <2>1. store[m].known[u] <= devices[u] /\ store[m].known[u] \in Nat
    BY Sets DEF PInv, KnownReal, IInv, Types, Store, Counts
  <2>2. devices[u] \in Nat /\ devices'[u] \in Nat
    BY Sets DEF IInv, Types, Counts
  <2> QED BY <2>1, <2>2
<1>4. ~perUser' \/ ~up' => open' = {}
  BY DEF PInv, perUser
<1>5. ASSUME lapses = {}
      PROVE  Caught'
  <2>1. Caught
    BY <1>5 DEF PInv
  <2>2. \A m, u : u \in Members /\ Carried(m, u) => u \in outbox' \/ Carried(m, u)'
    BY DEF Carried, Active
  <2>3. \A m \in Machines : ~InUse(m)' => store'[m].tracked = {}
    BY <2>1 DEF Caught, InUse
  <2>4. ASSUME NEW m \in Machines, NEW u \in store'[m].tracked
        PROVE  Covered(m, u)'
    <3>1. u \in Members /\ Covered(m, u)
      BY <2>1, <2>4 DEF IInv, Types, Store, Caught
    <3> QED BY <2>2, <3>1 DEF Covered
  <2>5. ASSUME NEW d \in Active'
        PROVE  AskedWell(call[d])'
    <3>1. PICK j : j = call[d]
      OBVIOUS
    <3>2. AskedWell(j)
      BY <2>1, <2>5, <3>1 DEF Caught, Active
    <3>3. AskedWell(j)'
      BY <2>2, <3>2 DEF AskedWell
    <3> QED BY <3>1, <3>3, Moved
  <2> QED BY <2>3, <2>4, <2>5 DEF Caught
<1> QED BY <1>1, <1>2, <1>3, <1>4, <1>5 DEF PInv

LEMMA NewDeviceMoves ==
  ASSUME IInv, IInv', PInv, NEW u \in Members, NewDevice(u)
  PROVE  PInv'
<1>1. /\ UNCHANGED <<scenario, store, up, open, queue, call, lapses>>
      /\ outbox' = outbox \union {u} /\ devices' = [devices EXCEPT ![u] = @ + 1]
  BY DEF NewDevice, storeVars, poolVars, histVars
<1>2. \A v \in Members : devices[v] \in Nat /\ devices'[v] = IF v = u THEN devices[v] + 1 ELSE devices[v]
  BY <1>1, Sets DEF IInv, Types, Counts
<1>3. \A v \in Members : devices'[v] >= devices[v] /\ (devices'[v] = devices[v] \/ v \in outbox')
  BY <1>1, <1>2
<1> QED BY <1>1, <1>3, QuietMove

LEMMA RestMoves ==
  ASSUME IInv, IInv', PInv,
         EncryptRoom \/ DeleteBotDevice \/ UNCHANGED vars
  PROVE  PInv'
<1>1. UNCHANGED <<scenario, store, up, open, queue, call, lapses, devices, outbox>>
  BY DEF EncryptRoom, DeleteBotDevice, vars, serverVars, storeVars, poolVars, histVars
<1>2. \A v \in Members : devices'[v] >= devices[v]
  BY <1>1, AskedNone
<1> QED BY <1>1, <1>2, QuietMove

(* Nothing is at work before and after, and nobody is tracked unless the    *)
(* bridge had been stopped.                                                 *)
LEMMA IdleMove ==
  ASSUME IInv', \A c \in Calls : call'[c] = Idle, QueueOK', open' = {}, KnownReal',
         lapses' = {} => \A m \in Machines : store'[m].tracked = {}
  PROVE  PInv'
<1>1. Active' = {}
  BY DEF Active
<1> QED BY <1>1 DEF PInv, Caught

LEMMA StopMoves ==
  ASSUME IInv, IInv', PInv, Stop
  PROVE  PInv'
<1>1. /\ UNCHANGED <<devices, store>> /\ queue' = <<>> /\ open' = {} /\ call' = [c \in Calls |-> Idle]
      /\ lapses' # {}
  BY DEF Stop, serverVars, storeVars
<1>2. KnownReal'
  BY <1>1 DEF PInv, KnownReal
<1>3. QueueOK'
  BY <1>1 DEF QueueOK, Clean, Line
<1> QED BY <1>1, <1>2, <1>3, IdleMove

LEMMA StartBridgeMoves ==
  ASSUME IInv, IInv', PInv, StartBridge
  PROVE  PInv'
<1> DEFINE Gone == deleted /\ store[Bot].uploaded /\ ~scenario.others
<1>1. UNCHANGED <<devices, open, queue, call, lapses>> /\ ~up
  BY DEF StartBridge
<1>2. \A c \in Calls : call'[c] = Idle
  BY <1>1 DEF IInv, DownIdle
<1>3. QueueOK' /\ open' = {}
  BY <1>1 DEF PInv, QueueOK
<1>4. lapses = {} => \A m \in Machines : store[m].tracked = {}
  BY <1>1 DEF PInv, Caught, InUse
<1>5. Bot \in Machines /\ store \in [Machines -> Store]
  BY Sets DEF IInv, Types
<1>6. CASE ~Gone
  <2>1. PICK o : o = Opened(store[Bot])
    OBVIOUS
  <2>2. /\ o.tracked = store[Bot].tracked
        /\ \A u \in Members : o.known[u] = IF u \in store[Bot].dirty THEN devices[u] ELSE store[Bot].known[u]
    BY <1>5, <2>1, OpenedFacts
  <2>3. \A m \in Machines : store'[m] = IF m = Bot THEN o ELSE store[m]
    BY <1>5, <1>6, <2>1 DEF StartBridge
  <2>4. KnownReal'
    <3> SUFFICES ASSUME NEW m \in Machines, NEW u \in Members
                 PROVE  store'[m].known[u] <= devices[u]
      BY <1>1 DEF KnownReal
    <3>1. store[m].known[u] <= devices[u] /\ devices[u] \in Nat
      BY AskedNone DEF PInv, KnownReal
    <3> QED BY <2>2, <2>3, <3>1
  <2>5. \A m \in Machines : store'[m].tracked = store[m].tracked
    BY <2>2, <2>3
  <2> QED BY <1>1, <1>2, <1>3, <1>4, <2>4, <2>5, IdleMove
<1>7. CASE Gone
  <2>1. PICK f : f = Fresh
    OBVIOUS
  <2>2. PICK o : o = Opened(f)
    OBVIOUS
  <2>3. f \in Store /\ f.tracked = {} /\ f.dirty = {} /\ f.known = Nothing
    BY <2>1, FreshFacts DEF Fresh
  <2>4. o.tracked = {} /\ \A u \in Members : o.known[u] = 0
    <3>1. o = [f EXCEPT !.uploaded = TRUE, !.dirty = {},
                        !.known = [u \in Members |-> IF u \in f.dirty THEN devices[u] ELSE @[u]]]
      BY <2>2 DEF Opened
    <3> QED BY <2>3, <3>1, Sets DEF Store
  <2>5. PICK first \in {o, f} : \A m \in Machines : store'[m] = IF m = Bot THEN first ELSE f
    BY <1>7, <2>1, <2>2 DEF StartBridge
  <2>6. \A m \in Machines : store'[m].tracked = {} /\ \A u \in Members : store'[m].known[u] = 0
    BY <2>3, <2>4, <2>5, Sets
  <2>7. KnownReal'
    <3>1. \A u \in Members : 0 <= devices'[u]
      BY <1>1, AskedNone
    <3> QED BY <2>6, <3>1 DEF KnownReal
  <2> QED BY <1>2, <1>3, <2>6, <2>7, IdleMove
<1> QED BY <1>6, <1>7

LEMMA InitPlaced == Init => PInv
<1> SUFFICES ASSUME Init
             PROVE  PInv
  OBVIOUS
<1>1. IInv
  BY InitHolds
<1>2. /\ queue = <<>> /\ open = {} /\ store = [m \in Machines |-> Fresh] /\ lapses = {}
      /\ \A c \in Calls : call[c] = Idle
  BY DEF Init
<1>3. \A m \in Machines : store[m].tracked = {} /\ store[m].known = Nothing
  BY <1>2 DEF Fresh
<1>4. KnownReal
  BY <1>1, <1>3, AskedNone DEF KnownReal
<1>5. QueueOK
  BY <1>2 DEF QueueOK, Clean, Line
<1>6. Active = {}
  BY <1>2 DEF Active
<1> QED BY <1>2, <1>3, <1>4, <1>5, <1>6 DEF PInv, Caught

-----------------------------------------------------------------------------
LEMMA HandleMoves ==
  ASSUME IInv, IInv', PInv, NEW c \in Calls, Handle(c)
  PROVE  PInv'
BY AskHintMoves, ReuploadMoves, GetMoves, LookAgainMoves, InitPuppetMoves, InsertMoves, TrackMoves,
   ReceiveMoves, AskMoves, AnswerMoves, ClaimMoves, ShareMoves, SealMoves, LookUpDeviceMoves, PostMoves,
   ReadMapMoves, HandleEventMoves DEF Handle

LEMMA NextMoves == IInv /\ IInv' /\ PInv /\ [Next]_vars => PInv'
<1> SUFFICES ASSUME IInv, IInv', PInv, [Next]_vars
             PROVE  PInv'
  OBVIOUS
<1>1. ASSUME NEW c \in Calls, Handle(c)
      PROVE  PInv'
  BY <1>1, HandleMoves
<1>2. ASSUME NEW c \in Calls, Arrive(c)
      PROVE  PInv'
  BY <1>2, SendMoves, DeliverMoves DEF Arrive
<1>3. ASSUME NEW c \in Calls, Drop(c)
      PROVE  PInv'
  BY <1>3, DropMoves
<1>4. ASSUME NEW u \in Members, NewDevice(u)
      PROVE  PInv'
  BY <1>4, NewDeviceMoves
<1>5. CASE StartBridge
  BY <1>5, StartBridgeMoves
<1>6. CASE Stop
  BY <1>6, StopMoves
<1>7. CASE EncryptRoom \/ DeleteBotDevice \/ UNCHANGED vars
  BY <1>7, RestMoves
<1> QED BY <1>1, <1>2, <1>3, <1>4, <1>5, <1>6, <1>7 DEF Next

LEMMA PlacedInvariance == Spec => []PInv
<1>1. Init => PInv
  BY InitPlaced
<1>2. IInv /\ IInv' /\ PInv /\ [Next]_vars => PInv'
  BY NextMoves
<1> QED BY <1>1, <1>2, Invariance, PTL DEF Spec

(* The locks of the pool and of the machines never make handlers wait for   *)
(* one another: whatever the handlers, puppets and failures, one of those   *)
(* at work can go on (crypto_pool/mod.rs 109, pool_ops.rs 27).              *)
THEOREM HandlersNeverStuck == Spec => []SomeHandlerRuns
<1>1. IInv /\ PInv => SomeHandlerRuns
  BY SomebodyRuns
<1> QED BY <1>1, Invariance, PlacedInvariance, PTL

LEMMA NewsCaught == IInv /\ PInv => NoMachineMissed
<1> SUFFICES ASSUME IInv, PInv, up, lapses = {}, NEW m \in open \union {Bot}, NEW u \in store[m].tracked
             PROVE  \/ store[m].known[u] = devices[u]
                    \/ u \in store[m].dirty \union outbox
                    \/ \E c \in Active : call[c].news[u] # 0
  BY DEF NoMachineMissed
<1>1. m \in Machines
  BY Sets DEF IInv, Types
<1>2. u \in Members
  BY <1>1 DEF IInv, Types, Store
<1>3. Covered(m, u)
  BY <1>1 DEF PInv, Caught
<1>4. Carried(m, u) => \E c \in Active : call[c].news[u] # 0
  BY <1>2, AskedNone DEF Carried
<1> QED BY <1>3, <1>4 DEF Covered

(* A machine in use knows a tracked user's devices, or will query, or the   *)
(* news are on their way, whatever comes into the pool's map meanwhile      *)
(* (pool_ops.rs 27).                                                        *)
THEOREM NewsReachMachines == Spec => []NoMachineMissed
<1>1. IInv /\ PInv => NoMachineMissed
  BY NewsCaught
<1> QED BY <1>1, Invariance, PlacedInvariance, PTL
=============================================================================
