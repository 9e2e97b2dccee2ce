------------------------------- MODULE WsProofs -------------------------------
(***************************************************************************)
(* Proofs about WsRegistry, for any number of sessions and of transactions *)
(* and any limit: the counter always covers the registered clients, the    *)
(* limit holds, and clients receive in order.  The argument for the first  *)
(* two is a ledger.  A session takes a seat when it increments the counter *)
(* and gives it back when somebody decrements the counter for it; the      *)
(* counter is at least the number of seats taken, because whoever          *)
(* decrements owns the seats it gives back.  That for the last is at the   *)
(* end of the module.                                                      *)
(***************************************************************************)
EXTENDS WsRegistry, FiniteSetTheorems, SequenceTheorems, TLAPS

(* Seats taken by the session's own call, before or after the map changes. *)
Calling(s) == pc[s] \in {"counted", "rejecting", "uncounting"}

(* Seats that b's phase 2 took out of the map and has yet to give back.    *)
Pending(b) == IF cast[b].pc = "uncounting" THEN cast[b].dead ELSE {}

Seated(s) == s \in members \/ Calling(s) \/ \E b \in Casters : s \in Pending(b)

Seats == {s \in Sessions : Seated(s)}

(* Clients, and sessions that are about to be clients.                     *)
Admitted == {s \in Sessions : s \in members \/ pc[s] = "counted"}

(* A seat has one owner: the map, the session or one broadcast.            *)
OneOwner ==
  /\ \A s \in members : pc[s] \in {"open", "leaving"}
  /\ \A b \in Casters : \A s \in Pending(b) :
       s \notin members /\ pc[s] \notin {"connecting", "counted", "rejecting", "uncounting"}
  /\ \A b, c \in Casters : b # c => Pending(b) \cap Pending(c) = {}

IInv ==
  /\ TypeOK
  /\ OneOwner
  /\ Cardinality(Seats) <= count
  /\ Cardinality(Admitted) <= MaxClients

-----------------------------------------------------------------------------
LEMMA SeatsFinite ==
  /\ IsFiniteSet(Seats)
  /\ Cardinality(Seats) \in Nat
  /\ IsFiniteSet(Admitted)
  /\ Cardinality(Admitted) \in Nat
<1>1. Seats \in SUBSET Sessions /\ Admitted \in SUBSET Sessions
  BY DEF Seats, Seated, Admitted
<1> QED BY <1>1, WsAssumption, FS_Subset, FS_CardinalityType

(* Who is admitted has a seat; the clients are among both.                 *)
LEMMA SeatsCover ==
  ASSUME TypeOK
  PROVE  /\ Cardinality(Admitted) <= Cardinality(Seats)
         /\ Cardinality(members) <= Cardinality(Seats)
         /\ Cardinality(members) <= Cardinality(Admitted)
<1>1. Admitted \in SUBSET Seats
  BY DEF Admitted, Seats, Seated, Calling
<1>2. members \in SUBSET Seats /\ members \in SUBSET Admitted
  BY DEF TypeOK, Admitted, Seats, Seated
<1> QED BY <1>1, <1>2, SeatsFinite, FS_Subset

LEMMA InitIInv == Init => IInv
<1> SUFFICES ASSUME Init PROVE IInv
  OBVIOUS
<1>1. TypeOK
  BY WsAssumption DEF Init, TypeOK, SessionStates, Broadcast
<1>2. \A b \in Casters : Pending(b) = {}
  BY DEF Init, Pending
<1>3. OneOwner
  BY <1>2 DEF Init, OneOwner
<1>4. Seats = {} /\ Admitted = {}
  BY <1>2 DEF Init, Seats, Seated, Admitted, Calling
<1> QED BY <1>1, <1>3, <1>4, WsAssumption, FS_EmptySet DEF Init, IInv

(* A broadcast moves to another state, or also forgets some dead clients.   *)
LEMMA CastMoves ==
  ASSUME NEW c \in [Casters -> Broadcast], NEW b \in Casters, NEW d \in SUBSET Sessions,
         NEW next \in {"idle", "sending", "pruning", "uncounting"}
  PROVE  /\ [c EXCEPT ![b].pc = next] \in [Casters -> Broadcast]
         /\ [c EXCEPT ![b].pc = next, ![b].dead = d] \in [Casters -> Broadcast]
<1>1. [c[b] EXCEPT !.pc = next] \in Broadcast /\ [c[b] EXCEPT !.pc = next, !.dead = d] \in Broadcast
  BY DEF Broadcast
<1> QED BY <1>1

(* Steps that leave the seats and the counter alone.                       *)
LEMMA SameSeats ==
  ASSUME IInv, TypeOK', OneOwner', Seats' \subseteq Seats, Admitted' \subseteq Admitted,
         count' = count
  PROVE  IInv'
<1>1. Cardinality(Seats') <= Cardinality(Seats) /\ Cardinality(Seats') \in Nat
  BY SeatsFinite, FS_Subset, FS_CardinalityType, Seats' \in SUBSET Seats
<1>2. Cardinality(Admitted') <= Cardinality(Admitted) /\ Cardinality(Admitted') \in Nat
  BY SeatsFinite, FS_Subset, FS_CardinalityType, Admitted' \in SUBSET Admitted
<1> QED BY <1>1, <1>2, SeatsFinite, WsAssumption DEF IInv, TypeOK

-----------------------------------------------------------------------------
(* One lemma for each action.                                               *)

LEMMA ReserveKeeps ==
  ASSUME IInv, NEW s \in Sessions, Reserve(s)
  PROVE  IInv'
<1> USE DEF IInv, Reserve
<1>1. TypeOK'
  BY DEF TypeOK, SessionStates, sessionVars, channelVars
<1>2. \A b \in Casters : Pending(b)' = Pending(b)
  BY DEF Pending
<1>3. OneOwner'
  BY <1>2 DEF OneOwner, TypeOK
<1>4. ~Seated(s)
  BY DEF Seated, Calling, OneOwner, TypeOK
<1>5. ASSUME NEW t \in Sessions
      PROVE  Seated(t)' <=> (Seated(t) \/ t = s)
  BY <1>2 DEF Seated, Calling, TypeOK
<1>6. Seats' = Seats \cup {s} /\ s \notin Seats
  BY <1>4, <1>5 DEF Seats
<1>7. Cardinality(Seats \cup {s}) = Cardinality(Seats) + 1
  BY <1>6, SeatsFinite, FS_AddElement
<1>8. Cardinality(Seats') <= count'
  BY <1>6, <1>7, SeatsFinite DEF TypeOK
<1>9. Cardinality(Admitted') <= MaxClients
  <2>1. CASE Accepts(count)
    <3>1. Admitted' = Admitted \cup {s}
      BY <2>1 DEF Admitted, TypeOK
    <3>2. Cardinality(Admitted) + 1 <= MaxClients
      BY <2>1, SeatsCover, SeatsFinite, WsAssumption DEF Accepts, TypeOK
    <3> QED BY <3>1, <3>2, SeatsFinite, FS_AddElement, WsAssumption
  <2>2. CASE ~Accepts(count)
    BY <2>2 DEF Admitted, TypeOK
  <2> QED BY <2>1, <2>2
<1> QED BY <1>1, <1>3, <1>8, <1>9

(* A session gives back the seat that it owns.                             *)
LEMMA GivenBack ==
  ASSUME IInv, NEW s \in Seats, Seats' = Seats \ {s}, count' = count - 1
  PROVE  count' \in Nat /\ Cardinality(Seats') <= count'
<1>1. Cardinality(Seats \ {s}) = Cardinality(Seats) - 1 /\ Cardinality(Seats \ {s}) \in Nat
  BY SeatsFinite, FS_RemoveElement, FS_CardinalityType
<1> QED BY <1>1, SeatsFinite DEF IInv, TypeOK

LEMMA RollBackKeeps ==
  ASSUME IInv, NEW s \in Sessions, RollBack(s)
  PROVE  IInv'
<1> USE DEF IInv, RollBack
<1>1. \A b \in Casters : Pending(b)' = Pending(b)
  BY DEF Pending
<1>2. OneOwner'
  BY <1>1 DEF OneOwner, TypeOK
<1>3. s \in Seats /\ Seats' = Seats \ {s}
  <2>1. ASSUME NEW t \in Sessions
        PROVE  Seated(t)' <=> (Seated(t) /\ t # s)
    <3>1. CASE t = s
      BY <1>1, <3>1 DEF Seated, Calling, OneOwner, TypeOK
    <3>2. CASE t # s
      BY <1>1, <3>2 DEF Seated, Calling, TypeOK
    <3> QED BY <3>1, <3>2
  <2>2. Seated(s)
    BY DEF Seated, Calling
  <2> QED BY <2>1, <2>2 DEF Seats
<1>4. count' \in Nat /\ Cardinality(Seats') <= count'
  BY <1>3, GivenBack
<1>5. TypeOK'
  BY <1>4 DEF TypeOK, SessionStates, sessionVars, channelVars
<1>6. Admitted' = Admitted
  BY DEF Admitted, TypeOK
<1> QED BY <1>2, <1>4, <1>5, <1>6

LEMMA PushKeeps ==
  ASSUME IInv, NEW s \in Sessions, Push(s)
  PROVE  IInv'
<1> USE DEF IInv, Push
<1>1. TypeOK'
  BY DEF TypeOK, SessionStates
<1>2. \A b \in Casters : Pending(b)' = Pending(b)
  BY DEF Pending
<1>3. OneOwner'
  BY <1>2 DEF OneOwner, TypeOK
<1>4. Seats' = Seats /\ Admitted' = Admitted
  BY <1>2 DEF Seats, Seated, Admitted, Calling, TypeOK
<1> QED BY <1>1, <1>3, <1>4, SameSeats

LEMMA ForwardKeeps ==
  ASSUME IInv, NEW s \in Sessions, Forward(s)
  PROVE  IInv'
<1> USE DEF IInv, Forward
<1>1. Head(queue[s]) \in Nat /\ Tail(queue[s]) \in Seq(Nat)
  BY DEF TypeOK
<1>2. Append(got[s], Head(queue[s])) \in Seq(Nat)
  BY <1>1 DEF TypeOK
<1>3. TypeOK'
  BY <1>1, <1>2 DEF TypeOK, sessionVars
<1>4. OneOwner' /\ Seats' = Seats /\ Admitted' = Admitted
  BY DEF OneOwner, Seats, Seated, Admitted, Calling, Pending, sessionVars
<1> QED BY <1>3, <1>4, SameSeats

LEMMA OutboundEndsKeeps ==
  ASSUME IInv, NEW s \in Sessions, OutboundEnds(s)
  PROVE  IInv'
<1> USE DEF IInv, OutboundEnds
<1>1. TypeOK'
  BY DEF TypeOK, sessionVars
<1>2. OneOwner' /\ Seats' = Seats /\ Admitted' = Admitted
  BY DEF OneOwner, Seats, Seated, Admitted, Calling, Pending, sessionVars
<1> QED BY <1>1, <1>2, SameSeats

LEMMA SelectReturnsKeeps ==
  ASSUME IInv, NEW s \in Sessions, SelectReturns(s)
  PROVE  IInv'
<1> USE DEF IInv, SelectReturns
<1>1. TypeOK'
  BY DEF TypeOK, SessionStates, channelVars
<1>2. \A b \in Casters : Pending(b)' = Pending(b)
  BY DEF Pending
<1>3. OneOwner'
  BY <1>2 DEF OneOwner, TypeOK
<1>4. Seats' = Seats /\ Admitted' = Admitted
  BY <1>2 DEF Seats, Seated, Admitted, Calling, TypeOK
<1> QED BY <1>1, <1>3, <1>4, SameSeats

LEMMA UnregisterKeeps ==
  ASSUME IInv, NEW s \in Sessions, Unregister(s)
  PROVE  IInv'
<1> USE DEF IInv, Unregister
<1>1. pc'[s] \in {"closed", "removing", "uncounting"} /\ (pc'[s] = "uncounting" => s \in members)
  BY Zenon DEF TypeOK, AfterRetain
<1>2. pc' = [pc EXCEPT ![s] = pc'[s]]
  BY DEF TypeOK
<1>3. TypeOK'
  BY <1>1, <1>2 DEF TypeOK, SessionStates, channelVars
<1>4. \A b \in Casters : Pending(b)' = Pending(b)
  BY DEF Pending
<1>5. OneOwner'
  BY <1>1, <1>2, <1>4 DEF OneOwner, TypeOK
<1>6. Seats' \subseteq Seats /\ Admitted' \subseteq Admitted
  BY <1>1, <1>2, <1>4 DEF Seats, Seated, Admitted, Calling, TypeOK
<1> QED BY <1>3, <1>5, <1>6, SameSeats

LEMMA UncountKeeps ==
  ASSUME IInv, NEW s \in Sessions, Uncount(s)
  PROVE  IInv'
<1> USE DEF IInv, Uncount
<1>1. AfterRetain(s) \in {"removing", "closed"}
  BY DEF AfterRetain
<1>2. \A b \in Casters : Pending(b)' = Pending(b)
  BY DEF Pending
<1>3. OneOwner'
  BY <1>1, <1>2 DEF OneOwner, TypeOK
<1>4. s \in Seats /\ Seats' = Seats \ {s}
  <2>1. ASSUME NEW t \in Sessions
        PROVE  Seated(t)' <=> (Seated(t) /\ t # s)
    <3>1. CASE t = s
      BY <1>1, <1>2, <3>1 DEF Seated, Calling, OneOwner, TypeOK
    <3>2. CASE t # s
      BY <1>1, <1>2, <3>2 DEF Seated, Calling, TypeOK
    <3> QED BY <3>1, <3>2
  <2>2. Seated(s)
    BY DEF Seated, Calling
  <2> QED BY <2>1, <2>2 DEF Seats
<1>5. count' \in Nat /\ Cardinality(Seats') <= count'
  BY <1>4, GivenBack
<1>6. TypeOK'
  BY <1>1, <1>5 DEF TypeOK, SessionStates, channelVars
<1>7. Admitted' = Admitted
  BY <1>1 DEF Admitted, TypeOK
<1> QED BY <1>3, <1>5, <1>6, <1>7

LEMMA RemoveEntryKeeps ==
  ASSUME IInv, NEW s \in Sessions, RemoveEntry(s)
  PROVE  IInv'
<1> USE DEF IInv, RemoveEntry
<1>1. TypeOK'
  BY DEF TypeOK, SessionStates, channelVars
<1>2. \A b \in Casters : Pending(b)' = Pending(b)
  BY DEF Pending
<1>3. members' \subseteq members
  OBVIOUS
<1>4. OneOwner'
  BY <1>2, <1>3 DEF OneOwner, TypeOK
<1>5. Seats' \subseteq Seats /\ Admitted' \subseteq Admitted
  BY <1>2, <1>3 DEF Seats, Seated, Admitted, Calling, TypeOK
<1> QED BY <1>1, <1>4, <1>5, SameSeats

LEMMA BeginBroadcastKeeps ==
  ASSUME IInv, NEW b \in Casters, BeginBroadcast(b)
  PROVE  IInv'
<1> USE DEF IInv
<1>1. PICK p \in entries, f \in Sources :
        /\ sent' = Append(sent, [by |-> b, to |-> p, from |-> f])
        /\ cast' = [cast EXCEPT ![b] = [pc |-> "sending", to |-> p, from |-> f,
                                        msg |-> Len(sent) + 1,
                                        todo |-> Clients(p), dead |-> {}]]
  BY DEF BeginBroadcast
<1>2. UNCHANGED <<entries, members, count, sessionVars, channelVars>> /\ cast[b].pc = "idle"
  BY DEF BeginBroadcast
<1>3. TypeOK'
  <2>1. p \in Platforms /\ [by |-> b, to |-> p, from |-> f] \in [by: Casters, to: Platforms, from: Sources]
    BY DEF TypeOK
  <2>2. sent' \in Seq([by: Casters, to: Platforms, from: Sources])
    BY <1>1, <2>1 DEF TypeOK
  <2>3. Len(sent) + 1 \in 0..MaxBroadcasts
    BY WsAssumption DEF BeginBroadcast, TypeOK
  <2>4. Clients(p) \subseteq Sessions
    BY DEF Clients, TypeOK
  <2>5. cast' \in [Casters -> Broadcast]
    BY <1>1, <2>1, <2>3, <2>4 DEF TypeOK, Broadcast
  <2> QED BY <1>2, <2>2, <2>5 DEF TypeOK, sessionVars, channelVars
<1>4. \A c \in Casters : Pending(c)' = Pending(c)
  BY <1>1, <1>2 DEF Pending, TypeOK
<1>5. OneOwner' /\ Seats' = Seats /\ Admitted' = Admitted
  BY <1>2, <1>4 DEF OneOwner, Seats, Seated, Admitted, Calling, sessionVars
<1> QED BY <1>2, <1>3, <1>5, SameSeats

LEMMA SendToKeeps ==
  ASSUME IInv, NEW b \in Casters, NEW s \in Sessions, SendTo(b, s)
  PROVE  IInv'
<1> USE DEF IInv, SendTo
<1>1. cast[b] \in Broadcast
  BY DEF TypeOK
<1>2. queue' \in [Sessions -> Seq(Nat)]
  <2>1. Append(queue[s], cast[b].msg) \in Seq(Nat)
    BY <1>1, WsAssumption DEF TypeOK, Broadcast
  <2> QED BY <2>1 DEF TypeOK, TrySend
<1>3. cast' \in [Casters -> Broadcast]
  BY <1>1 DEF TypeOK, TrySend, Broadcast
<1>4. TypeOK'
  BY <1>2, <1>3 DEF TypeOK, sessionVars
<1>5. \A c \in Casters : Pending(c)' = Pending(c)
  BY <1>1 DEF Pending, TypeOK, TrySend, Broadcast
<1>6. OneOwner' /\ Seats' = Seats /\ Admitted' = Admitted
  BY <1>5 DEF OneOwner, Seats, Seated, Admitted, Calling, sessionVars
<1> QED BY <1>4, <1>6, SameSeats

LEMMA EndPhase1Keeps ==
  ASSUME IInv, NEW b \in Casters, EndPhase1(b)
  PROVE  IInv'
<1> USE DEF IInv
<1>1. UNCHANGED <<entries, members, count, sessionVars, channelVars, sent>> /\ cast[b].pc = "sending"
  BY DEF EndPhase1
<1>2. PICK next \in {"idle", "pruning"} : cast' = [cast EXCEPT ![b].pc = next]
  BY DEF EndPhase1
<1>3. TypeOK'
  <2>1. cast' \in [Casters -> Broadcast]
    BY <1>2, CastMoves DEF TypeOK
  <2> QED BY <1>1, <2>1 DEF TypeOK, sessionVars, channelVars
<1>4. \A c \in Casters : Pending(c)' = Pending(c)
  BY <1>1, <1>2 DEF Pending, TypeOK, Broadcast
<1>5. OneOwner' /\ Seats' = Seats /\ Admitted' = Admitted
  BY <1>1, <1>4 DEF OneOwner, Seats, Seated, Admitted, Calling, sessionVars
<1> QED BY <1>1, <1>3, <1>5, SameSeats

(* The clients that retain removes pass from the map to the broadcast.      *)
LEMMA PruneKeeps ==
  ASSUME IInv, NEW b \in Casters, Prune(b)
  PROVE  IInv'
<1> USE DEF IInv
<1>1. /\ UNCHANGED <<entries, count, sessionVars, channelVars, sent>>
      /\ members' = members \ cast[b].dead
      /\ cast[b].pc = "pruning"
  BY DEF Prune
<1>2. PICK next \in {"idle", "uncounting"}, left \in SUBSET Sessions :
        /\ cast' = [cast EXCEPT ![b].pc = next, ![b].dead = left]
        /\ left = members \cap cast[b].dead
        /\ next = "idle" => left = {}
  <2>1. members \cap cast[b].dead \in SUBSET Sessions
    BY DEF TypeOK
  <2> QED BY <2>1 DEF Prune
<1>3. TypeOK'
  <2>1. cast' \in [Casters -> Broadcast]
    BY <1>2, CastMoves DEF TypeOK
  <2> QED BY <1>1, <2>1 DEF TypeOK, sessionVars, channelVars
<1>4. \A c \in Casters \ {b} : Pending(c)' = Pending(c)
  BY <1>2 DEF Pending, TypeOK
<1>5. Pending(b) = {} /\ Pending(b)' = members \cap cast[b].dead
  BY <1>1, <1>2 DEF Pending, TypeOK, Broadcast
<1>6. OneOwner'
  BY <1>1, <1>4, <1>5 DEF OneOwner, TypeOK, sessionVars
<1>7. ASSUME NEW s \in Sessions
      PROVE  Seated(s)' => Seated(s)
  BY <1>1, <1>4, <1>5 DEF Seated, Calling, sessionVars
<1>8. Seats' \subseteq Seats /\ Admitted' \subseteq Admitted
  BY <1>1, <1>7 DEF Seats, Admitted, sessionVars
<1> QED BY <1>1, <1>3, <1>6, <1>8, SameSeats

LEMMA UncountDeadKeeps ==
  ASSUME IInv, NEW b \in Casters, UncountDead(b)
  PROVE  IInv'
<1> USE DEF IInv, UncountDead
<1> DEFINE D == cast[b].dead
<1>1. Pending(b) = D /\ Pending(b)' = {} /\ D \subseteq Sessions
  BY DEF Pending, TypeOK, Broadcast
<1>2. \A c \in Casters \ {b} : Pending(c)' = Pending(c)
  BY DEF Pending, TypeOK
<1>3. OneOwner'
  BY <1>1, <1>2 DEF OneOwner, sessionVars
<1>4. ASSUME NEW s \in Sessions
      PROVE  Seated(s)' <=> (Seated(s) /\ s \notin D)
  BY <1>1, <1>2 DEF Seated, Calling, OneOwner, sessionVars
<1>5. Seats' = Seats \ D /\ Seats \cap D = D
  BY <1>1, <1>4 DEF Seats, Seated
<1>6. Cardinality(Seats \ D) = Cardinality(Seats) - Cardinality(D) /\ Cardinality(Seats \ D) \in Nat
  <2> HIDE DEF D
  <2>1. IsFiniteSet(Seats \ D) /\ Cardinality(Seats \ D) = Cardinality(Seats) - Cardinality(Seats \cap D)
    BY SeatsFinite, FS_Difference
  <2> QED BY <1>5, <2>1, FS_CardinalityType
<1>7. Cardinality(D) \in Nat
  BY <1>1, WsAssumption, FS_Subset, FS_CardinalityType
<1>8. count' \in Nat /\ Cardinality(Seats') <= count'
  BY <1>5, <1>6, <1>7, SeatsFinite DEF TypeOK
<1>9. TypeOK'
  BY <1>8 DEF TypeOK, Broadcast, sessionVars, channelVars
<1>10. Admitted' = Admitted
  BY DEF Admitted, sessionVars
<1> QED BY <1>3, <1>8, <1>9, <1>10

-----------------------------------------------------------------------------
LEMMA Inductive == IInv /\ [Next]_vars => IInv'
<1> SUFFICES ASSUME IInv, [Next]_vars PROVE IInv'
  OBVIOUS
<1>1. ASSUME NEW s \in Sessions, SessionStep(s)
      PROVE  IInv'
  BY <1>1, ReserveKeeps, RollBackKeeps, PushKeeps, ForwardKeeps, OutboundEndsKeeps,
     SelectReturnsKeeps, UnregisterKeeps, UncountKeeps, RemoveEntryKeeps DEF SessionStep
<1>2. ASSUME NEW b \in Casters, CasterStep(b)
      PROVE  IInv'
  BY <1>2, BeginBroadcastKeeps, SendToKeeps, EndPhase1Keeps, PruneKeeps, UncountDeadKeeps
     DEF CasterStep
<1>3. CASE UNCHANGED vars
  BY <1>3 DEF vars, sessionVars, channelVars, IInv, TypeOK, OneOwner, Pending, Seats, Seated,
     Calling, Admitted
<1> QED BY <1>1, <1>2, <1>3 DEF Next

LEMMA Invariant == Spec => []IInv
<1> QED BY InitIInv, Inductive, PTL DEF Spec

(* The registry's state is well-formed; in particular the AtomicUsize never *)
(* wraps around below zero, whoever decrements it and however often.        *)
THEOREM TypeCorrect == Spec => []TypeOK
<1>1. IInv => TypeOK
  BY DEF IInv
<1> QED BY Invariant, <1>1, PTL

(* The counter never falls below the number of registered clients.          *)
THEOREM CounterCoversClients == Spec => []NeverUndercounted
<1>1. IInv => NeverUndercounted
  <2> SUFFICES ASSUME IInv PROVE NeverUndercounted
    OBVIOUS
  <2>1. Cardinality(members) \in Nat
    BY WsAssumption, FS_Subset, FS_CardinalityType DEF IInv, TypeOK
  <2> QED BY <2>1, SeatsCover, SeatsFinite DEF IInv, TypeOK, NeverUndercounted
<1> QED BY Invariant, <1>1, PTL

(* MAX_WS_CLIENTS holds under any number of racing sessions.                *)
THEOREM LimitHolds == Spec => []WithinLimit
<1>1. IInv => WithinLimit
  <2> SUFFICES ASSUME IInv PROVE WithinLimit
    OBVIOUS
  <2>1. Cardinality(members) \in Nat
    BY WsAssumption, FS_Subset, FS_CardinalityType DEF IInv, TypeOK
  <2> QED BY <2>1, SeatsCover, SeatsFinite, WsAssumption DEF IInv, WithinLimit
<1> QED BY Invariant, <1>1, PTL
-----------------------------------------------------------------------------
(* The order of delivery.  What is proved of a session's log goes by what   *)
(* the broadcasts in flight still owe: a payload on its way is the latest   *)
(* of its transaction, and no client that phase 1 has yet to visit has it.  *)

\* what a session has been sent, written to its socket or queued
Log(s) == got[s] \o queue[s]

\* the n-th broadcast is one that s subscribed to
Entitled(n, s) ==
  /\ n \in 1..Len(sent)
  /\ sent[n].to = platform[s]
  /\ sent[n].from \in allow[s] \union {Matrix}

Ordered(log) ==
  \A i, j \in 1..Len(log) :
    i < j => /\ log[i] # log[j]
             /\ sent[log[i]].by = sent[log[j]].by => log[i] < log[j]

LogFits(s) ==
  /\ \A i \in 1..Len(Log(s)) : Entitled(Log(s)[i], s)
  /\ Ordered(Log(s))

Latest(b) ==
  /\ cast[b].msg \in 1..Len(sent)
  /\ sent[cast[b].msg] = [by |-> b, to |-> cast[b].to, from |-> cast[b].from]
  /\ \A n \in 1..Len(sent) : sent[n].by = b => n <= cast[b].msg

Owed(b, s) ==
  /\ platform[s] = cast[b].to
  /\ \A i \in 1..Len(Log(s)) : Log(s)[i] # cast[b].msg

InFlight(b) == cast[b].pc = "sending" => Latest(b) /\ \A s \in cast[b].todo : Owed(b, s)

History ==
  /\ \A s \in Sessions : LogFits(s)
  /\ \A b \in Casters : InFlight(b)

LEMMA LogType ==
  ASSUME TypeOK, NEW s \in Sessions
  PROVE  Log(s) \in Seq(Nat)
<1>1. got[s] \in Seq(Nat) /\ queue[s] \in Seq(Nat)
  BY DEF TypeOK
<1> QED BY <1>1, ConcatProperties DEF Log

(* Moving the first payload from the channel to the socket leaves the log.  *)
LEMMA ForwardedLog ==
  ASSUME NEW g \in Seq(Nat), NEW q \in Seq(Nat), q # <<>>
  PROVE  Append(g, Head(q)) \o Tail(q) = g \o q
<1>1. Head(q) \in Nat /\ Tail(q) \in Seq(Nat) /\ q = <<Head(q)>> \o Tail(q)
  OBVIOUS
<1>2. Append(g, Head(q)) = g \o <<Head(q)>> /\ <<Head(q)>> \in Seq(Nat)
  BY <1>1, AppendIsConcat
<1>3. (g \o <<Head(q)>>) \o Tail(q) = g \o (<<Head(q)>> \o Tail(q))
  BY <1>1, <1>2, ConcatAssociative
<1> QED BY <1>1, <1>2, <1>3

(* A payload queued is the last of the log.                                 *)
LEMMA QueuedLog ==
  ASSUME NEW g \in Seq(Nat), NEW q \in Seq(Nat), NEW n \in Nat
  PROVE  g \o Append(q, n) = Append(g \o q, n)
<1>1. Append(q, n) = q \o <<n>> /\ <<n>> \in Seq(Nat)
  BY AppendIsConcat
<1>2. g \o q \in Seq(Nat) /\ Append(g \o q, n) = (g \o q) \o <<n>>
  BY ConcatProperties, AppendIsConcat
<1>3. (g \o q) \o <<n>> = g \o (q \o <<n>>)
  BY <1>1, ConcatAssociative
<1> QED BY <1>1, <1>2, <1>3

(* What is written to the socket is the first part of the log.              *)
LEMMA WrittenLog ==
  ASSUME NEW g \in Seq(Nat), NEW q \in Seq(Nat)
  PROVE  /\ Len(g) <= Len(g \o q)
         /\ \A i \in 1..Len(g) : (g \o q)[i] = g[i]
<1>1. Len(g) \in Nat /\ Len(q) \in Nat /\ Len(g \o q) = Len(g) + Len(q)
  BY ConcatProperties
<1> QED BY <1>1

LEMMA InitHistory == Init => History
<1> SUFFICES ASSUME Init PROVE History
  OBVIOUS
<1>1. ASSUME NEW s \in Sessions
      PROVE  LogFits(s)
  <2>1. got[s] = <<>> /\ queue[s] = <<>>
    BY DEF Init
  <2>2. Len(Log(s)) = 0
    BY <2>1 DEF Log
  <2> QED BY <2>2 DEF LogFits, Ordered
<1>2. ASSUME NEW b \in Casters
      PROVE  InFlight(b)
  BY DEF Init, InFlight
<1> QED BY <1>1, <1>2 DEF History

\* the log of s loses at most what was queued last
Shortened(s) ==
  /\ Len(Log(s)') <= Len(Log(s))
  /\ \A i \in 1..Len(Log(s)') : Log(s)'[i] = Log(s)[i]

\* broadcast b goes on with fewer clients to visit, or ends phase 1
GoesOn(b) ==
  cast[b].pc' = "sending" =>
    /\ cast[b].pc = "sending"
    /\ cast[b].msg' = cast[b].msg /\ cast[b].to' = cast[b].to /\ cast[b].from' = cast[b].from
    /\ cast[b].todo' \subseteq cast[b].todo

(* Steps that send nothing.                                                 *)
LEMMA NothingSent ==
  ASSUME TypeOK, TypeOK', History, UNCHANGED <<sent, platform, allow>>,
         \A s \in Sessions : Shortened(s),
         \A b \in Casters : GoesOn(b)
  PROVE  History'
<1>1. \A s \in Sessions : /\ Log(s) \in Seq(Nat) /\ Log(s)' \in Seq(Nat)
                          /\ Len(Log(s)) \in Nat /\ Len(Log(s)') \in Nat
  <2>1. ASSUME NEW s \in Sessions
        PROVE  Log(s) \in Seq(Nat) /\ Log(s)' \in Seq(Nat)
    <3>1. got'[s] \in Seq(Nat) /\ queue'[s] \in Seq(Nat)
      BY DEF TypeOK
    <3> QED BY <3>1, LogType, ConcatProperties DEF Log
  <2> QED BY <2>1
<1>2. ASSUME NEW s \in Sessions
      PROVE  LogFits(s)'
  <2>1. LogFits(s) /\ Shortened(s)
    BY DEF History
  <2>2. \A i \in 1..Len(Log(s)') : i \in 1..Len(Log(s)) /\ Log(s)'[i] = Log(s)[i]
    BY <1>1, <2>1 DEF Shortened
  <2>3. \A i \in 1..Len(Log(s)') : Entitled(Log(s)[i], s)'
    BY <2>1, <2>2 DEF LogFits, Entitled
  <2>4. Ordered(Log(s))'
    BY <2>1, <2>2 DEF LogFits, Ordered
  <2> QED BY <2>2, <2>3, <2>4 DEF LogFits
<1>3. ASSUME NEW b \in Casters, cast[b].pc' = "sending"
      PROVE  Latest(b)' /\ \A s \in cast[b].todo' : Owed(b, s)'
  <2>1. GoesOn(b) /\ InFlight(b)
    BY DEF History
  <2>2. Latest(b)'
    BY <1>3, <2>1 DEF GoesOn, InFlight, Latest
  <2>3. ASSUME NEW s \in cast[b].todo'
        PROVE  Owed(b, s)'
    <3>1. s \in Sessions /\ Shortened(s)
      BY <2>3, <1>3, <2>1 DEF TypeOK, Broadcast, GoesOn
    <3>2. Owed(b, s)
      BY <1>3, <2>1, <2>3 DEF GoesOn, InFlight
    <3> QED BY <1>1, <1>3, <2>1, <3>1, <3>2 DEF Owed, Shortened, GoesOn
  <2> QED BY <2>2, <2>3
<1> QED BY <1>2, <1>3 DEF History, InFlight

LEMMA LogStays ==
  ASSUME TypeOK, NEW s \in Sessions, Log(s)' = Log(s)
  PROVE  Shortened(s)
<1> QED BY LogType DEF Shortened

LEMMA ForwardOrdered ==
  ASSUME TypeOK, TypeOK', History, NEW s \in Sessions, Forward(s)
  PROVE  History'
<1>1. \A b \in Casters : GoesOn(b)
  BY DEF Forward, GoesOn
<1>2. ASSUME NEW t \in Sessions
      PROVE  Log(t)' = Log(t)
  <2>1. CASE t = s
    <3>1. got'[s] = Append(got[s], Head(queue[s])) /\ queue'[s] = Tail(queue[s])
      BY DEF Forward, TypeOK
    <3>2. got[s] \in Seq(Nat) /\ queue[s] \in Seq(Nat) /\ queue[s] # <<>>
      BY DEF Forward, TypeOK
    <3> QED BY <2>1, <3>1, <3>2, ForwardedLog DEF Log
  <2>2. CASE t # s
    BY <2>2 DEF Forward, TypeOK, Log
  <2> QED BY <2>1, <2>2
<1> QED BY <1>1, <1>2, LogStays, NothingSent DEF Forward, sessionVars

LEMMA OutboundEndsOrdered ==
  ASSUME TypeOK, TypeOK', History, NEW s \in Sessions, OutboundEnds(s)
  PROVE  History'
<1>1. \A b \in Casters : GoesOn(b)
  BY DEF OutboundEnds, GoesOn
<1>2. ASSUME NEW t \in Sessions
      PROVE  Shortened(t)
  <2>1. CASE t = s
    <3>1. got'[s] = got[s] /\ queue'[s] = <<>>
      BY DEF OutboundEnds, TypeOK
    <3>2. got[s] \in Seq(Nat) /\ queue[s] \in Seq(Nat)
      BY DEF TypeOK
    <3>3. Log(s)' = got[s]
      BY <3>1, <3>2, ConcatEmptySeq DEF Log
    <3>4. /\ Len(got[s]) <= Len(Log(s))
          /\ \A i \in 1..Len(got[s]) : Log(s)[i] = got[s][i]
      BY <3>2, WrittenLog, Zenon DEF Log
    <3>5. Shortened(s)
      BY <3>3, <3>4, Zenon DEF Shortened
    <3> QED BY <2>1, <3>5
  <2>2. CASE t # s
    <3>1. Log(t)' = Log(t)
      BY <2>2 DEF OutboundEnds, TypeOK, Log
    <3> QED BY <3>1, LogStays
  <2> QED BY <2>1, <2>2
<1> QED BY <1>1, <1>2, NothingSent DEF OutboundEnds, sessionVars

(* The steps of a session, and of a broadcast's phase 2, touch no channel.  *)
LEMMA RegistryOrdered ==
  ASSUME TypeOK, TypeOK', History, UNCHANGED <<sent, platform, allow, queue, got>>,
         \A b \in Casters : GoesOn(b)
  PROVE  History'
<1>1. \A s \in Sessions : Shortened(s)
  BY LogStays DEF Log
<1> QED BY <1>1, NothingSent

LEMMA BeginBroadcastOrdered ==
  ASSUME TypeOK, TypeOK', History, NEW b \in Casters, BeginBroadcast(b)
  PROVE  History'
<1>1. PICK p \in entries, f \in Sources :
        /\ sent' = Append(sent, [by |-> b, to |-> p, from |-> f])
        /\ cast' = [cast EXCEPT ![b] = [pc |-> "sending", to |-> p, from |-> f,
                                        msg |-> Len(sent) + 1,
                                        todo |-> Clients(p), dead |-> {}]]
  BY DEF BeginBroadcast
<1>2. UNCHANGED <<platform, allow, queue, got>>
  BY DEF BeginBroadcast, sessionVars, channelVars
<1>3. /\ Len(sent) \in Nat /\ Len(sent') = Len(sent) + 1
      /\ \A n \in 1..Len(sent) : sent'[n] = sent[n]
      /\ sent'[Len(sent) + 1] = [by |-> b, to |-> p, from |-> f]
  <2>1. p \in Platforms /\ sent \in Seq([by: Casters, to: Platforms, from: Sources])
    BY DEF TypeOK
  <2>2. [by |-> b, to |-> p, from |-> f] \in [by: Casters, to: Platforms, from: Sources]
    BY <2>1
  <2> QED BY <1>1, <2>1, <2>2, AppendProperties
<1>4. \A s \in Sessions : Log(s)' = Log(s)
  BY <1>2 DEF Log
<1>5. ASSUME NEW s \in Sessions
      PROVE  LogFits(s)'
  <2>1. LogFits(s)
    BY DEF History
  <2>2. \A i \in 1..Len(Log(s)) : Entitled(Log(s)[i], s)'
    BY <1>2, <1>3, <1>4, <2>1 DEF LogFits, Entitled
  <2>3. \A i \in 1..Len(Log(s)) : sent'[Log(s)[i]] = sent[Log(s)[i]]
    BY <1>3, <2>1 DEF LogFits, Entitled
  <2>4. Ordered(Log(s))'
    BY <1>4, <2>1, <2>3 DEF LogFits, Ordered
  <2> QED BY <1>4, <2>2, <2>4 DEF LogFits
<1>6. ASSUME NEW c \in Casters, c # b
      PROVE  InFlight(c)'
  <2>1. cast'[c] = cast[c] /\ InFlight(c)
    BY <1>1, <1>6 DEF TypeOK, History
  <2>2. Latest(c) => Latest(c)'
    BY <1>3, <1>6, <2>1 DEF Latest
  <2>3. ASSUME NEW s \in Sessions, Owed(c, s)
        PROVE  Owed(c, s)'
    BY <1>2, <1>4, <2>1, <2>3 DEF Owed
  <2>4. cast[c].todo \subseteq Sessions
    BY DEF TypeOK, Broadcast
  <2> QED BY <2>1, <2>2, <2>3, <2>4 DEF InFlight
<1>7. InFlight(b)'
  <2>1. cast'[b] = [pc |-> "sending", to |-> p, from |-> f, msg |-> Len(sent) + 1,
                    todo |-> Clients(p), dead |-> {}]
    BY <1>1 DEF TypeOK
  <2>2. Latest(b)'
    BY <1>3, <2>1 DEF Latest
  <2>3. ASSUME NEW s \in Clients(p)
        PROVE  Owed(b, s)'
    <3>1. s \in Sessions /\ platform[s] = p
      BY DEF Clients, TypeOK
    <3>2. LogFits(s)
      BY <3>1 DEF History
    <3>3. \A i \in 1..Len(Log(s)) : Log(s)[i] \in 1..Len(sent)
      BY <3>2 DEF LogFits, Entitled
    <3> QED BY <1>2, <1>3, <1>4, <2>1, <3>1, <3>3 DEF Owed
  <2> QED BY <2>1, <2>2, <2>3 DEF InFlight
<1> QED BY <1>5, <1>6, <1>7 DEF History

(* The payload that is queued is newer than any of its transaction in the   *)
(* log, and another broadcast in flight carries another payload.            *)
LEMMA SendToOrdered ==
  ASSUME TypeOK, TypeOK', History, NEW b \in Casters, NEW s \in Sessions, SendTo(b, s)
  PROVE  History'
<1> DEFINE m == cast[b].msg
<1>1. /\ UNCHANGED <<sent, platform, allow, got>>
      /\ cast[b].pc = "sending" /\ s \in cast[b].todo /\ TrySend(b, s)
  BY DEF SendTo, sessionVars
<1>2. \A c \in Casters : GoesOn(c) /\ cast[c].pc' = cast[c].pc
  BY <1>1 DEF GoesOn, TrySend, TypeOK, Broadcast
<1>3. CASE queue' = queue
  BY <1>1, <1>2, <1>3, RegistryOrdered
<1>4. CASE /\ Forwards(s, cast[b].from)
           /\ queue' = [queue EXCEPT ![s] = Append(@, cast[b].msg)]
  <2>1. Latest(b) /\ Owed(b, s) /\ m \in Nat
    BY <1>1 DEF History, InFlight, TypeOK, Broadcast
  <2>2. got[s] \in Seq(Nat) /\ queue[s] \in Seq(Nat) /\ Log(s) \in Seq(Nat)
    BY LogType DEF TypeOK
  <2>3. Log(s)' = Append(Log(s), m)
    <3>1. queue'[s] = Append(queue[s], m) /\ got'[s] = got[s]
      BY <1>1, <1>4 DEF TypeOK
    <3> QED BY <2>1, <2>2, <3>1, QueuedLog DEF Log
  <2>4. /\ Len(Log(s)) \in Nat /\ Len(Log(s)') = Len(Log(s)) + 1
        /\ \A i \in 1..Len(Log(s)) : Log(s)'[i] = Log(s)[i]
        /\ Log(s)'[Len(Log(s)) + 1] = m
    BY <2>1, <2>2, <2>3, AppendProperties
  <2>5. \A t \in Sessions \ {s} : Log(t)' = Log(t)
    BY <1>1, <1>4 DEF Log, TypeOK
  <2>6. \A t \in Sessions : LogFits(t)
    BY DEF History
  <2>7. Entitled(m, s)
    <3>1. cast[b].from \in allow[s] \union {Matrix}
      BY <1>4 DEF Forwards
    <3> QED BY <2>1, <3>1 DEF Entitled, Latest, Owed
  <2>8. LogFits(s)'
    <3>1. \A i \in 1..Len(Log(s)) : Entitled(Log(s)[i], s)
      BY <2>6 DEF LogFits
    <3>2. \A i \in 1..Len(Log(s)) :
            Log(s)[i] # m /\ (sent[Log(s)[i]].by = sent[m].by => Log(s)[i] < m)
      <4>1. \A i \in 1..Len(Log(s)) : Log(s)[i] \in 1..Len(sent)
        BY <2>6 DEF LogFits, Entitled
      <4>2. sent[m].by = b /\ Len(sent) \in Nat
        BY <2>1 DEF Latest, TypeOK
      <4>3. \A n \in 1..Len(sent) : n # m /\ sent[n].by = b => n < m
        BY <2>1, <4>2 DEF Latest
      <4> QED BY <2>1, <4>1, <4>2, <4>3 DEF Owed
    <3>3. \A i \in 1..Len(Log(s)') : Entitled(Log(s)'[i], s)
      BY <2>4, <2>7, <3>1
    <3>4. Ordered(Log(s))'
      <4> SUFFICES ASSUME NEW i \in 1..Len(Log(s)'), NEW j \in 1..Len(Log(s)'), i < j
                   PROVE  /\ Log(s)'[i] # Log(s)'[j]
                          /\ sent[Log(s)'[i]].by = sent[Log(s)'[j]].by => Log(s)'[i] < Log(s)'[j]
        BY <1>1 DEF Ordered
      <4>1. i \in 1..Len(Log(s)) /\ Log(s)'[i] = Log(s)[i]
        BY <2>4
      <4>2. CASE j = Len(Log(s)) + 1
        BY <2>4, <3>2, <4>1, <4>2
      <4>3. CASE j # Len(Log(s)) + 1
        <5>1. j \in 1..Len(Log(s)) /\ Log(s)'[j] = Log(s)[j]
          BY <2>4, <4>3
        <5> QED BY <2>6, <4>1, <5>1 DEF LogFits, Ordered
      <4> QED BY <4>2, <4>3
    <3> QED BY <1>1, <3>3, <3>4 DEF LogFits, Entitled
  <2>9. ASSUME NEW t \in Sessions, t # s
        PROVE  LogFits(t)'
    BY <1>1, <2>5, <2>6, <2>9 DEF LogFits, Entitled, Ordered
  <2>10. ASSUME NEW c \in Casters, cast[c].pc' = "sending"
         PROVE  Latest(c)' /\ \A t \in cast[c].todo' : Owed(c, t)'
    <3>1. GoesOn(c) /\ InFlight(c) /\ cast[c].todo \subseteq Sessions
      BY <1>2 DEF History, TypeOK, Broadcast
    <3>2. Latest(c) /\ Latest(c)'
      BY <1>1, <2>10, <3>1 DEF GoesOn, InFlight, Latest
    <3>3. ASSUME NEW t \in cast[c].todo'
          PROVE  Owed(c, t)'
      <4>1. t \in Sessions /\ Owed(c, t)
        BY <2>10, <3>1, <3>3 DEF GoesOn, InFlight
      <4>2. CASE t # s
        BY <1>1, <2>5, <2>10, <3>1, <4>1, <4>2 DEF Owed, GoesOn
      <4>3. CASE t = s
        <5>1. c # b
          BY <1>1, <3>3, <4>3 DEF TrySend, TypeOK, Broadcast
        <5>2. cast[c].msg # m
          BY <2>1, <3>2, <5>1 DEF Latest
        <5>3. \A i \in 1..Len(Log(s)') : Log(s)'[i] # cast[c].msg
          BY <2>4, <4>1, <4>3, <5>2 DEF Owed
        <5> QED BY <1>1, <2>10, <3>1, <4>1, <4>3, <5>3 DEF Owed, GoesOn
      <4> QED BY <4>2, <4>3
    <3> QED BY <3>2, <3>3
  <2> QED BY <2>8, <2>9, <2>10 DEF History, InFlight
<1> QED BY <1>1, <1>3, <1>4 DEF TrySend

LEMMA OrderKept == TypeOK /\ TypeOK' /\ History /\ [Next]_vars => History'
<1> SUFFICES ASSUME TypeOK, TypeOK', History, [Next]_vars PROVE History'
  OBVIOUS
<1>1. ASSUME NEW s \in Sessions, SessionStep(s)
      PROVE  History'
  <2>1. CASE Forward(s)
    BY <2>1, ForwardOrdered
  <2>2. CASE OutboundEnds(s)
    BY <2>2, OutboundEndsOrdered
  <2>3. ASSUME UNCHANGED <<sent, cast, platform, allow, queue, got>>
        PROVE  History'
    <3>1. \A b \in Casters : GoesOn(b)
      BY <2>3 DEF GoesOn
    <3> QED BY <2>3, <3>1, RegistryOrdered
  <2>4. CASE Reserve(s) \/ RollBack(s) \/ Push(s) \/ SelectReturns(s)
    BY <2>3, <2>4 DEF Reserve, RollBack, Push, SelectReturns, channelVars
  <2>5. CASE Unregister(s) \/ Uncount(s) \/ RemoveEntry(s)
    BY <2>3, <2>5 DEF Unregister, Uncount, RemoveEntry, channelVars
  <2> QED BY <1>1, <2>1, <2>2, <2>4, <2>5 DEF SessionStep
<1>2. ASSUME NEW b \in Casters, CasterStep(b)
      PROVE  History'
  <2>1. CASE BeginBroadcast(b)
    BY <2>1, BeginBroadcastOrdered
  <2>2. CASE \E s \in Sessions : SendTo(b, s)
    BY <2>2, SendToOrdered
  <2>3. CASE EndPhase1(b) \/ Prune(b) \/ UncountDead(b)
    <3>1. UNCHANGED <<sent, platform, allow, queue, got>>
      BY <2>3 DEF EndPhase1, Prune, UncountDead, sessionVars, channelVars
    <3>2. PICK next \in {"idle", "pruning", "uncounting"}, left \in SUBSET Sessions :
            \/ cast' = [cast EXCEPT ![b].pc = next]
            \/ cast' = [cast EXCEPT ![b].pc = next, ![b].dead = left]
      <4>1. cast[b].dead \cap members \in SUBSET Sessions /\ {} \in SUBSET Sessions
        BY DEF TypeOK
      <4> QED BY <2>3, <4>1 DEF EndPhase1, Prune, UncountDead
    <3>3. \A c \in Casters : cast'[c].pc = "sending" => cast'[c] = cast[c]
      <4>1. CASE cast' = [cast EXCEPT ![b].pc = next]
        BY <4>1 DEF TypeOK, Broadcast
      <4>2. CASE cast' = [cast EXCEPT ![b].pc = next, ![b].dead = left]
        BY <4>2 DEF TypeOK, Broadcast
      <4> QED BY <3>2, <4>1, <4>2
    <3>4. \A c \in Casters : GoesOn(c)
      BY <3>3 DEF GoesOn
    <3> QED BY <3>1, <3>4, RegistryOrdered
  <2> QED BY <1>2, <2>1, <2>2, <2>3 DEF CasterStep
<1>3. CASE UNCHANGED vars
  <2>1. \A b \in Casters : GoesOn(b)
    BY <1>3 DEF vars, GoesOn
  <2> QED BY <1>3, <2>1, RegistryOrdered DEF vars, sessionVars, channelVars
<1> QED BY <1>1, <1>2, <1>3 DEF Next

(* A client receives what it subscribed to, each payload once, and those of *)
(* one transaction in their order, whatever the number of transactions that *)
(* broadcast at once and whenever sessions come, stall and go.              *)
THEOREM DeliveryInOrder == Spec => []ReceivesInOrder
<1>1. TypeOK /\ History => ReceivesInOrder
  <2> SUFFICES ASSUME TypeOK, History, NEW s \in Sessions
               PROVE  LET log == got[s] \o queue[s] IN
                        /\ \A i \in DOMAIN log : /\ sent[log[i]].to = platform[s]
                                                 /\ sent[log[i]].from \in allow[s] \union {Matrix}
                        /\ \A i, j \in DOMAIN log :
                             i < j => /\ log[i] # log[j]
                                      /\ sent[log[i]].by = sent[log[j]].by => log[i] < log[j]
    BY DEF ReceivesInOrder
  <2>1. LogFits(s) /\ DOMAIN Log(s) = 1..Len(Log(s))
    BY LogType DEF History
  <2> QED BY <2>1 DEF LogFits, Entitled, Ordered, Log
<1> QED BY <1>1, InitHistory, OrderKept, TypeCorrect, PTL DEF Spec
=============================================================================
