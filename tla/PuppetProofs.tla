----------------------------- MODULE PuppetProofs -----------------------------
(***************************************************************************)
(* Proofs about PuppetProfiles, for any requests, profiles and workers and *)
(* any number of faults: the cache agrees with the row, and a retry        *)
(* repairs what a partial failure left.  The argument: a field that the    *)
(* homeserver shows is the row's, or it is what somebody still wants; and  *)
(* a call that leaves a field alone, because its base has it already,      *)
(* finds it shown.                                                         *)
(***************************************************************************)
EXTENDS PuppetProfiles, FiniteSetTheorems, TLAPS

Fields == {"name", "avatar"}

(* Profiles of calls at work, or to be repeated.                           *)
Wanted == unmet \union {req[t].want : t \in Active}

(* What a call that finds no entry will compare with.                      *)
Believed == IF row = {} THEN {Blank} ELSE row

(* The homeserver shows the field of p, or p's avatar is never sent to it.  *)
Agrees(p, f) == profile[f] = p[f] \/ (f = "avatar" /\ p.avatar \in Avatars \ Valid)

Accounts ==
  /\ cache # {} => registered
  /\ \A t \in Requests : req[t].pc \in {"name", "avatar", "upsert", "insert"} => registered

(* A call that has not looked yet has no base.                             *)
Fresh == \A t \in Requests :
  req[t].pc \in {"cache", "find"} => req[t].path = "new" /\ req[t].base = Blank

OneWant == \A p, q \in Wanted : p = q

RowOfCall(c) ==
  /\ c.pc = "insert" => row = {c.want}
  /\ c.pc \in {"register", "name", "avatar"} /\ c.path = "row" => row = {c.base} \/ row = {c.want}

ProfileOfCall(c) ==
  /\ c.pc \in {"register", "name", "avatar"} =>
       \A f \in Fields : c.base[f] = c.want[f] => Agrees(c.want, f)
  /\ c.pc = "avatar" => Agrees(c.want, "name")
  /\ c.pc \in {"upsert", "insert"} => \A f \in Fields : Agrees(c.want, f)

(* An entry that is not the row is behind it, by what a call still wants.   *)
CacheBehind == cache # {} => cache = row \/ \E w \in Wanted : row = {w}

ShownIsRow == shown \subseteq row \/ Wanted # {}

Explained == \A f \in Fields : \A b \in Believed : Agrees(b, f) \/ \E w \in Wanted : profile[f] = w[f]

Orderly ==
  /\ OneWant
  /\ \A t \in Requests : RowOfCall(req[t]) /\ ProfileOfCall(req[t])
  /\ CacheBehind
  /\ ShownIsRow
  /\ Explained

AtMostOne == (\A p, q \in row : p = q) /\ (\A p, q \in cache : p = q)

(* Typing, accounts and bases.                                             *)
Shape == TypeOK /\ Accounts /\ Fresh /\ AtMostOne

IInv == Shape /\ (~muddled => Orderly)

-----------------------------------------------------------------------------
(* Typing and accounts.                                                     *)

Stages == {"cache", "find", "register", "name", "avatar", "upsert", "insert"}

LEMMA CallMoves ==
  ASSUME NEW c \in Call, NEW stage \in Stages, NEW way \in {"hit", "row", "new"}, NEW p \in Profile
  PROVE  /\ [c EXCEPT !.pc = stage] \in Call
         /\ [c EXCEPT !.pc = stage, !.path = way, !.base = p] \in Call
BY DEF Call, Stages

LEMMA BlankIsProfile == Blank \in Profile
BY DEF Blank, Profile

(* A call is at work, or its slot is idle.                                  *)
LEMMA SlotTypes ==
  ASSUME TypeOK, NEW t \in Requests
  PROVE  /\ t \in Active <=> req[t] \in Call
         /\ t \notin Active => req[t].pc = "idle"
         /\ req[t].pc # "idle" => t \in Active
BY DEF TypeOK, Active, Idle, Call

LEMMA OneProfile ==
  ASSUME NEW p \in Profile
  PROVE  {p} \subseteq Profile /\ Cardinality({p}) <= 1
BY FS_Singleton

(* The slot of t in the next state, and everybody else's.                   *)
Becomes(t, c) ==
  /\ req' \in [Requests -> Call \union {Idle}]
  /\ req'[t] = c
  /\ \A u \in Requests \ {t} : req'[u] = req[u]

(* t's call c in the next state, by what it was before.                     *)
MovesOn(t, c, stage, way, p) ==
  /\ Becomes(t, c)
  /\ c.pc = stage /\ c.path = way /\ c.want = req[t].want /\ c.base = p

LEMMA GotoMoves ==
  ASSUME TypeOK, NEW t \in Active, NEW stage \in Stages, Goto(t, stage)
  PROVE  \E c \in Call : MovesOn(t, c, stage, req[t].path, req[t].base)
<1>1. t \in Requests /\ req[t] \in Call
  BY SlotTypes DEF Active
<1>2. PICK c : c = [req[t] EXCEPT !.pc = stage]
  OBVIOUS
<1>3. c \in Call
  BY <1>1, <1>2, CallMoves, BlankIsProfile
<1>4. Becomes(t, c)
  BY <1>1, <1>2, <1>3 DEF Goto, Becomes, TypeOK
<1>5. c.pc = stage /\ c.path = req[t].path /\ c.want = req[t].want /\ c.base = req[t].base
  BY <1>1, <1>2 DEF Call
<1> QED BY <1>3, <1>4, <1>5 DEF MovesOn

LEMMA GoesBecomes ==
  ASSUME TypeOK, NEW t \in Active, NEW stage \in Stages, NEW way \in {"hit", "row", "new"}, NEW p \in Profile,
         req' = [req EXCEPT ![t] = [@ EXCEPT !.pc = stage, !.path = way, !.base = p]]
  PROVE  \E c \in Call : MovesOn(t, c, stage, way, p)
<1>1. t \in Requests /\ req[t] \in Call
  BY SlotTypes DEF Active
<1>2. PICK c : c = [req[t] EXCEPT !.pc = stage, !.path = way, !.base = p]
  OBVIOUS
<1>3. c \in Call
  BY <1>1, <1>2, CallMoves
<1>4. Becomes(t, c)
  BY <1>1, <1>2, <1>3 DEF Becomes, TypeOK
<1>5. c.pc = stage /\ c.path = way /\ c.want = req[t].want /\ c.base = p
  BY <1>1, <1>2 DEF Call
<1> QED BY <1>3, <1>4, <1>5 DEF MovesOn

LEMMA EndBecomes ==
  ASSUME TypeOK, NEW t \in Active, Succeed(t) \/ Fail(t)
  PROVE  Becomes(t, Idle)
BY DEF Succeed, Fail, Becomes, TypeOK, Active

LEMMA HistoryTypes ==
  ASSUME TypeOK, NEW t \in Active, Succeed(t) \/ Fail(t) \/ Muddle \/ UNCHANGED histVars
  PROVE  unmet' \subseteq Profile /\ shown' \subseteq Profile /\ muddled' \in BOOLEAN
<1>1. req[t].want \in Profile
  BY SlotTypes DEF Active, Call
<1> QED BY <1>1 DEF Succeed, Fail, Muddle, histVars, TypeOK

NewAccounts == cache' # {} \/ row' # {} => registered'

(* A step of t's call keeps the shape, if what it writes is right.          *)
LEMMA StepShape ==
  ASSUME Shape, NEW t \in Active, NEW c \in Call \union {Idle}, Becomes(t, c),
         Succeed(t) \/ Fail(t) \/ Muddle \/ UNCHANGED histVars,
         UNCHANGED faults \/ Fault,
         registered' \in BOOLEAN, registered => registered', profile' \in Profile,
         row' \in {row, {req[t].want}}, cache' \in {cache, {req[t].want}},
         NewAccounts,
         c.pc \in {"name", "avatar", "upsert", "insert"} => registered',
         c.pc \notin {"cache", "find"} \/ (c.path = "new" /\ c.base = Blank)
  PROVE  Shape'
<1>1. req[t].want \in Profile
  BY SlotTypes DEF Shape, Active, Call
<1>2. row' \subseteq Profile /\ Cardinality(row') <= 1 /\ cache' \subseteq Profile /\ Cardinality(cache') <= 1
  BY <1>1, OneProfile DEF Shape, TypeOK
<1>3. faults' \in 0..MaxFaults
  BY PuppetAssumption DEF Shape, TypeOK, Fault
<1>4. unmet' \subseteq Profile /\ shown' \subseteq Profile /\ muddled' \in BOOLEAN
  BY HistoryTypes DEF Shape
<1>5. TypeOK'
  BY <1>2, <1>3, <1>4 DEF TypeOK, Becomes, NewAccounts
<1>6. Accounts'
  <2> SUFFICES ASSUME NEW u \in Requests, req'[u].pc \in {"name", "avatar", "upsert", "insert"}
               PROVE  registered'
    BY DEF Accounts, NewAccounts
  <2>1. CASE u = t
    BY <2>1 DEF Becomes
  <2>2. CASE u # t
    BY <2>2 DEF Becomes, Shape, Accounts
  <2> QED BY <2>1, <2>2
<1>7. Fresh'
  <2> SUFFICES ASSUME NEW u \in Requests, req'[u].pc \in {"cache", "find"}
               PROVE  req'[u].path = "new" /\ req'[u].base = Blank
    BY DEF Fresh
  <2>1. CASE u = t
    BY <2>1 DEF Becomes
  <2>2. CASE u # t
    BY <2>2 DEF Becomes, Shape, Fresh
  <2> QED BY <2>1, <2>2
<1>8. AtMostOne'
  BY DEF AtMostOne, Shape
<1> QED BY <1>5, <1>6, <1>7, <1>8 DEF Shape

-----------------------------------------------------------------------------
(* Order, as long as requests agree on the profile.                         *)

(* What a call writes is what it wants.                                     *)
Writes(w) ==
  /\ \A f \in Fields : profile'[f] \in {profile[f], w[f]}
  /\ row' \in {row, {w}}

LEMMA WantedByCall ==
  ASSUME NEW t \in Active
  PROVE  req[t].want \in Wanted /\ (OneWant => \A p \in Wanted : p = req[t].want)
BY DEF Wanted, OneWant

(* Every other call has the same want, so what it relies on stays true.     *)
LEMMA OthersKeep ==
  ASSUME Shape, OneWant, NEW t \in Active, NEW c, Becomes(t, c), Writes(req[t].want),
         NEW u \in Requests \ {t}, RowOfCall(req[u]), ProfileOfCall(req[u])
  PROVE  RowOfCall(req[u])' /\ ProfileOfCall(req[u])'
<1>1. req'[u] = req[u]
  BY DEF Becomes
<1>2. CASE u \notin Active
  <2>1. req[u].pc = "idle"
    BY <1>2, SlotTypes DEF Shape
  <2> QED BY <1>1, <2>1 DEF RowOfCall, ProfileOfCall
<1>3. CASE u \in Active
  <2>1. req[u].want = req[t].want
    BY <1>3, WantedByCall
  <2>2. RowOfCall(req[u])'
    BY <1>1, <2>1 DEF RowOfCall, Writes
  <2>3. ASSUME NEW f \in Fields, Agrees(req[u].want, f)
        PROVE  Agrees(req[u].want, f)'
    BY <1>1, <2>1, <2>3 DEF Agrees, Writes
  <2>4. ProfileOfCall(req[u])'
    BY <1>1, <2>3 DEF ProfileOfCall, Fields
  <2> QED BY <2>2, <2>4
<1> QED BY <1>2, <1>3

(* A step of t's call that goes on.                                         *)
LEMMA WorkOrderly ==
  ASSUME Shape, Orderly, NEW t \in Active, NEW c \in Call, Becomes(t, c),
         c.want = req[t].want, req[t].pc # "insert",
         UNCHANGED <<cache, histVars>>, Writes(req[t].want), row' # row => c.pc = "insert",
         RowOfCall(c)', ProfileOfCall(c)'
  PROVE  Orderly'
<1>1. Wanted' = Wanted
  <2>1. \A u \in Requests : u \in Active' <=> u \in Active
    BY DEF Active, Becomes, Call, Idle
  <2>2. \A u \in Active : req'[u].want = req[u].want
    BY DEF Active, Becomes
  <2> QED BY <2>1, <2>2 DEF Wanted, Active, histVars
<1>2. OneWant'
  BY <1>1 DEF OneWant, Orderly
<1>3. \A u \in Requests : RowOfCall(req[u])' /\ ProfileOfCall(req[u])'
  <2>1. RowOfCall(req[t])' /\ ProfileOfCall(req[t])'
    BY DEF Becomes, RowOfCall, ProfileOfCall, Agrees
  <2> QED BY <2>1, OthersKeep DEF Orderly
<1>4. CacheBehind'
  BY <1>1, WantedByCall DEF CacheBehind, Writes, Orderly
<1>5. ShownIsRow'
  BY <1>1, WantedByCall DEF ShownIsRow
<1>6. Explained'
  <2> SUFFICES ASSUME NEW f \in Fields, NEW b \in Believed'
               PROVE  Agrees(b, f)' \/ \E w \in Wanted : profile'[f] = w[f]
    BY <1>1 DEF Explained
  <2>1. CASE profile'[f] = req[t].want[f]
    BY <2>1, WantedByCall
  <2>2. CASE profile'[f] # req[t].want[f]
    <3>1. profile'[f] = profile[f]
      BY <2>2 DEF Writes
    <3>2. CASE b \in Believed
      BY <3>1, <3>2 DEF Orderly, Explained, Agrees
    <3>3. CASE b \notin Believed
      <4>1. row' # row
        BY <3>3 DEF Believed
      <4>2. b = c.want /\ c.pc = "insert"
        BY <4>1 DEF Believed, Writes
      <4> QED BY <4>2 DEF ProfileOfCall, Agrees
    <3> QED BY <3>2, <3>3
  <2> QED BY <2>1, <2>2
<1> QED BY <1>2, <1>3, <1>4, <1>5, <1>6 DEF Orderly

(* A call that fails leaves its want to be repeated.                        *)
LEMMA FailOrderly ==
  ASSUME Shape, Orderly, ~muddled, NEW t \in Active, Fail(t), req[t].pc # "insert",
         Writes(req[t].want), UNCHANGED cache,
         NEW w, w = req[t].want, row' # row => \A f \in Fields : Agrees(w, f)'
  PROVE  Orderly'
<1>1. Becomes(t, Idle)
  BY EndBecomes DEF Shape
<1>2. Wanted' = Wanted
  <2>1. \A u \in Requests : u \in Active' <=> u \in Active /\ u # t
    BY <1>1 DEF Active, Becomes
  <2>2. \A u \in Requests \ {t} : req'[u].want = req[u].want
    BY <1>1 DEF Becomes
  <2>3. unmet' = unmet \union {req[t].want}
    BY DEF Fail
  <2>4. ASSUME NEW p PROVE p \in Wanted' <=> p \in Wanted
    BY <2>1, <2>2, <2>3 DEF Wanted, Active
  <2> QED BY <2>4
<1>3. OneWant'
  BY <1>2 DEF OneWant, Orderly
<1>4. \A u \in Requests : RowOfCall(req[u])' /\ ProfileOfCall(req[u])'
  <2>1. RowOfCall(req[t])' /\ ProfileOfCall(req[t])'
    BY <1>1 DEF Becomes, RowOfCall, ProfileOfCall, Idle
  <2> QED BY <1>1, <2>1, OthersKeep DEF Orderly
<1>5. CacheBehind'
  BY <1>2, WantedByCall DEF CacheBehind, Writes, Orderly
<1>6. ShownIsRow'
  BY <1>2, WantedByCall DEF ShownIsRow
<1>7. Explained'
  <2> SUFFICES ASSUME NEW f \in Fields, NEW b \in Believed'
               PROVE  Agrees(b, f)' \/ \E x \in Wanted : profile'[f] = x[f]
    BY <1>2 DEF Explained
  <2>1. CASE profile'[f] = req[t].want[f]
    BY <2>1, WantedByCall
  <2>2. CASE profile'[f] = profile[f] /\ b \in Believed
    BY <2>2 DEF Orderly, Explained, Agrees
  <2>3. CASE b \notin Believed
    <3>1. row' # row /\ b = w
      BY <2>3 DEF Believed, Writes
    <3> QED BY <3>1
  <2> QED BY <2>1, <2>2, <2>3 DEF Writes
<1> QED BY <1>3, <1>4, <1>5, <1>6, <1>7 DEF Orderly

(* A call that succeeds leaves its profile in the row and on the homeserver. *)
LEMMA SucceedOrderly ==
  ASSUME Shape, Orderly, ~muddled, NEW t \in Active, Succeed(t), UNCHANGED <<row, profile>>,
         row = {req[t].want}, \A f \in Fields : Agrees(req[t].want, f),
         cache' = row
  PROVE  Orderly'
<1>1. Becomes(t, Idle)
  BY EndBecomes DEF Shape
<1>2. Wanted' \subseteq Wanted
  <2>1. \A u \in Requests : u \in Active' => u \in Active /\ u # t
    BY <1>1 DEF Active, Becomes
  <2>2. \A u \in Requests \ {t} : req'[u].want = req[u].want
    BY <1>1 DEF Becomes
  <2>3. unmet' \subseteq unmet
    BY DEF Succeed
  <2> QED BY <2>1, <2>2, <2>3 DEF Wanted, Active
<1>3. OneWant'
  BY <1>2 DEF OneWant, Orderly
<1>4. \A u \in Requests : RowOfCall(req[u])' /\ ProfileOfCall(req[u])'
  <2>1. RowOfCall(req[t])' /\ ProfileOfCall(req[t])'
    BY <1>1 DEF Becomes, RowOfCall, ProfileOfCall, Idle
  <2>2. Writes(req[t].want)
    BY DEF Writes
  <2> QED BY <1>1, <2>1, <2>2, OthersKeep DEF Orderly
<1>5. CacheBehind'
  BY DEF CacheBehind
<1>6. ShownIsRow'
  BY DEF ShownIsRow, Succeed
<1>7. Explained'
  BY DEF Explained, Believed, Agrees
<1> QED BY <1>3, <1>4, <1>5, <1>6, <1>7 DEF Orderly

-----------------------------------------------------------------------------
(* One lemma for each action.                                               *)

LEMMA InitIInv == Init => IInv
<1> SUFFICES ASSUME Init PROVE IInv
  OBVIOUS
<1>1. Active = {} /\ Wanted = {}
  BY DEF Init, Active, Wanted
<1>2. TypeOK
  <2>1. Cardinality(row) <= 1 /\ Cardinality(cache) <= 1
    BY FS_EmptySet DEF Init
  <2>2. req \in [Requests -> Call \union {Idle}]
    BY DEF Init
  <2>3. faults \in 0..MaxFaults
    BY PuppetAssumption DEF Init
  <2> QED BY <2>1, <2>2, <2>3, BlankIsProfile DEF Init, TypeOK
<1>3. Accounts /\ Fresh /\ AtMostOne
  BY DEF Init, Accounts, Fresh, AtMostOne, Idle
<1>4. \A t \in Requests : RowOfCall(req[t]) /\ ProfileOfCall(req[t])
  BY DEF Init, RowOfCall, ProfileOfCall, Idle
<1>5. OneWant /\ CacheBehind /\ ShownIsRow
  BY <1>1 DEF Init, OneWant, CacheBehind, ShownIsRow
<1>6. Explained
  BY DEF Init, Explained, Believed, Agrees
<1> QED BY <1>2, <1>3, <1>4, <1>5, <1>6 DEF IInv, Shape, Orderly

LEMMA ArriveKeeps ==
  ASSUME IInv, NEW t \in Requests, NEW w \in Wants, Arrive(t, w)
  PROVE  IInv'
<1>1. w \in Profile
  BY PuppetAssumption
<1>2. PICK c : c = [pc |-> "cache", path |-> "new", want |-> w, base |-> Blank]
  OBVIOUS
<1>3. c \in Call
  BY <1>1, <1>2, BlankIsProfile DEF Call
<1>4. Becomes(t, c)
  BY <1>2, <1>3 DEF Arrive, Becomes, IInv, Shape, TypeOK
<1>5. t \notin Active /\ \A u \in Requests : u \in Active' <=> u \in Active \/ u = t
  BY <1>3, <1>4 DEF Arrive, Active, Becomes, Call, Idle
<1>6. Shape'
  <2>1. TypeOK'
    BY <1>4 DEF Arrive, Becomes, IInv, Shape, TypeOK, Muddle, histVars
  <2>2. Accounts' /\ Fresh' /\ AtMostOne'
    BY <1>2, <1>4 DEF Arrive, Becomes, IInv, Shape, Accounts, Fresh, AtMostOne
  <2> QED BY <2>1, <2>2 DEF Shape
<1>7. ASSUME ~muddled' PROVE Orderly'
  <2>1. UNCHANGED histVars /\ unmet \subseteq {w} /\ \A u \in Active : req[u].want = w
    BY <1>7 DEF Arrive, Muddle
  <2>2. Orderly
    BY <1>7, <2>1 DEF IInv, histVars
  <2>3. Wanted' = {w} /\ Wanted \subseteq {w}
    BY <1>2, <1>4, <1>5, <2>1 DEF Wanted, Active, Becomes, histVars
  <2>4. OneWant' /\ ShownIsRow'
    BY <2>3 DEF OneWant, ShownIsRow
  <2>5. ASSUME NEW u \in Requests PROVE RowOfCall(req[u])' /\ ProfileOfCall(req[u])'
    <3>1. CASE u = t
      BY <1>2, <1>4, <3>1 DEF Becomes, RowOfCall, ProfileOfCall
    <3>2. CASE u # t
      BY <1>4, <2>2, <3>2 DEF Arrive, Becomes, Orderly, RowOfCall, ProfileOfCall, Agrees
    <3> QED BY <3>1, <3>2
  <2>6. CacheBehind'
    BY <2>2, <2>3 DEF Arrive, CacheBehind, Orderly
  <2>7. Explained'
    BY <2>2, <2>3 DEF Arrive, Orderly, Explained, Believed, Agrees
  <2> QED BY <2>4, <2>5, <2>6, <2>7 DEF Orderly
<1> QED BY <1>6, <1>7 DEF IInv

LEMMA LookInCacheKeeps ==
  ASSUME IInv, NEW t \in Requests, LookInCache(t)
  PROVE  IInv'
<1>1. t \in Active /\ req[t] \in Call /\ req[t].pc = "cache"
  BY SlotTypes DEF LookInCache, At, IInv, Shape
<1>2. req[t].path = "new" /\ req[t].base = Blank
  BY <1>1 DEF IInv, Shape, Fresh
<1>3. CASE req[t].want \in cache /\ Succeed(t)
  <2>1. Becomes(t, Idle)
    BY <1>1, <1>3, EndBecomes DEF IInv, Shape
  <2>2. Shape'
    BY <1>1, <1>3, <2>1, StepShape DEF LookInCache, IInv, Shape, TypeOK, Accounts, NewAccounts, Idle
  <2>3. ASSUME ~muddled' PROVE Orderly'
    <3>1. ~muddled /\ Orderly
      BY <1>3, <2>3 DEF Succeed, IInv
    <3>2. cache = {req[t].want}
      BY <1>3 DEF IInv, Shape, AtMostOne
    <3>3. row = {req[t].want} /\ \A f \in Fields : Agrees(req[t].want, f)
      <4>1. row = {req[t].want}
        BY <1>1, <3>1, <3>2, WantedByCall DEF Orderly, CacheBehind
      <4>2. \A f \in Fields : Agrees(req[t].want, f)
        BY <1>1, <3>1, <4>1, WantedByCall DEF Orderly, Explained, Believed, Agrees
      <4> QED BY <4>1, <4>2
    <3> QED BY <1>1, <1>3, <3>1, <3>2, <3>3, SucceedOrderly DEF LookInCache, IInv
  <2> QED BY <2>2, <2>3 DEF IInv
<1>4. ASSUME NEW entry \in cache, UNCHANGED histVars,
             req' = [req EXCEPT ![t] = [@ EXCEPT !.pc = "name", !.path = "hit", !.base = entry]]
      PROVE  IInv'
  <2>1. entry \in Profile /\ registered
    BY <1>4 DEF IInv, Shape, TypeOK, Accounts
  <2>2. PICK c \in Call : MovesOn(t, c, "name", "hit", entry)
    BY <1>1, <1>4, <2>1, GoesBecomes DEF IInv, Shape, Stages
  <2>3. Shape'
    BY <1>1, <1>4, <2>1, <2>2, StepShape DEF LookInCache, MovesOn, IInv, Shape, TypeOK, NewAccounts
  <2>4. ASSUME ~muddled' PROVE Orderly'
    <3>1. ~muddled /\ Orderly
      BY <1>4, <2>4 DEF histVars, IInv
    <3>2. ASSUME NEW f \in Fields, entry[f] = req[t].want[f] PROVE Agrees(req[t].want, f)
      <4>1. CASE cache = row
        <5>1. Agrees(entry, f) \/ profile[f] = req[t].want[f]
          BY <1>1, <1>4, <3>1, <4>1, WantedByCall DEF Orderly, Explained, Believed
        <5> QED BY <3>2, <5>1 DEF Agrees
      <4>2. CASE row = {req[t].want}
        BY <1>1, <3>1, <4>2, WantedByCall DEF Orderly, Explained, Believed, Agrees
      <4>3. cache = row \/ row = {req[t].want}
        BY <1>1, <1>4, <3>1, WantedByCall DEF Orderly, CacheBehind
      <4> QED BY <4>1, <4>2, <4>3
    <3>3. RowOfCall(c)' /\ ProfileOfCall(c)'
      BY <2>2, <3>2 DEF LookInCache, MovesOn, RowOfCall, ProfileOfCall, Agrees
    <3>4. Writes(req[t].want)
      BY DEF LookInCache, Writes
    <3> QED BY <1>1, <1>4, <2>2, <3>1, <3>3, <3>4, WorkOrderly DEF LookInCache, MovesOn, IInv
  <2> QED BY <2>3, <2>4 DEF IInv
<1>5. CASE Goto(t, "find") /\ UNCHANGED histVars
  <2>1. PICK c \in Call : MovesOn(t, c, "find", "new", Blank)
    BY <1>1, <1>2, <1>5, GotoMoves DEF IInv, Shape, Stages
  <2>2. Shape'
    BY <1>1, <1>5, <2>1, StepShape DEF LookInCache, MovesOn, IInv, Shape, TypeOK, Accounts, NewAccounts
  <2>3. ASSUME ~muddled' PROVE Orderly'
    <3>1. RowOfCall(c)' /\ ProfileOfCall(c)'
      BY <2>1 DEF MovesOn, RowOfCall, ProfileOfCall
    <3>2. Writes(req[t].want)
      BY DEF LookInCache, Writes
    <3> QED BY <1>1, <1>5, <2>1, <2>3, <3>1, <3>2, WorkOrderly DEF LookInCache, MovesOn, IInv, histVars
  <2> QED BY <2>2, <2>3 DEF IInv
<1> QED BY <1>3, <1>4, <1>5 DEF LookInCache

(* A call that fails, at any of its awaits.                                 *)
LEMMA FailKeeps ==
  ASSUME IInv, NEW t \in Active, req[t].pc # "insert", Fail(t), Fault,
         registered' \in BOOLEAN, registered => registered', profile' \in Profile,
         Writes(req[t].want), UNCHANGED cache, NEW w, w = req[t].want,
         row' # row => registered /\ (~muddled => \A f \in Fields : Agrees(w, f)')
  PROVE  IInv'
<1>1. Becomes(t, Idle)
  BY EndBecomes DEF IInv, Shape
<1>2. NewAccounts
  BY DEF NewAccounts, IInv, Shape, TypeOK, Accounts
<1>3. Shape'
  BY <1>1, <1>2, StepShape DEF IInv, Idle, Writes
<1>4. ~muddled' => Orderly'
  BY FailOrderly DEF Fail, IInv
<1> QED BY <1>3, <1>4 DEF IInv

(* A call that goes on after the registration or a write.                   *)
LEMMA WorkKeeps ==
  ASSUME IInv, NEW t \in Active, req[t].pc # "insert",
         NEW c \in Call, Becomes(t, c), c.want = req[t].want, c.pc \notin {"cache", "find"},
         UNCHANGED <<cache, histVars, faults>>,
         registered' \in BOOLEAN, registered => registered', profile' \in Profile,
         Writes(req[t].want), row' # row => c.pc = "insert",
         c.pc \in {"name", "avatar", "upsert", "insert"} => registered',
         ~muddled /\ Orderly => RowOfCall(c)' /\ ProfileOfCall(c)'
  PROVE  IInv'
<1>1. NewAccounts
  BY DEF NewAccounts, IInv, Shape, TypeOK, Accounts
<1>2. row' \in {row, {req[t].want}}
  BY DEF Writes
<1>3. Shape'
  BY <1>1, <1>2, StepShape DEF IInv
<1>4. ~muddled' => Orderly'
  BY WorkOrderly DEF IInv, histVars
<1> QED BY <1>3, <1>4 DEF IInv

(* What a call relies on that has a base and has written nothing.           *)
LEMMA BaseRelied ==
  ASSUME NEW c, c.pc = "register" \/ c.pc = "name", profile' = profile, row' = row,
         c.path = "row" => row = {c.base} \/ row = {c.want},
         \A f \in Fields : c.base[f] = c.want[f] => Agrees(c.want, f)
  PROVE  RowOfCall(c)' /\ ProfileOfCall(c)'
<1>1. RowOfCall(c)'
  BY DEF RowOfCall
<1>2. \A f \in Fields : Agrees(c.want, f) => Agrees(c.want, f)'
  BY DEF Agrees
<1>3. ProfileOfCall(c)'
  BY <1>2 DEF ProfileOfCall
<1> QED BY <1>1, <1>3

LEMMA FindKeeps ==
  ASSUME IInv, NEW t \in Requests, Find(t)
  PROVE  IInv'
<1>1. t \in Active /\ req[t] \in Call /\ req[t].pc = "find"
  BY SlotTypes DEF Find, At, IInv, Shape
<1>2. req[t].path = "new" /\ req[t].base = Blank
  BY <1>1 DEF IInv, Shape, Fresh
<1>3. /\ Writes(req[t].want) /\ profile' \in Profile /\ registered' = registered /\ registered \in BOOLEAN
      /\ row' = row /\ cache' = cache /\ profile' = profile
  BY DEF Find, Writes, IInv, Shape, TypeOK
<1>4. ASSUME NEW p \in Believed, NEW f \in Fields, ~muddled, Orderly, p[f] = req[t].want[f]
      PROVE  Agrees(req[t].want, f)
  <2>1. Agrees(p, f) \/ profile[f] = req[t].want[f]
    BY <1>1, <1>4, WantedByCall DEF Orderly, Explained
  <2> QED BY <1>4, <2>1 DEF Agrees
<1>5. CASE row = {} /\ Goto(t, "register") /\ UNCHANGED <<histVars, faults>>
  <2>1. PICK c \in Call : MovesOn(t, c, "register", "new", Blank)
    BY <1>1, <1>2, <1>5, GotoMoves DEF IInv, Shape, Stages
  <2>2. ASSUME ~muddled, Orderly PROVE RowOfCall(c)' /\ ProfileOfCall(c)'
    <3>1. \A f \in Fields : c.base[f] = c.want[f] => Agrees(c.want, f)
      BY <1>4, <1>5, <2>1, <2>2 DEF MovesOn, Believed
    <3> QED BY <1>3, <2>1, <3>1, BaseRelied DEF MovesOn
  <2> QED BY <1>1, <1>3, <1>5, <2>1, <2>2, WorkKeeps DEF MovesOn
<1>6. ASSUME NEW p \in row, UNCHANGED <<histVars, faults>>,
             req' = [req EXCEPT ![t] = [@ EXCEPT !.pc = IF UsesDevice THEN "register" ELSE "name",
                                                 !.path = "row", !.base = p]]
      PROVE  IInv'
  <2>1. p \in Profile /\ registered
    BY <1>6 DEF IInv, Shape, TypeOK
  <2>2. PICK stage \in {"register", "name"} : stage = IF UsesDevice THEN "register" ELSE "name"
    OBVIOUS
  <2>3. PICK c \in Call : MovesOn(t, c, stage, "row", p)
    BY <1>1, <1>6, <2>1, <2>2, GoesBecomes DEF IInv, Shape, Stages
  <2>4. ASSUME ~muddled, Orderly PROVE RowOfCall(c)' /\ ProfileOfCall(c)'
    <3>1. p \in Believed /\ row = {p}
      BY <1>6 DEF Believed, IInv, Shape, AtMostOne
    <3>2. \A f \in Fields : c.base[f] = c.want[f] => Agrees(c.want, f)
      BY <1>4, <2>3, <2>4, <3>1 DEF MovesOn
    <3> QED BY <1>3, <2>2, <2>3, <3>1, <3>2, BaseRelied DEF MovesOn
  <2> QED BY <1>1, <1>3, <1>6, <2>1, <2>3, <2>4, WorkKeeps DEF MovesOn
<1>7. CASE Fault /\ Fail(t)
  BY <1>1, <1>3, <1>7, FailKeeps
<1> QED BY <1>5, <1>6, <1>7 DEF Find

LEMMA RegisterKeeps ==
  ASSUME IInv, NEW t \in Requests, Register(t)
  PROVE  IInv'
<1>1. t \in Active /\ req[t] \in Call /\ req[t].pc = "register"
  BY SlotTypes DEF Register, At, IInv, Shape
<1>2. /\ Writes(req[t].want) /\ profile' \in Profile /\ registered' \in BOOLEAN /\ (registered => registered')
      /\ row' = row /\ cache' = cache /\ profile' = profile
  <2>1. registered \in BOOLEAN /\ registered' \in {registered, TRUE}
    BY Zenon DEF Register, IInv, Shape, TypeOK
  <2>2. registered' \in BOOLEAN /\ (registered => registered')
    BY <2>1
  <2>3. Writes(req[t].want) /\ profile' \in Profile /\ row' = row /\ cache' = cache /\ profile' = profile
    BY DEF Register, Writes, IInv, Shape, TypeOK
  <2> QED BY <2>2, <2>3
<1>3. CASE registered' = TRUE /\ Goto(t, "name") /\ UNCHANGED <<histVars, faults>>
  <2>1. PICK c \in Call : MovesOn(t, c, "name", req[t].path, req[t].base)
    BY <1>1, <1>3, GotoMoves DEF IInv, Shape, Stages
  <2>2. ASSUME ~muddled, Orderly PROVE RowOfCall(c)' /\ ProfileOfCall(c)'
    <3>1. \A f \in Fields : req[t].base[f] = req[t].want[f] => Agrees(req[t].want, f)
      BY <1>1, <2>2 DEF Active, Orderly, ProfileOfCall
    <3>2. req[t].path = "row" => row = {req[t].base} \/ row = {req[t].want}
      BY <1>1, <2>2 DEF Active, Orderly, RowOfCall
    <3> QED BY <1>2, <2>1, <3>1, <3>2, BaseRelied DEF MovesOn
  <2> QED BY <1>1, <1>2, <1>3, <2>1, <2>2, WorkKeeps DEF MovesOn
<1>4. CASE Fault /\ Fail(t)
  BY <1>1, <1>2, <1>4, FailKeeps
<1> QED BY <1>3, <1>4 DEF Register

(* PUT of one field, done, refused or failed.                               *)
LEMMA PutKeeps ==
  ASSUME IInv, NEW t \in Active, NEW field \in Fields, NEW after \in {"avatar", "upsert"},
         req[t].pc = field, field = "avatar" => after = "upsert", field = "name" => after = "avatar",
         Put(t, field, after), UNCHANGED <<registered, row, cache>>
  PROVE  IInv'
<1>1. req[t] \in Call /\ req[t].want \in Profile /\ t \in Requests /\ req[t].pc \in {"name", "avatar"}
  BY SlotTypes DEF Active, IInv, Shape, Call, Fields
<1>2. registered /\ registered' /\ registered' \in BOOLEAN
  BY <1>1 DEF IInv, Shape, TypeOK, Accounts
<1>3. profile \in Profile /\ [profile EXCEPT ![field] = req[t].want[field]] \in Profile
  BY <1>1 DEF IInv, Shape, TypeOK, Profile, Fields
<1>4. /\ profile' \in {profile, [profile EXCEPT ![field] = req[t].want[field]]} => Writes(req[t].want)
      /\ profile' = [profile EXCEPT ![field] = req[t].want[field]] =>
           profile'[field] = req[t].want[field] /\ \A f \in Fields : f # field => profile'[f] = profile[f]
  BY <1>3 DEF Writes, Profile, Fields
<1>5. CASE /\ profile' = [profile EXCEPT ![field] = req[t].want[field]]
           /\ Goto(t, after)
           /\ UNCHANGED <<histVars, faults>>
  <2>1. PICK c \in Call : MovesOn(t, c, after, req[t].path, req[t].base)
    BY <1>5, GotoMoves DEF IInv, Shape, Stages
  <2>2. ASSUME ~muddled, Orderly PROVE RowOfCall(c)' /\ ProfileOfCall(c)'
    <3>1. RowOfCall(req[t]) /\ ProfileOfCall(req[t])
      BY <1>1, <2>2 DEF Orderly
    <3>2. RowOfCall(c)'
      BY <1>1, <2>1, <3>1 DEF MovesOn, RowOfCall, Fields
    <3>3. Agrees(c.want, field)'
      BY <1>4, <1>5, <2>1 DEF MovesOn, Agrees
    <3>4. ASSUME NEW f \in Fields, Agrees(c.want, f) PROVE Agrees(c.want, f)'
      BY <1>4, <1>5, <2>1, <3>4 DEF MovesOn, Agrees
    <3>5. ProfileOfCall(c)'
      <4>1. CASE field = "name"
        <5>1. c.pc = "avatar" /\ req[t].pc = "name"
          BY <2>1, <4>1 DEF MovesOn
        <5>2. \A f \in Fields : c.base[f] = c.want[f] => Agrees(c.want, f)'
          BY <2>1, <3>1, <3>4, <5>1 DEF MovesOn, ProfileOfCall
        <5> QED BY <3>3, <4>1, <5>1, <5>2 DEF ProfileOfCall
      <4>2. CASE field = "avatar"
        <5>1. c.pc = "upsert" /\ req[t].pc = "avatar"
          BY <2>1, <4>2 DEF MovesOn
        <5>2. Agrees(c.want, "name")'
          BY <2>1, <3>1, <3>4, <5>1 DEF MovesOn, ProfileOfCall, Fields
        <5> QED BY <3>3, <4>2, <5>1, <5>2 DEF ProfileOfCall, Fields
      <4> QED BY <4>1, <4>2 DEF Fields
    <3> QED BY <3>2, <3>5
  <2> QED BY <1>1, <1>2, <1>3, <1>4, <1>5, <2>1, <2>2, WorkKeeps DEF MovesOn
<1>6. CASE Fault /\ Goto(t, after) /\ Muddle /\ UNCHANGED profile
  <2>1. PICK c \in Call : MovesOn(t, c, after, req[t].path, req[t].base)
    BY <1>6, GotoMoves DEF IInv, Shape, Stages
  <2>2. NewAccounts
    BY <1>2 DEF NewAccounts
  <2>3. Shape'
    BY <1>2, <1>3, <1>6, <2>1, <2>2, StepShape DEF MovesOn, IInv
  <2> QED BY <1>6, <2>3 DEF Muddle, IInv
<1>7. CASE /\ profile' \in {profile, [profile EXCEPT ![field] = req[t].want[field]]}
           /\ Fault
           /\ Fail(t)
  BY <1>1, <1>2, <1>3, <1>4, <1>7, FailKeeps
<1> QED BY <1>5, <1>6, <1>7 DEF Put

LEMMA SetNameKeeps ==
  ASSUME IInv, NEW t \in Requests, SetName(t)
  PROVE  IInv'
<1>1. t \in Active /\ req[t].pc = "name"
  BY SlotTypes DEF SetName, At, IInv, Shape
<1>2. CASE Put(t, "name", "avatar")
  BY <1>1, <1>2, PutKeeps DEF SetName, Fields
<1>3. CASE ~Changes(t, "name") /\ Goto(t, "avatar") /\ UNCHANGED <<profile, histVars, faults>>
  <2>1. PICK c \in Call : MovesOn(t, c, "avatar", req[t].path, req[t].base)
    BY <1>1, <1>3, GotoMoves DEF IInv, Shape, Stages
  <2>2. registered /\ registered' = registered /\ registered \in BOOLEAN /\ profile \in Profile
    BY <1>1 DEF SetName, IInv, Shape, TypeOK, Accounts
  <2>3. ASSUME ~muddled, Orderly PROVE RowOfCall(c)' /\ ProfileOfCall(c)'
    <3>1. RowOfCall(req[t]) /\ ProfileOfCall(req[t])
      BY <2>3 DEF Orderly
    <3>2. RowOfCall(c)'
      BY <1>1, <2>1, <3>1 DEF SetName, MovesOn, RowOfCall
    <3>3. \A f \in Fields : c.base[f] = c.want[f] => Agrees(c.want, f)'
      BY <1>1, <1>3, <2>1, <3>1 DEF MovesOn, ProfileOfCall, Agrees
    <3>4. c.base["name"] = c.want["name"]
      BY <1>3, <2>1 DEF Changes, MovesOn
    <3> QED BY <2>1, <3>2, <3>3, <3>4 DEF MovesOn, ProfileOfCall, Fields
  <2>4. Writes(req[t].want)
    BY <1>3 DEF SetName, Writes
  <2> QED BY <1>1, <1>3, <2>1, <2>2, <2>3, <2>4, WorkKeeps DEF SetName, MovesOn
<1> QED BY <1>2, <1>3 DEF SetName

LEMMA SetAvatarKeeps ==
  ASSUME IInv, NEW t \in Requests, SetAvatar(t)
  PROVE  IInv'
<1>1. t \in Active /\ req[t] \in Call /\ req[t].pc = "avatar"
  BY SlotTypes DEF SetAvatar, At, IInv, Shape
<1>2. CASE Put(t, "avatar", "upsert")
  BY <1>1, <1>2, PutKeeps DEF SetAvatar, Fields
<1>3. CASE /\ ~Changes(t, "avatar") \/ Rejected(t)
           /\ Goto(t, AfterAvatar(t))
           /\ UNCHANGED <<profile, histVars, faults>>
  <2>1. PICK after \in {"insert", "upsert"} : after = AfterAvatar(t)
    BY DEF AfterAvatar
  <2>2. PICK c \in Call : MovesOn(t, c, after, req[t].path, req[t].base)
    BY <1>1, <1>3, <2>1, GotoMoves DEF IInv, Shape, Stages
  <2>3. registered /\ registered' = registered /\ registered \in BOOLEAN /\ profile \in Profile
    BY <1>1 DEF SetAvatar, IInv, Shape, TypeOK, Accounts
  <2>4. ASSUME ~muddled, Orderly PROVE RowOfCall(c)' /\ ProfileOfCall(c)'
    <3>1. RowOfCall(req[t]) /\ ProfileOfCall(req[t])
      BY <2>4 DEF Orderly
    <3>2. RowOfCall(c)'
      <4>1. ASSUME after = "insert" PROVE row = {req[t].want}
        <5>1. req[t].path = "row" /\ req[t].base.name = req[t].want.name /\ req[t].base.avatar = req[t].want.avatar
          BY <2>1, <4>1 DEF AfterAvatar, Changes
        <5>2. req[t].base = req[t].want
          BY <1>1, <5>1 DEF Call, Profile
        <5> QED BY <1>1, <3>1, <5>1, <5>2 DEF RowOfCall
      <4> QED BY <2>1, <2>2, <4>1 DEF SetAvatar, MovesOn, RowOfCall
    <3>3. Agrees(req[t].want, "name")
      BY <1>1, <3>1 DEF ProfileOfCall
    <3>4. Agrees(req[t].want, "avatar")
      <4>1. CASE ~Changes(t, "avatar")
        BY <1>1, <3>1, <4>1 DEF ProfileOfCall, Changes, Fields
      <4>2. CASE Rejected(t)
        BY <4>2 DEF Agrees, Rejected
      <4> QED BY <1>3, <4>1, <4>2
    <3>5. \A f \in Fields : Agrees(c.want, f)'
      BY <1>3, <2>2, <3>3, <3>4 DEF MovesOn, Agrees, Fields
    <3>6. ProfileOfCall(c)'
      BY <2>1, <2>2, <3>5 DEF MovesOn, ProfileOfCall
    <3> QED BY <3>2, <3>6
  <2>5. Writes(req[t].want)
    BY <1>3 DEF SetAvatar, Writes
  <2> QED BY <1>1, <1>3, <2>1, <2>2, <2>3, <2>4, <2>5, WorkKeeps DEF SetAvatar, MovesOn
<1> QED BY <1>2, <1>3 DEF SetAvatar

LEMMA UpsertKeeps ==
  ASSUME IInv, NEW t \in Requests, Upsert(t)
  PROVE  IInv'
<1>1. t \in Active /\ req[t] \in Call /\ req[t].pc = "upsert"
  BY SlotTypes DEF Upsert, At, IInv, Shape
<1>2. registered /\ registered' = registered /\ registered \in BOOLEAN /\ profile' = profile /\ profile \in Profile
  BY <1>1 DEF Upsert, IInv, Shape, TypeOK, Accounts
<1>3. CASE row' = {req[t].want} /\ Goto(t, "insert") /\ UNCHANGED <<histVars, faults>>
  <2>1. PICK c \in Call : MovesOn(t, c, "insert", req[t].path, req[t].base)
    BY <1>1, <1>3, GotoMoves DEF IInv, Shape, Stages
  <2>2. ASSUME ~muddled, Orderly PROVE RowOfCall(c)' /\ ProfileOfCall(c)'
    <3>1. \A f \in Fields : Agrees(req[t].want, f)
      BY <1>1, <2>2 DEF Orderly, ProfileOfCall
    <3>2. \A f \in Fields : Agrees(c.want, f)'
      BY <1>2, <2>1, <3>1 DEF MovesOn, Agrees
    <3>3. RowOfCall(c)'
      BY <1>3, <2>1 DEF MovesOn, RowOfCall
    <3> QED BY <2>1, <3>2, <3>3 DEF MovesOn, ProfileOfCall
  <2>3. Writes(req[t].want)
    BY <1>2, <1>3 DEF Writes
  <2> QED BY <1>1, <1>2, <1>3, <2>1, <2>2, <2>3, WorkKeeps DEF Upsert, MovesOn
<1>4. CASE row' \in {row, {req[t].want}} /\ Fault /\ Fail(t)
  <2>1. Writes(req[t].want)
    BY <1>2, <1>4 DEF Writes
  <2>2. PICK w : w = req[t].want
    OBVIOUS
  <2>3. ~muddled => \A f \in Fields : Agrees(w, f)'
    BY <1>1, <1>2, <2>2 DEF IInv, Orderly, ProfileOfCall, Agrees
  <2> QED BY <1>1, <1>2, <1>4, <2>1, <2>2, <2>3, FailKeeps DEF Upsert
<1> QED BY <1>3, <1>4 DEF Upsert

LEMMA InsertKeeps ==
  ASSUME IInv, NEW t \in Requests, Insert(t)
  PROVE  IInv'
<1>1. t \in Active /\ req[t] \in Call /\ req[t].pc = "insert"
  BY SlotTypes DEF Insert, At, IInv, Shape
<1>2. registered /\ registered' = registered /\ registered \in BOOLEAN /\ profile' = profile /\ profile \in Profile
  BY <1>1 DEF Insert, IInv, Shape, TypeOK, Accounts
<1>3. Becomes(t, Idle)
  BY <1>1, EndBecomes DEF Insert, IInv, Shape
<1>4. Shape'
  <2>1. NewAccounts /\ Idle \in Call \union {Idle} /\ Idle.pc = "idle"
    BY <1>2 DEF NewAccounts, Idle
  <2> QED BY <1>1, <1>2, <1>3, <2>1, StepShape DEF Insert, IInv
<1>5. ASSUME ~muddled' PROVE Orderly'
  <2>1. ~muddled /\ Orderly
    BY <1>5 DEF Insert, Succeed, IInv
  <2>2. row = {req[t].want} /\ \A f \in Fields : Agrees(req[t].want, f)
    BY <1>1, <2>1 DEF Orderly, RowOfCall, ProfileOfCall
  <2> QED BY <1>1, <2>1, <2>2, SucceedOrderly DEF Insert, IInv
<1> QED BY <1>4, <1>5 DEF IInv

LEMMA DropKeeps ==
  ASSUME IInv, NEW t \in Requests, Drop(t)
  PROVE  IInv'
<1>1. t \in Active /\ req[t].pc # "insert"
  BY DEF Drop, At
<1>2. registered' = registered /\ registered \in BOOLEAN /\ profile' = profile /\ profile \in Profile
  BY DEF Drop, IInv, Shape, TypeOK
<1>3. Writes(req[t].want)
  BY <1>2 DEF Drop, Writes
<1> QED BY <1>1, <1>2, <1>3, FailKeeps DEF Drop

LEMMA CrashKeeps ==
  ASSUME IInv, Crash
  PROVE  IInv'
<1>1. \A t \in Requests : req'[t] = Idle
  BY DEF Crash
<1>2. Active' = {}
  BY <1>1 DEF Active
<1>3. Shape'
  <2>1. Cardinality(cache') <= 1
    BY FS_EmptySet DEF Crash
  <2>2. \A t \in Active : req[t].want \in Profile
    BY SlotTypes DEF IInv, Shape, Active, Call
  <2>3. unmet' \subseteq Profile
    BY <2>2 DEF Crash, IInv, Shape, TypeOK
  <2>4. req' \in [Requests -> Call \union {Idle}]
    BY DEF Crash
  <2>5. faults' \in 0..MaxFaults
    BY PuppetAssumption DEF Crash, Fault, IInv, Shape, TypeOK
  <2>6. TypeOK'
    BY <2>1, <2>3, <2>4, <2>5 DEF Crash, IInv, Shape, TypeOK
  <2>7. Accounts' /\ Fresh' /\ AtMostOne'
    BY <1>1 DEF Crash, IInv, Shape, Accounts, Fresh, AtMostOne, Idle
  <2> QED BY <2>6, <2>7 DEF Shape
<1>4. ASSUME ~muddled' PROVE Orderly'
  <2>1. ~muddled /\ Orderly
    BY <1>4 DEF Crash, IInv
  <2>2. Wanted' = Wanted
    BY <1>2, <2>1 DEF Crash, Wanted
  <2>3. OneWant' /\ ShownIsRow'
    BY <2>1, <2>2 DEF Crash, Orderly, OneWant, ShownIsRow
  <2>4. \A t \in Requests : RowOfCall(req[t])' /\ ProfileOfCall(req[t])'
    BY <1>1 DEF RowOfCall, ProfileOfCall, Idle
  <2>5. CacheBehind'
    BY DEF Crash, CacheBehind
  <2>6. Explained'
    BY <2>1, <2>2 DEF Crash, Orderly, Explained, Believed, Agrees
  <2> QED BY <2>3, <2>4, <2>5, <2>6 DEF Orderly
<1> QED BY <1>3, <1>4 DEF IInv

-----------------------------------------------------------------------------
LEMMA Inductive == IInv /\ [Next]_vars => IInv'
<1> SUFFICES ASSUME IInv, [Next]_vars PROVE IInv'
  OBVIOUS
<1>1. ASSUME NEW t \in Requests, Handle(t) PROVE IInv'
  BY <1>1, LookInCacheKeeps, FindKeeps, RegisterKeeps, SetNameKeeps, SetAvatarKeeps, UpsertKeeps,
     InsertKeeps DEF Handle
<1>2. ASSUME NEW t \in Requests, Drop(t) \/ \E w \in Wants : Arrive(t, w) PROVE IInv'
  BY <1>2, DropKeeps, ArriveKeeps
<1>3. CASE Crash
  BY <1>3, CrashKeeps
<1>4. CASE UNCHANGED vars
  <2>1. Active' = Active /\ Wanted' = Wanted /\ Believed' = Believed
    BY <1>4 DEF vars, histVars, Active, Wanted, Believed
  <2>2. Shape'
    BY <1>4 DEF vars, histVars, IInv, Shape, TypeOK, Accounts, Fresh, AtMostOne
  <2>3. ASSUME Orderly PROVE Orderly'
    <3>1. OneWant' /\ ShownIsRow' /\ CacheBehind'
      BY <1>4, <2>1, <2>3 DEF vars, histVars, Orderly, OneWant, ShownIsRow, CacheBehind, At
    <3>2. \A t \in Requests : RowOfCall(req[t])' /\ ProfileOfCall(req[t])'
      BY <1>4, <2>3 DEF vars, Orderly, RowOfCall, ProfileOfCall, Agrees
    <3>3. Explained'
      BY <1>4, <2>1, <2>3 DEF vars, Orderly, Explained, Agrees
    <3> QED BY <3>1, <3>2, <3>3 DEF Orderly
  <2> QED BY <1>4, <2>2, <2>3 DEF vars, histVars, IInv
<1> QED BY <1>1, <1>2, <1>3, <1>4 DEF Next

LEMMA Invariant == Spec => []IInv
<1> QED BY InitIInv, Inductive, PTL DEF Spec

(* The puppet's account, row, cache entry and calls are well-formed; in     *)
(* particular a puppet with a row is registered, whatever failed.           *)
THEOREM TypeCorrect == Spec => []TypeOK
<1>1. IInv => TypeOK
  BY DEF IInv, Shape
<1> QED BY Invariant, <1>1, PTL

(* Once every request that failed has been repeated with success, the       *)
(* cache's entry is the row again, also after an upsert_puppet that failed  *)
(* with the row written.                                                    *)
THEOREM CacheAgrees == Spec => []CacheIsRow
<1>1. IInv => CacheIsRow
  <2> SUFFICES ASSUME IInv, ~muddled, Active = {}, unmet = {}, cache # {} PROVE cache = row
    BY DEF CacheIsRow
  <2>1. Wanted = {}
    BY DEF Wanted
  <2> QED BY <2>1 DEF IInv, Orderly, CacheBehind
<1> QED BY Invariant, <1>1, PTL

(* Repeating the requests that failed repairs what they left half-done.     *)
THEOREM RetriesRepair == Spec => []RetryRepairs
<1>1. IInv => RetryRepairs
  <2> SUFFICES ASSUME IInv, ~muddled, Active = {}, unmet = {}, NEW p \in shown
               PROVE  /\ profile.name = p.name
                      /\ p.avatar \notin Avatars \ Valid => profile.avatar = p.avatar
    BY DEF RetryRepairs
  <2>1. Wanted = {}
    BY DEF Wanted
  <2>2. p \in Believed
    BY <2>1 DEF IInv, Orderly, ShownIsRow, Believed
  <2>3. Agrees(p, "name") /\ Agrees(p, "avatar")
    BY <2>1, <2>2 DEF IInv, Orderly, Explained, Fields
  <2> QED BY <2>3 DEF Agrees
<1> QED BY Invariant, <1>1, PTL
=============================================================================
