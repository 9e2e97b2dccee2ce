------------------------------ MODULE AccessProofs ------------------------------
(***************************************************************************)
(* Proofs about Access, for any users, permissions, rooms and workers, and *)
(* any number of events, changes and faults: what is done was warranted.   *)
(* The argument: while a worker handles an event, its history covers the   *)
(* room's present links and its sender's present level, so that whatever a *)
(* step reads now is in the history; and a worker only reaches a stage     *)
(* with what the stage takes for granted.                                  *)
(***************************************************************************)
EXTENDS Access, TLAPS

JobTypes(j) ==
  /\ j \in [pc: Stages, event: {j.event}, mapped: {j.mapped}, id: {j.id}, seen: {j.seen}, bare: BOOLEAN,
            best: Int]
  /\ j.event.room \in MatrixRooms /\ j.event.sender \in Senders

(* The history covers mappings R and levels P.                              *)
Covers(j, R, P) ==
  /\ LinkedTo(R, j.event.room) \subseteq j.seen
  /\ LinkedTo(R, j.event.room) = {} => j.bare
  /\ P[j.event.room][j.event.sender] <= j.best

(* An event e of a sender whose highest level is best may be forwarded.     *)
LevelOK(e, best, C) ==
  e.kind \in FollowUps \/ e.sender \in Puppets \/ C.floor <= 0 \/ best >= C.floor

(* What a stage takes for granted, under permissions C.                     *)
MayGoOn(j, C) ==
  /\ j.pc \in {"route", "floor", "forward", "targets", "follow"} =>
       j.event.kind \notin {"link", "unlink"}
  /\ j.pc \in {"floor", "forward"} => j.mapped \subseteq j.seen
  /\ j.pc \in {"forward", "targets", "follow"} => LevelOK(j.event, j.best, C)
  /\ j.pc = "command" => j.bare
  /\ j.pc \in {"link", "find", "unlink"} => j.best >= Moderator

Warranted(j, C) == JobTypes(j) /\ MayGoOn(j, C)

WorkersOK ==
  /\ worker = [w \in Workers |-> worker[w]]
  /\ \A w \in Workers : worker[w] = Idle \/
       (Warranted(worker[w], config) /\ Covers(worker[w], rooms, power))

PowerType == power \in [MatrixRooms -> [Senders -> Int]]

IInv ==
  /\ PowerType /\ config \in Permissions
  /\ WorkersOK
  /\ DeedsWarranted /\ CommandOrMessage

-----------------------------------------------------------------------------
LEMMA PermissionFacts ==
  ASSUME NEW s, config \in Permissions, PermissionLevel(s) >= Admin
  PROVE  config.admin \union config.relay # {} => \E pattern \in config.admin : s \in pattern
<1>1. CASE config.admin = {} /\ config.relay = {}
  BY <1>1
<1>2. CASE Matches(s, config.admin)
  BY <1>2 DEF Matches
<1>3. CASE ~(config.admin = {} /\ config.relay = {}) /\ ~Matches(s, config.admin)
  BY <1>3 DEF PermissionLevel, Admin, Relay, NoAccess
<1> QED BY <1>1, <1>2, <1>3

LEMMA InputFacts ==
  ASSUME NEW e \in Inputs
  PROVE  e.room \in MatrixRooms /\ e.sender \in Senders
<1>1. PICK s \in Senders, r \in MatrixRooms :
        e \in Talk(s, r) \union PlatformTexts(s, r) \union LinkTexts(s, r) \union Invitations(s, r)
  BY DEF Inputs
<1>2. e \in Talk(s, r) => e.room = r /\ e.sender = s
  BY DEF Talk, Plain
<1>3. e \in PlatformTexts(s, r) => e.room = r /\ e.sender = s
  BY DEF PlatformTexts, Plain
<1>4. e \in LinkTexts(s, r) => e.room = r /\ e.sender = s
  BY DEF LinkTexts
<1>5. e \in Invitations(s, r) => e.room = r /\ e.sender = s
  BY DEF Invitations, Plain
<1> QED BY <1>1, <1>2, <1>3, <1>4, <1>5

LEMMA LevelsAreNumbers == Levels \union {0} \subseteq Int /\ Moderator \in Int /\ Moderator > 0
BY AccessAssumption DEF Moderator

(* A level above 0 that a worker sees was its sender's.                     *)
LEMMA SeenLevel ==
  ASSUME PowerType, NEW j, JobTypes(j), Covers(j, rooms, power), NEW level \in Levels \union {0},
         SeesPower(j.event, level), NEW floor \in Int, floor > 0, ~(level < floor)
  PROVE  j.best >= floor
<1>1. power[j.event.room][j.event.sender] \in Int /\ j.best \in Int /\ level \in Int
  BY LevelsAreNumbers DEF PowerType, JobTypes
<1> QED BY <1>1 DEF SeesPower, Covers

LEMMA AtStage ==
  ASSUME WorkersOK, NEW w \in Workers, worker[w].pc # "idle"
  PROVE  Warranted(worker[w], config) /\ Covers(worker[w], rooms, power)
BY DEF WorkersOK, Idle

-----------------------------------------------------------------------------
(* Workers go on.                                                           *)

(* w goes on as j while mappings and levels stay.                           *)
LEMMA StepKeepsWorkers ==
  ASSUME WorkersOK, config' = config, NEW w \in Workers, NEW j, worker' = [worker EXCEPT ![w] = j],
         rooms' = rooms, power' = power,
         j = Idle \/ (Warranted(j, config) /\ Covers(j, rooms, power))
  PROVE  WorkersOK'
<1>1. \A v \in Workers : worker'[v] = IF v = w THEN j ELSE worker[v]
  BY DEF WorkersOK
<1>2. worker' = [v \in Workers |-> worker'[v]]
  BY DEF WorkersOK
<1>3. ASSUME NEW v \in Workers
      PROVE  worker'[v] = Idle \/
               (Warranted(worker'[v], config') /\ Covers(worker'[v], rooms', power'))
  <2>1. CASE v = w
    BY <1>1, <2>1
  <2>2. CASE v # w
    BY <1>1, <2>2 DEF WorkersOK
  <2> QED BY <2>1, <2>2
<1> QED BY <1>2, <1>3 DEF WorkersOK

LEMMA WatchOne ==
  ASSUME NEW j, NEW R, NEW P, NEW C \in Permissions, Warranted(j, C),
         P \in [MatrixRooms -> [Senders -> Int]], NEW k,
         k = LET linked == LinkedTo(R, j.event.room)
                 level == P[j.event.room][j.event.sender]
             IN  [j EXCEPT !.seen = @ \union linked, !.bare = @ \/ linked = {},
                           !.best = IF level > @ THEN level ELSE @]
  PROVE  Warranted(k, C) /\ Covers(k, R, P)
<1>1. PICK linked, level : linked = LinkedTo(R, j.event.room) /\ level = P[j.event.room][j.event.sender]
  OBVIOUS
<1>2. JobTypes(j)
  BY DEF Warranted
<1>3. PICK bare, best : bare \in BOOLEAN /\ bare = (j.bare \/ linked = {}) /\ best = IF level > j.best THEN level ELSE j.best
  OBVIOUS
<1>4. k = [j EXCEPT !.seen = j.seen \union linked, !.bare = bare, !.best = best]
  BY <1>1, <1>3
<1>6. level \in Int /\ best \in Int /\ best >= level /\ best >= j.best /\ j.best \in Int
  BY <1>1, <1>2, <1>3 DEF JobTypes
<1>7. /\ k.pc = j.pc /\ k.event = j.event /\ k.mapped = j.mapped /\ k.id = j.id
      /\ k.seen = j.seen \union linked /\ k.bare = bare /\ k.best = best
  BY <1>2, <1>4 DEF JobTypes
<1>8. JobTypes(k)
  BY <1>2, <1>4, <1>6, <1>7 DEF JobTypes
<1>10. MayGoOn(k, C)
  <2>1. k.best >= Moderator \/ ~(j.best >= Moderator)
    BY <1>6, <1>7, LevelsAreNumbers
  <2>2. LevelOK(j.event, j.best, C) => LevelOK(k.event, k.best, C)
    BY <1>6, <1>7 DEF Permissions, LevelOK
  <2>3. j.bare => k.bare
    BY <1>3, <1>7
  <2> QED BY <1>7, <2>1, <2>2, <2>3 DEF Warranted, MayGoOn
<1>11. Covers(k, R, P)
  BY <1>1, <1>3, <1>6, <1>7 DEF Covers
<1> QED BY <1>8, <1>10, <1>11 DEF Warranted

(* Workers that go on from W and see the mappings and levels as they become. *)
LEMMA WatchKeepsWorkers ==
  ASSUME config' = config, config \in Permissions, PowerType', NEW W,
         \A w \in Workers : W[w] = Idle \/ Warranted(W[w], config),
         worker' = Watch(W, rooms', power')
  PROVE  WorkersOK'
<1>1. worker' = [w \in Workers |-> worker'[w]]
  BY DEF Watch
<1>2. ASSUME NEW w \in Workers
      PROVE  worker'[w] = Idle \/
               (Warranted(worker'[w], config') /\ Covers(worker'[w], rooms', power'))
  <2>1. CASE W[w] = Idle
    BY <2>1 DEF Watch
  <2>2. CASE W[w] # Idle
    <3>1. Warranted(W[w], config)
      BY <2>2
    <3>2. worker'[w] = LET linked == LinkedTo(rooms', W[w].event.room)
                           level == power'[W[w].event.room][W[w].event.sender]
                       IN  [W[w] EXCEPT !.seen = @ \union linked, !.bare = @ \/ linked = {},
                                        !.best = IF level > @ THEN level ELSE @]
      BY <2>2 DEF Watch
    <3>3. Warranted(worker'[w], config) /\ Covers(worker'[w], rooms', power')
      <4>1. power' \in [MatrixRooms -> [Senders -> Int]]
        BY DEF PowerType
      <4> QED BY <3>1, <3>2, <4>1, WatchOne
    <3> QED BY <3>3
  <2> QED BY <2>1, <2>2
<1> QED BY <1>1, <1>2 DEF WorkersOK

(* The workers go on watching while none of them takes a step.              *)
LEMMA OthersKeepWorkers ==
  ASSUME WorkersOK, config' = config, config \in Permissions, PowerType', worker' = Watch(worker, rooms', power')
  PROVE  WorkersOK'
<1>1. \A w \in Workers : worker[w] = Idle \/ Warranted(worker[w], config)
  BY DEF WorkersOK
<1> QED BY <1>1, WatchKeepsWorkers

(* w goes on as j while mappings or levels change.                          *)
LEMMA WatchedStepKeepsWorkers ==
  ASSUME WorkersOK, config' = config, config \in Permissions, PowerType', NEW w \in Workers, NEW j,
         worker' = Watch([worker EXCEPT ![w] = j], rooms', power'),
         j = Idle \/ Warranted(j, config)
  PROVE  WorkersOK'
<1>1. \A v \in Workers : [worker EXCEPT ![w] = j][v] = IF v = w THEN j ELSE worker[v]
  BY DEF WorkersOK
<1>2. ASSUME NEW v \in Workers
      PROVE  [worker EXCEPT ![w] = j][v] = Idle \/
               Warranted([worker EXCEPT ![w] = j][v], config)
  <2>1. CASE v = w
    BY <1>1, <2>1
  <2>2. CASE v # w
    BY <1>1, <2>2 DEF WorkersOK
  <2> QED BY <2>1, <2>2
<1> QED BY <1>2, WatchKeepsWorkers

(* j goes on to another stage.                                              *)
LEMMA StageChanges ==
  ASSUME NEW j, JobTypes(j), NEW k,
         NEW s \in Stages, k = [j EXCEPT !.pc = s]
  PROVE  /\ k.pc = s /\ k.event = j.event /\ k.mapped = j.mapped /\ k.id = j.id
         /\ k.seen = j.seen /\ k.bare = j.bare /\ k.best = j.best
         /\ JobTypes(k)
<1>1. /\ k.pc = s /\ k.event = j.event /\ k.mapped = j.mapped /\ k.id = j.id
      /\ k.seen = j.seen /\ k.bare = j.bare /\ k.best = j.best
  BY DEF JobTypes
<1> QED BY <1>1 DEF JobTypes

-----------------------------------------------------------------------------
(* Deeds.                                                                   *)

DeedOK(d, C) ==
  /\ d.what = "forward" => d.to \in d.seen /\ LevelOK(d.event, d.best, C)
  /\ d.what \in {"link", "unlink"} => d.best >= Moderator
  /\ d.what \in {"answer", "pass"} =>
       d.bare /\ (C.admin \union C.relay # {} => \E pattern \in C.admin : d.event.sender \in pattern)
  /\ d.what = "forward" => d.event.kind \notin {"link", "unlink"}

LEMMA DeedsOK == DeedsWarranted /\ CommandOrMessage <=> \A d \in deeds : DeedOK(d, config)
BY DEF DeedsWarranted, CommandOrMessage, DeedOK, LevelOK

LEMMA DeedsStayOK ==
  ASSUME DeedsWarranted, CommandOrMessage, config' = config,
         \A d \in deeds' : d \in deeds \/ DeedOK(d, config)
  PROVE  DeedsWarranted' /\ CommandOrMessage'
<1>1. \A d \in deeds' : DeedOK(d, config)
  BY DeedsOK
<1> QED BY <1>1 DEF DeedsWarranted, CommandOrMessage, DeedOK, LevelOK

-----------------------------------------------------------------------------
(* The steps.                                                               *)

LEMMA InitHolds == Init => IInv
<1> SUFFICES ASSUME Init PROVE IInv
  OBVIOUS
<1>1. PowerType
  <2>1. PICK trusted : power = [r \in MatrixRooms |-> [s \in Senders |-> IF s \in trusted[r] THEN 50 ELSE 0]]
    BY DEF Init
  <2> QED BY <2>1 DEF PowerType
<1>2. config \in Permissions
  BY AccessAssumption DEF Init
<1>3. WorkersOK
  BY DEF Init, WorkersOK
<1>4. DeedsWarranted /\ CommandOrMessage
  BY DEF Init, DeedsWarranted, CommandOrMessage
<1> QED BY <1>1, <1>2, <1>3, <1>4 DEF IInv

(* A step of worker w that only leads it elsewhere.                         *)
LEMMA MovesOn ==
  ASSUME IInv, NEW w \in Workers, NEW j, worker' = [worker EXCEPT ![w] = j],
         rooms' = rooms, UNCHANGED <<config, power, deeds>>,
         j = Idle \/ (Warranted(j, config) /\ Covers(j, rooms, power))
  PROVE  IInv'
<1>1. WorkersOK'
  BY StepKeepsWorkers DEF IInv
<1>2. DeedsWarranted' /\ CommandOrMessage'
  BY DeedsStayOK DEF IInv
<1> QED BY <1>1, <1>2 DEF IInv, PowerType

LEMMA ReceiveKeeps ==
  ASSUME IInv, NEW w \in Workers, NEW event \in Inputs, Receive(w, event)
  PROVE  IInv'
<1>1. event.room \in MatrixRooms /\ event.sender \in Senders
  BY InputFacts
<1> DEFINE stage == FirstStage(event)
           linked == LinkedTo(rooms, event.room)
           level == power[event.room][event.sender]
           k == [pc |-> stage, event |-> event, mapped |-> {}, id |-> 0, seen |-> linked,
                 bare |-> (linked = {}), best |-> level]
           j == IF stage = "idle" THEN Idle ELSE k
<1>2. worker' = [worker EXCEPT ![w] = j]
  BY DEF Receive
<1>3. /\ rooms' = rooms /\ UNCHANGED <<config, power, deeds>>
  BY DEF Receive, NoStore, storeVars
<1>4. level \in Int
  BY <1>1 DEF IInv, PowerType
<1>5. ASSUME stage # "idle"
      PROVE  Warranted(k, config) /\ Covers(k, rooms, power)
  <2>1. stage \in {"join", "rights", "route", "targets"}
    BY <1>5 DEF FirstStage
  <2>2. JobTypes(k)
    BY <1>1, <1>4, <2>1 DEF JobTypes, Stages
  <2>3. MayGoOn(k, config)
    BY <2>1 DEF MayGoOn, FirstStage, FollowUps, LevelOK
  <2>5. Covers(k, rooms, power)
    <3>1. k.event = event /\ k.seen = linked /\ (linked = {} => k.bare) /\ k.best = level
      OBVIOUS
    <3>2. level <= level
      BY <1>4
    <3> HIDE DEF k
    <3> QED BY <3>1, <3>2 DEF Covers
  <2> QED BY <2>2, <2>3, <2>5 DEF Warranted
<1>6. j = Idle \/ (Warranted(j, config) /\ Covers(j, rooms, power))
  BY <1>5
<1> HIDE DEF j
<1> QED BY <1>2, <1>3, <1>6, MovesOn

(* An event that is at its end.                                             *)
LEMMA EndKeeps ==
  ASSUME IInv, NEW w \in Workers, End(w), NoStore, UNCHANGED <<config, power, deeds>>
  PROVE  IInv'
<1>1. worker' = [worker EXCEPT ![w] = Idle] /\ rooms' = rooms
  BY DEF End, NoStore, storeVars
<1> QED BY <1>1, MovesOn

(* An event whose worker goes on to a stage that it may go on to.           *)
LEMMA GotoKeeps ==
  ASSUME IInv, NEW w \in Workers, worker[w].pc # "idle",
         NEW s \in Stages, Goto(w, s), MayGoOn([worker[w] EXCEPT !.pc = s], config),
         NoStore, UNCHANGED <<config, power, deeds>>
  PROVE  IInv'
<1> DEFINE k == [worker[w] EXCEPT !.pc = s]
<1>1. Warranted(worker[w], config) /\ Covers(worker[w], rooms, power)
  BY AtStage DEF IInv
<1>2. /\ k.pc = s /\ k.event = worker[w].event /\ k.mapped = worker[w].mapped /\ k.id = worker[w].id
      /\ k.seen = worker[w].seen /\ k.bare = worker[w].bare /\ k.best = worker[w].best
      /\ JobTypes(k)
  BY <1>1, StageChanges DEF Warranted
<1>3. worker' = [worker EXCEPT ![w] = k] /\ rooms' = rooms
  BY DEF Goto, NoStore, storeVars
<1> HIDE DEF k
<1>4. Covers(k, rooms, power)
  BY <1>1, <1>2 DEF Covers
<1>5. MayGoOn(k, config)
  BY DEF k
<1> QED BY <1>2, <1>3, <1>4, <1>5, MovesOn DEF Warranted

LEMMA FailsKeeps ==
  ASSUME IInv, NEW w \in Workers, Fails(w)
  PROVE  IInv'
BY EndKeeps DEF Fails

LEMMA JoinKeeps ==
  ASSUME IInv, NEW w \in Workers, Join(w)
  PROVE  IInv'
BY EndKeeps DEF Join

LEMMA CheckRightsKeeps ==
  ASSUME IInv, NEW w \in Workers, CheckRights(w)
  PROVE  IInv'
<1>1. Warranted(worker[w], config) /\ Covers(worker[w], rooms, power)
      /\ worker[w].pc = "rights"
  BY AtStage DEF IInv, CheckRights, At
<1>2. NoStore /\ UNCHANGED <<config, power, deeds>>
  BY DEF CheckRights
<1>3. PICK level \in Levels \union {0} :
                             /\ SeesPower(worker[w].event, level)
                             /\ IF level < Moderator THEN End(w)
                                ELSE Goto(w, IF worker[w].event.kind = "link" THEN "link" ELSE "find")
  BY DEF CheckRights
<1>4. CASE level < Moderator
  BY <1>2, <1>3, <1>4, EndKeeps
<1>5. CASE ~(level < Moderator)
  <2>1. worker[w].best >= Moderator
    BY <1>1, <1>3, <1>5, SeenLevel, LevelsAreNumbers DEF IInv, Warranted
  <2>2. PICK s \in {"link", "find"} : Goto(w, s)
    BY <1>3, <1>5
  <2>3. MayGoOn([worker[w] EXCEPT !.pc = s], config)
    <3>1. [worker[w] EXCEPT !.pc = s].pc = s /\ [worker[w] EXCEPT !.pc = s].best = worker[w].best
      BY <1>1, StageChanges DEF Warranted, Stages
    <3> QED BY <2>1, <2>2, <3>1 DEF MayGoOn
  <2> QED BY <1>1, <1>2, <2>2, <2>3, GotoKeeps DEF Stages
<1> QED BY <1>4, <1>5

LEMMA FindMappingKeeps ==
  ASSUME IInv, NEW w \in Workers, FindMapping(w)
  PROVE  IInv'
<1>1. Warranted(worker[w], config) /\ Covers(worker[w], rooms, power)
      /\ worker[w].pc = "find"
  BY AtStage DEF IInv, FindMapping, At
<1>2. NoStore /\ UNCHANGED <<config, power, deeds>>
  BY DEF FindMapping
<1>3. CASE End(w)
  BY <1>2, <1>3, EndKeeps
<1>4. CASE ~End(w)
  <2>1. PICK id : worker' = [worker EXCEPT ![w].pc = "unlink", ![w].id = id]
    BY <1>4 DEF FindMapping
  <2> DEFINE k == [worker[w] EXCEPT !.pc = "unlink", !.id = id]
  <2>2. worker' = [worker EXCEPT ![w] = k]
    BY <2>1 DEF IInv, WorkersOK
  <2>3. /\ k.pc = "unlink" /\ k.event = worker[w].event /\ k.mapped = worker[w].mapped /\ k.id = id
        /\ k.seen = worker[w].seen /\ k.bare = worker[w].bare /\ k.best = worker[w].best
    BY <1>1 DEF Warranted, JobTypes
  <2>4. JobTypes(k)
    BY <1>1, <2>3 DEF Warranted, JobTypes, Stages
  <2>5. rooms' = rooms
    BY <1>2 DEF NoStore, storeVars
  <2> HIDE DEF k
  <2>6. MayGoOn(k, config)
    BY <1>1, <2>3 DEF Warranted, MayGoOn
  <2>7. Covers(k, rooms, power)
    BY <1>1, <2>3 DEF Covers
  <2> QED BY <1>2, <2>2, <2>4, <2>5, <2>6, <2>7, MovesOn DEF Warranted
<1> QED BY <1>3, <1>4

LEMMA RouteKeeps ==
  ASSUME IInv, NEW w \in Workers, Route(w)
  PROVE  IInv'
<1> DEFINE linked == LinkedTo(rooms, worker[w].event.room)
           command == worker[w].event.kind \in {"query", "pass"}
           go == [worker[w] EXCEPT !.pc = "floor", !.mapped = linked]
<1>1. Warranted(worker[w], config) /\ Covers(worker[w], rooms, power)
      /\ worker[w].pc = "route"
  BY AtStage DEF IInv, Route, At
<1>2. NoStore /\ UNCHANGED <<config, power, deeds>> /\ rooms' = rooms
  BY DEF Route, NoStore, storeVars
<1>3. worker' = [worker EXCEPT ![w] =
           IF linked # {} THEN go
           ELSE IF command THEN [worker[w] EXCEPT !.pc = "command"] ELSE Idle]
  BY DEF Route, IInv, WorkersOK
<1>4. CASE linked # {}
  <2>1. /\ go.pc = "floor" /\ go.event = worker[w].event /\ go.mapped = linked
        /\ go.id = worker[w].id /\ go.seen = worker[w].seen /\ go.bare = worker[w].bare
        /\ go.best = worker[w].best
    BY <1>1 DEF Warranted, JobTypes
  <2>2. JobTypes(go)
    BY <1>1, <2>1 DEF Warranted, JobTypes, Stages
  <2>3. worker' = [worker EXCEPT ![w] = go]
    BY <1>3, <1>4
  <2> HIDE DEF go
  <2>4. MayGoOn(go, config)
    BY <1>1, <2>1 DEF Warranted, MayGoOn, Covers
  <2>5. Covers(go, rooms, power)
    BY <1>1, <2>1 DEF Covers
  <2> QED BY <1>2, <2>2, <2>3, <2>4, <2>5, MovesOn DEF Warranted
<1>5. CASE linked = {} /\ command
  <2>1. Goto(w, "command")
    BY <1>3, <1>5 DEF Goto, IInv, WorkersOK
  <2>2. [worker[w] EXCEPT !.pc = "command"].pc = "command"
        /\ [worker[w] EXCEPT !.pc = "command"].bare = worker[w].bare
    BY <1>1, StageChanges DEF Warranted
  <2>3. MayGoOn([worker[w] EXCEPT !.pc = "command"], config)
    BY <1>1, <1>5, <2>2 DEF MayGoOn, Covers
  <2> QED BY <1>1, <1>2, <2>1, <2>3, GotoKeeps DEF Stages
<1>6. CASE linked = {} /\ ~command
  BY <1>2, <1>3, <1>6, EndKeeps DEF End
<1> QED BY <1>4, <1>5, <1>6

LEMMA CheckFloorKeeps ==
  ASSUME IInv, NEW w \in Workers, CheckFloor(w)
  PROVE  IInv'
<1>1. Warranted(worker[w], config) /\ Covers(worker[w], rooms, power)
      /\ worker[w].pc = "floor"
  BY AtStage DEF IInv, CheckFloor, At
<1>2. NoStore /\ UNCHANGED <<config, power, deeds>>
  BY DEF CheckFloor
<1>3. config.floor \in Int
  BY DEF IInv, Permissions
<1>4. End(w) \/ \E s \in {"targets", "forward"} :
                  Goto(w, s) /\ LevelOK(worker[w].event, worker[w].best, config)
  <2>1. CASE config.floor <= 0 \/ worker[w].event.sender \in Puppets
    BY <1>3, <2>1 DEF CheckFloor, LevelOK
  <2>2. CASE ~(config.floor <= 0 \/ worker[w].event.sender \in Puppets)
    <3>1. PICK level \in Levels \union {0} :
            /\ SeesPower(worker[w].event, level)
            /\ End(w) \/ (~(level < config.floor) /\ \E s \in {"targets", "forward"} : Goto(w, s))
      BY <2>2 DEF CheckFloor
    <3>2. ~(level < config.floor) => worker[w].best >= config.floor
      BY <1>1, <1>3, <2>2, <3>1, SeenLevel DEF IInv, Warranted
    <3> QED BY <3>1, <3>2 DEF LevelOK
  <2> QED BY <2>1, <2>2
<1>5. CASE End(w)
  BY <1>2, <1>5, EndKeeps
<1>6. ASSUME NEW s \in {"targets", "forward"}, Goto(w, s),
             LevelOK(worker[w].event, worker[w].best, config)
      PROVE  IInv'
  <2> DEFINE k == [worker[w] EXCEPT !.pc = s]
  <2>1. k.pc = s /\ k.event = worker[w].event /\ k.mapped = worker[w].mapped
        /\ k.seen = worker[w].seen /\ k.best = worker[w].best
    BY <1>1, StageChanges DEF Warranted, Stages
  <2> HIDE DEF k
  <2>2. MayGoOn(k, config)
    BY <1>1, <1>6, <2>1 DEF Warranted, MayGoOn
  <2> QED BY <1>1, <1>2, <1>6, <2>2, GotoKeeps DEF k, Stages
<1> QED BY <1>4, <1>5, <1>6

LEMMA FindTargetsKeeps ==
  ASSUME IInv, NEW w \in Workers, FindTargets(w)
  PROVE  IInv'
<1>1. Warranted(worker[w], config) /\ Covers(worker[w], rooms, power)
      /\ worker[w].pc = "targets"
  BY AtStage DEF IInv, FindTargets, At
<1>2. NoStore /\ UNCHANGED <<config, power, deeds>> /\ rooms' = rooms
  BY DEF FindTargets, NoStore, storeVars
<1>3. PICK targets \in SUBSET Platforms : worker' = [worker EXCEPT ![w] =
         IF targets = {} THEN Idle ELSE [worker[w] EXCEPT !.pc = "follow", !.mapped = targets]]
  BY DEF FindTargets, IInv, WorkersOK
<1>4. CASE targets = {}
  BY <1>2, <1>3, <1>4, EndKeeps DEF End
<1>5. CASE targets # {}
  <2> DEFINE k == [worker[w] EXCEPT !.pc = "follow", !.mapped = targets]
  <2>1. /\ k.pc = "follow" /\ k.event = worker[w].event /\ k.id = worker[w].id
        /\ k.seen = worker[w].seen /\ k.bare = worker[w].bare /\ k.best = worker[w].best
        /\ JobTypes(k)
    BY <1>1 DEF Warranted, JobTypes, Stages
  <2>2. worker' = [worker EXCEPT ![w] = k]
    BY <1>3, <1>5
  <2> HIDE DEF k
  <2>3. MayGoOn(k, config) /\ Covers(k, rooms, power)
    BY <1>1, <2>1 DEF Warranted, MayGoOn, Covers
  <2> QED BY <1>2, <2>1, <2>2, <2>3, MovesOn DEF Warranted
<1> QED BY <1>4, <1>5

(* An event that is at its end with deeds that are fit to be done.          *)
LEMMA DoneKeeps ==
  ASSUME IInv, NEW w \in Workers, End(w), NoStore, UNCHANGED <<config, power>>,
         \A d \in deeds' : d \in deeds \/ DeedOK(d, config)
  PROVE  IInv'
<1>1. worker' = [worker EXCEPT ![w] = Idle] /\ rooms' = rooms
  BY DEF End, NoStore, storeVars
<1>2. WorkersOK'
  BY <1>1, StepKeepsWorkers DEF IInv
<1>3. DeedsWarranted' /\ CommandOrMessage'
  BY DeedsStayOK DEF IInv
<1> QED BY <1>2, <1>3 DEF IInv, PowerType

LEMMA FollowKeeps ==
  ASSUME IInv, NEW w \in Workers, Follow(w)
  PROVE  IInv'
<1>1. Warranted(worker[w], config) /\ Covers(worker[w], rooms, power)
      /\ worker[w].pc = "follow"
  BY AtStage DEF IInv, Follow, At
<1>2. NoStore /\ UNCHANGED <<config, power>> /\ rooms' = rooms
  BY DEF Follow, NoStore, storeVars
<1>3. PICK p \in worker[w].mapped :
       /\ IF p \in LinkedTo(rooms, worker[w].event.room) THEN Does(w, "forward", p)
          ELSE UNCHANGED deeds
       /\ worker' = [worker EXCEPT ![w] =
            IF worker[w].mapped = {p} THEN Idle
            ELSE [worker[w] EXCEPT !.mapped = worker[w].mapped \ {p}]]
  <2>1. PICK p \in worker[w].mapped :
         /\ IF p \in LinkedTo(rooms, worker[w].event.room) THEN Does(w, "forward", p)
            ELSE UNCHANGED deeds
         /\ worker' = [worker EXCEPT ![w] =
              IF worker[w].mapped = {p} THEN Idle ELSE [worker[w] EXCEPT !.mapped = @ \ {p}]]
    BY DEF Follow
  <2>2. [worker[w] EXCEPT !.mapped = @ \ {p}]
        = [worker[w] EXCEPT !.mapped = worker[w].mapped \ {p}]
    BY <1>1 DEF Warranted, JobTypes
  <2> QED BY <2>1, <2>2
<1> DEFINE k == [worker[w] EXCEPT !.mapped = worker[w].mapped \ {p}]
           j == IF worker[w].mapped = {p} THEN Idle ELSE k
           d == [what |-> "forward", event |-> worker[w].event, to |-> p, seen |-> worker[w].seen,
                 bare |-> worker[w].bare, best |-> worker[w].best]
<1>4. /\ k.pc = "follow" /\ k.event = worker[w].event /\ k.id = worker[w].id
      /\ k.seen = worker[w].seen /\ k.bare = worker[w].bare /\ k.best = worker[w].best
      /\ JobTypes(k)
  BY <1>1 DEF Warranted, JobTypes
<1>5. d.what = "forward" /\ d.event = worker[w].event /\ d.to = p /\ d.seen = worker[w].seen
      /\ d.best = worker[w].best
  OBVIOUS
<1>6. worker' = [worker EXCEPT ![w] = j]
  BY <1>3
<1>7. deeds' = deeds \/ (deeds' = deeds \union {d} /\ p \in LinkedTo(rooms, worker[w].event.room))
  BY <1>3 DEF Does
<1> HIDE DEF k, d
<1>8. j = Idle \/ (Warranted(j, config) /\ Covers(j, rooms, power))
  BY <1>1, <1>4 DEF Warranted, MayGoOn, Covers
<1> HIDE DEF j
<1>9. p \in LinkedTo(rooms, worker[w].event.room) => DeedOK(d, config)
  BY <1>1, <1>5 DEF DeedOK, Warranted, MayGoOn, Covers
<1>10. \A x \in deeds' : x \in deeds \/ DeedOK(x, config)
  BY <1>7, <1>9
<1>11. WorkersOK'
  BY <1>2, <1>6, <1>8, StepKeepsWorkers DEF IInv
<1>12. DeedsWarranted' /\ CommandOrMessage'
  BY <1>2, <1>10, DeedsStayOK DEF IInv
<1> QED BY <1>2, <1>11, <1>12 DEF IInv, PowerType

LEMMA ForwardKeeps ==
  ASSUME IInv, NEW w \in Workers, Forward(w)
  PROVE  IInv'
<1>1. Warranted(worker[w], config) /\ worker[w].pc = "forward"
  BY AtStage DEF IInv, Forward, At
<1>2. End(w) /\ NoStore /\ UNCHANGED <<config, power>>
  BY DEF Forward
<1>3. PICK own : deeds' = deeds \union
           {[what |-> "forward", event |-> worker[w].event, to |-> p, seen |-> worker[w].seen,
             bare |-> worker[w].bare, best |-> worker[w].best] : p \in worker[w].mapped \ own}
  BY DEF Forward
<1>4. ASSUME NEW d \in deeds', d \notin deeds
      PROVE  DeedOK(d, config)
  <2>1. PICK p \in worker[w].mapped :
          d = [what |-> "forward", event |-> worker[w].event, to |-> p, seen |-> worker[w].seen,
               bare |-> worker[w].bare, best |-> worker[w].best]
    BY <1>3, <1>4
  <2>2. d.what = "forward" /\ d.event = worker[w].event /\ d.to = p /\ d.seen = worker[w].seen
        /\ d.best = worker[w].best
    BY <2>1
  <2> QED BY <1>1, <2>2 DEF DeedOK, Warranted, MayGoOn
<1> QED BY <1>2, <1>3, <1>4, DoneKeeps

LEMMA CommandKeeps ==
  ASSUME IInv, NEW w \in Workers, Command(w)
  PROVE  IInv'
<1>1. Warranted(worker[w], config) /\ worker[w].pc = "command"
  BY AtStage DEF IInv, Command, At
<1>2. End(w) /\ NoStore /\ UNCHANGED <<config, power>>
  BY DEF Command
<1>3. CASE UNCHANGED deeds
  BY <1>2, <1>3, EndKeeps
<1>4. CASE /\ PermissionLevel(worker[w].event.sender) >= Admin
           /\ \E what \in {"answer", "pass"} : \E to : Does(w, what, to)
  <2>5. PICK what \in {"answer", "pass"} : \E to : Does(w, what, to)
    BY <1>4
  <2>1. PICK to : Does(w, what, to)
    BY <2>5
  <2> DEFINE d == [what |-> what, event |-> worker[w].event, to |-> to, seen |-> worker[w].seen,
                   bare |-> worker[w].bare, best |-> worker[w].best]
  <2>2. deeds' = deeds \union {d}
    BY <2>1 DEF Does
  <2>3. d.what \in {"answer", "pass"} /\ d.event = worker[w].event /\ d.bare = worker[w].bare
    OBVIOUS
  <2> HIDE DEF d
  <2>4. config.admin \union config.relay # {} => \E pattern \in config.admin : d.event.sender \in pattern
    BY <1>4, <2>3, PermissionFacts DEF IInv
  <2>6. DeedOK(d, config)
    BY <1>1, <2>3, <2>4 DEF DeedOK, Warranted, MayGoOn
  <2> QED BY <1>2, <2>2, <2>6, DoneKeeps
<1> QED BY <1>3, <1>4 DEF Command, Answer, PassThrough

LEMMA LinkKeeps ==
  ASSUME IInv, NEW w \in Workers, Link(w)
  PROVE  IInv'
<1>1. Warranted(worker[w], config) /\ worker[w].pc = "link"
  BY AtStage DEF IInv, Link, At
<1>2. UNCHANGED <<config, power>>
  BY DEF Link
<1>3. PICK ok \in BOOLEAN :
        /\ worker' = Watch([worker EXCEPT ![w] = IF ok THEN [worker[w] EXCEPT !.pc = "join"] ELSE Idle],
                           rooms', power)
        /\ IF ok THEN Does(w, "link", worker[w].event.room) ELSE UNCHANGED deeds
  <2>1. PICK r \in reply' :
          /\ worker' = Watch([worker EXCEPT ![w] = IF r.ok THEN [@ EXCEPT !.pc = "join"] ELSE Idle],
                             rooms', power)
          /\ IF r.ok THEN Does(w, "link", worker[w].event.room) ELSE UNCHANGED deeds
    BY DEF Link
  <2>2. CASE r.ok
    BY <2>1, <2>2 DEF IInv, WorkersOK
  <2>3. CASE ~r.ok
    BY <2>1, <2>3
  <2> QED BY <2>2, <2>3
<1> DEFINE d == [what |-> "link", event |-> worker[w].event, to |-> worker[w].event.room,
                 seen |-> worker[w].seen, bare |-> worker[w].bare, best |-> worker[w].best]
           k == [worker[w] EXCEPT !.pc = "join"]
           j == IF ok THEN k ELSE Idle
<1>4. deeds' = IF ok THEN deeds \union {d} ELSE deeds
  BY <1>3 DEF Does
<1>5. d.what = "link" /\ d.event = worker[w].event /\ d.best = worker[w].best
  OBVIOUS
<1>6. worker' = Watch([worker EXCEPT ![w] = j], rooms', power')
  BY <1>2, <1>3
<1>7. d.best >= Moderator /\ DeedOK(d, config)
  <2> HIDE DEF d
  <2> QED BY <1>1, <1>5 DEF DeedOK, Warranted, MayGoOn
<1>9. Warranted(k, config)
  <2>1. k.pc = "join" /\ k.event = worker[w].event /\ JobTypes(k)
    BY <1>1, StageChanges DEF Warranted, Stages
  <2> HIDE DEF k
  <2> QED BY <2>1 DEF Warranted, MayGoOn
<1> HIDE DEF d, k
<1>10. j = Idle \/ Warranted(j, config)
  BY <1>9
<1> HIDE DEF j
<1>11. WorkersOK'
  BY <1>2, <1>6, <1>10, WatchedStepKeepsWorkers DEF IInv, PowerType
<1>12. DeedsWarranted' /\ CommandOrMessage'
  BY <1>2, <1>4, <1>7, DeedsStayOK DEF IInv
<1> QED BY <1>2, <1>11, <1>12 DEF IInv, PowerType

LEMMA UnlinkKeeps ==
  ASSUME IInv, NEW w \in Workers, Unlink(w)
  PROVE  IInv'
<1>1. Warranted(worker[w], config) /\ worker[w].pc = "unlink"
  BY AtStage DEF IInv, Unlink, At
<1>2. UNCHANGED <<config, power>>
      /\ worker' = Watch([worker EXCEPT ![w] = Idle], rooms', power')
  BY DEF Unlink
<1>3. UNCHANGED deeds \/ \E to : Does(w, "unlink", to)
  BY DEF Unlink
<1>4. deeds \subseteq deeds' /\ \A d \in deeds' : d \in deeds \/ DeedOK(d, config)
  <2>1. SUFFICES ASSUME NEW to, Does(w, "unlink", to) PROVE <1>4!1 /\ <1>4!2
    BY <1>3
  <2> DEFINE d == [what |-> "unlink", event |-> worker[w].event, to |-> to, seen |-> worker[w].seen,
                   bare |-> worker[w].bare, best |-> worker[w].best]
  <2>2. deeds' = deeds \union {d}
    BY <2>1 DEF Does
  <2>3. d.what = "unlink" /\ d.best = worker[w].best
    OBVIOUS
  <2> HIDE DEF d
  <2>4. DeedOK(d, config)
    BY <1>1, <2>3 DEF DeedOK, Warranted, MayGoOn
  <2> QED BY <2>2, <2>4
<1>5. WorkersOK'
  BY <1>2, WatchedStepKeepsWorkers DEF IInv, PowerType
<1>6. DeedsWarranted' /\ CommandOrMessage'
  BY <1>2, <1>4, DeedsStayOK DEF IInv
<1> QED BY <1>2, <1>5, <1>6 DEF IInv, PowerType

(* Levels or mappings change while the workers look on.                     *)
LEMMA ChangeKeeps ==
  ASSUME IInv, PowerType', worker' = Watch(worker, rooms', power'), UNCHANGED <<config, deeds>>
  PROVE  IInv'
<1>1. WorkersOK'
  BY OthersKeepWorkers DEF IInv
<1>2. DeedsWarranted' /\ CommandOrMessage'
  BY DeedsStayOK DEF IInv
<1> QED BY <1>1, <1>2 DEF IInv

(* Accounts come and go.                                                    *)
LEMMA MembershipKeeps ==
  ASSUME IInv, NoStore, UNCHANGED <<config, power, worker, deeds>>
  PROVE  IInv'
BY DEF NoStore, storeVars, IInv, PowerType, WorkersOK, DeedsWarranted, CommandOrMessage

LEMMA NextKeeps == IInv /\ [Next]_vars => IInv'
<1> SUFFICES ASSUME IInv, [Next]_vars PROVE IInv'
  OBVIOUS
<1>1. ASSUME NEW w \in Workers, NEW event \in Inputs, Receive(w, event) PROVE IInv'
  BY <1>1, ReceiveKeeps
<1>2. ASSUME NEW w \in Workers,
             Fails(w) \/ Join(w) \/ CheckRights(w) \/ Link(w) \/ FindMapping(w) \/ Unlink(w)
             \/ Route(w) \/ CheckFloor(w) \/ Forward(w) \/ Command(w) \/ FindTargets(w) \/ Follow(w)
      PROVE  IInv'
  BY <1>2, FailsKeeps, JoinKeeps, CheckRightsKeeps, LinkKeeps, FindMappingKeeps, UnlinkKeeps,
     RouteKeeps, CheckFloorKeeps, ForwardKeeps, CommandKeeps, FindTargetsKeeps,
     FollowKeeps
<1>3. ASSUME NEW r \in MatrixRooms, NEW s \in Users, NEW level \in Levels, ChangePower(r, s, level)
      PROVE  IInv'
  <2>1. /\ power' = [power EXCEPT ![r][s] = level] /\ worker' = Watch(worker, rooms', power')
        /\ UNCHANGED <<config, deeds>>
    BY <1>3 DEF ChangePower, NoStore, storeVars
  <2>2. PowerType'
    BY <2>1, LevelsAreNumbers DEF IInv, PowerType
  <2> QED BY <2>1, <2>2, ChangeKeeps
<1>4. ASSUME NEW r \in MatrixRooms, NEW p \in Platforms, NEW x \in ExternalRooms, ApiMap(r, p, x)
      PROVE  IInv'
  <2>1. worker' = Watch(worker, rooms', power') /\ UNCHANGED <<config, power, deeds>>
    BY <1>4 DEF ApiMap
  <2>2. PowerType'
    BY <2>1 DEF IInv, PowerType
  <2> QED BY <2>1, <2>2, ChangeKeeps
<1>5. ASSUME NEW id \in DOMAIN rooms, ApiUnmap(id) PROVE IInv'
  <2>1. worker' = Watch(worker, rooms', power') /\ UNCHANGED <<config, power, deeds>>
    BY <1>5 DEF ApiUnmap
  <2>2. PowerType'
    BY <2>1 DEF IInv, PowerType
  <2> QED BY <2>1, <2>2, ChangeKeeps
<1>6. ASSUME NEW r \in MatrixRooms, NEW g \in Puppets, EnsureRoomAccess(r, g) PROVE IInv'
  BY <1>6, MembershipKeeps DEF EnsureRoomAccess
<1>7. ASSUME NEW membership \in joined, Leave(membership) PROVE IInv'
  BY <1>7, MembershipKeeps DEF Leave
<1>8. CASE UNCHANGED vars
  BY <1>8, MembershipKeeps DEF vars, NoStore
<1> QED BY <1>1, <1>2, <1>3, <1>4, <1>5, <1>6, <1>7, <1>8 DEF Next

-----------------------------------------------------------------------------
LEMMA Invariance == Spec => []IInv
BY InitHolds, NextKeeps, PTL DEF Spec

(* What is forwarded, linked or unlinked (outbound.rs, commands.rs) was      *)
(* warranted by the room's links and, but for reactions and redactions, which *)
(* the code forwards at any level, by the sender's power level, at a moment   *)
(* while the event was handled: for any number of rooms, users and events and *)
(* whatever fails or changes in between.                                      *)
THEOREM WarrantedDeeds == Spec => []DeedsWarranted
BY Invariance, PTL DEF IInv

(* Bot commands (bot_commands.rs) are run for admins only, and only in a     *)
(* room that was linked to nothing at a moment while the text was handled.   *)
THEOREM CommandsOrMessages == Spec => []CommandOrMessage
BY Invariance, PTL DEF IInv
=============================================================================
