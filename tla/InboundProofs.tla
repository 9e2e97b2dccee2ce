---------------------------- MODULE InboundProofs ----------------------------
(***************************************************************************)
(* Proofs about InboundDelivery, for any number of requests, rooms and     *)
(* messages and any number of faults.  The argument: a request that is to  *)
(* map a room is the only one that has it, so no cleanup meets a mapping;  *)
(* an upsert moves messages and forgets none; every row has its event, and *)
(* what is known to be on record stays there until it is unlinked.         *)
(***************************************************************************)
EXTENDS InboundDelivery, TLAPS

(* What a table says of a message, whatever row it points to.              *)
Records(S) == {<<r.event, r.platform, r.external>> : r \in S}

OnRecord(S, p, k) == \E r \in S : r.platform = p /\ r.external = k

WasSent(S, ev, p, k) == \E s \in S : s.event = ev /\ s.platform = p /\ s.key = k

Unmapped(R, m) == \A id \in DOMAIN R : R[id].matrix # m

(* What a request may rely on.                                             *)
Orderly(j) ==
    /\ j.pc \notin {"lookup", "create"} => j.matrix \in created
    /\ j.pc \notin {"lookup", "create", "map", "leave"} => j.kind = "message"
    /\ j.kind = "message" => j.key \in Messages
    /\ j.pc \in {"map", "leave"} => Unmapped(rooms, j.matrix)
    /\ j.pc = "map" => <<j.matrix, "bot">> \in joined
    /\ j.pc \in {"dedup", "send"} => <<j.matrix, "puppet">> \in joined \/ j.matrix \in kicked
    /\ j.pc = "record" => j.event \in Events /\ WasSent(sent, j.event, j.platform, j.key)
    /\ j.known => OnRecord(msgs, j.platform, j.key)
    /\ j.pc \in {"send", "record"} => ~j.known

OrderlyAt(t) == req[t] = Idle \/ Orderly(req[t])

RequestsOrderly == \A t \in Requests : OrderlyAt(t)

(* Two requests never have the same room to map or to leave.               *)
OwnRooms == \A t, u \in Requests :
    req[t].pc \in {"map", "leave"} /\ req[u].pc \in {"map", "leave"} /\ req[t].matrix = req[u].matrix
        => t = u

RecordsSent == \A r \in msgs : WasSent(sent, r.event, r.platform, r.external)

CacheRight == \A m \in membership : <<m, "puppet">> \in joined \/ m \in kicked

IInv == /\ TypeOK
        /\ RequestsOrderly /\ OwnRooms
        /\ RecordsSent /\ AckedOnRecord
        /\ CacheRight /\ BotInMappedRooms

-----------------------------------------------------------------------------
(* The store: what an upsert may do to the tables.                         *)

(* Every mapped room was mapped before, or is m.                           *)
Rooted(R, m) == \A i \in DOMAIN R :
    R[i].matrix = m \/ \E j \in DOMAIN rooms : R[i].matrix = rooms[j].matrix

(* Tables that a transaction for Matrix room m may have produced.          *)
Sound(tx, m, n) ==
    /\ tx = [ok |-> tx.ok, rooms |-> tx.rooms, msgs |-> tx.msgs] /\ tx.ok \in BOOLEAN
    /\ DOMAIN tx.rooms \subseteq 1 .. n
    /\ tx.rooms \in [DOMAIN tx.rooms -> RoomRow]
    /\ tx.msgs \subseteq MessageRow
    /\ Rooted(tx.rooms, m)
    /\ Records(tx.msgs) = Records(msgs)

LEMMA BeginSound ==
    ASSUME StoreTypeOK, NEW m
    PROVE  Sound(Begin, m, roomSeq) /\ Begin.rooms = rooms /\ Begin.msgs = msgs /\ Sound(Failed, m, roomSeq)
           /\ Failed.ok = FALSE
<1>1. Begin = [ok |-> TRUE, rooms |-> rooms, msgs |-> msgs]
  BY DEF Begin
<1>2. Failed = [ok |-> FALSE, rooms |-> rooms, msgs |-> msgs]
  <2>1. PICK b : b = Begin
    OBVIOUS
  <2>2. Failed = [b EXCEPT !.ok = FALSE]
    BY <2>1 DEF Failed
  <2>3. b = [ok |-> TRUE, rooms |-> rooms, msgs |-> msgs]
    BY <1>1, <2>1
  <2> QED BY <2>2, <2>3
<1>3. Rooted(rooms, m)
  BY DEF Rooted
<1> QED BY <1>1, <1>2, <1>3 DEF Sound, StoreTypeOK

LEMMA ExecuteSound ==
    ASSUME NEW m, NEW n, NEW tx, Sound(tx, m, n), NEW R, NEW S,
           DOMAIN R \subseteq 1 .. n, R \in [DOMAIN R -> RoomRow], S \subseteq MessageRow,
           Rooted(R, m), Records(S) = Records(msgs)
    PROVE  Sound(Execute(tx, R, S), m, n)
<1>1. CASE tx.ok /\ UniqueRooms(R) /\ ForeignKeys(R, S)
  BY <1>1 DEF Execute, Sound
<1>2. CASE ~(tx.ok /\ UniqueRooms(R) /\ ForeignKeys(R, S))
  <2>1. PICK f : f = [tx EXCEPT !.ok = FALSE]
    OBVIOUS
  <2>2. f = [ok |-> FALSE, rooms |-> tx.rooms, msgs |-> tx.msgs]
    BY <2>1 DEF Sound
  <2>3. Execute(tx, R, S) = f
    BY <1>2, <2>1 DEF Execute
  <2> QED BY <2>2, <2>3 DEF Sound
<1> QED BY <1>1, <1>2

LEMMA SetExternalSound ==
    ASSUME NEW m, NEW n, NEW tx, Sound(tx, m, n), NEW id, NEW e \in ExternalRooms
    PROVE  Sound(SetExternal(tx, id, e), m, n)
<1>1. PICK R : R = [tx.rooms EXCEPT ![id] = [@ EXCEPT !.external = e]]
  OBVIOUS
<1>2. /\ DOMAIN R = DOMAIN tx.rooms
      /\ \A i \in DOMAIN R : R[i] \in RoomRow /\ R[i].matrix = tx.rooms[i].matrix
  BY <1>1 DEF Sound, RoomRow
<1>3. R \in [DOMAIN R -> RoomRow]
  BY <1>1, <1>2
<1>4. Rooted(R, m)
  BY <1>2 DEF Sound, Rooted
<1>5. Sound(Execute(tx, R, tx.msgs), m, n)
  <2>1. DOMAIN R \subseteq 1 .. n /\ tx.msgs \subseteq MessageRow /\ Records(tx.msgs) = Records(msgs)
    BY <1>2 DEF Sound
  <2> QED BY <1>3, <1>4, <2>1, ExecuteSound
<1> QED BY <1>1, <1>5 DEF SetExternal

LEMMA SetMatrixSound ==
    ASSUME NEW m \in MatrixRooms, NEW n, NEW tx, Sound(tx, m, n), NEW id
    PROVE  Sound(SetMatrix(tx, id, m), m, n)
<1>1. PICK R : R = [tx.rooms EXCEPT ![id] = [@ EXCEPT !.matrix = m]]
  OBVIOUS
<1>2. /\ DOMAIN R = DOMAIN tx.rooms
      /\ \A i \in DOMAIN R : R[i] \in RoomRow /\ R[i].matrix \in {m, tx.rooms[i].matrix}
  BY <1>1 DEF Sound, RoomRow
<1>3. R \in [DOMAIN R -> RoomRow]
  BY <1>1, <1>2
<1>4. Rooted(R, m)
  BY <1>2 DEF Sound, Rooted
<1>5. Sound(Execute(tx, R, tx.msgs), m, n)
  <2>1. DOMAIN R \subseteq 1 .. n /\ tx.msgs \subseteq MessageRow /\ Records(tx.msgs) = Records(msgs)
    BY <1>2 DEF Sound
  <2> QED BY <1>3, <1>4, <2>1, ExecuteSound
<1> QED BY <1>1, <1>5 DEF SetMatrix

LEMMA InsertSound ==
    ASSUME NEW m \in MatrixRooms, NEW n \in Nat, NEW tx, Sound(tx, m, n), NEW row \in RoomRow,
           row.matrix = m
    PROVE  Sound(InsertRoom(tx, n + 1, row), m, n + 1)
<1>1. PICK R : R = [i \in DOMAIN tx.rooms \cup {n + 1} |-> IF i = n + 1 THEN row ELSE tx.rooms[i]]
  OBVIOUS
<1>2. /\ DOMAIN R = DOMAIN tx.rooms \cup {n + 1}
      /\ \A i \in DOMAIN R : R[i] \in RoomRow /\ (R[i] = row \/ (i \in DOMAIN tx.rooms /\ R[i] = tx.rooms[i]))
  BY <1>1 DEF Sound
<1>3. R \in [DOMAIN R -> RoomRow]
  BY <1>1, <1>2
<1>4. Sound(tx, m, n + 1)
  BY DEF Sound
<1>5. DOMAIN R \subseteq 1 .. n + 1
  BY <1>2 DEF Sound
<1>6. Rooted(R, m)
  BY <1>2 DEF Sound, Rooted
<1>7. Sound(Execute(tx, R, tx.msgs), m, n + 1)
  <2>1. tx.msgs \subseteq MessageRow /\ Records(tx.msgs) = Records(msgs)
    BY DEF Sound
  <2> QED BY <1>3, <1>4, <1>5, <1>6, <2>1, ExecuteSound
<1> QED BY <1>1, <1>7 DEF InsertRoom

(* The absorbed row is deleted after its messages have moved.              *)
LEMMA MergeSound ==
    ASSUME StoreTypeOK, NEW m, NEW idM \in DOMAIN rooms, NEW idE, idM # idE, NEW e \in ExternalRooms
    PROVE  Sound(Merge(idM, idE, e), m, roomSeq)
<1>1. PICK S : S = {r \in msgs : r.room # idE} \cup {[r EXCEPT !.room = idM] : r \in {s \in msgs : s.room = idE}}
  OBVIOUS
<1>2. /\ S \subseteq MessageRow /\ \A r \in S : r.room # idE
      /\ \A r \in S : \E s \in msgs : r.event = s.event /\ r.platform = s.platform /\ r.external = s.external
      /\ \A s \in msgs : \E r \in S : r.event = s.event /\ r.platform = s.platform /\ r.external = s.external
  <2>1. idM \in Nat
    BY DEF StoreTypeOK
  <2>2. \A s \in msgs : /\ [s EXCEPT !.room = idM] \in MessageRow
                        /\ [s EXCEPT !.room = idM].room = idM
                        /\ [s EXCEPT !.room = idM].event = s.event
                        /\ [s EXCEPT !.room = idM].platform = s.platform
                        /\ [s EXCEPT !.room = idM].external = s.external
    BY <2>1 DEF StoreTypeOK, MessageRow
  <2>3. \A s \in msgs : s \in MessageRow
    BY DEF StoreTypeOK
  <2>4. \A s \in msgs : s.room = idE => [s EXCEPT !.room = idM] \in S
    BY <1>1
  <2>5. \A s \in msgs : s.room # idE => s \in S
    BY <1>1
  <2>6. \A r \in S : \/ r \in msgs /\ r.room # idE
                    \/ \E s \in msgs : s.room = idE /\ r = [s EXCEPT !.room = idM]
    BY <1>1
  <2>7. S \subseteq MessageRow /\ \A r \in S : r.room # idE
    BY <2>2, <2>3, <2>6
  <2>8. \A r \in S : \E s \in msgs : r.event = s.event /\ r.platform = s.platform /\ r.external = s.external
    <3> SUFFICES ASSUME NEW r \in S
                 PROVE  \E s \in msgs : r.event = s.event /\ r.platform = s.platform /\ r.external = s.external
      OBVIOUS
    <3>1. CASE r \in msgs
      BY <3>1
    <3>2. CASE \E s \in msgs : s.room = idE /\ r = [s EXCEPT !.room = idM]
      BY <2>2, <3>2, Zenon
    <3> QED BY <2>6, <3>1, <3>2
  <2>9. \A s \in msgs : \E r \in S : r.event = s.event /\ r.platform = s.platform /\ r.external = s.external
    BY <2>2, <2>4, <2>5
  <2> QED BY <2>7, <2>8, <2>9
<1>3. Records(S) = Records(msgs)
  BY <1>2 DEF Records
<1>4. PICK one : one = MigrateMessages(Begin, idE, idM)
  OBVIOUS
<1>5. one = Execute(Begin, rooms, S)
  BY <1>1, <1>4, BeginSound DEF MigrateMessages
<1>6. Sound(one, m, roomSeq)
  BY <1>2, <1>3, <1>5, BeginSound, ExecuteSound DEF StoreTypeOK, Rooted
<1>7. one.ok => one.rooms = rooms /\ one.msgs = S
  BY <1>5 DEF Execute, Begin
<1>8. PICK two : two = DeleteRoom(one, idE)
  OBVIOUS
<1>9. PICK D : D = [i \in DOMAIN one.rooms \ {idE} |-> one.rooms[i]]
  OBVIOUS
<1>10. PICK T : T = {r \in one.msgs : r.room # idE}
  OBVIOUS
<1>11. two = Execute(one, D, T)
  BY <1>8, <1>9, <1>10 DEF DeleteRoom
<1>12. Sound(two, m, roomSeq)
  <2>1. CASE one.ok
    <3>1. T = S
      BY <1>2, <1>7, <1>10, <2>1
    <3>2. /\ DOMAIN D \subseteq DOMAIN one.rooms
          /\ \A i \in DOMAIN D : D[i] = one.rooms[i]
          /\ D = [i \in DOMAIN D |-> D[i]]
      BY <1>9
    <3>3. D \in [DOMAIN D -> RoomRow]
      BY <1>6, <3>2 DEF Sound
    <3>4. Rooted(D, m) /\ DOMAIN D \subseteq 1 .. roomSeq
      BY <1>6, <3>2 DEF Sound, Rooted
    <3>5. T \subseteq MessageRow /\ Records(T) = Records(msgs)
      BY <1>2, <1>3, <3>1
    <3>6. Sound(Execute(one, D, T), m, roomSeq)
      BY <1>6, <3>3, <3>4, <3>5, ExecuteSound
    <3> QED BY <1>11, <3>6
  <2>2. CASE ~one.ok
    <3>1. two = [one EXCEPT !.ok = FALSE]
      BY <1>11, <2>2 DEF Execute
    <3>2. two = one
      BY <1>6, <2>2, <3>1 DEF Sound
    <3> QED BY <1>6, <3>2
  <2> QED BY <2>1, <2>2
<1>13. Merge(idM, idE, e) = SetExternal(two, idM, e)
  BY <1>4, <1>8 DEF Merge
<1> QED BY <1>12, <1>13, SetExternalSound

(* What is left of the tables when the call returns.                       *)
Upserted(m) ==
    /\ StoreTypeOK'
    /\ Rooted(rooms', m)
    /\ Records(msgs') = Records(msgs)
    /\ \E r \in Reply : reply' = {r} /\ (~r.ok => UNCHANGED <<rooms, msgs>>)

LEMMA FinishSound ==
    ASSUME StoreTypeOK, NEW m, NEW id \in Nat, NEW n, n \in {roomSeq, id}, NEW row \in RoomRow, NEW fault \in BOOLEAN,
           NEW tx, Sound(tx, m, n), id > roomSeq \/ n = roomSeq, Finish(tx, id, row, fault)
    PROVE  Upserted(m)
<1>1. PICK r : r = [ok |-> tx.ok, fault |-> fault, id |-> id, row |-> row]
  OBVIOUS
<1>2. r \in Reply /\ reply' = {r} /\ r.ok = tx.ok
  BY <1>1 DEF Finish, Reply, Sound
<1>3. roomSeq \in Nat
  BY DEF StoreTypeOK
<1>4. CASE tx.ok
  <2>1. rooms' = tx.rooms /\ msgs' = tx.msgs /\ roomSeq' = IF id > roomSeq THEN id ELSE roomSeq
    BY <1>4 DEF Finish
  <2>2. roomSeq' \in Nat /\ roomSeq' >= n
    BY <1>3, <2>1
  <2>3. DOMAIN rooms' \subseteq 1 .. roomSeq'
    BY <1>3, <2>1, <2>2 DEF Sound
  <2> QED BY <1>2, <1>4, <2>1, <2>2, <2>3 DEF Upserted, StoreTypeOK, Sound
<1>5. CASE ~tx.ok
  <2>1. UNCHANGED <<rooms, msgs, roomSeq>>
    BY <1>5 DEF Finish
  <2>2. Rooted(rooms', m) /\ Records(msgs') = Records(msgs)
    BY <2>1 DEF Rooted
  <2>3. StoreTypeOK'
    BY <1>2, <2>1 DEF StoreTypeOK
  <2> QED BY <1>2, <2>1, <2>2, <2>3 DEF Upserted
<1> QED BY <1>4, <1>5

LEMMA UpsertOutcome ==
    ASSUME StoreTypeOK, NEW m \in MatrixRooms, NEW p \in Platforms, NEW e \in ExternalRooms,
           CreateRoomMapping(m, p, e)
    PROVE  Upserted(m)
<1> DEFINE row == [matrix |-> m, platform |-> p, external |-> e]
<1>1. row \in RoomRow /\ row.matrix = m
  BY DEF RoomRow
<1>2. PICK byMatrix \in {RoomsByMatrix(m, p), {}}, byExternal \in {RoomsByExternal(p, e), {}}, fault \in BOOLEAN :
        \/ \E id \in byMatrix \cap byExternal : Finish(Begin, id, row, fault)
        \/ \E idM \in byMatrix, idE \in byExternal :
              idM # idE /\ Finish(Merge(idM, idE, e), idM, row, fault)
        \/ /\ byExternal = {}
           /\ \E id \in byMatrix : Finish(SetExternal(Begin, id, e), id, row, fault)
        \/ /\ byMatrix = {}
           /\ \E id \in byExternal : Finish(SetMatrix(Begin, id, m), id, row, fault)
        \/ Finish(InsertRoom(Begin, NextRoomId, row), NextRoomId, row, fault)
        \/ Finish(Failed, NextRoomId, row, fault)
  BY Zenon DEF CreateRoomMapping
<1> HIDE DEF row
<1>3. \A id \in byMatrix \cup byExternal : id \in DOMAIN rooms /\ id \in Nat
  BY DEF RoomsByMatrix, RoomsByExternal, StoreTypeOK
<1>4. roomSeq \in Nat /\ NextRoomId = roomSeq + 1
  BY DEF StoreTypeOK, NextRoomId
<1>5. CASE \E id \in byMatrix \cap byExternal : Finish(Begin, id, row, fault)
  BY <1>1, <1>3, <1>5, BeginSound, FinishSound
<1>6. CASE \E idM \in byMatrix, idE \in byExternal :
              idM # idE /\ Finish(Merge(idM, idE, e), idM, row, fault)
  <2>1. PICK idM \in byMatrix, idE \in byExternal :
              idM # idE /\ Finish(Merge(idM, idE, e), idM, row, fault)
    BY <1>6
  <2>2. Sound(Merge(idM, idE, e), m, roomSeq)
    BY <1>3, <2>1, MergeSound
  <2> QED BY <1>1, <1>3, <2>1, <2>2, FinishSound
<1>7. CASE \E id \in byMatrix : Finish(SetExternal(Begin, id, e), id, row, fault)
  <2>1. PICK id \in byMatrix : Finish(SetExternal(Begin, id, e), id, row, fault)
    BY <1>7
  <2>2. Sound(SetExternal(Begin, id, e), m, roomSeq)
    BY BeginSound, SetExternalSound
  <2> QED BY <1>1, <1>3, <2>1, <2>2, FinishSound
<1>8. CASE \E id \in byExternal : Finish(SetMatrix(Begin, id, m), id, row, fault)
  <2>1. PICK id \in byExternal : Finish(SetMatrix(Begin, id, m), id, row, fault)
    BY <1>8
  <2>2. Sound(SetMatrix(Begin, id, m), m, roomSeq)
    BY BeginSound, SetMatrixSound
  <2> QED BY <1>1, <1>3, <2>1, <2>2, FinishSound
<1>9. CASE Finish(InsertRoom(Begin, NextRoomId, row), NextRoomId, row, fault)
  <2>1. Sound(InsertRoom(Begin, NextRoomId, row), m, roomSeq + 1)
    BY <1>1, <1>4, BeginSound, InsertSound
  <2> QED BY <1>1, <1>4, <1>9, <2>1, FinishSound
<1>10. CASE Finish(Failed, NextRoomId, row, fault)
  <2>1. Sound(Failed, m, roomSeq)
    BY BeginSound
  <2>2. NextRoomId \in Nat
    BY <1>4
  <2>3. NextRoomId > roomSeq
    BY <1>4
  <2> QED BY <1>1, <1>10, <2>1, <2>2, <2>3, FinishSound
<1> QED BY <1>2, <1>5, <1>6, <1>7, <1>8, <1>9, <1>10

LEMMA DeleteOutcome ==
    ASSUME StoreTypeOK, NEW id, DeleteRoomMapping(id)
    PROVE  /\ StoreTypeOK' /\ msgs' \subseteq msgs
           /\ DOMAIN rooms' \subseteq DOMAIN rooms
           /\ \A i \in DOMAIN rooms' : rooms'[i] = rooms[i]
<1>1. PICK D : D = [i \in DOMAIN rooms \ {id} |-> rooms[i]]
  OBVIOUS
<1>2. PICK T : T = {r \in msgs : r.room # id}
  OBVIOUS
<1>3. DeleteRoom(Begin, id) = Execute(Begin, D, T)
  BY <1>1, <1>2 DEF DeleteRoom, Begin
<1>4. \/ rooms' = D /\ msgs' = T
      \/ rooms' = rooms /\ msgs' = msgs
  <2>1. PICK f : f = [Begin EXCEPT !.ok = FALSE]
    OBVIOUS
  <2>2. f.rooms = rooms /\ f.msgs = msgs
    BY <2>1 DEF Begin
  <2>3. Execute(Begin, D, T) \in {[ok |-> TRUE, rooms |-> D, msgs |-> T], f}
    BY <2>1 DEF Execute
  <2> QED BY <1>3, <2>2, <2>3 DEF DeleteRoomMapping
<1>5. roomSeq' = roomSeq /\ reply' = {}
  BY DEF DeleteRoomMapping
<1> QED BY <1>1, <1>2, <1>4, <1>5 DEF StoreTypeOK

-----------------------------------------------------------------------------
(* Requests.                                                               *)

LEMMA AtRequest ==
    ASSUME IInv, NEW t \in Requests, req[t].pc # "idle"
    PROVE  req[t] \in Request /\ Orderly(req[t])
BY DEF IInv, TypeOK, RequestsOrderly, OrderlyAt, Idle

LEMMA GotoFields ==
    ASSUME NEW q \in Request, NEW s \in Stages, NEW j, j = [q EXCEPT !.pc = s]
    PROVE  /\ j \in Request /\ j.pc = s
           /\ j.kind = q.kind /\ j.platform = q.platform /\ j.external = q.external /\ j.key = q.key
           /\ j.id = q.id /\ j.matrix = q.matrix /\ j.event = q.event /\ j.known = q.known
BY DEF Request

(* What a request relies on stays true while the tables only grow.         *)
LEMMA OrderlyKept ==
    ASSUME NEW j, Orderly(j), rooms' = rooms, msgs \subseteq msgs', created \subseteq created',
           joined \subseteq joined', sent \subseteq sent', kicked \subseteq kicked'
    PROVE  Orderly(j)'
BY DEF Orderly, Unmapped, OnRecord, WasSent

LEMMA OrderlyMoved ==
    ASSUME NEW u, NEW j, req'[u] = j, j = Idle \/ Orderly(j)'
    PROVE  OrderlyAt(u)'
BY DEF OrderlyAt, Orderly, Idle

(* The rooms that other requests than t are to map or to leave.            *)
OthersRooms(t) ==
    {req[u].matrix : u \in {w \in Requests : w # t /\ req[w].pc \in {"map", "leave"}}}

(* A step that gives one request a new state, and forgets nothing.          *)
LEMMA GrowingStep ==
    ASSUME IInv, NEW t \in Requests, NEW j, req' = [req EXCEPT ![t] = j],
           j = Idle \/ (j \in Request /\ Orderly(j)'),
           j.pc \in {"map", "leave"} => j.matrix \notin OthersRooms(t),
           StoreTypeOK', rooms' = rooms, msgs \subseteq msgs', RecordsSent',
           created \subseteq created', created' \subseteq MatrixRooms,
           joined \subseteq joined', joined' \subseteq created' \X Users,
           sent \subseteq sent', sent' \subseteq Sent, kicked' = kicked,
           membership' \subseteq MatrixRooms,
           \A m \in membership' \ membership : <<m, "puppet">> \in joined',
           AckedOnRecord', answered' \subseteq Answer, faults' \in 0 .. MaxFaults
    PROVE  IInv'
<1>1. /\ req' \in [Requests -> Request \cup {Idle}]
      /\ req'[t] = j /\ \A u \in Requests : u # t => req'[u] = req[u]
  BY DEF IInv, TypeOK
<1>2. TypeOK'
  BY <1>1 DEF IInv, TypeOK
<1>3. RequestsOrderly'
  <2> SUFFICES ASSUME NEW u \in Requests
               PROVE  OrderlyAt(u)'
    BY DEF RequestsOrderly
  <2>1. CASE u = t
    BY <1>1, <2>1, OrderlyMoved
  <2>2. CASE u # t
    <3>1. PICK q : q = req[u]
      OBVIOUS
    <3>2. q = Idle \/ Orderly(q)
      BY <3>1 DEF IInv, RequestsOrderly, OrderlyAt
    <3>3. Orderly(q) => Orderly(q)'
      BY OrderlyKept
    <3>4. req'[u] = q
      BY <1>1, <2>2, <3>1
    <3> QED BY <3>2, <3>3, <3>4, OrderlyMoved
  <2> QED BY <2>1, <2>2
<1>4. OwnRooms'
  BY <1>1 DEF IInv, OwnRooms, OthersRooms
<1>5. CacheRight' /\ BotInMappedRooms'
  BY DEF IInv, CacheRight, BotInMappedRooms
<1> QED BY <1>2, <1>3, <1>4, <1>5 DEF IInv

(* Nothing moves but requests, answers and the count of faults.            *)
Quiet ==
    /\ NoStore /\ UNCHANGED <<hsVars, membership, kicked>>
    /\ UNCHANGED faults \/ Fault

LEMMA FaultsCounted ==
    ASSUME IInv, UNCHANGED faults \/ Fault
    PROVE  faults' \in 0 .. MaxFaults
BY InboundAssumption DEF IInv, TypeOK, Fault

LEMMA QuietFacts ==
    ASSUME IInv, Quiet
    PROVE  /\ StoreTypeOK' /\ rooms' = rooms /\ msgs' = msgs /\ RecordsSent'
           /\ created' = created /\ joined' = joined /\ sent' = sent
           /\ membership' = membership /\ kicked' = kicked
           /\ faults' \in 0 .. MaxFaults
<1>1. /\ rooms' = rooms /\ msgs' = msgs /\ roomSeq' = roomSeq /\ reply' = {}
      /\ created' = created /\ joined' = joined /\ sent' = sent
      /\ membership' = membership /\ kicked' = kicked
  BY DEF Quiet, NoStore, hsVars
<1>2. faults' \in 0 .. MaxFaults
  BY FaultsCounted DEF Quiet
<1>3. StoreTypeOK'
  BY <1>1 DEF IInv, TypeOK, StoreTypeOK
<1>4. RecordsSent'
  BY <1>1 DEF IInv, RecordsSent, WasSent
<1> QED BY <1>1, <1>2, <1>3, <1>4

LEMMA QuietStep ==
    ASSUME IInv, NEW t \in Requests, NEW j, req' = [req EXCEPT ![t] = j],
           j = Idle \/ (j \in Request /\ Orderly(j)),
           j.pc \in {"map", "leave"} => j.matrix \notin OthersRooms(t),
           Quiet, AckedOnRecord', answered' \subseteq Answer
    PROVE  IInv'
<1>1. j = Idle \/ (j \in Request /\ Orderly(j)')
  <2>1. rooms' = rooms /\ msgs' = msgs /\ created' = created /\ joined' = joined /\ sent' = sent /\ kicked' = kicked
    BY QuietFacts
  <2> QED BY <2>1, OrderlyKept
<1>2. /\ created' \subseteq MatrixRooms /\ joined' \subseteq created' \X Users
      /\ sent' \subseteq Sent /\ membership' \subseteq MatrixRooms
  BY QuietFacts DEF IInv, TypeOK
<1> QED BY <1>1, <1>2, QuietFacts, GrowingStep

LEMMA AnswersKept ==
    ASSUME IInv, UNCHANGED answered, sent \subseteq sent', msgs \subseteq msgs'
    PROVE  AckedOnRecord' /\ answered' \subseteq Answer
BY DEF IInv, TypeOK, AckedOnRecord

LEMMA IdleFacts == Idle.pc = "idle"
BY DEF Idle

(* A request that ends without an answer.                                  *)
LEMMA EndStep ==
    ASSUME IInv, NEW t \in Requests, End(t), UNCHANGED answered, Quiet
    PROVE  IInv'
<1>1. req' = [req EXCEPT ![t] = Idle]
  BY DEF End
<1>2. AckedOnRecord' /\ answered' \subseteq Answer
  BY QuietFacts, AnswersKept
<1> QED BY <1>1, <1>2, IdleFacts, QuietStep

(* A request that only moves to another stage.                             *)
LEMMA GotoStep ==
    ASSUME IInv, NEW t \in Requests, NEW s \in Stages \ {"map", "leave"}, req[t] \in Request, Goto(t, s),
           NEW j, j = [req[t] EXCEPT !.pc = s], Orderly(j), UNCHANGED answered, Quiet
    PROVE  IInv'
<1>1. req' = [req EXCEPT ![t] = j]
  BY DEF Goto, IInv, TypeOK
<1>2. AckedOnRecord' /\ answered' \subseteq Answer
  BY QuietFacts, AnswersKept
<1>3. j \in Request /\ j.pc = s
  BY GotoFields
<1> QED BY <1>1, <1>2, <1>3, QuietStep

(* A request that succeeds with `value`.                                    *)
LEMMA SucceedStep ==
    ASSUME IInv, NEW t \in Requests, req[t] \in Request, NEW value \in Events \cup MatrixRooms, Succeed(t, value),
           UNCHANGED <<hsVars, membership, kicked>>, rooms' = rooms, msgs \subseteq msgs', StoreTypeOK', RecordsSent',
           req[t].kind = "message" =>
             /\ WasSent(sent, value, req[t].platform, req[t].key)
             /\ \E r \in msgs' : r.event = value /\ r.platform = req[t].platform /\ r.external = req[t].key
    PROVE  IInv'
<1>1. /\ created' = created /\ joined' = joined /\ sent' = sent
      /\ membership' = membership /\ kicked' = kicked
  BY DEF hsVars
<1>2. req' = [req EXCEPT ![t] = Idle]
  BY DEF Succeed, End
<1>3. faults' \in 0 .. MaxFaults
  BY FaultsCounted DEF Succeed
<1>4. PICK a : a = [kind |-> req[t].kind, platform |-> req[t].platform, external |-> req[t].external,
                    key |-> req[t].key, value |-> value]
  OBVIOUS
<1>5. a \in Answer
  BY <1>4 DEF Request, Answer
<1>6. /\ a.kind = req[t].kind /\ a.platform = req[t].platform /\ a.key = req[t].key /\ a.value = value
  BY <1>4
<1>7. answered' = answered \/ answered' = answered \cup {a}
  BY <1>4 DEF Succeed, Receives
<1>8. answered' \subseteq Answer
  BY <1>5, <1>7 DEF IInv, TypeOK
<1>9. AckedOnRecord'
  <2> SUFFICES ASSUME NEW b \in answered', b.kind = "message"
               PROVE  /\ \E s \in sent' : s.event = b.value /\ s.platform = b.platform /\ s.key = b.key
                      /\ \E r \in msgs' : /\ r.event = b.value /\ r.platform = b.platform
                                        /\ r.external = b.key
    BY DEF AckedOnRecord
  <2>1. CASE b \in answered
    BY <1>1, <2>1 DEF IInv, AckedOnRecord
  <2>2. CASE b = a
    BY <1>1, <1>6, <2>2 DEF WasSent
  <2> QED BY <1>7, <2>1, <2>2
<1>10. /\ created' \subseteq MatrixRooms /\ joined' \subseteq created' \X Users
       /\ sent' \subseteq Sent /\ membership' \subseteq MatrixRooms
  BY <1>1 DEF IInv, TypeOK
<1> QED BY <1>1, <1>2, <1>3, <1>8, <1>9, <1>10, IdleFacts, GrowingStep

-----------------------------------------------------------------------------
(* One lemma for each step.                                                *)

LEMMA SendMessageStep ==
    ASSUME IInv, NEW t \in Requests, NEW p \in Platforms, NEW e \in ExternalRooms, NEW k \in Messages,
           SendMessage(t, p, e, k)
    PROVE  IInv'
<1>1. PICK j : j = [pc |-> "lookup", kind |-> "message", platform |-> p, external |-> e, key |-> k,
                    id |-> 0, matrix |-> None, event |-> None, known |-> Recorded(p, k)]
  OBVIOUS
<1>2. req' = [req EXCEPT ![t] = j] /\ Quiet /\ UNCHANGED answered
  BY <1>1 DEF SendMessage, Quiet
<1>3. Recorded(p, k) \in BOOLEAN /\ (Recorded(p, k) => OnRecord(msgs, p, k))
  BY DEF Recorded, MessagesByExternal, OnRecord
<1>4. j \in Request
  BY <1>1, <1>3 DEF Request, Stages
<1>5. Orderly(j) /\ j.pc = "lookup"
  BY <1>1, <1>3 DEF Orderly
<1>6. AckedOnRecord' /\ answered' \subseteq Answer
  BY <1>2, QuietFacts, AnswersKept
<1> QED BY <1>2, <1>4, <1>5, <1>6, QuietStep

LEMMA ProvisionStep ==
    ASSUME IInv, NEW t \in Requests, NEW p \in Platforms, NEW e \in ExternalRooms, Provision(t, p, e)
    PROVE  IInv'
<1>1. PICK j : j = [pc |-> "lookup", kind |-> "provision", platform |-> p, external |-> e, key |-> None,
                    id |-> 0, matrix |-> None, event |-> None, known |-> FALSE]
  OBVIOUS
<1>2. req' = [req EXCEPT ![t] = j] /\ Quiet /\ UNCHANGED answered
  BY <1>1 DEF Provision, Quiet
<1>3. j \in Request
  BY <1>1 DEF Request, Stages
<1>4. Orderly(j) /\ j.pc = "lookup"
  BY <1>1 DEF Orderly
<1>5. AckedOnRecord' /\ answered' \subseteq Answer
  BY <1>2, QuietFacts, AnswersKept
<1> QED BY <1>2, <1>3, <1>4, <1>5, QuietStep

(* Every step that ends a request without an answer and does nothing else. *)
LEMMA FailingStep ==
    ASSUME IInv, NEW t \in Requests,
           \/ LookupFails(t) \/ CreateRefused(t) \/ JoinRefused(t) \/ SendRefused(t)
           \/ RecordFails(t) \/ Drop(t)
    PROVE  IInv'
<1>1. End(t) /\ UNCHANGED answered /\ Quiet
  BY DEF LookupFails, CreateRefused, JoinRefused, SendRefused, RecordFails, Drop, Fail, Quiet
<1> QED BY <1>1, EndStep

LEMMA LookupRoomStep ==
    ASSUME IInv, NEW t \in Requests, LookupRoom(t)
    PROVE  IInv'
<1>1. req[t].pc = "lookup"
  BY DEF LookupRoom, At
<1>2. req[t] \in Request /\ Orderly(req[t])
  BY <1>1, AtRequest
<1>3. NoStore /\ UNCHANGED <<hsVars, membership, kicked>>
  BY DEF LookupRoom
<1>4. CASE \E id \in RoomsByExternal(req[t].platform, req[t].external) :
             req[t].kind = "provision" /\ Succeed(t, rooms[id].matrix)
  <2>1. PICK id \in RoomsByExternal(req[t].platform, req[t].external) :
             req[t].kind = "provision" /\ Succeed(t, rooms[id].matrix)
    BY <1>4
  <2>2. rooms[id].matrix \in MatrixRooms
    BY DEF RoomsByExternal, IInv, TypeOK, StoreTypeOK, RoomRow
  <2>3. Quiet
    BY <1>3, <2>1 DEF Quiet, Succeed
  <2> QED BY <1>2, <1>3, <2>1, <2>2, <2>3, QuietFacts, SucceedStep
<1>5. CASE \E id \in RoomsByExternal(req[t].platform, req[t].external) :
             /\ req[t].kind # "provision"
             /\ req' = [req EXCEPT ![t].pc = "puppet", ![t].id = id, ![t].matrix = rooms[id].matrix]
             /\ UNCHANGED <<answered, faults>>
  <2>1. PICK id \in RoomsByExternal(req[t].platform, req[t].external) :
             /\ req[t].kind # "provision"
             /\ req' = [req EXCEPT ![t].pc = "puppet", ![t].id = id, ![t].matrix = rooms[id].matrix]
             /\ UNCHANGED <<answered, faults>>
    BY <1>5
  <2>2. id \in DOMAIN rooms /\ id \in Nat /\ rooms[id].matrix \in MatrixRooms
    BY DEF RoomsByExternal, IInv, TypeOK, StoreTypeOK, RoomRow
  <2>3. PICK j : j = [req[t] EXCEPT !.pc = "puppet", !.id = id, !.matrix = rooms[id].matrix]
    OBVIOUS
  <2>4. /\ j \in Request /\ j.pc = "puppet" /\ j.matrix = rooms[id].matrix
        /\ j.kind = req[t].kind /\ j.key = req[t].key /\ j.platform = req[t].platform /\ j.known = req[t].known
    BY <1>2, <2>2, <2>3 DEF Request, Stages
  <2>5. rooms[id].matrix \in created
    BY <2>2 DEF IInv, TypeOK, BotInMappedRooms
  <2>6. req[t].kind = "message"
    BY <1>2, <2>1 DEF Request
  <2>7. Orderly(j)
    BY <1>2, <2>4, <2>5, <2>6 DEF Orderly
  <2>8. req' = [req EXCEPT ![t] = j]
    BY <2>1, <2>3 DEF IInv, TypeOK
  <2>9. Quiet
    BY <1>3, <2>1 DEF Quiet
  <2>10. AckedOnRecord' /\ answered' \subseteq Answer
    BY <2>1, <2>9, QuietFacts, AnswersKept
  <2> QED BY <2>4, <2>7, <2>8, <2>9, <2>10, QuietStep
<1>6. CASE Goto(t, "create") /\ UNCHANGED <<answered, faults>>
  <2>1. PICK j : j = [req[t] EXCEPT !.pc = "create"]
    OBVIOUS
  <2>2. "create" \in Stages \ {"map", "leave"}
    BY DEF Stages
  <2>3. /\ j.pc = "create" /\ j.kind = req[t].kind /\ j.key = req[t].key
        /\ j.platform = req[t].platform /\ j.known = req[t].known
    BY <1>2, <2>1, <2>2, GotoFields
  <2>4. Orderly(j)
    BY <1>2, <2>3 DEF Orderly
  <2>5. Quiet
    BY <1>3, <1>6 DEF Quiet
  <2> QED BY <1>2, <1>6, <2>1, <2>2, <2>4, <2>5, GotoStep
<1> QED BY <1>4, <1>5, <1>6 DEF LookupRoom

LEMMA CreateRoomStep ==
    ASSUME IInv, NEW t \in Requests, CreateRoom(t)
    PROVE  IInv'
<1>1. req[t].pc = "create" /\ created # MatrixRooms
  BY DEF CreateRoom, At
<1>2. req[t] \in Request /\ Orderly(req[t])
  BY <1>1, AtRequest
<1>3. PICK m : m = FreshRoom
  OBVIOUS
<1>4. m \in MatrixRooms \ created
  BY <1>1, <1>3 DEF FreshRoom, IInv, TypeOK
<1>5. /\ created' = created \cup {m} /\ joined' = joined \cup {<<m, "bot">>}
      /\ sent' = sent /\ membership' = membership /\ kicked' = kicked /\ UNCHANGED answered
      /\ rooms' = rooms /\ msgs' = msgs /\ roomSeq' = roomSeq /\ reply' = {}
  BY <1>3 DEF CreateRoom, NoStore
<1>6. /\ created \subseteq created' /\ created' \subseteq MatrixRooms
      /\ joined \subseteq joined' /\ joined' \subseteq created' \X Users
      /\ sent' \subseteq Sent /\ membership' \subseteq MatrixRooms
  BY <1>4, <1>5 DEF IInv, TypeOK, Users
<1>7. faults' \in 0 .. MaxFaults
  BY FaultsCounted DEF CreateRoom
<1>8. StoreTypeOK' /\ RecordsSent'
  BY <1>5 DEF IInv, TypeOK, StoreTypeOK, RecordsSent, WasSent
<1>9. AckedOnRecord' /\ answered' \subseteq Answer
  BY <1>5, AnswersKept
<1>10. CASE req' = [req EXCEPT ![t].pc = "map", ![t].matrix = FreshRoom]
  <2>1. PICK j : j = [req[t] EXCEPT !.pc = "map", !.matrix = m]
    OBVIOUS
  <2>2. req' = [req EXCEPT ![t] = j]
    BY <1>3, <1>10, <2>1 DEF IInv, TypeOK
  <2>3. /\ j \in Request /\ j.pc = "map" /\ j.matrix = m
        /\ j.kind = req[t].kind /\ j.key = req[t].key /\ j.platform = req[t].platform /\ j.known = req[t].known
    BY <1>2, <1>4, <2>1 DEF Request, Stages
  <2>4. Unmapped(rooms, m)
    BY <1>4 DEF Unmapped, IInv, TypeOK, BotInMappedRooms
  <2>5. Orderly(j)'
    BY <1>2, <1>5, <2>3, <2>4 DEF Orderly, Unmapped, OnRecord
  <2>6. m \notin OthersRooms(t)
    <3>1. \A u \in Requests : req[u].pc \in {"map", "leave"} => req[u].matrix \in created
      BY AtRequest DEF Orderly
    <3> QED BY <1>4, <3>1 DEF OthersRooms
  <2> QED BY <1>5, <1>6, <1>7, <1>8, <1>9, <2>2, <2>3, <2>5, <2>6, GrowingStep
<1>11. CASE End(t)
  <2>1. req' = [req EXCEPT ![t] = Idle]
    BY <1>11 DEF End
  <2> QED BY <1>5, <1>6, <1>7, <1>8, <1>9, <2>1, IdleFacts, GrowingStep
<1> QED BY <1>10, <1>11 DEF CreateRoom

LEMMA EnsurePuppetStep ==
    ASSUME IInv, NEW t \in Requests, EnsurePuppet(t)
    PROVE  IInv'
<1>1. req[t].pc = "puppet"
  BY DEF EnsurePuppet, At
<1>2. req[t] \in Request /\ Orderly(req[t])
  BY <1>1, AtRequest
<1>3. Quiet /\ UNCHANGED answered
  BY DEF EnsurePuppet, Quiet
<1>4. CASE End(t)
  BY <1>3, <1>4, EndStep
<1>5. ASSUME NEW s \in {"dedup", "botjoin"}, Goto(t, s), s = "dedup" => req[t].matrix \in membership
      PROVE  IInv'
  <2>1. PICK j : j = [req[t] EXCEPT !.pc = s]
    OBVIOUS
  <2>2. s \in Stages \ {"map", "leave"}
    BY DEF Stages
  <2>3. /\ j.pc = s /\ j.kind = req[t].kind /\ j.key = req[t].key /\ j.matrix = req[t].matrix
        /\ j.platform = req[t].platform /\ j.known = req[t].known
    BY <1>2, <2>1, <2>2, GotoFields
  <2>4. Orderly(j)
    BY <1>1, <1>2, <1>5, <2>3 DEF Orderly, IInv, CacheRight
  <2> QED BY <1>2, <1>3, <1>5, <2>1, <2>2, <2>4, GotoStep
<1> QED BY <1>4, <1>5 DEF EnsurePuppet

LEMMA BotJoinsStep ==
    ASSUME IInv, NEW t \in Requests, BotJoins(t)
    PROVE  IInv'
<1>1. req[t].pc = "botjoin"
  BY DEF BotJoins, At
<1>2. req[t] \in Request /\ Orderly(req[t])
  BY <1>1, AtRequest
<1>3. Quiet /\ UNCHANGED answered
  BY DEF BotJoins, Quiet
<1>4. CASE End(t)
  BY <1>3, <1>4, EndStep
<1>5. CASE Goto(t, "invite")
  <2>1. PICK j : j = [req[t] EXCEPT !.pc = "invite"]
    OBVIOUS
  <2>2. "invite" \in Stages \ {"map", "leave"}
    BY DEF Stages
  <2>3. /\ j.pc = "invite" /\ j.kind = req[t].kind /\ j.key = req[t].key /\ j.matrix = req[t].matrix
        /\ j.platform = req[t].platform /\ j.known = req[t].known
    BY <1>2, <2>1, <2>2, GotoFields
  <2>4. Orderly(j)
    BY <1>1, <1>2, <2>3 DEF Orderly
  <2> QED BY <1>2, <1>3, <1>5, <2>1, <2>2, <2>4, GotoStep
<1> QED BY <1>4, <1>5 DEF BotJoins

LEMMA InvitePuppetStep ==
    ASSUME IInv, NEW t \in Requests, InvitePuppet(t)
    PROVE  IInv'
<1>1. req[t].pc = "invite"
  BY DEF InvitePuppet, At
<1>2. req[t] \in Request /\ Orderly(req[t])
  BY <1>1, AtRequest
<1>3. Quiet /\ UNCHANGED answered
  BY DEF InvitePuppet, Quiet
<1>4. CASE End(t)
  BY <1>3, <1>4, EndStep
<1>5. CASE Goto(t, "join")
  <2>1. PICK j : j = [req[t] EXCEPT !.pc = "join"]
    OBVIOUS
  <2>2. "join" \in Stages \ {"map", "leave"}
    BY DEF Stages
  <2>3. /\ j.pc = "join" /\ j.kind = req[t].kind /\ j.key = req[t].key /\ j.matrix = req[t].matrix
        /\ j.platform = req[t].platform /\ j.known = req[t].known
    BY <1>2, <2>1, <2>2, GotoFields
  <2>4. Orderly(j)
    BY <1>1, <1>2, <2>3 DEF Orderly
  <2> QED BY <1>2, <1>3, <1>5, <2>1, <2>2, <2>4, GotoStep
<1> QED BY <1>4, <1>5 DEF InvitePuppet

LEMMA PuppetJoinsStep ==
    ASSUME IInv, NEW t \in Requests, PuppetJoins(t)
    PROVE  IInv'
<1>1. req[t].pc = "join"
  BY DEF PuppetJoins, At
<1>2. req[t] \in Request /\ Orderly(req[t])
  BY <1>1, AtRequest
<1>3. PICK m : m = req[t].matrix
  OBVIOUS
<1>4. m \in created
  BY <1>1, <1>2, <1>3 DEF Orderly
<1>5. /\ created' = created /\ joined' = joined \cup {<<m, "puppet">>}
      /\ sent' = sent /\ kicked' = kicked /\ UNCHANGED answered
      /\ rooms' = rooms /\ msgs' = msgs /\ roomSeq' = roomSeq /\ reply' = {}
      /\ membership' = membership \/ membership' = membership \cup {m}
  BY <1>3 DEF PuppetJoins, NoStore
<1>6. /\ created' \subseteq MatrixRooms
      /\ joined \subseteq joined' /\ joined' \subseteq created' \X Users
      /\ sent' \subseteq Sent /\ membership' \subseteq MatrixRooms
      /\ \A n \in membership' \ membership : <<n, "puppet">> \in joined'
  BY <1>4, <1>5 DEF IInv, TypeOK, Users
<1>7. faults' \in 0 .. MaxFaults
  BY FaultsCounted DEF PuppetJoins
<1>8. StoreTypeOK' /\ RecordsSent'
  BY <1>5 DEF IInv, TypeOK, StoreTypeOK, RecordsSent, WasSent
<1>9. AckedOnRecord' /\ answered' \subseteq Answer
  BY <1>5, AnswersKept
<1>10. CASE Goto(t, "dedup")
  <2>1. PICK j : j = [req[t] EXCEPT !.pc = "dedup"]
    OBVIOUS
  <2>2. "dedup" \in Stages
    BY DEF Stages
  <2>3. /\ j \in Request /\ j.pc = "dedup" /\ j.kind = req[t].kind /\ j.key = req[t].key /\ j.matrix = m
        /\ j.platform = req[t].platform /\ j.known = req[t].known
    BY <1>2, <1>3, <2>1, <2>2, GotoFields
  <2>4. Orderly(j)'
    BY <1>1, <1>2, <1>4, <1>5, <2>3 DEF Orderly, OnRecord
  <2>5. req' = [req EXCEPT ![t] = j]
    BY <1>10, <2>1 DEF Goto, IInv, TypeOK
  <2> QED BY <1>5, <1>6, <1>7, <1>8, <1>9, <2>3, <2>4, <2>5, GrowingStep
<1>11. CASE End(t)
  <2>1. req' = [req EXCEPT ![t] = Idle]
    BY <1>11 DEF End
  <2> QED BY <1>5, <1>6, <1>7, <1>8, <1>9, <2>1, IdleFacts, GrowingStep
<1> QED BY <1>10, <1>11 DEF PuppetJoins

(* A message is answered with the event it is on record under.             *)
LEMMA CheckDuplicateStep ==
    ASSUME IInv, NEW t \in Requests, CheckDuplicate(t)
    PROVE  IInv'
<1>1. req[t].pc = "dedup"
  BY DEF CheckDuplicate, At
<1>2. req[t] \in Request /\ Orderly(req[t])
  BY <1>1, AtRequest
<1>3. NoStore /\ UNCHANGED <<hsVars, membership, kicked>>
  BY DEF CheckDuplicate
<1>4. CASE \E r \in MessagesByExternal(req[t].platform, req[t].key) : Succeed(t, r.event)
  <2>1. PICK r \in MessagesByExternal(req[t].platform, req[t].key) : Succeed(t, r.event)
    BY <1>4
  <2>2. r \in msgs /\ r.platform = req[t].platform /\ r.external = req[t].key
    BY DEF MessagesByExternal
  <2>3. r.event \in Events
    BY <2>2 DEF IInv, TypeOK, StoreTypeOK, MessageRow
  <2>4. WasSent(sent, r.event, req[t].platform, req[t].key)
    BY <2>2 DEF IInv, RecordsSent
  <2>5. Quiet
    BY <1>3, <2>1 DEF Quiet, Succeed
  <2> QED BY <1>2, <1>3, <2>1, <2>2, <2>3, <2>4, <2>5, QuietFacts, SucceedStep
<1>5. CASE /\ MessagesByExternal(req[t].platform, req[t].key) = {}
           /\ Goto(t, "send") /\ UNCHANGED <<answered, faults>>
  <2>1. PICK j : j = [req[t] EXCEPT !.pc = "send"]
    OBVIOUS
  <2>2. "send" \in Stages \ {"map", "leave"}
    BY DEF Stages
  <2>3. /\ j.pc = "send" /\ j.kind = req[t].kind /\ j.key = req[t].key /\ j.matrix = req[t].matrix
        /\ j.platform = req[t].platform /\ j.known = req[t].known
    BY <1>2, <2>1, <2>2, GotoFields
  <2>4. ~req[t].known
    BY <1>2, <1>5 DEF Orderly, OnRecord, MessagesByExternal
  <2>5. Orderly(j)
    BY <1>1, <1>2, <2>3, <2>4 DEF Orderly
  <2>6. Quiet
    BY <1>3, <1>5 DEF Quiet
  <2> QED BY <1>2, <1>5, <2>1, <2>2, <2>5, <2>6, GotoStep
<1> QED BY <1>4, <1>5 DEF CheckDuplicate

LEMMA DuplicateCheckFailsStep ==
    ASSUME IInv, NEW t \in Requests, DuplicateCheckFails(t)
    PROVE  IInv'
<1>1. req[t].pc = "dedup"
  BY DEF DuplicateCheckFails, At
<1>2. req[t] \in Request /\ Orderly(req[t])
  BY <1>1, AtRequest
<1>3. Quiet /\ UNCHANGED answered
  BY DEF DuplicateCheckFails, Quiet
<1>4. PICK j : j = [req[t] EXCEPT !.pc = "send", !.known = FALSE]
  OBVIOUS
<1>5. req' = [req EXCEPT ![t] = j]
  BY <1>4 DEF DuplicateCheckFails, IInv, TypeOK
<1>6. /\ j \in Request /\ j.pc = "send" /\ j.matrix = req[t].matrix /\ j.known = FALSE
      /\ j.kind = req[t].kind /\ j.key = req[t].key /\ j.platform = req[t].platform
  BY <1>2, <1>4 DEF Request, Stages
<1>7. Orderly(j)
  BY <1>1, <1>2, <1>6 DEF Orderly
<1>8. AckedOnRecord' /\ answered' \subseteq Answer
  BY <1>3, QuietFacts, AnswersKept
<1> QED BY <1>3, <1>5, <1>6, <1>7, <1>8, QuietStep

LEMMA SendStep ==
    ASSUME IInv, NEW t \in Requests, Send(t)
    PROVE  IInv'
<1>1. req[t].pc = "send" /\ Events # {s.event : s \in sent}
  BY DEF Send, At
<1>2. req[t] \in Request /\ Orderly(req[t])
  BY <1>1, AtRequest
<1>3. PICK ev : ev = FreshEvent
  OBVIOUS
<1>4. ev \in Events
  <2>1. {s.event : s \in sent} \subseteq Events
    BY DEF IInv, TypeOK, Sent
  <2> QED BY <1>1, <1>3, <2>1 DEF FreshEvent
<1>5. PICK s : s = [event |-> ev, platform |-> req[t].platform, key |-> req[t].key, room |-> req[t].matrix]
  OBVIOUS
<1>6. /\ created' = created /\ joined' = joined /\ membership' = membership
      /\ sent' = sent \cup {s} /\ kicked' = kicked /\ UNCHANGED answered
      /\ rooms' = rooms /\ msgs' = msgs /\ roomSeq' = roomSeq /\ reply' = {}
  BY <1>3, <1>5 DEF Send, NoStore
<1>7. req[t].matrix \in MatrixRooms /\ req[t].key \in Messages /\ req[t].platform \in Platforms
  BY <1>1, <1>2 DEF Orderly, IInv, TypeOK, Request
<1>8. /\ created' \subseteq MatrixRooms /\ joined' \subseteq created' \X Users
      /\ sent \subseteq sent' /\ sent' \subseteq Sent /\ membership' \subseteq MatrixRooms
  BY <1>4, <1>5, <1>6, <1>7 DEF IInv, TypeOK, Sent
<1>9. faults' \in 0 .. MaxFaults
  BY FaultsCounted DEF Send
<1>10. StoreTypeOK' /\ RecordsSent'
  BY <1>6 DEF IInv, TypeOK, StoreTypeOK, RecordsSent, WasSent
<1>11. AckedOnRecord' /\ answered' \subseteq Answer
  BY <1>6, AnswersKept
<1>12. CASE req' = [req EXCEPT ![t].pc = "record", ![t].event = FreshEvent]
  <2>1. PICK j : j = [req[t] EXCEPT !.pc = "record", !.event = ev]
    OBVIOUS
  <2>2. req' = [req EXCEPT ![t] = j]
    BY <1>3, <1>12, <2>1 DEF IInv, TypeOK
  <2>3. /\ j \in Request /\ j.pc = "record" /\ j.event = ev /\ j.matrix = req[t].matrix
        /\ j.kind = req[t].kind /\ j.key = req[t].key /\ j.platform = req[t].platform /\ j.known = req[t].known
    BY <1>2, <1>4, <2>1 DEF Request, Stages
  <2>4. WasSent(sent', j.event, j.platform, j.key)
    BY <1>5, <1>6, <2>3 DEF WasSent
  <2>5. Orderly(j)'
    BY <1>1, <1>2, <1>4, <1>6, <2>3, <2>4 DEF Orderly, OnRecord
  <2> QED BY <1>6, <1>8, <1>9, <1>10, <1>11, <2>2, <2>3, <2>5, GrowingStep
<1>13. CASE End(t)
  <2>1. req' = [req EXCEPT ![t] = Idle]
    BY <1>13 DEF End
  <2> QED BY <1>6, <1>8, <1>9, <1>10, <1>11, <2>1, IdleFacts, GrowingStep
<1> QED BY <1>12, <1>13 DEF Send

(* The row is in before the answer is given.                               *)
LEMMA RecordStep ==
    ASSUME IInv, NEW t \in Requests, Record(t)
    PROVE  IInv'
<1>1. req[t].pc = "record"
  BY DEF Record, At
<1>2. req[t] \in Request /\ Orderly(req[t])
  BY <1>1, AtRequest
<1>3. /\ req[t].event \in Events /\ req[t].key \in Messages /\ req[t].platform \in Platforms
      /\ WasSent(sent, req[t].event, req[t].platform, req[t].key)
  BY <1>1, <1>2 DEF Orderly, Request
<1>4. PICK r : r = [event |-> req[t].event, platform |-> req[t].platform, external |-> req[t].key, room |-> req[t].id]
  OBVIOUS
<1>5. r \in MessageRow
  BY <1>2, <1>3, <1>4 DEF MessageRow, Request
<1>6. /\ msgs' = msgs \cup {r} /\ reply' = {} /\ rooms' = rooms /\ roomSeq' = roomSeq
      /\ sent' = sent
  BY <1>4 DEF Record, RecordMessage, hsVars
<1>7. r.event = req[t].event /\ r.platform = req[t].platform /\ r.external = req[t].key
  BY <1>4
<1>8. StoreTypeOK'
  BY <1>5, <1>6 DEF IInv, TypeOK, StoreTypeOK
<1>9. RecordsSent'
  BY <1>3, <1>6, <1>7 DEF IInv, RecordsSent, WasSent
<1>10. Succeed(t, req[t].event) /\ UNCHANGED <<hsVars, membership, kicked>>
  BY DEF Record
<1>11. msgs \subseteq msgs' /\ r \in msgs'
  BY <1>6
<1> QED BY <1>2, <1>3, <1>6, <1>7, <1>8, <1>9, <1>10, <1>11, SucceedStep

(* Tables that say the same of every message.                              *)
LEMMA RecordsKept ==
    ASSUME IInv, Records(msgs') = Records(msgs), UNCHANGED sent
    PROVE  /\ RecordsSent'
           /\ \A p, k : OnRecord(msgs, p, k) => OnRecord(msgs', p, k)
           /\ \A ev, p, k : (\E r \in msgs : r.event = ev /\ r.platform = p /\ r.external = k)
                           => (\E r \in msgs' : r.event = ev /\ r.platform = p /\ r.external = k)
<1>1. \A r \in msgs' : \E q \in msgs : r.event = q.event /\ r.platform = q.platform /\ r.external = q.external
  <2> SUFFICES ASSUME NEW r \in msgs'
               PROVE  \E q \in msgs : r.event = q.event /\ r.platform = q.platform /\ r.external = q.external
    OBVIOUS
  <2>1. <<r.event, r.platform, r.external>> \in Records(msgs)
    BY DEF Records
  <2> QED BY <2>1 DEF Records
<1>2. \A q \in msgs : \E r \in msgs' : r.event = q.event /\ r.platform = q.platform /\ r.external = q.external
  <2> SUFFICES ASSUME NEW q \in msgs
               PROVE  \E r \in msgs' : r.event = q.event /\ r.platform = q.platform /\ r.external = q.external
    OBVIOUS
  <2>1. <<q.event, q.platform, q.external>> \in Records(msgs')
    BY DEF Records
  <2> QED BY <2>1 DEF Records
<1>3. RecordsSent'
  BY <1>1 DEF IInv, RecordsSent, WasSent
<1> QED BY <1>2, <1>3 DEF OnRecord

(* A request that maps its room: no other request is to map or leave it.   *)
LEMMA MappingStep ==
    ASSUME IInv, NEW t \in Requests, At(t, "map"), NEW m, m = req[t].matrix, Upserted(m),
           UNCHANGED <<hsVars, membership, kicked>>,
           NEW j, req' = [req EXCEPT ![t] = j], j = Idle \/ (j \in Request /\ Orderly(j)'),
           j.pc \in {"map", "leave"} => j.matrix = m,
           NEW a \in Answer, a.kind = "provision", answered' = answered \/ answered' = answered \cup {a},
           faults' \in 0 .. MaxFaults
    PROVE  IInv'
<1>1. req[t] \in Request /\ Orderly(req[t]) /\ req[t].pc = "map"
  BY AtRequest DEF At
<1>2. /\ created' = created /\ joined' = joined /\ sent' = sent
      /\ membership' = membership /\ kicked' = kicked
  BY DEF hsVars
<1>3. StoreTypeOK' /\ Rooted(rooms', m) /\ Records(msgs') = Records(msgs)
  BY DEF Upserted
<1>4. /\ req' \in [Requests -> Request \cup {Idle}]
      /\ req'[t] = j /\ \A u \in Requests : u # t => req'[u] = req[u]
  BY DEF IInv, TypeOK
<1>5. TypeOK'
  BY <1>2, <1>3, <1>4 DEF IInv, TypeOK
<1>6. RequestsOrderly'
  <2> SUFFICES ASSUME NEW u \in Requests
               PROVE  OrderlyAt(u)'
    BY DEF RequestsOrderly
  <2>1. CASE u = t
    BY <1>4, <2>1, OrderlyMoved
  <2>2. CASE u # t
    <3>1. PICK q : q = req[u]
      OBVIOUS
    <3>2. q = Idle \/ Orderly(q)
      BY <3>1 DEF IInv, RequestsOrderly, OrderlyAt
    <3>3. q.pc \in {"map", "leave"} => q.matrix # m
      BY <1>1, <2>2, <3>1 DEF IInv, OwnRooms
    <3>4. Orderly(q) /\ q.pc \in {"map", "leave"} => Unmapped(rooms', q.matrix)
      BY <1>3, <3>3 DEF Orderly, Unmapped, Rooted
    <3>5. Orderly(q) => Orderly(q)'
      BY <1>2, <1>3, <3>4, RecordsKept DEF Orderly
    <3>6. req'[u] = q
      BY <1>4, <2>2, <3>1
    <3> QED BY <3>2, <3>5, <3>6, OrderlyMoved
  <2> QED BY <2>1, <2>2
<1>7. OwnRooms'
  <2>1. \A u \in Requests : u # t /\ req[u].pc \in {"map", "leave"} => req[u].matrix # m
    BY <1>1 DEF IInv, OwnRooms
  <2> QED BY <1>4, <2>1 DEF IInv, OwnRooms
<1>8. BotInMappedRooms' /\ CacheRight'
  <2>1. <<m, "bot">> \in joined
    BY <1>1 DEF Orderly
  <2> QED BY <1>2, <1>3, <2>1 DEF IInv, BotInMappedRooms, Rooted, CacheRight
<1>9. AckedOnRecord'
  BY <1>2, <1>3, RecordsKept DEF IInv, AckedOnRecord
<1>10. RecordsSent'
  BY <1>2, <1>3, RecordsKept
<1>11. answered' \subseteq Answer
  BY DEF IInv, TypeOK
<1> QED BY <1>5, <1>6, <1>7, <1>8, <1>9, <1>10, <1>11 DEF IInv

LEMMA MapRoomStep ==
    ASSUME IInv, NEW t \in Requests, MapRoom(t)
    PROVE  IInv'
<1>1. At(t, "map") /\ req[t].pc = "map"
  BY DEF MapRoom, At
<1>2. req[t] \in Request /\ Orderly(req[t])
  BY <1>1, AtRequest
<1>3. PICK m : m = req[t].matrix
  OBVIOUS
<1>4. m \in created /\ m \in MatrixRooms /\ <<m, "bot">> \in joined
  BY <1>1, <1>2, <1>3 DEF Orderly, IInv, TypeOK
<1>5. Upserted(m)
  <2>1. req[t].platform \in Platforms /\ req[t].external \in ExternalRooms
    BY <1>2 DEF Request
  <2>2. StoreTypeOK
    BY DEF IInv, TypeOK
  <2> QED BY <1>3, <1>4, <2>1, <2>2, UpsertOutcome DEF MapRoom
<1>6. UNCHANGED <<hsVars, membership, kicked>>
  BY DEF MapRoom
<1>7. PICK a : a = [kind |-> "provision", platform |-> req[t].platform, external |-> req[t].external,
                    key |-> req[t].key, value |-> m]
  OBVIOUS
<1>8. a \in Answer /\ a.kind = "provision"
  BY <1>2, <1>4, <1>7 DEF Request, Answer
<1>9. ASSUME req[t].kind = "provision", End(t), Receives(t, m) \/ UNCHANGED answered,
             UNCHANGED faults \/ Fault
      PROVE  IInv'
  <2>1. req' = [req EXCEPT ![t] = Idle]
    BY <1>9 DEF End
  <2>2. answered' = answered \/ answered' = answered \cup {a}
    BY <1>7, <1>9 DEF Receives
  <2>3. faults' \in 0 .. MaxFaults
    BY <1>9, FaultsCounted
  <2> QED BY <1>1, <1>3, <1>5, <1>6, <1>8, <2>1, <2>2, <2>3, IdleFacts, MappingStep
<1>10. ASSUME NEW r \in Reply, ~r.ok => UNCHANGED <<rooms, msgs>>, ~r.ok \/ req[t].kind = "message",
              UNCHANGED faults \/ Fault, UNCHANGED answered,
              req' = [req EXCEPT ![t].pc = IF r.ok THEN "puppet" ELSE "leave", ![t].id = IF r.ok THEN r.id ELSE 0]
       PROVE  IInv'
  <2>1. PICK pc \in {"puppet", "leave"} : pc = IF r.ok THEN "puppet" ELSE "leave"
    OBVIOUS
  <2>2. PICK id \in Nat : id = IF r.ok THEN r.id ELSE 0
    BY DEF Reply
  <2>3. PICK j : j = [req[t] EXCEPT !.pc = pc, !.id = id]
    OBVIOUS
  <2>4. req' = [req EXCEPT ![t] = j]
    BY <1>10, <2>1, <2>2, <2>3 DEF IInv, TypeOK
  <2>5. /\ j \in Request /\ j.pc = pc /\ j.matrix = m
        /\ j.kind = req[t].kind /\ j.key = req[t].key /\ j.platform = req[t].platform /\ j.known = req[t].known
    BY <1>2, <1>3, <2>3 DEF Request, Stages
  <2>6. pc = "leave" => Unmapped(rooms', m)
    BY <1>1, <1>2, <1>3, <1>10, <2>1 DEF Orderly, Unmapped
  <2>7. pc = "puppet" => req[t].kind = "message"
    BY <1>10, <2>1
  <2>8. j.known => OnRecord(msgs', j.platform, j.key)
    <3>1. Records(msgs') = Records(msgs) /\ UNCHANGED sent
      BY <1>5, <1>6 DEF Upserted, hsVars
    <3> QED BY <1>2, <2>5, <3>1, RecordsKept DEF Orderly
  <2>9. created' = created
    BY <1>6 DEF hsVars
  <2>10. Orderly(j)'
    BY <1>2, <1>4, <2>5, <2>6, <2>7, <2>8, <2>9 DEF Orderly
  <2>11. faults' \in 0 .. MaxFaults
    BY <1>10, FaultsCounted
  <2>12. answered' = answered
    BY <1>10
  <2>13. j.pc \in {"map", "leave"} => j.matrix = m
    BY <2>5
  <2>14. j = Idle \/ (j \in Request /\ Orderly(j)')
    BY <2>5, <2>10
  <2> QED BY <1>1, <1>3, <1>5, <1>6, <1>8, <2>4, <2>11, <2>12, <2>13, <2>14, MappingStep
<1>11. PICK r \in Reply : reply' = {r} /\ (~r.ok => UNCHANGED <<rooms, msgs>>)
  BY <1>5 DEF Upserted
<1>12. \/ req[t].kind = "provision" /\ Succeed(t, m)
       \/ req[t].kind = "provision" /\ Fault /\ End(t) /\ Receives(t, m)
       \/ /\ ~r.ok \/ req[t].kind = "message"
          /\ IF r.fault THEN Fault ELSE UNCHANGED faults
          /\ req' = [req EXCEPT ![t].pc = IF r.ok THEN "puppet" ELSE "leave", ![t].id = IF r.ok THEN r.id ELSE 0]
          /\ UNCHANGED answered
  BY <1>3, <1>11 DEF MapRoom
<1> QED BY <1>9, <1>10, <1>11, <1>12 DEF Succeed

(* The room that is left is mapped nowhere, and is no other request's.     *)
LEMMA LeaveRoomStep ==
    ASSUME IInv, NEW t \in Requests, LeaveRoom(t)
    PROVE  IInv'
<1>1. req[t].pc = "leave"
  BY DEF LeaveRoom, At
<1>2. PICK m : m = req[t].matrix
  OBVIOUS
<1>3. Unmapped(rooms, m)
  BY <1>1, <1>2, AtRequest DEF Orderly
<1>4. /\ created' = created /\ sent' = sent /\ membership' = membership /\ kicked' = kicked
      /\ answered' = answered /\ joined' \subseteq joined /\ joined \ {<<m, "bot">>} \subseteq joined'
      /\ rooms' = rooms /\ msgs' = msgs /\ roomSeq' = roomSeq /\ reply' = {}
  BY <1>2 DEF LeaveRoom, Fail, NoStore
<1>5. req' = [req EXCEPT ![t] = Idle]
  BY DEF LeaveRoom, Fail, End
<1>6. /\ req' \in [Requests -> Request \cup {Idle}]
      /\ req'[t] = Idle /\ \A u \in Requests : u # t => req'[u] = req[u]
  BY <1>5 DEF IInv, TypeOK
<1>7. faults' \in 0 .. MaxFaults
  BY FaultsCounted DEF LeaveRoom
<1>8. TypeOK'
  BY <1>4, <1>6, <1>7 DEF IInv, TypeOK, StoreTypeOK
<1>9. RequestsOrderly'
  <2> SUFFICES ASSUME NEW u \in Requests
               PROVE  OrderlyAt(u)'
    BY DEF RequestsOrderly
  <2>1. CASE u = t
    BY <1>6, <2>1 DEF OrderlyAt, Idle
  <2>2. CASE u # t
    <3>1. PICK q : q = req[u]
      OBVIOUS
    <3>2. q = Idle \/ Orderly(q)
      BY <3>1 DEF IInv, RequestsOrderly, OrderlyAt
    <3>3. q.pc = "map" => q.matrix # m
      BY <1>1, <1>2, <2>2, <3>1 DEF IInv, OwnRooms
    <3>4. \A x : <<x, "puppet">> # <<m, "bot">>
      OBVIOUS
    <3>5. q.pc = "map" /\ <<q.matrix, "bot">> \in joined => <<q.matrix, "bot">> \in joined'
      BY <1>4, <3>3
    <3>6. \A x : <<x, "puppet">> \in joined => <<x, "puppet">> \in joined'
      BY <1>4, <3>4
    <3>7. Orderly(q) => Orderly(q)'
      BY <1>4, <3>5, <3>6 DEF Orderly, Unmapped, OnRecord, WasSent
    <3>8. req'[u] = q
      BY <1>6, <2>2, <3>1
    <3> QED BY <3>2, <3>7, <3>8, OrderlyMoved
  <2> QED BY <2>1, <2>2
<1>10. OwnRooms'
  BY <1>6, IdleFacts DEF IInv, OwnRooms
<1>11. BotInMappedRooms'
  <2> SUFFICES ASSUME NEW id \in DOMAIN rooms
               PROVE  <<rooms[id].matrix, "bot">> \in joined'
    BY <1>4 DEF BotInMappedRooms
  <2>1. rooms[id].matrix # m /\ <<rooms[id].matrix, "bot">> \in joined
    BY <1>3 DEF Unmapped, IInv, BotInMappedRooms
  <2> QED BY <1>4, <2>1
<1>12. CacheRight'
  <2>1. \A x : <<x, "puppet">> # <<m, "bot">>
    OBVIOUS
  <2> QED BY <1>4, <2>1 DEF IInv, CacheRight
<1>13. AckedOnRecord' /\ RecordsSent'
  BY <1>4 DEF IInv, AckedOnRecord, RecordsSent, WasSent
<1> QED BY <1>8, <1>9, <1>10, <1>11, <1>12, <1>13 DEF IInv

LEMMA CrashStep == IInv /\ Crash => IInv'
<1> SUFFICES ASSUME IInv, Crash
             PROVE  IInv'
  OBVIOUS
<1>1. /\ req' = [t \in Requests |-> Idle] /\ membership' = {} /\ kicked' = {}
      /\ created' = created /\ joined' = joined /\ sent' = sent /\ answered' = answered
      /\ rooms' = rooms /\ msgs' = msgs /\ roomSeq' = roomSeq /\ reply' = {}
  BY DEF Crash, NoStore, hsVars
<1>2. faults' \in 0 .. MaxFaults
  BY FaultsCounted DEF Crash
<1>3. TypeOK'
  BY <1>1, <1>2 DEF IInv, TypeOK, StoreTypeOK
<1>4. RequestsOrderly'
  BY <1>1 DEF RequestsOrderly, OrderlyAt
<1>5. OwnRooms'
  BY <1>1, IdleFacts DEF OwnRooms
<1>6. AckedOnRecord' /\ RecordsSent' /\ CacheRight' /\ BotInMappedRooms'
  BY <1>1 DEF IInv, AckedOnRecord, RecordsSent, WasSent, CacheRight, BotInMappedRooms
<1> QED BY <1>3, <1>4, <1>5, <1>6 DEF IInv

(* What was true of the puppet in the room is replaced by the kick.        *)
LEMMA KickStep ==
    ASSUME IInv, NEW m \in created, Kick(m)
    PROVE  IInv'
<1>1. /\ created' = created /\ sent' = sent /\ req' = req /\ membership' = membership
      /\ answered' = answered /\ joined' = joined \ {<<m, "puppet">>} /\ kicked' = kicked \cup {m}
      /\ rooms' = rooms /\ msgs' = msgs /\ roomSeq' = roomSeq /\ reply' = {}
  BY DEF Kick, NoStore
<1>2. faults' \in 0 .. MaxFaults
  BY FaultsCounted DEF Kick
<1>3. TypeOK'
  BY <1>1, <1>2 DEF IInv, TypeOK, StoreTypeOK
<1>4. \A x : <<x, "bot">> \in joined => <<x, "bot">> \in joined'
  BY <1>1
<1>5. \A x : <<x, "puppet">> \in joined \/ x \in kicked => <<x, "puppet">> \in joined' \/ x \in kicked'
  BY <1>1
<1>6. RequestsOrderly'
  <2> SUFFICES ASSUME NEW u \in Requests
               PROVE  OrderlyAt(u)'
    BY DEF RequestsOrderly
  <2>1. PICK q : q = req[u]
    OBVIOUS
  <2>2. q = Idle \/ Orderly(q)
    BY <2>1 DEF IInv, RequestsOrderly, OrderlyAt
  <2>3. Orderly(q) => Orderly(q)'
    BY <1>1, <1>4, <1>5 DEF Orderly, Unmapped, OnRecord, WasSent
  <2> QED BY <1>1, <2>1, <2>2, <2>3, OrderlyMoved
<1>7. OwnRooms'
  BY <1>1 DEF IInv, OwnRooms
<1>8. CacheRight' /\ BotInMappedRooms'
  BY <1>1, <1>4, <1>5 DEF IInv, CacheRight, BotInMappedRooms
<1>9. AckedOnRecord' /\ RecordsSent'
  BY <1>1 DEF IInv, AckedOnRecord, RecordsSent, WasSent
<1> QED BY <1>3, <1>6, <1>7, <1>8, <1>9 DEF IInv

(* The messages that go are known to be on record no more.                 *)
LEMMA UnlinkStep ==
    ASSUME IInv, NEW id, Unlink(id)
    PROVE  IInv'
<1>1. /\ created' = created /\ joined' = joined /\ sent' = sent /\ membership' = membership /\ kicked' = kicked
  BY DEF Unlink, hsVars
<1>2. /\ StoreTypeOK' /\ msgs' \subseteq msgs /\ DOMAIN rooms' \subseteq DOMAIN rooms
      /\ \A i \in DOMAIN rooms' : rooms'[i] = rooms[i]
  BY DeleteOutcome DEF Unlink, IInv, TypeOK
<1>3. faults' \in 0 .. MaxFaults
  BY FaultsCounted DEF Unlink
<1>4. PICK gone : gone = msgs \ msgs'
  OBVIOUS
<1> DEFINE Stays(p, k) == \A r \in gone : ~(r.platform = p /\ r.external = k)
<1>5. req' = [t \in Requests |-> IF Active(t) /\ req[t].known
                               THEN [req[t] EXCEPT !.known = Stays(req[t].platform, req[t].key)]
                               ELSE req[t]]
  BY <1>4 DEF Unlink
<1>6. answered' = {a \in answered : IF a.kind = "message" THEN Stays(a.platform, a.key)
                                  ELSE ~(a.platform = rooms[id].platform /\ a.external = rooms[id].external)}
  BY <1>4 DEF Unlink
<1>7. \A p, k : Stays(p, k) \in BOOLEAN
  OBVIOUS
<1>8. \A p, k, r : Stays(p, k) /\ r \in msgs /\ r.platform = p /\ r.external = k => r \in msgs'
  BY <1>4
<1> HIDE DEF Stays
<1>9. ASSUME NEW t \in Requests, req[t] # Idle
      PROVE  /\ req'[t] \in Request
             /\ req'[t].pc = req[t].pc /\ req'[t].kind = req[t].kind /\ req'[t].key = req[t].key
             /\ req'[t].platform = req[t].platform /\ req'[t].matrix = req[t].matrix /\ req'[t].event = req[t].event
             /\ req'[t].known => req[t].known /\ Stays(req[t].platform, req[t].key)
  <2>1. req[t] \in Request
    BY <1>9 DEF IInv, TypeOK
  <2>2. CASE req[t].known
    <3>1. PICK b \in BOOLEAN : b = Stays(req[t].platform, req[t].key)
      BY <1>7
    <3>2. req'[t] = [req[t] EXCEPT !.known = b]
      BY <1>5, <1>9, <2>2, <3>1 DEF Active
    <3> QED BY <2>1, <2>2, <3>1, <3>2 DEF Request
  <2>3. CASE ~req[t].known
    <3>1. req'[t] = req[t]
      BY <1>5, <2>3
    <3> QED BY <2>1, <2>3, <3>1
  <2> QED BY <2>2, <2>3
<1>10. \A t \in Requests : req[t] = Idle => req'[t] = Idle
  BY <1>5 DEF Active
<1>11. req' \in [Requests -> Request \cup {Idle}]
  BY <1>5, <1>9, <1>10
<1>12. TypeOK'
  BY <1>1, <1>2, <1>3, <1>6, <1>11 DEF IInv, TypeOK
<1>13. RequestsOrderly'
  <2> SUFFICES ASSUME NEW u \in Requests, req[u] # Idle
               PROVE  OrderlyAt(u)'
    BY <1>10 DEF RequestsOrderly, OrderlyAt
  <2>1. Orderly(req[u])
    BY DEF IInv, RequestsOrderly, OrderlyAt
  <2>2. PICK j : j = req'[u]
    OBVIOUS
  <2>3. /\ j.pc = req[u].pc /\ j.kind = req[u].kind /\ j.key = req[u].key
        /\ j.platform = req[u].platform /\ j.matrix = req[u].matrix /\ j.event = req[u].event
        /\ j.known => req[u].known /\ Stays(req[u].platform, req[u].key)
    BY <1>9, <2>2
  <2>4. j.known => OnRecord(msgs', j.platform, j.key)
    BY <1>8, <2>1, <2>3 DEF Orderly, OnRecord
  <2>5. \A m : Unmapped(rooms, m) => Unmapped(rooms', m)
    BY <1>2 DEF Unmapped
  <2>6. Orderly(j)'
    BY <1>1, <2>1, <2>3, <2>4, <2>5 DEF Orderly
  <2> QED BY <2>2, <2>6, OrderlyMoved
<1>14. OwnRooms'
  <2> SUFFICES ASSUME NEW t \in Requests, NEW u \in Requests, req'[t].pc \in {"map", "leave"},
                      req'[u].pc \in {"map", "leave"}, req'[t].matrix = req'[u].matrix
               PROVE  t = u
    BY DEF OwnRooms
  <2>1. req[t] # Idle /\ req[u] # Idle
    BY <1>10, IdleFacts
  <2>2. /\ req'[t].pc = req[t].pc /\ req'[t].matrix = req[t].matrix
        /\ req'[u].pc = req[u].pc /\ req'[u].matrix = req[u].matrix
    BY <1>9, <2>1
  <2>3. t \in Requests /\ u \in Requests
    OBVIOUS
  <2> QED BY <2>2, <2>3 DEF IInv, OwnRooms
<1>15. AckedOnRecord'
  <2> SUFFICES ASSUME NEW a \in answered', a.kind = "message"
               PROVE  /\ \E s \in sent' : s.event = a.value /\ s.platform = a.platform /\ s.key = a.key
                      /\ \E r \in msgs' : /\ r.event = a.value /\ r.platform = a.platform
                                        /\ r.external = a.key
    BY DEF AckedOnRecord
  <2>1. a \in answered /\ Stays(a.platform, a.key)
    BY <1>6
  <2> QED BY <1>1, <1>8, <2>1 DEF IInv, AckedOnRecord
<1>16. CacheRight' /\ BotInMappedRooms' /\ RecordsSent'
  BY <1>1, <1>2 DEF IInv, CacheRight, BotInMappedRooms, RecordsSent, WasSent
<1> QED BY <1>12, <1>13, <1>14, <1>15, <1>16 DEF IInv

-----------------------------------------------------------------------------
(* The theorems.                                                           *)

LEMMA InitEstablishes == Init => IInv
<1> SUFFICES ASSUME Init
             PROVE  IInv
  OBVIOUS
<1>1. /\ rooms = [i \in {} |-> {}] /\ msgs = {} /\ roomSeq = 0 /\ reply = {}
      /\ req = [t \in Requests |-> Idle] /\ membership = {} /\ created = {} /\ joined = {} /\ sent = {}
      /\ answered = {} /\ kicked = {} /\ faults = 0
  BY DEF Init, StoreInit
<1>2. DOMAIN rooms = {}
  BY <1>1
<1>3. StoreTypeOK
  BY <1>1, <1>2 DEF StoreTypeOK
<1>4. TypeOK
  BY <1>1, <1>3, InboundAssumption DEF TypeOK
<1>5. RequestsOrderly /\ OwnRooms
  BY <1>1, IdleFacts DEF RequestsOrderly, OrderlyAt, OwnRooms
<1>6. RecordsSent /\ AckedOnRecord /\ CacheRight /\ BotInMappedRooms
  BY <1>1, <1>2 DEF RecordsSent, AckedOnRecord, CacheRight, BotInMappedRooms
<1> QED BY <1>4, <1>5, <1>6 DEF IInv

LEMMA StutterStep == IInv /\ UNCHANGED vars => IInv'
<1> SUFFICES ASSUME IInv, UNCHANGED vars
             PROVE  IInv'
  OBVIOUS
<1>1. /\ rooms' = rooms /\ msgs' = msgs /\ roomSeq' = roomSeq /\ reply' = reply
      /\ created' = created /\ joined' = joined /\ sent' = sent /\ req' = req /\ membership' = membership
      /\ answered' = answered /\ kicked' = kicked /\ faults' = faults
  BY DEF vars, storeVars, hsVars
<1>2. TypeOK'
  BY <1>1 DEF IInv, TypeOK, StoreTypeOK
<1>3. RequestsOrderly' /\ OwnRooms'
  BY <1>1 DEF IInv, RequestsOrderly, OrderlyAt, Orderly, Unmapped, OnRecord, WasSent, OwnRooms
<1>4. RecordsSent' /\ AckedOnRecord' /\ CacheRight' /\ BotInMappedRooms'
  BY <1>1 DEF IInv, RecordsSent, WasSent, AckedOnRecord, CacheRight, BotInMappedRooms
<1> QED BY <1>2, <1>3, <1>4 DEF IInv

LEMMA HandleStep ==
    ASSUME IInv, NEW t \in Requests, Handle(t)
    PROVE  IInv'
BY FailingStep, LookupRoomStep, CreateRoomStep, MapRoomStep, LeaveRoomStep, EnsurePuppetStep, BotJoinsStep,
   InvitePuppetStep, PuppetJoinsStep, CheckDuplicateStep, DuplicateCheckFailsStep, SendStep, RecordStep, Zenon
   DEF Handle

(* The inductive invariant holds in every state of every behaviour.        *)
THEOREM Invariance == Spec => []IInv
<1>1. IInv /\ Next => IInv'
  <2> SUFFICES ASSUME IInv, Next
               PROVE  IInv'
    OBVIOUS
  <2>1. CASE \E t \in Requests : Handle(t) \/ Drop(t)
    BY <2>1, HandleStep, FailingStep, Zenon
  <2>2. CASE \E t \in Requests, p \in Platforms, e \in ExternalRooms :
               Provision(t, p, e) \/ \E k \in Messages : SendMessage(t, p, e, k)
    BY <2>2, ProvisionStep, SendMessageStep, Zenon
  <2>3. CASE Crash
    BY <2>3, CrashStep
  <2>4. CASE \E m \in created : Kick(m)
    BY <2>4, KickStep, Zenon
  <2>5. CASE \E id \in DOMAIN rooms : Unlink(id)
    BY <2>5, UnlinkStep, Zenon
  <2> QED BY <2>1, <2>2, <2>3, <2>4, <2>5 DEF Next
<1>2. IInv /\ [Next]_vars => IInv'
  BY <1>1, StutterStep
<1> QED BY <1>2, InitEstablishes, PTL DEF Spec

(* Every variable keeps its type, whatever fails and whenever.             *)
THEOREM TypeCorrect == Spec => []TypeOK
<1>1. IInv => TypeOK
  BY DEF IInv
<1> QED BY <1>1, Invariance, PTL

(* A successful answer names the event the message was sent as and is on   *)
(* record under: handle_incoming_http answers after the row is in, and a   *)
(* merge of two mappings moves the row and keeps it.                       *)
THEOREM AnswersOnRecord == Spec => []AckedOnRecord
<1>1. IInv => AckedOnRecord
  BY DEF IInv
<1> QED BY <1>1, Invariance, PTL

(* A message that was on record when the request arrived is not sent again *)
(* by it, however many others run and whatever they merge.                 *)
THEOREM RetriesSendNothing == Spec => []NoResend
<1>1. IInv => NoResend
  BY AtRequest DEF Orderly, NoResend, At
<1> QED BY <1>1, Invariance, PTL

(* Only a kick makes the membership cache wrong, and a request that relies *)
(* on it finds the puppet in the room.                                     *)
THEOREM CacheKeepsFaith == Spec => []PuppetInRoom
<1>1. IInv => PuppetInRoom
  BY AtRequest DEF IInv, CacheRight, Orderly, PuppetInRoom, At
<1> QED BY <1>1, Invariance, PTL

(* However requests race for one external room, the bot is a member of     *)
(* every room that is mapped: a cleanup leaves rooms nobody maps.          *)
THEOREM CleanupSparesMapped == Spec => []BotInMappedRooms
<1>1. IInv => BotInMappedRooms
  BY DEF IInv
<1> QED BY <1>1, Invariance, PTL
=============================================================================
