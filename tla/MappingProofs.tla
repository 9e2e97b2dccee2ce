---------------------------- MODULE MappingProofs ----------------------------
(***************************************************************************)
(* Proofs about MappingHandlers, for every choice of the constants: the    *)
(* inductive invariant behind its four state properties, and that it       *)
(* implements LinkTable.                                                   *)
(***************************************************************************)
EXTENDS MappingHandlers, TLAPS

(* The tables R and S as a state of the database with ids up to n.         *)
Tables(R, S, n) ==
    /\ DOMAIN R \subseteq 1 .. n
    /\ R \in [DOMAIN R -> RoomRow]
    /\ S \subseteq MessageRow
    /\ UniqueRooms(R)
    /\ UniqueMessages(S)
    /\ \A r \in S : r.room \in DOMAIN R /\ R[r.room].platform = r.platform

(* A handle is to a row that still has the handle's platform, or is gone   *)
(* for good: ids up to roomSeq are never given again.                      *)
HeldOK ==
    \A h \in held : /\ h.id <= roomSeq
                    /\ h.id \in DOMAIN rooms => rooms[h.id].platform = h.platform

(* The inductive invariant.                                                *)
IInv == /\ TypeOK
        /\ Tables(rooms, msgs, roomSeq)
        /\ HeldOK
        /\ UpsertEstablishes

(* The messages after those of row `from` have moved to row `to`.          *)
Moved(S, from, to) ==
    {r \in S : r.room # from}
      \cup {[r EXCEPT !.room = to] : r \in {s \in S : s.room = from}}

-----------------------------------------------------------------------------
(* The transactions of create_room_mapping, one lemma for each arm.        *)

(* A statement whose result satisfies the constraints succeeds.            *)
LEMMA ExecuteSucceeds ==
    ASSUME NEW R0, NEW S0, NEW R, NEW S, UniqueRooms(R), ForeignKeys(R, S)
    PROVE  Execute([ok |-> TRUE, rooms |-> R0, msgs |-> S0], R, S)
             = [ok |-> TRUE, rooms |-> R, msgs |-> S]
BY DEF Execute

LEMMA DeleteRoomSucceeds ==
    ASSUME NEW R, NEW S, NEW id, NEW D, D = [i \in DOMAIN R \ {id} |-> R[i]],
           NEW T, T = {r \in S : r.room # id}, UniqueRooms(D), ForeignKeys(D, T)
    PROVE  DeleteRoom([ok |-> TRUE, rooms |-> R, msgs |-> S], id)
             = [ok |-> TRUE, rooms |-> D, msgs |-> T]
<1> DEFINE tx == [ok |-> TRUE, rooms |-> R, msgs |-> S]
<1>1. tx.rooms = R /\ tx.msgs = S
  OBVIOUS
<1>2. DeleteRoom(tx, id) = Execute(tx, D, T)
  <2> HIDE DEF tx
  <2> QED BY <1>1, Zenon DEF DeleteRoom
<1> QED BY <1>2, ExecuteSucceeds

LEMMA SetExternalSucceeds ==
    ASSUME NEW R, NEW S, NEW id, NEW e, NEW T,
           T = [R EXCEPT ![id] = [@ EXCEPT !.external = e]],
           UniqueRooms(T), ForeignKeys(T, S)
    PROVE  SetExternal([ok |-> TRUE, rooms |-> R, msgs |-> S], id, e)
             = [ok |-> TRUE, rooms |-> T, msgs |-> S]
<1> DEFINE tx == [ok |-> TRUE, rooms |-> R, msgs |-> S]
<1>1. tx.rooms = R /\ tx.msgs = S
  OBVIOUS
<1>2. SetExternal(tx, id, e) = Execute(tx, T, S)
  <2>1. [tx.rooms EXCEPT ![id] = [@ EXCEPT !.external = e]] = T
    BY <1>1
  <2> HIDE DEF tx
  <2> QED BY <1>1, <2>1 DEF SetExternal
<1>3. Execute(tx, T, S) = [ok |-> TRUE, rooms |-> T, msgs |-> S]
  BY DEF Execute
<1> QED BY <1>2, <1>3, Zenon

(* UPDATE of one column: `row` is the row it makes of row id.              *)
LEMMA SetExternalResult ==
    ASSUME NEW id \in DOMAIN rooms, rooms[id] \in RoomRow, NEW e, NEW row,
           row = [matrix |-> rooms[id].matrix, platform |-> rooms[id].platform, external |-> e],
           NEW R, R = [rooms EXCEPT ![id] = row]
    PROVE  SetExternal(Begin, id, e) = Execute(Begin, R, msgs)
<1>1. Begin.rooms = rooms /\ Begin.msgs = msgs
  BY DEF Begin
<1>2. [rooms[id] EXCEPT !.external = e] = row
  BY DEF RoomRow
<1>3. [Begin.rooms EXCEPT ![id] = [@ EXCEPT !.external = e]] = R
  BY <1>1, <1>2
<1> QED BY <1>1, <1>3 DEF SetExternal

LEMMA SetMatrixResult ==
    ASSUME NEW id \in DOMAIN rooms, rooms[id] \in RoomRow, NEW m, NEW row,
           row = [matrix |-> m, platform |-> rooms[id].platform, external |-> rooms[id].external],
           NEW R, R = [rooms EXCEPT ![id] = row]
    PROVE  SetMatrix(Begin, id, m) = Execute(Begin, R, msgs)
<1>1. Begin.rooms = rooms /\ Begin.msgs = msgs
  BY DEF Begin
<1>2. [rooms[id] EXCEPT !.matrix = m] = row
  BY DEF RoomRow
<1>3. [Begin.rooms EXCEPT ![id] = [@ EXCEPT !.matrix = m]] = R
  BY <1>1, <1>2
<1> QED BY <1>1, <1>3 DEF SetMatrix

LEMMA InsertRoomResult ==
    ASSUME NEW id, NEW row,
           NEW R, R = [i \in DOMAIN rooms \cup {id} |-> IF i = id THEN row ELSE rooms[i]]
    PROVE  InsertRoom(Begin, id, row) = Execute(Begin, R, msgs)
<1>1. Begin.rooms = rooms /\ Begin.msgs = msgs
  BY DEF Begin
<1> QED BY <1>1, Zenon DEF InsertRoom

(* A single statement commits what it computes if that satisfies the       *)
(* constraints, and is rolled back otherwise.                              *)
LEMMA FinishOne ==
    ASSUME NEW R, ForeignKeys(R, msgs), NEW id, NEW row, NEW fault,
           Finish(Execute(Begin, R, msgs), id, row, fault)
    PROVE  /\ reply' = {[ok |-> UniqueRooms(R), fault |-> fault, id |-> id, row |-> row]}
           /\ UniqueRooms(R) => /\ rooms' = R
                               /\ msgs' = msgs
                               /\ roomSeq' = IF id > roomSeq THEN id ELSE roomSeq
           /\ ~UniqueRooms(R) => UNCHANGED <<rooms, msgs, roomSeq>>
<1> DEFINE tx == Execute(Begin, R, msgs)
<1>1. CASE UniqueRooms(R)
  <2>1. tx.ok = TRUE /\ tx.rooms = R /\ tx.msgs = msgs
    BY <1>1 DEF Execute, Begin
  <2> QED BY <1>1, <2>1 DEF Finish
<1>2. CASE ~UniqueRooms(R)
  <2>1. tx.ok = FALSE
    BY <1>2 DEF Execute, Begin
  <2>2. UniqueRooms(R) = FALSE
    BY <1>2 DEF UniqueRooms
  <2> QED BY <2>1, <2>2 DEF Finish
<1> QED BY <1>1, <1>2

(* The merge arm succeeds and leaves the messages of both rows under idM.  *)
LEMMA MergeSucceeds ==
    ASSUME NEW n \in Nat, Tables(rooms, msgs, n),
           NEW idM \in DOMAIN rooms, NEW idE \in DOMAIN rooms, idM # idE,
           NEW m \in MatrixRooms, NEW p \in Platforms, NEW e \in ExternalRooms,
           rooms[idM].matrix = m, rooms[idM].platform = p,
           rooms[idE].platform = p, rooms[idE].external = e
    PROVE  LET R == [i \in DOMAIN rooms \ {idE} |->
                       IF i = idM THEN [matrix |-> m, platform |-> p, external |-> e]
                       ELSE rooms[i]]
           IN /\ Merge(idM, idE, e) = [ok |-> TRUE, rooms |-> R,
                                       msgs |-> Moved(msgs, idE, idM)]
              /\ Tables(R, Moved(msgs, idE, idM), n)
<1> DEFINE S == Moved(msgs, idE, idM)
           D == [i \in DOMAIN rooms \ {idE} |-> rooms[i]]
           R == [i \in DOMAIN rooms \ {idE} |->
                   IF i = idM THEN [matrix |-> m, platform |-> p, external |-> e]
                   ELSE rooms[i]]
<1>1. MigrateMessages(Begin, idE, idM) = [ok |-> TRUE, rooms |-> rooms, msgs |-> S]
  <2>1. ForeignKeys(rooms, S)
    BY DEF ForeignKeys, Tables, Moved, MessageRow
  <2>2. UniqueRooms(rooms)
    BY DEF Tables
  <2> QED BY <2>1, <2>2 DEF MigrateMessages, Execute, Begin, Moved
<1>2. \A r \in S : r \in MessageRow /\ r.room \in DOMAIN D
  BY DEF Moved, Tables, MessageRow
<1>3. {r \in S : r.room # idE} = S
  BY <1>2
<1>4. UniqueRooms(D)
  BY DEF UniqueRooms, Tables
<1>5. DeleteRoom(MigrateMessages(Begin, idE, idM), idE) = [ok |-> TRUE, rooms |-> D, msgs |-> S]
  <2>1. /\ UniqueRooms(D) /\ ForeignKeys(D, S)
        /\ D = [i \in DOMAIN rooms \ {idE} |-> rooms[i]]
        /\ {r \in S : r.room # idE} = S
    BY <1>2, <1>3, <1>4 DEF ForeignKeys
  <2> HIDE DEF S, D
  <2> QED BY <1>1, <2>1, DeleteRoomSucceeds
<1>6. [D EXCEPT ![idM] = [@ EXCEPT !.external = e]] = R
  <2>1. rooms[idM] = [matrix |-> m, platform |-> p, external |-> rooms[idM].external]
    BY DEF Tables, RoomRow
  <2>2. [rooms[idM] EXCEPT !.external = e] = [matrix |-> m, platform |-> p, external |-> e]
    BY <2>1
  <2>3. D[idM] = rooms[idM]
    OBVIOUS
  <2> QED BY <2>2, <2>3
<1>7. UniqueRooms(R)
  BY DEF UniqueRooms, Tables, RoomRow
<1>8. ForeignKeys(R, S)
  BY <1>2 DEF ForeignKeys
<1>9. Merge(idM, idE, e) = [ok |-> TRUE, rooms |-> R, msgs |-> S]
  <2> HIDE DEF S, D, R
  <2> QED BY <1>5, <1>6, <1>7, <1>8, SetExternalSucceeds DEF Merge
<1>10. Tables(R, S, n)
  <2>1. UniqueMessages(S)
    BY DEF UniqueMessages, Moved, Tables, MessageRow
  <2>2. \A r \in S : R[r.room].platform = r.platform
    BY <1>2 DEF Moved, Tables, MessageRow, RoomRow
  <2>3. R \in [DOMAIN R -> RoomRow] /\ DOMAIN R \subseteq 1 .. n
    BY DEF Tables, RoomRow
  <2> QED BY <1>2, <1>7, <2>1, <2>2, <2>3 DEF Tables
<1> QED BY <1>9, <1>10
-----------------------------------------------------------------------------
(* All five arms say the same thing: the rows in the way of the new link   *)
(* give way to one row k that holds it, and their messages follow.         *)

InTheWay(m, p, e) == RoomsByMatrix(m, p) \cup RoomsByExternal(p, e)

(* The messages after those of the rows in A have moved to row k.          *)
Absorbed(S, A, k) ==
    {r \in S : r.room \notin A}
      \cup {[r EXCEPT !.room = k] : r \in {s \in S : s.room \in A}}

Upserted(A, k, row) ==
    /\ rooms' = [i \in (DOMAIN rooms \ A) \cup {k} |-> IF i = k THEN row ELSE rooms[i]]
    /\ msgs' = Absorbed(msgs, A, k)
    /\ k \in A \/ (A = {} /\ k = roomSeq + 1)
    /\ roomSeq' = IF k > roomSeq THEN k ELSE roomSeq

(* What a call of create_room_mapping does.                                *)
UpsertOutcome(m, p, e) ==
    LET row == [matrix |-> m, platform |-> p, external |-> e]
    IN  \E k \in Nat, fault \in BOOLEAN :
          \/ /\ reply' = {[ok |-> TRUE, fault |-> fault, id |-> k, row |-> row]}
             /\ Upserted(InTheWay(m, p, e), k, row)
          \/ /\ reply' = {[ok |-> FALSE, fault |-> TRUE, id |-> k, row |-> row]}
             /\ UNCHANGED <<rooms, msgs, roomSeq>>

(* Messages not of an absorbed row are what they were.                     *)
LEMMA MoveToSelf ==
    ASSUME NEW S \in SUBSET MessageRow, NEW A, NEW k, \A i \in A : i = k
    PROVE  Absorbed(S, A, k) = S
<1>1. \A r \in {s \in S : s.room \in A} : [r EXCEPT !.room = k] = r
  BY DEF MessageRow
<1> QED BY <1>1 DEF Absorbed

(* A single statement that writes `row` at k and satisfies the constraints *)
(* has left no other row in the way.                                       *)
LEMMA WriteRow ==
    ASSUME IInv, NEW m \in MatrixRooms, NEW p \in Platforms, NEW e \in ExternalRooms,
           NEW row, row = [matrix |-> m, platform |-> p, external |-> e],
           NEW k \in Nat, NEW A, A = InTheWay(m, p, e),
           k \in A \/ k = roomSeq + 1,
           NEW R, R = [i \in DOMAIN rooms \cup {k} |-> IF i = k THEN row ELSE rooms[i]],
           UniqueRooms(R), rooms' = R, msgs' = msgs,
           roomSeq' = IF k > roomSeq THEN k ELSE roomSeq
    PROVE  Upserted(A, k, row)
<1>1. \A i \in A : i = k
  <2>1. \A i \in A : i \in DOMAIN R /\ k \in DOMAIN R
    BY DEF InTheWay, RoomsByMatrix, RoomsByExternal
  <2>2. \A i \in A : R[i].platform = p /\ (R[i].matrix = m \/ R[i].external = e)
    BY DEF InTheWay, RoomsByMatrix, RoomsByExternal
  <2>3. R[k].platform = p /\ R[k].matrix = m /\ R[k].external = e
    BY <2>1
  <2> QED BY <2>1, <2>2, <2>3 DEF UniqueRooms
<1>2. k \notin A => A = {}
  BY <1>1
<1>3. msgs' = Absorbed(msgs, A, k)
  BY <1>1, MoveToSelf DEF IInv, Tables
<1>4. rooms' = [i \in (DOMAIN rooms \ A) \cup {k} |-> IF i = k THEN row ELSE rooms[i]]
  <2>1. (DOMAIN rooms \ A) \cup {k} = DOMAIN rooms \cup {k}
    BY <1>1
  <2> QED BY <2>1
<1> QED BY <1>2, <1>3, <1>4 DEF Upserted

(* What a single statement that writes `row` at k amounts to, in the arms  *)
(* that have one; it can only fail if a lookup did.                        *)
LEMMA OneStatementOutcome ==
    ASSUME IInv, NEW m \in MatrixRooms, NEW p \in Platforms, NEW e \in ExternalRooms,
           NEW row, row = [matrix |-> m, platform |-> p, external |-> e],
           NEW k \in Nat, k \in InTheWay(m, p, e) \/ k = roomSeq + 1,
           NEW R, R = [i \in DOMAIN rooms \cup {k} |-> IF i = k THEN row ELSE rooms[i]],
           NEW fault \in BOOLEAN, fault \/ \A i \in InTheWay(m, p, e) : i = k,
           Finish(Execute(Begin, R, msgs), k, row, fault)
    PROVE  UpsertOutcome(m, p, e)
<1> DEFINE A == InTheWay(m, p, e)
<1>1. ForeignKeys(R, msgs)
  BY DEF ForeignKeys, IInv, Tables
<1>2. CASE UniqueRooms(R)
  <2>1. /\ rooms' = R /\ msgs' = msgs
        /\ roomSeq' = IF k > roomSeq THEN k ELSE roomSeq
        /\ reply' = {[ok |-> UniqueRooms(R), fault |-> fault, id |-> k, row |-> row]}
    BY <1>1, <1>2, FinishOne
  <2>2. UniqueRooms(R) = TRUE
    BY <1>2 DEF UniqueRooms
  <2>3. Upserted(A, k, row)
    BY <1>2, <2>1, WriteRow
  <2> QED BY <2>1, <2>2, <2>3, Zenon DEF UpsertOutcome
<1>3. CASE ~UniqueRooms(R)
  <2>1. /\ UNCHANGED <<rooms, msgs, roomSeq>>
        /\ reply' = {[ok |-> UniqueRooms(R), fault |-> fault, id |-> k, row |-> row]}
    BY <1>1, <1>3, FinishOne
  <2>2. UniqueRooms(R) = FALSE
    BY <1>3 DEF UniqueRooms
  <2>3. fault = TRUE
    <3> SUFFICES ASSUME \A i \in A : i = k
                 PROVE  UniqueRooms(R)
      BY <1>3
    <3>1. \A i \in DOMAIN R : i # k => /\ i \in DOMAIN rooms /\ i \notin A
                                       /\ R[i] = rooms[i]
      OBVIOUS
    <3>2. R[k] = row /\ row.matrix = m /\ row.platform = p /\ row.external = e
      OBVIOUS
    <3>3. \A i \in DOMAIN rooms : i \notin A =>
            ~(rooms[i].platform = p /\ (rooms[i].matrix = m \/ rooms[i].external = e))
      BY DEF A, InTheWay, RoomsByMatrix, RoomsByExternal
    <3> QED BY <3>1, <3>2, <3>3 DEF IInv, Tables, UniqueRooms
  <2> QED BY <2>1, <2>2, <2>3, Zenon DEF UpsertOutcome
<1> QED BY <1>2, <1>3

LEMMA CreateRoomMappingOutcome ==
    ASSUME IInv, NEW m \in MatrixRooms, NEW p \in Platforms, NEW e \in ExternalRooms,
           CreateRoomMapping(m, p, e)
    PROVE  UpsertOutcome(m, p, e)
<1> DEFINE row == [matrix |-> m, platform |-> p, external |-> e]
           A == InTheWay(m, p, e)
           fault(M, E) == M # RoomsByMatrix(m, p) \/ E # RoomsByExternal(p, e)
<1>0. PICK byMatrix \in {RoomsByMatrix(m, p), {}}, byExternal \in {RoomsByExternal(p, e), {}} :
        \/ \E id \in byMatrix \cap byExternal : Finish(Begin, id, row, fault(byMatrix, byExternal))
        \/ \E idM \in byMatrix, idE \in byExternal :
              idM # idE /\ Finish(Merge(idM, idE, e), idM, row, fault(byMatrix, byExternal))
        \/ /\ byExternal = {}
           /\ \E id \in byMatrix :
                Finish(SetExternal(Begin, id, e), id, row, fault(byMatrix, byExternal))
        \/ /\ byMatrix = {}
           /\ \E id \in byExternal :
                Finish(SetMatrix(Begin, id, m), id, row, fault(byMatrix, byExternal))
        \/ /\ byMatrix = {} /\ byExternal = {} /\ NextRoomId <= MaxRoomId
           /\ Finish(InsertRoom(Begin, NextRoomId, row), NextRoomId, row,
                     fault(byMatrix, byExternal))
        \/ Finish(Failed, NextRoomId, row, TRUE)
  BY Zenon DEF CreateRoomMapping
<1> DEFINE flt == fault(byMatrix, byExternal)
<1>u. /\ DOMAIN rooms \subseteq 1 .. roomSeq /\ roomSeq \in Nat
      /\ \A i \in DOMAIN rooms : rooms[i] \in RoomRow
      /\ rooms = [i \in DOMAIN rooms |-> rooms[i]]
      /\ row \in RoomRow
  BY DEF IInv, TypeOK, StoreTypeOK, RoomRow
<1>v. /\ byMatrix \subseteq DOMAIN rooms /\ byExternal \subseteq DOMAIN rooms
      /\ byMatrix \subseteq A /\ byExternal \subseteq A
  BY DEF RoomsByMatrix, RoomsByExternal, InTheWay
<1>f. flt \in BOOLEAN
  BY DEF fault
<1> HIDE DEF row, A, fault, flt
<1>r. /\ row.matrix = m /\ row.platform = p /\ row.external = e
      /\ \A i \in RoomsByMatrix(m, p) : rooms[i].matrix = m /\ rooms[i].platform = p
      /\ \A i \in RoomsByExternal(p, e) : rooms[i].platform = p /\ rooms[i].external = e
  BY DEF row, RoomsByMatrix, RoomsByExternal
<1>1. ASSUME NEW id \in byMatrix \cap byExternal, Finish(Begin, id, row, flt)
      PROVE  UpsertOutcome(m, p, e)
  <2>1. rooms[id] = row
    BY <1>u, <1>v, <1>r DEF row, RoomRow
  <2>2. /\ rooms' = rooms /\ msgs' = msgs
        /\ roomSeq' = IF id > roomSeq THEN id ELSE roomSeq
        /\ reply' = {[ok |-> TRUE, fault |-> flt, id |-> id, row |-> row]}
    BY <1>1 DEF Finish, Begin
  <2>3. rooms = [i \in DOMAIN rooms \cup {id} |-> IF i = id THEN row ELSE rooms[i]]
    BY <1>u, <1>v, <2>1
  <2>4. Upserted(A, id, row)
    <3>1. id \in A /\ id \in Nat
      BY <1>u, <1>v
    <3>2. UniqueRooms(rooms)
      BY DEF IInv, Tables
    <3> QED BY <2>2, <2>3, <3>1, <3>2, WriteRow DEF row, A
  <2>5. id \in Nat
    BY <1>u, <1>v
  <2> QED BY <1>f, <2>2, <2>4, <2>5, Zenon DEF UpsertOutcome, row, A
<1>2. ASSUME NEW idM \in byMatrix, NEW idE \in byExternal, idM # idE,
             Finish(Merge(idM, idE, e), idM, row, flt)
      PROVE  UpsertOutcome(m, p, e)
  <2> DEFINE R == [i \in DOMAIN rooms \ {idE} |-> IF i = idM THEN row ELSE rooms[i]]
             S == Moved(msgs, idE, idM)
  <2>1. Merge(idM, idE, e) = [ok |-> TRUE, rooms |-> R, msgs |-> S]
    <3>1. /\ idM \in DOMAIN rooms /\ idE \in DOMAIN rooms /\ roomSeq \in Nat
          /\ Tables(rooms, msgs, roomSeq)
          /\ rooms[idM].matrix = m /\ rooms[idM].platform = p
          /\ rooms[idE].platform = p /\ rooms[idE].external = e
      BY <1>u, <1>v, <1>r DEF IInv
    <3> QED BY <1>2, <3>1, MergeSucceeds, Zenon DEF row
  <2>2. /\ rooms' = R /\ msgs' = S
        /\ roomSeq' = IF idM > roomSeq THEN idM ELSE roomSeq
        /\ reply' = {[ok |-> TRUE, fault |-> flt, id |-> idM, row |-> row]}
    BY <1>2, <2>1 DEF Finish
  <2>3. A = {idM, idE}
    BY <1>2, <1>v, <1>r DEF A, InTheWay, IInv, Tables, UniqueRooms, RoomsByMatrix, RoomsByExternal
  <2>4. R = [i \in (DOMAIN rooms \ A) \cup {idM} |-> IF i = idM THEN row ELSE rooms[i]]
    BY <1>2, <1>v, <2>3
  <2>5. S = Absorbed(msgs, A, idM)
    <3>1. \A r \in msgs : r.room = idM => [r EXCEPT !.room = idM] = r
      BY DEF IInv, Tables, MessageRow
    <3> QED BY <2>3, <3>1 DEF Moved, Absorbed
  <2>6. Upserted(A, idM, row)
    BY <2>2, <2>3, <2>4, <2>5 DEF Upserted
  <2>7. idM \in Nat
    BY <1>u, <1>v
  <2> QED BY <1>f, <2>2, <2>6, <2>7, Zenon DEF UpsertOutcome, row, A
<1>3. ASSUME byExternal = {}, NEW id \in byMatrix,
             Finish(SetExternal(Begin, id, e), id, row, flt)
      PROVE  UpsertOutcome(m, p, e)
  <2> DEFINE R == [i \in DOMAIN rooms \cup {id} |-> IF i = id THEN row ELSE rooms[i]]
  <2>1. /\ id \in DOMAIN rooms /\ id \in Nat /\ rooms[id] \in RoomRow /\ id \in A
        /\ row = [matrix |-> rooms[id].matrix, platform |-> rooms[id].platform, external |-> e]
    BY <1>u, <1>v, <1>r DEF row
  <2>2. R = [rooms EXCEPT ![id] = row]
    BY <2>1
  <2>3. SetExternal(Begin, id, e) = Execute(Begin, R, msgs)
    BY <2>1, <2>2, SetExternalResult
  <2>4. flt \/ \A i \in A : i = id
    <3> SUFFICES ASSUME ~flt, NEW i \in A
                 PROVE  i = id
      OBVIOUS
    <3>1. i \in RoomsByMatrix(m, p)
      BY <1>3 DEF flt, fault, A, InTheWay
    <3>2. i \in DOMAIN rooms
      BY <3>1 DEF RoomsByMatrix
    <3> QED BY <2>1, <3>1, <3>2, <1>v, <1>r DEF IInv, Tables, UniqueRooms
  <2>5. Finish(Execute(Begin, R, msgs), id, row, flt)
    BY <1>3, <2>3, Zenon
  <2>6. row = [matrix |-> m, platform |-> p, external |-> e]
    BY DEF row
  <2> QED BY <1>f, <2>1, <2>4, <2>5, <2>6, OneStatementOutcome DEF A
<1>4. ASSUME byMatrix = {}, NEW id \in byExternal,
             Finish(SetMatrix(Begin, id, m), id, row, flt)
      PROVE  UpsertOutcome(m, p, e)
  <2> DEFINE R == [i \in DOMAIN rooms \cup {id} |-> IF i = id THEN row ELSE rooms[i]]
  <2>1. /\ id \in DOMAIN rooms /\ id \in Nat /\ rooms[id] \in RoomRow /\ id \in A
        /\ row = [matrix |-> m, platform |-> rooms[id].platform, external |-> rooms[id].external]
    BY <1>u, <1>v, <1>r DEF row
  <2>2. R = [rooms EXCEPT ![id] = row]
    BY <2>1
  <2>3. SetMatrix(Begin, id, m) = Execute(Begin, R, msgs)
    BY <2>1, <2>2, SetMatrixResult
  <2>4. flt \/ \A i \in A : i = id
    <3> SUFFICES ASSUME ~flt, NEW i \in A
                 PROVE  i = id
      OBVIOUS
    <3>1. i \in RoomsByExternal(p, e)
      BY <1>4 DEF flt, fault, A, InTheWay
    <3>2. i \in DOMAIN rooms
      BY <3>1 DEF RoomsByExternal
    <3> QED BY <2>1, <3>1, <3>2, <1>v, <1>r DEF IInv, Tables, UniqueRooms
  <2>5. Finish(Execute(Begin, R, msgs), id, row, flt)
    BY <1>4, <2>3, Zenon
  <2>6. row = [matrix |-> m, platform |-> p, external |-> e]
    BY DEF row
  <2> QED BY <1>f, <2>1, <2>4, <2>5, <2>6, OneStatementOutcome DEF A
<1>5. ASSUME byMatrix = {}, byExternal = {}, NextRoomId <= MaxRoomId,
             Finish(InsertRoom(Begin, NextRoomId, row), NextRoomId, row, flt)
      PROVE  UpsertOutcome(m, p, e)
  <2> DEFINE k == NextRoomId
             R == [i \in DOMAIN rooms \cup {k} |-> IF i = k THEN row ELSE rooms[i]]
  <2>1. k \in Nat /\ k = roomSeq + 1
    BY <1>u DEF NextRoomId
  <2>2. InsertRoom(Begin, k, row) = Execute(Begin, R, msgs)
    BY InsertRoomResult
  <2>3. flt \/ \A i \in A : i = k
    BY <1>5 DEF flt, fault, A, InTheWay
  <2>4. Finish(Execute(Begin, R, msgs), k, row, flt)
    BY <1>5, <2>2, Zenon DEF k
  <2> HIDE DEF k
  <2> QED BY <1>f, <2>1, <2>3, <2>4, OneStatementOutcome DEF row, A
<1>6. ASSUME Finish(Failed, NextRoomId, row, TRUE)
      PROVE  UpsertOutcome(m, p, e)
  <2>1. Failed.ok = FALSE
    BY DEF Failed, Begin
  <2>2. NextRoomId \in Nat
    BY <1>u DEF NextRoomId
  <2>3. /\ UNCHANGED <<rooms, msgs, roomSeq>>
        /\ reply' = {[ok |-> FALSE, fault |-> TRUE, id |-> NextRoomId, row |-> row]}
    BY <1>6, <2>1 DEF Finish
  <2> QED BY <2>2, <2>3, Zenon DEF UpsertOutcome, row
<1> QED BY <1>0, <1>1, <1>2, <1>3, <1>4, <1>5, <1>6, Zenon DEF flt
-----------------------------------------------------------------------------
(* The invariant.                                                          *)

LEMMA UpsertedTables ==
    ASSUME IInv, NEW m \in MatrixRooms, NEW p \in Platforms, NEW e \in ExternalRooms,
           NEW row, row = [matrix |-> m, platform |-> p, external |-> e],
           NEW k \in Nat, NEW A, A = InTheWay(m, p, e), Upserted(A, k, row)
    PROVE  /\ Tables(rooms, msgs, roomSeq)'
           /\ roomSeq' \in Nat /\ roomSeq' >= roomSeq
           /\ k \in DOMAIN rooms' /\ rooms'[k] = row
           /\ \A i \in DOMAIN rooms' : i <= roomSeq =>
                i \in DOMAIN rooms /\ rooms'[i].platform = rooms[i].platform
<1>1. /\ roomSeq \in Nat /\ DOMAIN rooms \subseteq 1 .. roomSeq
      /\ \A i \in DOMAIN rooms : rooms[i] \in RoomRow
      /\ row \in RoomRow /\ row.matrix = m /\ row.platform = p /\ row.external = e
  BY DEF IInv, TypeOK, StoreTypeOK, RoomRow
<1>2. /\ A \subseteq DOMAIN rooms
      /\ \A i \in A : rooms[i].platform = p
      /\ \A i \in DOMAIN rooms \ A :
           ~(rooms[i].platform = p /\ (rooms[i].matrix = m \/ rooms[i].external = e))
  BY DEF InTheWay, RoomsByMatrix, RoomsByExternal
<1>3. /\ DOMAIN rooms' = (DOMAIN rooms \ A) \cup {k}
      /\ rooms'[k] = row
      /\ \A i \in DOMAIN rooms \ A : i # k => rooms'[i] = rooms[i]
      /\ rooms' \in [DOMAIN rooms' -> RoomRow]
  BY <1>1 DEF Upserted
<1>4. k \in A \/ (A = {} /\ k = roomSeq + 1)
  BY DEF Upserted
<1>5. /\ roomSeq' \in Nat /\ roomSeq' >= roomSeq /\ k <= roomSeq'
      /\ k >= 1
  BY <1>1, <1>2, <1>4 DEF Upserted
<1>6. UniqueRooms(rooms')
  BY <1>1, <1>2, <1>3, <1>4 DEF UniqueRooms, IInv, Tables
<1>7. \A r \in msgs' :
        \E s \in msgs : /\ r \in MessageRow
                       /\ r.event = s.event /\ r.platform = s.platform
                       /\ r.external = s.external
                       /\ r.room = (IF s.room \in A THEN k ELSE s.room)
  BY DEF Upserted, Absorbed, IInv, Tables, MessageRow
<1>8. UniqueMessages(msgs')
  <2>1. \A r, s \in MessageRow : /\ r.event = s.event /\ r.platform = s.platform
                                /\ r.external = s.external /\ r.room = s.room
                                => r = s
    BY DEF MessageRow
  <2> QED BY <1>7, <2>1 DEF UniqueMessages, IInv, Tables
<1>9. \A r \in msgs' : r.room \in DOMAIN rooms' /\ rooms'[r.room].platform = r.platform
  BY <1>1, <1>2, <1>3, <1>4, <1>7 DEF IInv, Tables
<1>10. DOMAIN rooms' \subseteq 1 .. roomSeq'
  BY <1>1, <1>3, <1>5
<1>11. Tables(rooms, msgs, roomSeq)'
  BY <1>3, <1>6, <1>7, <1>8, <1>9, <1>10 DEF Tables
<1>12. \A i \in DOMAIN rooms' : i <= roomSeq =>
         i \in DOMAIN rooms /\ rooms'[i].platform = rooms[i].platform
  BY <1>1, <1>2, <1>3, <1>4
<1> QED BY <1>3, <1>5, <1>11, <1>12

LEMMA InitInvariant == Init => IInv
BY DEF Init, StoreInit, IInv, TypeOK, StoreTypeOK, Tables, HeldOK, UpsertEstablishes,
       UniqueRooms, UniqueMessages

(* A step that leaves the tables, or removes rows from them, keeps HeldOK. *)
LEMMA DeleteKeepsTables ==
    ASSUME IInv, NEW id \in DOMAIN rooms, DeleteRoomMapping(id)
    PROVE  /\ rooms' = [i \in DOMAIN rooms \ {id} |-> rooms[i]]
           /\ msgs' = {r \in msgs : r.room # id}
           /\ Tables(rooms, msgs, roomSeq)'
<1> DEFINE D == [i \in DOMAIN rooms \ {id} |-> rooms[i]]
           S == {r \in msgs : r.room # id}
<1>1. UniqueRooms(D)
  BY DEF UniqueRooms, IInv, Tables
<1>2. ForeignKeys(D, S)
  BY DEF ForeignKeys, IInv, Tables
<1>3. DeleteRoom(Begin, id) = [ok |-> TRUE, rooms |-> D, msgs |-> S]
  <2>1. /\ UniqueRooms(D) /\ ForeignKeys(D, S)
        /\ D = [i \in DOMAIN rooms \ {id} |-> rooms[i]]
        /\ S = {r \in msgs : r.room # id}
    BY <1>1, <1>2
  <2>2. Begin = [ok |-> TRUE, rooms |-> rooms, msgs |-> msgs]
    BY DEF Begin
  <2> HIDE DEF D, S
  <2> QED BY <2>1, <2>2, DeleteRoomSucceeds
<1>4. rooms' = D /\ msgs' = S
  BY <1>3 DEF DeleteRoomMapping
<1>5. Tables(D, S, roomSeq)
  BY <1>1, <1>2 DEF Tables, IInv, UniqueMessages, ForeignKeys
<1>6. roomSeq' = roomSeq
  BY DEF DeleteRoomMapping
<1> QED BY <1>4, <1>5, <1>6

(* Every step keeps the invariant.                                         *)
LEMMA NextInvariant == IInv /\ [Next]_vars => IInv'
<1> SUFFICES ASSUME IInv, [Next]_vars
             PROVE  IInv'
  OBVIOUS
<1>1. ASSUME NEW m \in MatrixRooms, NEW p \in Platforms, NEW e \in ExternalRooms,
             LinkRooms(m, p, e)
      PROVE  IInv'
  <2> DEFINE row == [matrix |-> m, platform |-> p, external |-> e]
             A == InTheWay(m, p, e)
  <2>0. row \in RoomRow
    BY DEF RoomRow
  <2> HIDE DEF row
  <2>1. UpsertOutcome(m, p, e) /\ held' = held
    BY <1>1, CreateRoomMappingOutcome DEF LinkRooms
  <2>2. PICK k \in Nat, fault \in BOOLEAN :
          \/ /\ reply' = {[ok |-> TRUE, fault |-> fault, id |-> k, row |-> row]}
             /\ Upserted(A, k, row)
          \/ /\ reply' = {[ok |-> FALSE, fault |-> TRUE, id |-> k, row |-> row]}
             /\ UNCHANGED <<rooms, msgs, roomSeq>>
    BY <2>1, Zenon DEF UpsertOutcome, row
  <2>3. ASSUME reply' = {[ok |-> TRUE, fault |-> fault, id |-> k, row |-> row]},
               Upserted(A, k, row)
        PROVE  IInv'
    <3>1. /\ Tables(rooms, msgs, roomSeq)'
          /\ roomSeq' \in Nat /\ roomSeq' >= roomSeq
          /\ k \in DOMAIN rooms' /\ rooms'[k] = row
          /\ \A i \in DOMAIN rooms' : i <= roomSeq =>
               i \in DOMAIN rooms /\ rooms'[i].platform = rooms[i].platform
      BY <2>3, UpsertedTables DEF row
    <3>2. reply' \subseteq Reply
      BY <2>0, <2>3 DEF Reply
    <3>3. TypeOK'
      BY <2>1, <3>1, <3>2 DEF IInv, TypeOK, StoreTypeOK, Tables
    <3>4. HeldOK'
      BY <2>1, <3>1 DEF IInv, TypeOK, StoreTypeOK, HeldOK, Handle
    <3>5. UpsertEstablishes'
      BY <2>3, <3>1 DEF UpsertEstablishes
    <3> QED BY <3>1, <3>3, <3>4, <3>5 DEF IInv
  <2>4. ASSUME reply' = {[ok |-> FALSE, fault |-> TRUE, id |-> k, row |-> row]},
               UNCHANGED <<rooms, msgs, roomSeq>>
        PROVE  IInv'
    <3>1. reply' \subseteq Reply
      BY <2>0, <2>4 DEF Reply
    <3>2. UpsertEstablishes'
      BY <2>4 DEF UpsertEstablishes
    <3> QED BY <2>1, <2>4, <3>1, <3>2 DEF IInv, TypeOK, StoreTypeOK, HeldOK, Tables
  <2> QED BY <2>2, <2>3, <2>4
<1>2. ASSUME NEW id \in DOMAIN rooms, UnlinkRooms(id)
      PROVE  IInv'
  <2>1. /\ rooms' = [i \in DOMAIN rooms \ {id} |-> rooms[i]]
        /\ Tables(rooms, msgs, roomSeq)'
        /\ UNCHANGED <<roomSeq, held>> /\ reply' = {}
    BY <1>2, DeleteKeepsTables DEF UnlinkRooms, DeleteRoomMapping
  <2>2. DOMAIN rooms' \subseteq DOMAIN rooms /\ \A i \in DOMAIN rooms' : rooms'[i] = rooms[i]
    BY <2>1
  <2> QED BY <2>1, <2>2 DEF IInv, TypeOK, StoreTypeOK, HeldOK, UpsertEstablishes, Tables
<1>3. ASSUME NEW id \in DOMAIN rooms, ReadMapping(id)
      PROVE  IInv'
  <2>1. /\ held' = held \cup {[id |-> id, platform |-> rooms[id].platform]}
        /\ reply' = {} /\ UNCHANGED <<rooms, msgs, roomSeq>>
    BY <1>3 DEF ReadMapping
  <2>2. id \in Nat /\ id <= roomSeq /\ rooms[id].platform \in Platforms
    BY DEF IInv, TypeOK, StoreTypeOK, RoomRow
  <2> QED BY <2>1, <2>2
          DEF IInv, TypeOK, StoreTypeOK, HeldOK, Handle, UpsertEstablishes, Tables
<1>4. ASSUME NEW h \in held, GiveUp(h)
      PROVE  IInv'
  BY <1>4 DEF GiveUp, IInv, TypeOK, StoreTypeOK, HeldOK, UpsertEstablishes, Tables
<1>5. ASSUME NEW h \in held, NEW ev \in Events, NEW x \in Messages, BridgeMessage(h, ev, x)
      PROVE  IInv'
  <2> DEFINE r == [event |-> ev, platform |-> h.platform, external |-> x, room |-> h.id]
  <2>1. /\ msgs' = msgs \cup {r} /\ reply' = {} /\ held' = held \ {h}
        /\ UNCHANGED <<rooms, roomSeq>>
        /\ CanRecord(ev, h.platform, x, h.id)
    BY <1>5 DEF BridgeMessage, RecordMessage
  <2>2. /\ r \in MessageRow /\ h.id \in DOMAIN rooms
        /\ rooms[h.id].platform = h.platform
    BY <2>1 DEF IInv, TypeOK, StoreTypeOK, HeldOK, Handle, MessageRow, CanRecord
  <2>3. UniqueMessages(msgs')
    BY <2>1, <2>2 DEF UniqueMessages, CanRecord, IInv, Tables
  <2>4. Tables(rooms, msgs, roomSeq)'
    BY <2>1, <2>2, <2>3 DEF IInv, Tables
  <2> QED BY <2>1, <2>4 DEF IInv, TypeOK, StoreTypeOK, HeldOK, UpsertEstablishes, Tables
<1>6. CASE UNCHANGED vars
  BY <1>6 DEF vars, IInv, TypeOK, StoreTypeOK, HeldOK, UpsertEstablishes, Tables
<1> QED BY <1>1, <1>2, <1>3, <1>4, <1>5, <1>6 DEF Next

LEMMA Invariance == Spec => []IInv
BY InitInvariant, NextInvariant, PTL DEF Spec

(* The tables always have their types, under every caller.                 *)
THEOREM TypeCorrect == Spec => []TypeOK
<1>1. IInv => TypeOK
  BY DEF IInv
<1> QED BY <1>1, Invariance, PTL

(* A message mapping points to a room mapping of its own platform, however *)
(* stale the row id its handler used.                                      *)
THEOREM MessagesStayOnPlatform == Spec => []MessageOnItsPlatform
<1>1. IInv => MessageOnItsPlatform
  BY DEF IInv, MessageOnItsPlatform, Tables
<1> QED BY <1>1, Invariance, PTL

(* create_room_mapping fails only if a query did, and an id it returns is  *)
(* the row of the link that was asked for.                                 *)
THEOREM UpsertCorrect == Spec => []UpsertEstablishes
<1>1. IInv => UpsertEstablishes
  BY DEF IInv
<1> QED BY <1>1, Invariance, PTL
-----------------------------------------------------------------------------
(* Refinement.                                                             *)

(* How a message is filed once the row ids are forgotten.                  *)
FiledAs(r, R) == [event |-> r.event, external |-> r.external, link |-> R[r.room]]

(* An upsert of `row` is the abstract Link(row).                           *)
LEMMA UpsertLinks ==
    ASSUME IInv, NEW m \in MatrixRooms, NEW p \in Platforms, NEW e \in ExternalRooms,
           NEW row, row = [matrix |-> m, platform |-> p, external |-> e],
           NEW k \in Nat, NEW A, A = InTheWay(m, p, e), Upserted(A, k, row)
    PROVE  Abstract!Link(row)
<1>1. /\ A \subseteq DOMAIN rooms
      /\ \A i \in DOMAIN rooms : i \in A <=> rooms[i] \in Abstract!Replaced(row)
      /\ Abstract!Replaced(row) = {rooms[i] : i \in A}
  BY DEF InTheWay, RoomsByMatrix, RoomsByExternal, Abstract!Replaced, LinksOf
<1>2. /\ DOMAIN rooms' = (DOMAIN rooms \ A) \cup {k}
      /\ rooms'[k] = row
      /\ \A i \in DOMAIN rooms \ A : rooms'[i] = rooms[i]
  BY DEF Upserted, IInv, TypeOK, StoreTypeOK
<1>3. LinksOf' = (LinksOf \ Abstract!Replaced(row)) \cup {row}
  BY <1>1, <1>2 DEF LinksOf
<1>4. \A r \in msgs : r.room \in DOMAIN rooms /\ r \in MessageRow
  BY DEF IInv, Tables
<1>5. FiledOf = {FiledAs(r, rooms) : r \in msgs}
  BY DEF FiledOf, FiledAs
<1>6. FiledOf' = {FiledAs(r, rooms') : r \in msgs'}
  BY DEF FiledOf, FiledAs
<1>7. FiledOf' = {FiledAs(r, rooms) : r \in {s \in msgs : s.room \notin A}}
                   \cup {[FiledAs(r, rooms) EXCEPT !.link = row] : r \in {s \in msgs : s.room \in A}}
  <2>1. \A r \in msgs : r.room \notin A => FiledAs(r, rooms') = FiledAs(r, rooms)
    BY <1>2, <1>4 DEF FiledAs
  <2>2. \A r \in msgs : FiledAs([r EXCEPT !.room = k], rooms')
                           = [FiledAs(r, rooms) EXCEPT !.link = row]
    BY <1>2, <1>4 DEF FiledAs, MessageRow
  <2>3. msgs' = {r \in msgs : r.room \notin A}
                  \cup {[r EXCEPT !.room = k] : r \in {s \in msgs : s.room \in A}}
    BY DEF Upserted, Absorbed
  <2> DEFINE Move(r) == [r EXCEPT !.room = k]
             Relink(f) == [f EXCEPT !.link = row]
  <2>4. /\ \A r \in msgs : FiledAs(Move(r), rooms') = Relink(FiledAs(r, rooms))
        /\ msgs' = {r \in msgs : r.room \notin A}
                     \cup {Move(r) : r \in {s \in msgs : s.room \in A}}
    BY <2>2, <2>3
  <2> HIDE DEF Move, Relink
  <2>5. FiledOf' = {FiledAs(r, rooms) : r \in {s \in msgs : s.room \notin A}}
                     \cup {Relink(FiledAs(r, rooms)) : r \in {s \in msgs : s.room \in A}}
    BY <1>6, <2>1, <2>4
  <2> QED BY <2>5 DEF Relink
<1>8. \A r \in msgs : FiledAs(r, rooms).link \in Abstract!Replaced(row) <=> r.room \in A
  BY <1>1, <1>4 DEF FiledAs
<1>9. FiledOf' = {f \in FiledOf : f.link \notin Abstract!Replaced(row)}
                   \cup {[f EXCEPT !.link = row] :
                            f \in {g \in FiledOf : g.link \in Abstract!Replaced(row)}}
  <2> HIDE DEF FiledAs
  <2> QED BY <1>5, <1>7, <1>8
<1> QED BY <1>3, <1>9 DEF Abstract!Link

LEMMA NextImplements ==
    IInv /\ [Next]_vars => [Abstract!Next]_<<LinksOf, FiledOf>>
<1> SUFFICES ASSUME IInv, [Next]_vars
             PROVE  Abstract!Next \/ UNCHANGED <<LinksOf, FiledOf>>
  OBVIOUS
<1>1. ASSUME UNCHANGED <<rooms, msgs>>
      PROVE  UNCHANGED <<LinksOf, FiledOf>>
  BY <1>1 DEF LinksOf, FiledOf
<1>2. ASSUME NEW m \in MatrixRooms, NEW p \in Platforms, NEW e \in ExternalRooms,
             LinkRooms(m, p, e)
      PROVE  Abstract!Next \/ UNCHANGED <<LinksOf, FiledOf>>
  <2> DEFINE row == [matrix |-> m, platform |-> p, external |-> e]
  <2>1. UpsertOutcome(m, p, e)
    BY <1>2, CreateRoomMappingOutcome DEF LinkRooms
  <2>2. (\E k \in Nat : Upserted(InTheWay(m, p, e), k, row)) \/ UNCHANGED <<rooms, msgs>>
    BY <2>1, Zenon DEF UpsertOutcome
  <2>3. row \in Abstract!LinkSet
    BY DEF Abstract!LinkSet
  <2>4. ASSUME NEW k \in Nat, Upserted(InTheWay(m, p, e), k, row)
        PROVE  Abstract!Next
    <3>1. Abstract!Link(row)
      BY <2>4, UpsertLinks, Zenon
    <3> QED BY <2>3, <3>1, Zenon DEF Abstract!Next
  <2> QED BY <1>1, <2>2, <2>4
<1>3. ASSUME NEW id \in DOMAIN rooms, UnlinkRooms(id)
      PROVE  Abstract!Next
  <2>1. /\ rooms' = [i \in DOMAIN rooms \ {id} |-> rooms[i]]
        /\ msgs' = {r \in msgs : r.room # id}
    BY <1>3, DeleteKeepsTables DEF UnlinkRooms
  <2>2. \A i \in DOMAIN rooms : rooms[i] = rooms[id] => i = id
    BY DEF IInv, Tables, UniqueRooms
  <2>3. LinksOf' = LinksOf \ {rooms[id]}
    BY <2>1, <2>2 DEF LinksOf
  <2>4. \A r \in msgs : r.room \in DOMAIN rooms
    BY DEF IInv, Tables
  <2>5. FiledOf' = {f \in FiledOf : f.link # rooms[id]}
    <3>1. /\ FiledOf = {FiledAs(r, rooms) : r \in msgs}
          /\ FiledOf' = {FiledAs(r, rooms') : r \in msgs'}
      BY DEF FiledOf, FiledAs
    <3>2. \A r \in msgs : r.room # id => FiledAs(r, rooms') = FiledAs(r, rooms)
      BY <2>1, <2>4 DEF FiledAs
    <3>3. \A r \in msgs : FiledAs(r, rooms).link = rooms[id] <=> r.room = id
      BY <2>2, <2>4 DEF FiledAs
    <3> HIDE DEF FiledAs
    <3> QED BY <2>1, <3>1, <3>2, <3>3
  <2>6. rooms[id] \in LinksOf /\ rooms[id] \in Abstract!LinkSet
    BY DEF LinksOf, IInv, TypeOK, StoreTypeOK, RoomRow, Abstract!LinkSet
  <2>7. Abstract!Unlink(rooms[id])
    BY <2>3, <2>5, <2>6 DEF Abstract!Unlink
  <2> QED BY <2>6, <2>7 DEF Abstract!Next
<1>4. ASSUME NEW h \in held, NEW ev \in Events, NEW x \in Messages, BridgeMessage(h, ev, x)
      PROVE  Abstract!Next
  <2> DEFINE r == [event |-> ev, platform |-> h.platform, external |-> x, room |-> h.id]
             l == rooms[h.id]
  <2>1. /\ msgs' = msgs \cup {r} /\ UNCHANGED rooms /\ h.id \in DOMAIN rooms
        /\ \A s \in msgs : s.platform = h.platform => s.event # ev /\ s.external # x
    BY <1>4 DEF BridgeMessage, RecordMessage, CanRecord
  <2>2. l \in LinksOf /\ l \in Abstract!LinkSet /\ l.platform = h.platform
    BY <2>1 DEF LinksOf, IInv, TypeOK, StoreTypeOK, RoomRow, Abstract!LinkSet, HeldOK
  <2>3. LinksOf' = LinksOf
    BY <2>1 DEF LinksOf
  <2>4. FiledOf' = FiledOf \cup {[event |-> ev, external |-> x, link |-> l]}
    <3>1. /\ FiledOf = {FiledAs(s, rooms) : s \in msgs}
          /\ FiledOf' = {FiledAs(s, rooms) : s \in msgs'}
      BY <2>1 DEF FiledOf, FiledAs
    <3>2. FiledAs(r, rooms) = [event |-> ev, external |-> x, link |-> l]
      BY DEF FiledAs
    <3> HIDE DEF r, l
    <3> QED BY <2>1, <3>1, <3>2
  <2>5. \A f \in FiledOf : f.link.platform = l.platform => f.event # ev /\ f.external # x
    <3>1. \A s \in msgs : rooms[s.room].platform = s.platform
      BY DEF IInv, Tables
    <3>2. \A f \in FiledOf : \E s \in msgs : /\ f.event = s.event /\ f.external = s.external
                                          /\ f.link = rooms[s.room]
      BY DEF FiledOf
    <3> QED BY <2>1, <2>2, <3>1, <3>2
  <2>6. Abstract!File(ev, l, x)
    BY <2>2, <2>3, <2>4, <2>5 DEF Abstract!File
  <2> QED BY <2>2, <2>6 DEF Abstract!Next
<1>5. ASSUME NEW id \in DOMAIN rooms, ReadMapping(id)
      PROVE  UNCHANGED <<LinksOf, FiledOf>>
  BY <1>1, <1>5 DEF ReadMapping
<1>6. ASSUME NEW h \in held, GiveUp(h)
      PROVE  UNCHANGED <<LinksOf, FiledOf>>
  BY <1>1, <1>6 DEF GiveUp
<1>7. CASE UNCHANGED vars
  BY <1>1, <1>7 DEF vars
<1> QED BY <1>2, <1>3, <1>4, <1>5, <1>6, <1>7 DEF Next

(* The store, with its row ids, transactions, cascades and stale handles,  *)
(* implements the link table that the doc comments describe.               *)
THEOREM StoreImplementsLinkTable == Spec => ImplementsLinkTable
<1>1. Init => Abstract!Init
  BY DEF Init, StoreInit, Abstract!Init, LinksOf, FiledOf
<1> QED BY <1>1, NextImplements, Invariance, PTL DEF Spec, ImplementsLinkTable, Abstract!Spec
=============================================================================
