------------------------- MODULE DeviceRegistryProofs -------------------------
(***************************************************************************)
(* For any number of workers and any length of the table: a device code is  *)
(* sent once, and a registration that no other one raced is not refused.    *)
(***************************************************************************)
EXTENDS DeviceRegistry, TLAPS

\* A table without rows.
LEMMA InitIInv == Init => IInv
<1> SUFFICES ASSUME Init PROVE IInv
  OBVIOUS
<1>1. raced \in [Thread -> BOOLEAN]
  BY Zenon DEF Init
<1>2. TypeOK
  BY <1>1, IdsAssumption DEF Init, TypeOK, None
<1>3. CodesDistinct /\ RefusedOnlyInRace /\ Behind /\ Pending
  BY DEF Init, CodesDistinct, RefusedOnlyInRace, Behind, Pending
<1> QED BY <1>2, <1>3 DEF IInv

\* A row goes in under a code the table did not have.
LEMMA StoreStep ==
    ASSUME IInv, NEW t \in Thread, Go(t, "commit", "reply"), Store(t),
           NEW v \in {"ok", "error"}, outcome' = [outcome EXCEPT ![t] = v],
           UNCHANGED << next_id, id, newid, given >>
    PROVE  IInv'
<1> DEFINE row == [id |-> newid[t], of |-> id[t]]
<1>1. /\ TypeOK /\ CodesDistinct /\ RefusedOnlyInRace /\ Behind /\ Pending
      /\ pc[t] = "commit" /\ pc' = [pc EXCEPT ![t] = "reply"]
      /\ devices' = devices \cup {row}
      /\ raced' = [u \in Thread |-> raced[u] \/ (u # t /\ pc[u] \in {"insert", "commit"})]
  BY DEF IInv, Go, Store
<1>2. /\ id[t] \in Ids /\ newid[t] \in Ids /\ id[t] <= newid[t] /\ newid[t] < next_id
      /\ newid[t] <= LastId
      /\ row.id = newid[t] /\ row.of = id[t] /\ row \in [id : Ids, of : Ids]
  BY <1>1 DEF Behind
<1>3. \A r \in devices : r.of # id[t]
  BY DEF Store, Taken
<1>4. given[id[t]] = 0
  BY <1>1, <1>2, <1>3 DEF CodesDistinct, TypeOK
<1> HIDE DEF row
<1>5. TypeOK'
  <2>1. raced' \in [Thread -> BOOLEAN]
    BY <1>1, Zenon DEF TypeOK
  <2> QED BY <2>1, <1>1, <1>2 DEF TypeOK
<1>6. CodesDistinct'
  BY <1>1 DEF CodesDistinct
<1>7. \A u \in Thread : raced[u] => raced'[u]
  BY <1>1
<1>8. RefusedOnlyInRace'
  BY <1>1, <1>7 DEF RefusedOnlyInRace, TypeOK
<1>9. Behind'
  <2>1. \A r \in devices' : r.of <= r.id /\ r.id < next_id' /\ r.id <= LastId
    BY <1>1, <1>2 DEF Behind
  <2>2. ASSUME NEW u \in Thread, pc'[u] \in {"insert", "commit"}
        PROVE  u # t /\ pc[u] = pc'[u] /\ raced'[u]
    BY <1>1, <2>2 DEF TypeOK
  <2> QED BY <2>1, <2>2, <1>1 DEF Behind
<1>10. Pending'
  <2> SUFFICES ASSUME NEW u \in Thread, pc'[u] = "reply", outcome'[u] = "ok"
               PROVE  /\ id[u] \in Ids /\ given[id[u]] = 0
                      /\ \E r \in devices' : r.of = id[u]
                      /\ \A w \in Thread :
                            pc'[w] = "reply" /\ outcome'[w] = "ok" /\ id[w] = id[u] => w = u
    BY DEF Pending
  <2>1. \A w \in Thread : w # t /\ pc'[w] = "reply" /\ outcome'[w] = "ok"
            => /\ pc[w] = "reply" /\ outcome[w] = "ok"
               /\ id[w] \in Ids /\ given[id[w]] = 0
               /\ \E r \in devices : r.of = id[w]
               /\ id[w] # id[t]
    BY <1>1, <1>3 DEF TypeOK, Pending
  <2>2. CASE u = t
    BY <2>1, <2>2, <1>1, <1>2, <1>4
  <2>3. CASE u # t
    BY <2>1, <2>3, <1>1 DEF Pending
  <2> QED BY <2>2, <2>3
<1> QED BY <1>5, <1>6, <1>8, <1>9, <1>10 DEF IInv

\* One step for each action.
LEMMA NextIInv == IInv /\ [Next]_vars => IInv'
<1> SUFFICES ASSUME IInv, [Next]_vars PROVE IInv'
  OBVIOUS
<1>0. TypeOK /\ CodesDistinct /\ RefusedOnlyInRace /\ Behind /\ Pending
  BY DEF IInv
<1>1. ASSUME NEW t \in Thread, Begin(t) PROVE IInv'
  <2>1. TypeOK'
    BY <1>0, <1>1 DEF Begin, Go, TypeOK
  <2>2. CodesDistinct' /\ RefusedOnlyInRace'
    BY <1>0, <1>1 DEF Begin, CodesDistinct, RefusedOnlyInRace
  <2>3. Behind'
    BY <1>0, <1>1 DEF Begin, Go, Behind, TypeOK
  <2>4. Pending'
    BY <1>0, <1>1 DEF Begin, Go, Pending, TypeOK
  <2> QED BY <2>1, <2>2, <2>3, <2>4 DEF IInv
<1>2. ASSUME NEW t \in Thread, SelectMax(t) PROVE IInv'
  <2> PICK m \in {0} \cup { r.id : r \in devices } :
             (\A r \in devices : r.id <= m) /\ id' = [id EXCEPT ![t] = m + 1]
    BY <1>2 DEF SelectMax, NextAfter
  <2>0. /\ pc[t] = "select" /\ pc' = [pc EXCEPT ![t] = "insert"]
        /\ UNCHANGED << devices, next_id, newid, outcome, raced, given >>
    BY <1>2 DEF SelectMax, Go
  <2>1. m \in 0 .. LastId /\ m < next_id /\ m + 1 \in Ids /\ m + 1 <= next_id
    BY <1>0, IdsAssumption DEF Behind, TypeOK, Ids
  <2>2. TypeOK'
    BY <1>0, <2>0, <2>1 DEF TypeOK
  <2>3. CodesDistinct' /\ RefusedOnlyInRace'
    BY <1>0, <2>0 DEF CodesDistinct, RefusedOnlyInRace
  <2>4. \A r \in devices : r.of < m + 1
    BY <1>0, <2>1 DEF Behind, TypeOK, Ids
  <2>5. Behind'
    BY <1>0, <2>0, <2>1, <2>4 DEF Behind, TypeOK
  <2>6. Pending'
    BY <1>0, <2>0 DEF Pending, TypeOK
  <2> QED BY <2>2, <2>3, <2>5, <2>6 DEF IInv
<1>3. ASSUME NEW t \in Thread, TakeId(t) PROVE IInv'
  <2>0. /\ pc[t] = "insert" /\ pc' = [pc EXCEPT ![t] = "commit"] /\ next_id <= LastId
        /\ newid' = [newid EXCEPT ![t] = next_id] /\ next_id' = next_id + 1
        /\ UNCHANGED << devices, id, outcome, raced, given >>
    BY <1>3 DEF TakeId, Go
  <2>1. TypeOK'
    BY <1>0, <2>0 DEF TypeOK
  <2>2. CodesDistinct' /\ RefusedOnlyInRace'
    BY <1>0, <2>0 DEF CodesDistinct, RefusedOnlyInRace
  <2>3. next_id \in Ids
    BY <1>0, <2>0, IdsAssumption DEF TypeOK, Ids
  <2>4. Behind'
    <3>1. \A r \in devices' : r.of <= r.id /\ r.id < next_id' /\ r.id <= LastId
      BY <1>0, <2>0 DEF Behind, TypeOK, Ids
    <3>2. \A u \in Thread : u # t => pc'[u] = pc[u] /\ newid'[u] = newid[u]
      BY <1>0, <2>0 DEF TypeOK
    <3>3. pc'[t] = "commit" /\ newid'[t] = next_id
      BY <1>0, <2>0 DEF TypeOK
    <3> QED BY <3>1, <3>2, <3>3, <1>0, <2>0, <2>3 DEF Behind, TypeOK, Ids
  <2>5. Pending'
    BY <1>0, <2>0 DEF Pending, TypeOK
  <2> QED BY <2>1, <2>2, <2>4, <2>5 DEF IInv
<1>4. ASSUME NEW t \in Thread, Insert(t) PROVE IInv'
  BY <1>4, StoreStep DEF Insert
<1>5. ASSUME NEW t \in Thread, Refuse(t) PROVE IInv'
  <2>0. /\ pc[t] = "commit" /\ pc' = [pc EXCEPT ![t] = "reply"] /\ Taken(id[t])
        /\ outcome' = [outcome EXCEPT ![t] = "duplicate"]
        /\ UNCHANGED << devices, next_id, id, newid, raced, given >>
    BY <1>5 DEF Refuse, Go
  <2>1. TypeOK'
    BY <1>0, <2>0 DEF TypeOK
  <2>2. raced[t]
    <3>1. PICK r \in devices : Encode[r.of] = Encode[id[t]]
      BY <2>0 DEF Taken
    <3>2. r.of \in Ids /\ id[t] \in Ids
      BY <1>0, <2>0 DEF TypeOK, Behind
    <3>3. r.of = id[t]
      BY <3>1, <3>2, EncodeAssumption DEF Ids
    <3> QED BY <1>0, <2>0, <3>2, <3>3, IdsAssumption DEF Behind, Ids
  <2>3. CodesDistinct' /\ RefusedOnlyInRace'
    BY <1>0, <2>0, <2>2 DEF CodesDistinct, RefusedOnlyInRace, TypeOK
  <2>4. Behind'
    BY <1>0, <2>0 DEF Behind, TypeOK
  <2>5. Pending'
    BY <1>0, <2>0 DEF Pending, TypeOK
  <2> QED BY <2>1, <2>3, <2>4, <2>5 DEF IInv
<1>6. ASSUME NEW t \in Thread, Fail(t) PROVE IInv'
  <2>0. /\ pc' = [pc EXCEPT ![t] = "reply"] /\ outcome' = [outcome EXCEPT ![t] = "error"]
        /\ UNCHANGED << devices, next_id, id, newid, raced, given >>
    BY <1>6 DEF Fail
  <2>1. TypeOK'
    BY <1>0, <2>0 DEF TypeOK
  <2>2. CodesDistinct' /\ RefusedOnlyInRace'
    BY <1>0, <2>0 DEF CodesDistinct, RefusedOnlyInRace, TypeOK
  <2>3. Behind'
    BY <1>0, <2>0 DEF Behind, TypeOK
  <2>4. Pending'
    BY <1>0, <2>0 DEF Pending, TypeOK
  <2> QED BY <2>1, <2>2, <2>3, <2>4 DEF IInv
<1>7. ASSUME NEW t \in Thread, FailAfterCommit(t) PROVE IInv'
  BY <1>7, StoreStep DEF FailAfterCommit
<1>8. ASSUME NEW t \in Thread, Reply(t) PROVE IInv'
  <2>0. /\ pc[t] = "reply" /\ pc' = [pc EXCEPT ![t] = "idle"]
        /\ given' = IF outcome[t] = "ok" THEN [given EXCEPT ![id[t]] = @ + 1] ELSE given
        /\ id' = [id EXCEPT ![t] = 0] /\ newid' = [newid EXCEPT ![t] = 0]
        /\ outcome' = [outcome EXCEPT ![t] = "none"] /\ raced' = [raced EXCEPT ![t] = FALSE]
        /\ UNCHANGED << devices, next_id >>
    BY <1>8 DEF Reply, Go, None
  <2>1. outcome[t] = "ok" => id[t] \in Ids /\ given[id[t]] = 0 /\ \E r \in devices : r.of = id[t]
    BY <1>0, <2>0 DEF Pending
  <2>2. TypeOK'
    <3>1. given' \in [Ids -> Nat]
      BY <1>0, <2>0, <2>1 DEF TypeOK
    <3>2. raced' \in [Thread -> BOOLEAN]
      BY <1>0, <2>0, Zenon DEF TypeOK
    <3> QED BY <1>0, <2>0, <3>1, <3>2 DEF TypeOK
  <2>3. CodesDistinct'
    BY <1>0, <2>0, <2>1 DEF CodesDistinct, TypeOK
  <2>4. RefusedOnlyInRace'
    BY <1>0, <2>0 DEF RefusedOnlyInRace, TypeOK
  <2>5. \A u \in Thread : u # t => /\ pc'[u] = pc[u] /\ id'[u] = id[u] /\ newid'[u] = newid[u]
                                   /\ outcome'[u] = outcome[u] /\ raced'[u] = raced[u]
    BY <1>0, <2>0 DEF TypeOK
  <2>6. pc'[t] = "idle"
    BY <1>0, <2>0 DEF TypeOK
  <2>7. Behind'
    BY <1>0, <2>0, <2>5, <2>6 DEF Behind
  <2>8. Pending'
    <3> SUFFICES ASSUME NEW u \in Thread, pc'[u] = "reply", outcome'[u] = "ok"
                 PROVE  /\ id'[u] \in Ids /\ given'[id'[u]] = 0
                        /\ \E r \in devices' : r.of = id'[u]
                        /\ \A w \in Thread :
                              pc'[w] = "reply" /\ outcome'[w] = "ok" /\ id'[w] = id'[u] => w = u
      BY DEF Pending
    <3>1. u # t /\ pc[u] = "reply" /\ outcome[u] = "ok" /\ id'[u] = id[u]
      BY <2>5, <2>6
    <3>2. /\ id[u] \in Ids /\ given[id[u]] = 0 /\ (\E r \in devices : r.of = id[u])
          /\ \A w \in Thread : pc[w] = "reply" /\ outcome[w] = "ok" /\ id[w] = id[u] => w = u
      BY <3>1, <1>0 DEF Pending
    <3>3. given'[id[u]] = 0
      <4>1. outcome[t] = "ok" => id[t] # id[u]
        BY <3>1, <3>2, <2>0
      <4> QED BY <4>1, <3>2, <2>0, <2>1, <1>0 DEF TypeOK
    <3>4. \A w \in Thread : pc'[w] = "reply" /\ outcome'[w] = "ok" /\ id'[w] = id[u] => w = u
      BY <3>2, <2>5, <2>6
    <3> QED BY <3>1, <3>2, <3>3, <3>4, <2>0
  <2> QED BY <2>2, <2>3, <2>4, <2>7, <2>8 DEF IInv
<1>9. ASSUME UNCHANGED vars PROVE IInv'
  BY <1>0, <1>9 DEF vars, IInv, TypeOK, CodesDistinct, RefusedOnlyInRace, Behind, Pending
<1> QED BY <1>1, <1>2, <1>3, <1>4, <1>5, <1>6, <1>7, <1>8, <1>9 DEF Next, Ended

\* The inductive invariant of the registry (RegisterDeviceStrategy::execute).
THEOREM Invariance == Spec => []IInv
BY InitIInv, NextIInv, PTL DEF Spec

\* A device code is sent in one reply at most, and only when its row is in the
\* table (JsonStrategy.cpp:105-111).
THEOREM OneReplyPerCode == Spec => []CodesDistinct
<1>1. IInv => CodesDistinct
  BY DEF IInv
<1> QED BY <1>1, Invariance, PTL

\* A registration is refused as a duplicate only if another one was stored
\* between its SELECT and its INSERT (JsonStrategy.cpp:99-106).
THEOREM RefusalIsRace == Spec => []RefusedOnlyInRace
<1>1. IInv => RefusedOnlyInRace
  BY DEF IInv
<1> QED BY <1>1, Invariance, PTL
===============================================================================
