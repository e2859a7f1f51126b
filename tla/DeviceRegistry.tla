---------------------------- MODULE DeviceRegistry ----------------------------
(***************************************************************************)
(* How devices get their codes: RegisterDeviceStrategy::execute, run by       *)
(* several worker threads at once on the table `devices`.                   *)
(*                                                                         *)
(* The handler reads MAX(id), derives the code of the next id and inserts a  *)
(* row with that code.  It does not insert the id: the row gets that from    *)
(* AUTO_INCREMENT, which may have gone further.  Nothing holds the two       *)
(* statements together; the UNIQUE key on `code` is all there is.           *)
(***************************************************************************)
EXTENDS Integers, FiniteSets

CONSTANTS
    Thread,     \* worker threads
    FirstId,    \* AUTO_INCREMENT of the empty table
    LastId,     \* bound of the model: ids the table hands out
    Encode,     \* encode(), as a function: the code of each id
    Faults      \* {"db"}: a statement may throw for reasons of its own

ASSUME IdsAssumption == FirstId \in Nat \ {0} /\ LastId \in Nat
\* encode() keeps ids apart (MCDeviceRegistry shows it for some of them).
ASSUME EncodeAssumption ==
    \A j, k \in 1 .. LastId + 1 : Encode[j] = Encode[k] => j = k

Ids == 1 .. LastId + 1
None == 0

VARIABLES
    devices,    \* rows of the table: id, and the id its code was made of
    next_id,    \* AUTO_INCREMENT
    pc,         \* where each handler is
    id,         \* `id` of each handler: the code it inserts is encode(id)
    newid,      \* the id its INSERT took from AUTO_INCREMENT
    outcome,    \* how each thread's request ended, until it is answered
    raced,      \* history: another row came in since the handler read MAX(id)
    given       \* history: how often each code was sent in a reply

vars == << devices, next_id, pc, id, newid, outcome, raced, given >>

TypeOK ==
    /\ devices \subseteq [id : Ids, of : Ids]
    /\ next_id \in Nat \ {0}
    /\ pc \in [Thread -> {"idle", "select", "insert", "commit", "reply"}]
    /\ id \in [Thread -> Nat]
    /\ newid \in [Thread -> Nat]
    /\ outcome \in [Thread -> {"none", "duplicate", "error", "ok"}]
    /\ raced \in [Thread -> BOOLEAN]
    /\ given \in [Ids -> Nat]

Init ==
    /\ devices = {}
    /\ next_id = FirstId
    /\ pc = [t \in Thread |-> "idle"]
    /\ id = [t \in Thread |-> None]
    /\ newid = [t \in Thread |-> None]
    /\ outcome = [t \in Thread |-> "none"]
    /\ raced = [t \in Thread |-> FALSE]
    /\ given = [i \in Ids |-> 0]

-------------------------------------------------------------------------------

Go(t, from, to) == pc[t] = from /\ pc' = [pc EXCEPT ![t] = to]

\* A request arrives.
Begin(t) ==
    /\ Go(t, "idle", "select")
    /\ UNCHANGED << devices, next_id, id, newid, outcome, raced, given >>

\* getUInt64("max_id") + 1
NextAfter(m) == m + 1

\* Mutant: SELECT id, and the first row of it.
SelectAny(t) ==
    /\ Go(t, "select", "insert")
    /\ \E m \in IF devices = {} THEN {0} ELSE { r.id : r \in devices } :
          id' = [id EXCEPT ![t] = NextAfter(m)]
    /\ UNCHANGED << devices, next_id, newid, outcome, raced, given >>

\* SELECT MAX(id): NULL reads as 0 when there is no row
SelectMax(t) ==
    /\ Go(t, "select", "insert")
    /\ \E m \in {0} \cup { r.id : r \in devices } :
          /\ \A r \in devices : r.id <= m
          /\ id' = [id EXCEPT ![t] = NextAfter(m)]
    /\ UNCHANGED << devices, next_id, newid, outcome, raced, given >>

\* INSERT takes its id first, and keeps it whatever happens next.
TakeId(t) ==
    /\ next_id <= LastId
    /\ Go(t, "insert", "commit")
    /\ newid' = [newid EXCEPT ![t] = next_id]
    /\ next_id' = next_id + 1
    /\ UNCHANGED << devices, id, outcome, raced, given >>

\* Mutant: the key on `code` does not refuse duplicates.
TakenNever(i) == FALSE
\* UNIQUE KEY `code`
Taken(i) == \E r \in devices : Encode[r.of] = Encode[i]

\* The rest of the INSERT: the row is stored and committed, or refused.
Store(t) ==
    /\ ~Taken(id[t])
    /\ devices' = devices \cup {[id |-> newid[t], of |-> id[t]]}
    /\ raced' = [u \in Thread |-> raced[u] \/ (u # t /\ pc[u] \in {"insert", "commit"})]

Insert(t) ==
    /\ Go(t, "commit", "reply")
    /\ Store(t)
    /\ outcome' = [outcome EXCEPT ![t] = "ok"]
    /\ UNCHANGED << next_id, id, newid, given >>

Refuse(t) ==
    /\ Go(t, "commit", "reply")
    /\ Taken(id[t])
    /\ outcome' = [outcome EXCEPT ![t] = "duplicate"]
    /\ UNCHANGED << devices, next_id, id, newid, raced, given >>

\* A statement throws: the connection was lost, the lock timed out.  An INSERT
\* may have been committed before its answer was lost.
Fail(t) ==
    /\ "db" \in Faults
    /\ pc[t] \in {"select", "insert", "commit"}
    /\ pc' = [pc EXCEPT ![t] = "reply"]
    /\ outcome' = [outcome EXCEPT ![t] = "error"]
    /\ UNCHANGED << devices, next_id, id, newid, raced, given >>

FailAfterCommit(t) ==
    /\ "db" \in Faults
    /\ Go(t, "commit", "reply")
    /\ Store(t)
    /\ outcome' = [outcome EXCEPT ![t] = "error"]
    /\ UNCHANGED << next_id, id, newid, given >>

\* DeviceCode(response, code), or FAIL
Reply(t) ==
    /\ Go(t, "reply", "idle")
    /\ given' = IF outcome[t] = "ok" THEN [given EXCEPT ![id[t]] = @ + 1] ELSE given
    /\ id' = [id EXCEPT ![t] = None]
    /\ newid' = [newid EXCEPT ![t] = None]
    /\ outcome' = [outcome EXCEPT ![t] = "none"]
    /\ raced' = [raced EXCEPT ![t] = FALSE]
    /\ UNCHANGED << devices, next_id >>

\* The model's ids are used up.
Ended ==
    /\ next_id > LastId
    /\ \A t \in Thread : pc[t] \in {"idle", "insert"}
    /\ UNCHANGED vars

Next ==
    \/ \E t \in Thread :
          \/ Begin(t) \/ SelectMax(t) \/ TakeId(t) \/ Insert(t) \/ Refuse(t)
          \/ Fail(t) \/ FailAfterCommit(t) \/ Reply(t)
    \/ Ended

Spec == Init /\ [][Next]_vars

-------------------------------------------------------------------------------
(* Properties                                                              *)

\* A code is sent to one device only, and only when the table has it, however
\* many registrations run at once and whatever is lost (JsonStrategy.cpp:99-111).
CodesDistinct ==
    \A i \in Ids : given[i] <= 1 /\ (given[i] = 1 => \E r \in devices : r.of = i)

\* The race between SELECT MAX and INSERT is the only way to be refused: a
\* registration during which no other one came in never meets a duplicate, also
\* after ids were burnt by refused or failed ones (JsonStrategy.cpp:99-106).
RefusedOnlyInRace == \A t \in Thread : outcome[t] = "duplicate" => raced[t]

\* What makes them inductive.  The code of a row is of an id no larger than the
\* row's, and so is the one a handler is about to insert; it is above all codes
\* in the table unless the handler was raced; and no code is sent twice because
\* a row is inserted by one handler.
Behind ==
    /\ \A r \in devices : r.of <= r.id /\ r.id < next_id /\ r.id <= LastId
    /\ \A t \in Thread :
          /\ pc[t] = "insert" => id[t] \in Ids /\ id[t] <= next_id
          /\ pc[t] = "commit" => id[t] \in Ids /\ id[t] <= newid[t] /\ newid[t] \in Ids
                                 /\ newid[t] < next_id /\ newid[t] <= LastId
          /\ pc[t] \in {"insert", "commit"} /\ ~raced[t] => \A r \in devices : r.of < id[t]

Pending ==
    \A t \in Thread : pc[t] = "reply" /\ outcome[t] = "ok" =>
        /\ id[t] \in Ids /\ given[id[t]] = 0
        /\ \E r \in devices : r.of = id[t]
        /\ \A u \in Thread : pc[u] = "reply" /\ outcome[u] = "ok" /\ id[u] = id[t] => u = t

IInv == TypeOK /\ CodesDistinct /\ RefusedOnlyInRace /\ Behind /\ Pending
===============================================================================
