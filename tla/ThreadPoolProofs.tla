--------------------------- MODULE ThreadPoolProofs ---------------------------
(***************************************************************************)
(* What ThreadPool.tla promises for pools of every size, any number of      *)
(* threads and tasks.  In three parts: the token accounting that keeps       *)
(* getTask from meeting an empty queue, with the exactness of thread_size    *)
(* and what closing leaves behind; that a pool whose minimum is its capacity *)
(* runs on until it is closed; and that the pool implements TaskService,     *)
(* every step of its workers, its manager and its owner being a step of the  *)
(* service or none.                                                        *)
(***************************************************************************)
EXTENDS ThreadPool, FiniteSetTheorems, SequenceTheorems, TLAPS

-------------------------------------------------------------------------------
(* Counting workers by their place in WorkerWorkFunction                   *)

\* How the number of workers in L changes when one goes from one place to another.
Delta(L, from, to) == (IF to \in L THEN 1 ELSE 0) - (IF from \in L THEN 1 ELSE 0)

\* Moving one worker changes the number of workers in a set of places by Delta.
LEMMA MoveOne ==
    ASSUME NEW f \in [Threads -> WorkerPCs], NEW w \in Threads, NEW to \in WorkerPCs, NEW L
    PROVE  Cardinality(Where([f EXCEPT ![w] = to], L)) = Cardinality(Where(f, L)) + Delta(L, f[w], to)
<1> DEFINE A == Where(f, L)
           B == Where([f EXCEPT ![w] = to], L)
<1>1. IsFiniteSet(A)
  BY ThreadsAssumption, FS_Subset DEF Where
<1>2. Cardinality(A) \in Nat
  BY <1>1, FS_CardinalityType
<1>3. CASE f[w] \in L /\ to \in L
  <2>1. B = A
    BY <1>3 DEF Where
  <2> QED BY <2>1, <1>2, <1>3 DEF Delta
<1>4. CASE f[w] \notin L /\ to \notin L
  <2>1. B = A
    BY <1>4 DEF Where
  <2> QED BY <2>1, <1>2, <1>4 DEF Delta
<1>5. CASE f[w] \notin L /\ to \in L
  <2>1. B = A \cup {w} /\ w \notin A
    BY <1>5 DEF Where
  <2>2. Cardinality(B) = Cardinality(A) + 1
    BY <2>1, <1>1, FS_AddElement
  <2> QED BY <2>2, <1>2, <1>5 DEF Delta
<1>6. CASE f[w] \in L /\ to \notin L
  <2>1. B = A \ {w} /\ w \in A
    BY <1>6 DEF Where
  <2>2. Cardinality(B) = Cardinality(A) - 1
    BY <2>1, <1>1, FS_RemoveElement
  <2> QED BY <2>2, <1>2, <1>6 DEF Delta
<1> QED BY <1>3, <1>4, <1>5, <1>6

\* The counts are naturals, and ordered as the sets of places are, before a step
\* and after it.
LEMMA CountsOrdered ==
    /\ NWoken \in Nat /\ NCommitted \in Nat /\ NFetch \in Nat
    /\ NLive \in Nat /\ NAcquire \in Nat
    /\ NFetch <= NCommitted /\ NCommitted <= NWoken /\ NAcquire <= NLive
    /\ NFetch' <= NCommitted' /\ NCommitted' <= NWoken'
<1>1. \A f, L, M : L \subseteq M => /\ Cardinality(Where(f, L)) \in Nat
                                    /\ Cardinality(Where(f, L)) <= Cardinality(Where(f, M))
  <2> SUFFICES ASSUME NEW f, NEW L, NEW M, L \subseteq M
               PROVE  /\ Cardinality(Where(f, L)) \in Nat
                      /\ Cardinality(Where(f, L)) <= Cardinality(Where(f, M))
    OBVIOUS
  <2>1. IsFiniteSet(Where(f, M)) /\ Where(f, L) \subseteq Where(f, M)
    BY ThreadsAssumption, FS_Subset DEF Where
  <2> QED BY <2>1, FS_Subset, FS_CardinalityType
<1>2. /\ {"fetch"} \subseteq Committed /\ Committed \subseteq Woken /\ Woken \subseteq Live
      /\ {"acquire"} \subseteq Live /\ Live \subseteq Live
  BY DEF Committed, Woken, Live, WorkerPCs
<1> QED BY <1>1, <1>2 DEF NWoken, NCommitted, NFetch, NLive, NAcquire, At

\* A worker goes from one place to another, and every count with it.
Moved(from, to) ==
    /\ NWoken' = NWoken + Delta(Woken, from, to)
    /\ NCommitted' = NCommitted + Delta(Committed, from, to)
    /\ NFetch' = NFetch + Delta({"fetch"}, from, to)
    /\ NLive' = NLive + Delta(Live, from, to)
    /\ NAcquire' = NAcquire + Delta({"acquire"}, from, to)

LEMMA MoveCounts ==
    ASSUME TypeOK, NEW w \in Threads, NEW to \in WorkerPCs, wpc' = [wpc EXCEPT ![w] = to]
    PROVE  Moved(wpc[w], to)
<1>1. \A L : Cardinality(Where(wpc', L)) = Cardinality(Where(wpc, L)) + Delta(L, wpc[w], to)
  BY MoveOne DEF TypeOK
<1> QED BY <1>1 DEF Moved, NWoken, NCommitted, NFetch, NLive, NAcquire, At

\* A step of another thread moves none of them.
LEMMA SameCounts ==
    ASSUME wpc' = wpc
    PROVE  /\ NWoken' = NWoken /\ NCommitted' = NCommitted /\ NFetch' = NFetch
           /\ NLive' = NLive /\ NAcquire' = NAcquire
BY DEF NWoken, NCommitted, NFetch, NLive, NAcquire, At

-------------------------------------------------------------------------------
(* Where addTask puts a task                                               *)

\* A new task comes behind some of those that wait, at most all.
LEMMA AheadType ==
    ASSUME NEW q \in Seq(Task), NEW t \in Task
    PROVE  Ahead(q, t) \in 0 .. Len(q)
<1>1. CASE Kind = "NORMAL"
  BY <1>1 DEF Ahead
<1>2. CASE Kind # "NORMAL"
  <2> DEFINE S == { i \in DOMAIN q : Priority[q[i]] < Priority[t] }
  <2>1. DOMAIN q = 1 .. Len(q) /\ Len(q) \in Nat
    OBVIOUS
  <2>2. IsFiniteSet(1 .. Len(q)) /\ Cardinality(1 .. Len(q)) = Len(q)
    <3>1. \A n \in Nat : IsFiniteSet(1 .. n) /\ Cardinality(1 .. n) = IF 1 > n THEN 0 ELSE n - 1 + 1
      BY FS_Interval
    <3> QED BY <2>1, <3>1
  <2>3. IsFiniteSet(S) /\ Cardinality(S) <= Len(q)
    BY <2>1, <2>2, FS_Subset
  <2>4. Cardinality(S) \in Nat
    BY <2>3, FS_CardinalityType
  <2> QED BY <1>2, <2>1, <2>3, <2>4 DEF Ahead
<1> QED BY <1>1, <1>2

\* It stands there between them, and the others keep their order.
LEMMA Placed ==
    ASSUME NEW q \in Seq(Task), NEW t \in Task
    PROVE  LET k == Ahead(q, t)
               p == Place(q, t)
           IN  /\ p \in Seq(Task) /\ Len(p) = Len(q) + 1
               /\ \A i \in 1 .. Len(q) + 1 : p[i] = IF i <= k THEN q[i] ELSE IF i = k + 1 THEN t ELSE q[i - 1]
<1> DEFINE k == Ahead(q, t)
           A == SubSeq(q, 1, k)
           B == << t >>
           C == SubSeq(q, k + 1, Len(q))
<1>1. k \in Nat /\ k <= Len(q) /\ Len(q) \in Nat
  <2>1. k \in 0 .. Len(q)
    BY AheadType
  <2> HIDE DEF k
  <2> QED BY <2>1
<1>2. Place(q, t) = A \o B \o C
  BY DEF Place
<1> HIDE DEF k
<1>3. A \in Seq(Task) /\ Len(A) = k /\ \A i \in 1 .. k : A[i] = q[i]
  BY <1>1
<1>4. C \in Seq(Task) /\ Len(C) = Len(q) - k /\ \A i \in 1 .. Len(q) - k : C[i] = q[k + i]
  BY <1>1
<1>5. B \in Seq(Task) /\ Len(B) = 1 /\ B[1] = t
  OBVIOUS
<1> HIDE DEF A, B, C
<1>6. /\ A \o B \in Seq(Task) /\ Len(A \o B) = k + 1
      /\ \A i \in 1 .. k + 1 : (A \o B)[i] = IF i <= k THEN A[i] ELSE B[i - k]
  <2>1. /\ A \o B \in Seq(Task) /\ Len(A \o B) = Len(A) + Len(B)
        /\ \A i \in 1 .. Len(A) + Len(B) : (A \o B)[i] = IF i <= Len(A) THEN A[i] ELSE B[i - Len(A)]
    BY <1>3, <1>5, ConcatProperties
  <2>2. Len(A) = k /\ Len(A) + Len(B) = k + 1
    BY <1>1, <1>3, <1>5
  <2> QED BY <2>1, <2>2
<1> DEFINE AB == A \o B
<1> HIDE DEF AB
<1>7. /\ AB \o C \in Seq(Task) /\ Len(AB \o C) = Len(q) + 1
      /\ \A i \in 1 .. Len(q) + 1 : (AB \o C)[i] = IF i <= k + 1 THEN AB[i] ELSE C[i - (k + 1)]
  <2>1. /\ AB \o C \in Seq(Task) /\ Len(AB \o C) = Len(AB) + Len(C)
        /\ \A i \in 1 .. Len(AB) + Len(C) : (AB \o C)[i] = IF i <= Len(AB) THEN AB[i] ELSE C[i - Len(AB)]
    BY <1>4, <1>6, ConcatProperties DEF AB
  <2>2. Len(AB) = k + 1 /\ Len(AB) + Len(C) = Len(q) + 1
    BY <1>1, <1>4, <1>6 DEF AB
  <2> QED BY <2>1, <2>2
<1>8. ASSUME NEW i \in 1 .. Len(q) + 1
      PROVE  (AB \o C)[i] = IF i <= k THEN q[i] ELSE IF i = k + 1 THEN t ELSE q[i - 1]
  <2>1. CASE i <= k
    BY <2>1, <1>1, <1>3, <1>6, <1>7 DEF AB
  <2>2. CASE i = k + 1
    BY <2>2, <1>1, <1>5, <1>6, <1>7 DEF AB
  <2>3. CASE i > k + 1
    <3>1. i - (k + 1) \in 1 .. Len(q) - k /\ k + (i - (k + 1)) = i - 1
      BY <2>3, <1>1
    <3>2. (AB \o C)[i] = C[i - (k + 1)]
      BY <2>3, <1>1, <1>7
    <3>3. C[i - (k + 1)] = q[i - 1]
      BY <3>1, <1>4
    <3>4. ~(i <= k) /\ i # k + 1
      BY <2>3, <1>1
    <3> QED BY <3>2, <3>3, <3>4
  <2>4. i <= k \/ i = k + 1 \/ i > k + 1
    BY <1>1
  <2> QED BY <2>1, <2>2, <2>3, <2>4, Zenon
<1> QED BY <1>2, <1>7, <1>8 DEF k, AB

\* What is in the queue after it.
LEMMA PlacedRange ==
    ASSUME NEW q \in Seq(Task), NEW t \in Task
    PROVE  /\ \A i \in DOMAIN Place(q, t) :
                  Place(q, t)[i] = t \/ \E j \in DOMAIN q : Place(q, t)[i] = q[j]
           /\ \E i \in DOMAIN Place(q, t) : Place(q, t)[i] = t
           /\ \A j \in DOMAIN q : \E i \in DOMAIN Place(q, t) : Place(q, t)[i] = q[j]
<1> DEFINE k == Ahead(q, t)
           p == Place(q, t)
<1>1. k \in 0 .. Len(q)
  BY AheadType
<1>2. /\ p \in Seq(Task) /\ Len(p) = Len(q) + 1
      /\ \A i \in 1 .. Len(q) + 1 : p[i] = IF i <= k THEN q[i] ELSE IF i = k + 1 THEN t ELSE q[i - 1]
  BY Placed
<1> HIDE DEF k, p
<1>3. DOMAIN p = 1 .. Len(q) + 1 /\ DOMAIN q = 1 .. Len(q) /\ Len(q) \in Nat /\ k \in Nat /\ k <= Len(q)
  BY <1>1, <1>2
<1>4. ASSUME NEW i \in DOMAIN p PROVE p[i] = t \/ \E j \in DOMAIN q : p[i] = q[j]
  <2>1. CASE i <= k
    BY <2>1, <1>2, <1>3
  <2>2. CASE i = k + 1
    BY <2>2, <1>2, <1>3
  <2>3. CASE i > k + 1
    <3>1. i - 1 \in DOMAIN q /\ p[i] = q[i - 1]
      BY <2>3, <1>2, <1>3
    <3> QED BY <3>1
  <2>4. i <= k \/ i = k + 1 \/ i > k + 1
    BY <1>3
  <2> QED BY <2>1, <2>2, <2>3, <2>4
<1>5. k + 1 \in DOMAIN p /\ p[k + 1] = t
  BY <1>2, <1>3
<1>6. ASSUME NEW j \in DOMAIN q PROVE \E i \in DOMAIN p : p[i] = q[j]
  <2>1. CASE j <= k
    BY <2>1, <1>2, <1>3
  <2>2. CASE j > k
    <3>1. j + 1 \in DOMAIN p /\ p[j + 1] = q[j]
      BY <2>2, <1>2, <1>3
    <3> QED BY <3>1
  <2>3. j <= k \/ j > k
    BY <1>3
  <2> QED BY <2>1, <2>2, <2>3
<1> QED BY <1>4, <1>5, <1>6 DEF p

-------------------------------------------------------------------------------
(* The inductive invariant                                                 *)

LEMMA InitIInv == Init => IInv
<1> SUFFICES ASSUME Init PROVE IInv
  OBVIOUS
<1>1. TypeOK
  <2>1. thread_map \subseteq Threads /\ queue \in Seq(Task)
    BY DEF Init
  <2>2. wpc \in [Threads -> WorkerPCs] /\ task \in [Threads -> Task \cup {NoTask}]
    BY DEF Init, WorkerPCs
  <2>3. /\ sem \in Nat /\ thread_size \in Int /\ thread_busy_num \in Int
        /\ need_to_close_num \in Int /\ need_to_erase \subseteq Threads
    BY SizesAssumption DEF Init
  <2>5. shutdown \in BOOLEAN /\ terminated \in BOOLEAN
    BY Zenon DEF Init
  <2>4. mpc \in ManagerPCs /\ task_num \in Nat /\ done \subseteq Task
        /\ owner \in {"running", "joinManager", "joinWorkers", "gone"}
    BY DEF Init, ManagerPCs
  <2> QED BY <2>1, <2>2, <2>3, <2>4, <2>5 DEF TypeOK
<1>2. NWoken = 0 /\ NCommitted = 0 /\ NFetch = 0 /\ NAcquire = 0
  <2>1. At(Woken) = {} /\ At(Committed) = {} /\ At({"fetch"}) = {} /\ At({"acquire"}) = {}
    BY DEF Init, At, Where, Woken, Committed
  <2> QED BY <2>1, FS_EmptySet DEF NWoken, NCommitted, NFetch, NAcquire
<1>3. NLive = ThreadMin
  <2>1. At(Live) = thread_map
    BY DEF Init, At, Where, Live, WorkerPCs
  <2> QED BY <2>1 DEF NLive, Init
<1> QED
  BY <1>1, <1>2, <1>3, SizesAssumption
  DEF Init, IInv, HoldsTask, At, Where, OpenWhileOwned, TokenBalance, CommittedCovered, NoEmptyFetch, ThreadSizeExact,
      StrandedAtMostOne

\* Types are kept by every step: the only step that needs more than types is
\* WFinish, which records the task it holds.
LEMMA TypeStep == IInv /\ [Next]_vars => TypeOK'
<1> SUFFICES ASSUME IInv, [Next]_vars PROVE TypeOK'
  OBVIOUS
<1> USE DEF IInv, TypeOK
<1>1. ASSUME NEW w \in Threads, Worker(w) PROVE TypeOK'
  <2> USE DEF Go, taskVars, poolVars, mapVars, managerVars, WorkerPCs
  <2>1. CASE WLoop(w) BY <2>1 DEF WLoop
  <2>2. CASE WAcquire(w) BY <2>2 DEF WAcquire
  <2>3. CASE WWoken(w) BY <2>3 DEF WWoken
  <2>4. CASE WChkClose(w) BY <2>4 DEF WChkClose
  <2>5. CASE WRetire(w) BY <2>5 DEF WRetire
  <2>6. CASE WUncount(w) BY <2>6 DEF WUncount
  <2>7. CASE WFetch(w)
    <3>1. CASE queue = << >> BY <2>7, <3>1 DEF WFetch
    <3>2. CASE queue # << >>
      <4>1. Head(queue) \in Task /\ Tail(queue) \in Seq(Task)
        BY <3>2
      <4> QED BY <2>7, <3>2, <4>1 DEF WFetch
    <3> QED BY <3>1, <3>2
  <2>8. CASE WStart(w) BY <2>8 DEF WStart
  <2>9. CASE WRun(w) BY <2>9 DEF WRun
  <2>10. CASE WFinish(w)
    <3>1. task[w] \in Task
      BY <2>10 DEF WFinish, HoldsTask, At, Where
    <3> QED BY <2>10, <3>1 DEF WFinish
  <2>11. CASE WExit(w) BY <2>11 DEF WExit
  <2> QED
    BY <1>1, <2>1, <2>2, <2>3, <2>4, <2>5, <2>6, <2>7, <2>8, <2>9, <2>10, <2>11 DEF Worker
<1>2. ASSUME Manager PROVE TypeOK'
  <2> USE DEF Go, GoM, workerSide, taskVars, poolVars, mapVars, managerVars, ManagerPCs
  <2>1. CASE MTop BY <2>1 DEF MTop
  <2>2. CASE MSample BY <2>2 DEF MSample
  <2>3. CASE MReap BY <2>3 DEF MReap
  <2>4. CASE MClear BY <2>4 DEF MClear
  <2>5. CASE MDecide BY <2>5 DEF MDecide
  <2>6. ASSUME NEW w \in Threads, MCreate(w) PROVE TypeOK' BY <2>6 DEF MCreate, WorkerPCs
  <2>7. ASSUME NEW w \in Threads, MCount(w) PROVE TypeOK' BY <2>7 DEF MCount
  <2>8. CASE MRemove BY <2>8 DEF MRemove
  <2>9. CASE MSleep BY <2>9 DEF MSleep
  <2> QED BY <1>2, <2>1, <2>2, <2>3, <2>4, <2>5, <2>6, <2>7, <2>8, <2>9 DEF Manager
<1>3. ASSUME Owner PROVE TypeOK'
  <2> USE DEF taskVars, poolVars, mapVars, managerVars
  <2>1. ASSUME NEW t \in Task, AddTask(t) PROVE TypeOK'
    <3>1. Place(queue, t) \in Seq(Task)
      BY Placed
    <3>2. queue' \in Seq(Task) /\ sem' \in Nat
      BY <2>1, <3>1 DEF AddTask
    <3>3. terminated' \in BOOLEAN
      BY <2>1, Zenon DEF AddTask
    <3> QED BY <2>1, <3>2, <3>3 DEF AddTask
  <2>2. CASE Close BY <2>2 DEF Close
  <2>3. CASE JoinManager BY <2>3 DEF JoinManager
  <2>4. CASE JoinWorkers BY <2>4 DEF JoinWorkers
  <2> QED BY <1>3, <2>1, <2>2, <2>3, <2>4 DEF Owner
<1>4. CASE UNCHANGED vars BY <1>4 DEF vars
<1> QED BY <1>1, <1>2, <1>3, <1>4 DEF Next, Ended


\* The conjuncts about counters.
Counting ==
    /\ OpenWhileOwned
    /\ TokenBalance
    /\ CommittedCovered
    /\ NoEmptyFetch
    /\ ThreadSizeExact
    /\ StrandedAtMostOne

\* Where each step of a worker takes it.
LEMMA WorkerMoves ==
    ASSUME TypeOK, NEW w \in Threads
    PROVE  /\ WLoop(w) => Moved("loop", IF shutdown THEN "exit" ELSE "acquire")
           /\ WAcquire(w) => Moved("acquire", "woken")
           /\ WWoken(w) => Moved("woken", IF shutdown THEN "exit" ELSE "chkClose")
           /\ WChkClose(w) => Moved("chkClose", IF need_to_close_num > 0 THEN "retire" ELSE "fetch")
           /\ WRetire(w) => Moved("retire", "uncount")
           /\ WUncount(w) => Moved("uncount", "exit")
           /\ WFetch(w) /\ queue # << >> => Moved("fetch", "start")
           /\ WStart(w) => Moved("start", "run")
           /\ WRun(w) => Moved("run", "finish")
           /\ WFinish(w) => Moved("finish", "loop")
           /\ WExit(w) => Moved("exit", "end")
<1>1. ASSUME NEW from, NEW to \in WorkerPCs, wpc[w] = from, wpc' = [wpc EXCEPT ![w] = to]
      PROVE  Moved(from, to)
  BY <1>1, MoveCounts
<1>2. /\ {"loop", "exit", "acquire", "woken", "chkClose", "retire"} \subseteq WorkerPCs
      /\ {"fetch", "uncount", "start", "run", "finish", "end"} \subseteq WorkerPCs
  BY DEF WorkerPCs
<1>3. ASSUME WLoop(w) PROVE Moved("loop", IF shutdown THEN "exit" ELSE "acquire")
  BY <1>1, <1>2, <1>3 DEF WLoop, Go
<1>4. ASSUME WAcquire(w) PROVE Moved("acquire", "woken")
  BY <1>1, <1>2, <1>4 DEF WAcquire, Go
<1>5. ASSUME WWoken(w) PROVE Moved("woken", IF shutdown THEN "exit" ELSE "chkClose")
  BY <1>1, <1>2, <1>5 DEF WWoken, Go
<1>6. ASSUME WChkClose(w)
      PROVE  Moved("chkClose", IF need_to_close_num > 0 THEN "retire" ELSE "fetch")
  BY <1>1, <1>2, <1>6 DEF WChkClose, Go
<1>7. ASSUME WRetire(w) PROVE Moved("retire", "uncount")
  BY <1>1, <1>2, <1>7 DEF WRetire, Go
<1>8. ASSUME WUncount(w) PROVE Moved("uncount", "exit")
  BY <1>1, <1>2, <1>8 DEF WUncount, Go
<1>9. ASSUME WFetch(w), queue # << >> PROVE Moved("fetch", "start")
  BY <1>1, <1>2, <1>9 DEF WFetch
<1>10. ASSUME WStart(w) PROVE Moved("start", "run")
  BY <1>1, <1>2, <1>10 DEF WStart, Go
<1>11. ASSUME WRun(w) PROVE Moved("run", "finish")
  BY <1>1, <1>2, <1>11 DEF WRun, Go
<1>12. ASSUME WFinish(w) PROVE Moved("finish", "loop")
  BY <1>1, <1>2, <1>12 DEF WFinish, Go
<1>13. ASSUME WExit(w) PROVE Moved("exit", "end")
  BY <1>1, <1>2, <1>13 DEF WExit, Go
<1> QED
  BY <1>3, <1>4, <1>5, <1>6, <1>7, <1>8, <1>9, <1>10, <1>11, <1>12, <1>13

\* No step of a worker disturbs them.
LEMMA WorkerCounting ==
    ASSUME TypeOK, Counting, NEW w \in Threads, Worker(w)
    PROVE  Counting'
<1>0. /\ sem \in Nat /\ Len(queue) \in Nat /\ need_to_close_num \in Int /\ thread_size \in Int
      /\ NWoken \in Nat /\ NCommitted \in Nat /\ NFetch \in Nat /\ NLive \in Nat /\ NAcquire \in Nat
      /\ NFetch' <= NCommitted' /\ NCommitted' <= NWoken'
  BY CountsOrdered DEF TypeOK
<1> USE DEF Counting, OpenWhileOwned, TokenBalance, CommittedCovered, NoEmptyFetch, ThreadSizeExact,
            StrandedAtMostOne, poolVars, managerVars, Moved, Delta, Woken, Committed, Live, WorkerPCs
<1>1. CASE WLoop(w)
  <2>1. Moved("loop", IF shutdown THEN "exit" ELSE "acquire")
    <3> HIDE DEF Moved
    <3> QED BY <1>1, WorkerMoves
  <2>2. CASE shutdown
    BY <1>1, <2>1, <2>2, <1>0 DEF WLoop, Go
  <2>3. CASE ~shutdown
    BY <1>1, <2>1, <2>3, <1>0 DEF WLoop, Go
  <2> QED BY <2>2, <2>3
<1>2. CASE WAcquire(w)
  <2>1. Moved("acquire", "woken")
    <3> HIDE DEF Moved
    <3> QED BY <1>2, WorkerMoves
  <2> QED BY <1>2, <2>1, <1>0 DEF WAcquire, Go
<1>3. CASE WWoken(w)
  <2>1. Moved("woken", IF shutdown THEN "exit" ELSE "chkClose")
    <3> HIDE DEF Moved
    <3> QED BY <1>3, WorkerMoves
  <2>2. CASE shutdown
    BY <1>3, <2>1, <2>2, <1>0 DEF WWoken, Go
  <2>3. CASE ~shutdown
    BY <1>3, <2>1, <2>3, <1>0 DEF WWoken, Go
  <2> QED BY <2>2, <2>3
<1>4. CASE WChkClose(w)
  <2>1. Moved("chkClose", IF need_to_close_num > 0 THEN "retire" ELSE "fetch")
    <3> HIDE DEF Moved
    <3> QED BY <1>4, WorkerMoves
  <2>2. CASE need_to_close_num > 0
    BY <1>4, <2>1, <2>2, <1>0 DEF WChkClose, Go
  <2>3. CASE ~(need_to_close_num > 0)
    BY <1>4, <2>1, <2>3, <1>0 DEF WChkClose, Go
  <2> QED BY <2>2, <2>3
<1>5. CASE WRetire(w)
  <2>1. Moved("retire", "uncount")
    <3> HIDE DEF Moved
    <3> QED BY <1>5, WorkerMoves
  <2> QED BY <1>5, <2>1, <1>0 DEF WRetire, Go
<1>6. CASE WUncount(w)
  <2>1. Moved("uncount", "exit")
    <3> HIDE DEF Moved
    <3> QED BY <1>6, WorkerMoves
  <2> QED BY <1>6, <2>1, <1>0 DEF WUncount, Go
<1>7. CASE WFetch(w)
  <2>1. CASE queue = << >>
    BY <1>7, <2>1, SameCounts DEF WFetch
  <2>2. CASE queue # << >>
    <3>1. Moved("fetch", "start")
      <4> HIDE DEF Moved
      <4> QED BY <1>7, <2>2, WorkerMoves
    <3>2. Len(queue') = Len(queue) - 1
      BY <1>7, <2>2 DEF WFetch, TypeOK
    <3> QED BY <1>7, <2>2, <3>1, <1>0, <3>2 DEF WFetch
  <2> QED BY <2>1, <2>2
<1>8. CASE WStart(w)
  <2>1. Moved("start", "run")
    <3> HIDE DEF Moved
    <3> QED BY <1>8, WorkerMoves
  <2> QED BY <1>8, <2>1, <1>0 DEF WStart, Go
<1>9. CASE WRun(w)
  <2>1. Moved("run", "finish")
    <3> HIDE DEF Moved
    <3> QED BY <1>9, WorkerMoves
  <2> QED BY <1>9, <2>1, <1>0 DEF WRun, Go
<1>10. CASE WFinish(w)
  <2>1. Moved("finish", "loop")
    <3> HIDE DEF Moved
    <3> QED BY <1>10, WorkerMoves
  <2> QED BY <1>10, <2>1, <1>0 DEF WFinish, Go
<1>11. CASE WExit(w)
  <2>1. Moved("exit", "end")
    <3> HIDE DEF Moved
    <3> QED BY <1>11, WorkerMoves
  <2> QED BY <1>11, <2>1, <1>0 DEF WExit, Go
<1> QED BY <1>1, <1>2, <1>3, <1>4, <1>5, <1>6, <1>7, <1>8, <1>9, <1>10, <1>11 DEF Worker

\* Nor does one of the manager, of which only the creation of a thread moves a
\* worker.
LEMMA ManagerCounting ==
    ASSUME TypeOK, Counting, Manager
    PROVE  Counting'
<1>0. /\ sem \in Nat /\ Len(queue) \in Nat /\ need_to_close_num \in Int /\ thread_size \in Int
      /\ NWoken \in Nat /\ NCommitted \in Nat /\ NFetch \in Nat /\ NLive \in Nat /\ NAcquire \in Nat
  BY CountsOrdered DEF TypeOK
<1> USE DEF Counting, OpenWhileOwned, TokenBalance, CommittedCovered, NoEmptyFetch, ThreadSizeExact,
            StrandedAtMostOne, workerSide, poolVars, taskVars, mapVars, GoM
<1>1. CASE MTop BY <1>0, <1>1, SameCounts DEF MTop
<1>2. CASE MSample BY <1>0, <1>2, SameCounts DEF MSample
<1>3. CASE MReap BY <1>0, <1>3, SameCounts DEF MReap
<1>4. CASE MClear BY <1>0, <1>4, SameCounts DEF MClear
<1>5. CASE MDecide BY <1>0, <1>5, SameCounts DEF MDecide
<1>6. ASSUME NEW w \in Threads, MCreate(w) PROVE Counting'
  <2>1. Moved("none", "loop")
    BY <1>6, MoveCounts DEF MCreate, WorkerPCs
  <2> QED BY <1>0, <1>6, <2>1 DEF MCreate, Moved, Delta, Woken, Committed, Live, WorkerPCs
<1>7. ASSUME NEW w \in Threads, MCount(w) PROVE Counting'
  BY <1>0, <1>7, SameCounts DEF MCount
<1>8. CASE MRemove BY <1>0, <1>8, SameCounts DEF MRemove
<1>9. CASE MSleep BY <1>0, <1>9, SameCounts DEF MSleep
<1> QED BY <1>1, <1>2, <1>3, <1>4, <1>5, <1>6, <1>7, <1>8, <1>9, Manager DEF Manager

\* Nor one of the owner: closing posts a token for every worker but perhaps the
\* one that is not counted.
LEMMA OwnerCounting ==
    ASSUME TypeOK, Counting, Owner
    PROVE  Counting'
<1>0. /\ sem \in Nat /\ Len(queue) \in Nat /\ need_to_close_num \in Int /\ thread_size \in Int
      /\ NWoken \in Nat /\ NCommitted \in Nat /\ NFetch \in Nat /\ NLive \in Nat /\ NAcquire \in Nat
      /\ NAcquire <= NLive
  BY CountsOrdered DEF TypeOK
<1> USE DEF Counting, OpenWhileOwned, TokenBalance, CommittedCovered, NoEmptyFetch, ThreadSizeExact,
            StrandedAtMostOne, managerVars, poolVars, taskVars, mapVars
<1>1. ASSUME NEW t \in Task, AddTask(t) PROVE Counting'
  <2>1. CASE Len(queue) >= QueueMax BY <1>0, <1>1, <2>1, SameCounts DEF AddTask
  <2>2. CASE ~(Len(queue) >= QueueMax)
    <3>1. Len(queue') = Len(queue) + 1
      BY <1>1, <2>2, Placed DEF AddTask, TypeOK
    <3> QED BY <1>0, <1>1, <2>2, <3>1, SameCounts DEF AddTask
  <2> QED BY <2>1, <2>2
<1>2. CASE Close BY <1>0, <1>2, SameCounts DEF Close
<1>3. CASE JoinManager BY <1>0, <1>3, SameCounts DEF JoinManager
<1>4. CASE JoinWorkers BY <1>0, <1>4, SameCounts DEF JoinWorkers
<1> QED BY <1>1, <1>2, <1>3, <1>4, Owner DEF Owner

LEMMA HoldsTaskStep == IInv /\ [Next]_vars => HoldsTask'
<1> SUFFICES ASSUME IInv, [Next]_vars PROVE HoldsTask'
  OBVIOUS
<1> USE DEF IInv, HoldsTask, TypeOK, At, Where
<1>1. CASE UNCHANGED << wpc, task >> BY <1>1
<1>2. ASSUME NEW w \in Threads, WFetch(w) PROVE HoldsTask'
  <2>1. CASE queue = << >> BY <1>2, <2>1 DEF WFetch
  <2>2. CASE queue # << >>
    <3>1. Head(queue) \in Task
      BY <2>2
    <3> QED BY <1>2, <2>2, <3>1 DEF WFetch
  <2> QED BY <2>1, <2>2
<1>3. ASSUME NEW w \in Threads, WFinish(w) PROVE HoldsTask'
  BY <1>3 DEF WFinish, Go
<1>4. ASSUME NEW w \in Threads, NEW to \in WorkerPCs, wpc' = [wpc EXCEPT ![w] = to], task' = task,
             to \in {"start", "run", "finish"} => wpc[w] \in {"start", "run", "finish"}
      PROVE  HoldsTask'
  BY <1>4
<1>5. ASSUME NEW w \in Threads, Worker(w) PROVE HoldsTask'
  <2> USE DEF Go, WorkerPCs, taskVars
  <2> HIDE DEF HoldsTask, IInv, TypeOK
  <2>1. CASE WLoop(w) BY <1>4, <2>1 DEF WLoop
  <2>2. CASE WAcquire(w) BY <1>4, <2>2 DEF WAcquire
  <2>3. CASE WWoken(w) BY <1>4, <2>3 DEF WWoken
  <2>4. CASE WChkClose(w) BY <1>4, <2>4 DEF WChkClose
  <2>5. CASE WRetire(w) BY <1>4, <2>5 DEF WRetire
  <2>6. CASE WUncount(w) BY <1>4, <2>6 DEF WUncount
  <2>7. CASE WStart(w) BY <1>4, <2>7 DEF WStart
  <2>8. CASE WRun(w) BY <1>4, <2>8 DEF WRun
  <2>9. CASE WExit(w) BY <1>4, <2>9 DEF WExit
  <2> QED
    BY <1>5, <1>2, <1>3, <2>1, <2>2, <2>3, <2>4, <2>5, <2>6, <2>7, <2>8, <2>9 DEF Worker
<1>6. ASSUME NEW w \in Threads, MCreate(w) PROVE HoldsTask'
  BY <1>4, <1>6 DEF MCreate, WorkerPCs, taskVars
<1>7. CASE Manager
  BY <1>1, <1>6, <1>7
  DEF Manager, MTop, MSample, MReap, MClear, MDecide, MCount, MRemove, MSleep, workerSide, taskVars
<1>8. CASE Owner
  BY <1>1, <1>8 DEF Owner, AddTask, Close, JoinManager, JoinWorkers, taskVars
<1> QED BY <1>1, <1>5, <1>7, <1>8 DEF Next, Ended, vars

LEMMA NextIInv == IInv /\ [Next]_vars => IInv'
<1> SUFFICES ASSUME IInv, [Next]_vars PROVE IInv'
  OBVIOUS
<1>1. TypeOK' /\ HoldsTask'
  BY TypeStep, HoldsTaskStep
<1>2. TypeOK /\ Counting
  BY DEF IInv, Counting
<1>3. Counting'
  <2>1. CASE UNCHANGED vars
    <3>1. UNCHANGED << NWoken, NCommitted, NFetch, NLive, NAcquire >>
      BY <2>1, SameCounts DEF vars
    <3> QED
      BY <1>2, <2>1, <3>1
      DEF vars, Counting, OpenWhileOwned, TokenBalance, CommittedCovered, NoEmptyFetch,
          ThreadSizeExact, StrandedAtMostOne
  <2> QED BY <1>2, <2>1, WorkerCounting, ManagerCounting, OwnerCounting DEF Next, Ended
<1> QED BY <1>1, <1>3 DEF IInv, Counting

-------------------------------------------------------------------------------
(* The theorems                                                            *)

\* The inductive invariant holds in every reachable state.
THEOREM Invariance == Spec => []IInv
BY InitIInv, NextIInv, PTL DEF Spec

\* Every variable of the pool keeps its type: in particular the semaphore never
\* counts below zero.
THEOREM TypeCorrect == Spec => []TypeOK
<1>1. IInv => TypeOK
  BY DEF IInv
<1> QED BY <1>1, Invariance, PTL

\* Until the pool closes, the tokens posted and the workers that took one are as many
\* as the queued tasks and the requests to retire.
THEOREM Tokens == Spec => []TokenBalance
<1>1. IInv => TokenBalance
  BY DEF IInv
<1> QED BY <1>1, Invariance, PTL

\* A worker that reaches getTask finds a task there, however many workers read
\* need_to_close_num at once.
THEOREM FetchFindsTask == Spec => []NoEmptyFetch
<1>1. IInv => NoEmptyFetch
  BY DEF IInv
<1> QED BY <1>1, Invariance, PTL

\* thread_size is the number of workers that can still take a task, but for the
\* thread being counted.
THEOREM SizeExact == Spec => []ThreadSizeExact
<1>1. IInv => ThreadSizeExact
  BY DEF IInv
<1> QED BY <1>1, Invariance, PTL

\* Once the pool is closed, all but at most one of the sleeping workers have a
\* token to wake up by.
THEOREM CloseWakes == Spec => []StrandedAtMostOne
<1>1. IInv => StrandedAtMostOne
  BY DEF IInv
<1> QED BY <1>1, Invariance, PTL

-------------------------------------------------------------------------------
(* Lost wakeups                                                            *)

LEMMA InitRequested == Init => Requested
<1> SUFFICES ASSUME Init PROVE Requested
  OBVIOUS
<1>1. At({"exit", "end"}) = {} /\ At({"retire", "uncount", "exit", "end"}) = {}
  BY DEF Init, At, Where
<1>2. NGone = 0
  BY <1>1, FS_EmptySet DEF NGone
<1> QED BY <1>1, <1>2 DEF Init, Requested

\* How many workers have gone changes with a worker's step, and with nothing else.
LEMMA GoneMoves ==
    ASSUME TypeOK, NEW w \in Threads, NEW to \in WorkerPCs, wpc' = [wpc EXCEPT ![w] = to]
    PROVE  NGone' = NGone + Delta({"exit", "end"}, wpc[w], to)
<1>1. Cardinality(Where(wpc', {"exit", "end"}))
        = Cardinality(Where(wpc, {"exit", "end"})) + Delta({"exit", "end"}, wpc[w], to)
  BY MoveOne DEF TypeOK
<1> QED BY <1>1 DEF NGone, At

LEMMA GoneType == NGone \in Nat
<1>1. IsFiniteSet(At({"exit", "end"}))
  BY ThreadsAssumption, FS_Subset DEF At, Where
<1> QED BY <1>1, FS_CardinalityType DEF NGone

LEMMA RequestedStep == IInv /\ Requested /\ [Next]_vars => Requested'
<1> SUFFICES ASSUME TypeOK, Requested, [Next]_vars, ~shutdown' PROVE Requested'
  BY DEF IInv, Requested
<1> DEFINE Going == {"retire", "uncount", "exit", "end"}
<1>0. need_to_close_num \in Int /\ NGone \in Nat
  BY GoneType DEF TypeOK
<1>1. ASSUME wpc' = wpc, shutdown' = shutdown,
             need_to_close_num' = need_to_close_num \/ need_to_close_num' = need_to_close_num + 1
      PROVE  Requested'
  BY <1>0, <1>1 DEF Requested, NGone, At
<1>2. ASSUME NEW w \in Threads, Worker(w) PROVE Requested'
  <2> USE DEF Go, WorkerPCs, poolVars
  <2>0. wpc \in [Threads -> WorkerPCs]
    BY DEF TypeOK
  \* A worker that stays on its side of the request.
  <2>1. ASSUME NEW to \in WorkerPCs, wpc' = [wpc EXCEPT ![w] = to], shutdown' = shutdown,
               need_to_close_num' = need_to_close_num,
               to \in Going <=> wpc[w] \in Going, to \in {"exit", "end"} <=> wpc[w] \in {"exit", "end"}
        PROVE  Requested'
    <3>1. NGone' = NGone
      <4>1. NGone' = NGone + Delta({"exit", "end"}, wpc[w], to)
        BY <2>1, GoneMoves
      <4> QED BY <4>1, <2>1, <1>0 DEF Delta
    <3>2. At(Going)' = At(Going)
      BY <2>0, <2>1 DEF At, Where
    <3> QED BY <2>1, <3>1, <3>2 DEF Requested
  \* One that begins to answer it.
  <2>2. CASE WChkClose(w)
    <3>1. CASE need_to_close_num > 0
      <4>1. NGone' = NGone
        <5>1. NGone' = NGone + Delta({"exit", "end"}, "chkClose", "retire")
          BY <2>2, <3>1, GoneMoves DEF WChkClose
        <5> QED BY <5>1, <1>0 DEF Delta
      <4> QED BY <2>2, <3>1, <4>1, <1>0 DEF WChkClose, Requested
    <3>2. CASE ~(need_to_close_num > 0)
      BY <2>1, <2>2, <3>2 DEF WChkClose
    <3> QED BY <3>1, <3>2
  \* One that has answered it.
  <2>3. CASE WUncount(w)
    <3>1. NGone' = NGone + 1
      <4>1. NGone' = NGone + Delta({"exit", "end"}, "uncount", "exit")
        BY <2>3, GoneMoves DEF WUncount
      <4> QED BY <4>1, <1>0 DEF Delta
    <3>2. w \in At(Going) /\ shutdown' = shutdown /\ need_to_close_num' = need_to_close_num - 1
      BY <2>3 DEF WUncount, At, Where
    <3> QED BY <3>1, <3>2, <1>0 DEF Requested
  <2>4. CASE WLoop(w)
    BY <2>1, <2>4 DEF WLoop
  <2>5. CASE WWoken(w)
    BY <2>1, <2>5 DEF WWoken
  <2>6. CASE WFetch(w)
    <3>1. CASE queue = << >>
      BY <1>1, <2>6, <3>1 DEF WFetch
    <3>2. CASE queue # << >>
      BY <2>1, <2>6, <3>2 DEF WFetch
    <3> QED BY <3>1, <3>2
  <2>7. CASE WAcquire(w)
    BY <2>1, <2>7 DEF WAcquire
  <2>8. CASE WRetire(w)
    BY <2>1, <2>8 DEF WRetire
  <2>9. CASE WStart(w)
    BY <2>1, <2>9 DEF WStart
  <2>10. CASE WRun(w)
    BY <2>1, <2>10 DEF WRun
  <2>11. CASE WFinish(w)
    BY <2>1, <2>11 DEF WFinish
  <2>12. CASE WExit(w)
    BY <2>1, <2>12 DEF WExit
  <2> QED
    BY <1>2, <2>2, <2>3, <2>4, <2>5, <2>6, <2>7, <2>8, <2>9, <2>10, <2>11, <2>12 DEF Worker
<1>3. CASE Manager
  <2> USE DEF GoM, workerSide, poolVars
  <2>1. ASSUME NEW w \in Threads, MCreate(w) PROVE Requested'
    <3>1. NGone' = NGone
      <4>1. NGone' = NGone + Delta({"exit", "end"}, "none", "loop")
        BY <2>1, GoneMoves DEF MCreate, WorkerPCs
      <4> QED BY <4>1, <1>0 DEF Delta
    <3>2. At(Going)' = At(Going)
      BY <2>1 DEF MCreate, At, Where, TypeOK
    <3> QED BY <2>1, <3>1, <3>2 DEF MCreate, Requested
  <2>2. CASE MRemove
    BY <1>1, <2>2 DEF MRemove
  <2> QED
    BY <1>1, <1>3, <2>1, <2>2 DEF Manager, MTop, MSample, MReap, MClear, MDecide, MCount, MSleep
<1>4. CASE Owner
  BY <1>1, <1>4 DEF Owner, AddTask, Close, JoinManager, JoinWorkers, poolVars
<1> QED BY <1>1, <1>2, <1>3, <1>4 DEF Next, Ended, vars

\* Fewer tasks wait without a token than workers have left an open pool: the token
\* of each went to a worker that retired unasked.
THEOREM WakeupsLostToRetirement == Spec => []LostWakeups
<1>1. TypeOK /\ TokenBalance /\ Requested => LostWakeups
  <2> SUFFICES ASSUME TypeOK, TokenBalance, Requested, ~shutdown, Len(queue) > sem + NWoken
               PROVE  Len(queue) - (sem + NWoken) < NGone
    BY DEF LostWakeups
  <2>1. /\ need_to_close_num \in Int /\ NGone \in Nat /\ NWoken \in Nat
        /\ sem \in Nat /\ Len(queue) \in Nat
    BY GoneType, CountsOrdered DEF TypeOK
  <2>2. Len(queue) - (sem + NWoken) = -need_to_close_num /\ need_to_close_num < 0
    BY <2>1 DEF TokenBalance
  <2>3. NGone # 0
    BY <2>1, <2>2 DEF Requested
  <2>4. At({"exit", "end"}) # {}
    BY <2>3, FS_EmptySet DEF NGone
  <2>5. At({"retire", "uncount", "exit", "end"}) # {}
    BY <2>4 DEF At, Where
  <2> QED BY <2>1, <2>2, <2>5 DEF Requested
<1>2. IInv => TypeOK /\ TokenBalance
  BY DEF IInv
<1>3. Spec => []Requested
  BY InitRequested, RequestedStep, Invariance, PTL DEF Spec
<1> QED BY <1>1, <1>2, <1>3, Invariance, PTL

-------------------------------------------------------------------------------
(* The threads the destructor joins                                        *)

LEMMA ThreadsOwnedStep == IInv /\ ThreadsOwned /\ [Next]_vars => ThreadsOwned'
<1> SUFFICES ASSUME TypeOK, OpenWhileOwned, ThreadsOwned, [Next]_vars PROVE ThreadsOwned'
  BY DEF IInv
<1> USE DEF ThreadsOwned, Started, At, Where
<1>1. ASSUME At(Started)' = At(Started), UNCHANGED << thread_map, mpc, owner >> PROVE ThreadsOwned'
  BY <1>1
<1>2. ASSUME NEW w \in Threads, Worker(w) PROVE ThreadsOwned'
  <2>1. ASSUME NEW to \in Started, wpc' = [wpc EXCEPT ![w] = to], wpc[w] \in Started
        PROVE  At(Started)' = At(Started)
    BY <2>1 DEF TypeOK
  <2>2. At(Started)' = At(Started)
    <3> HIDE DEF At
    <3> USE DEF Go, WorkerPCs
    <3>1. CASE WFetch(w)
      BY <2>1, <3>1 DEF WFetch, At
    <3> QED
      BY <1>2, <2>1, <3>1
      DEF Worker, WLoop, WAcquire, WWoken, WChkClose, WRetire, WUncount, WStart, WRun, WFinish, WExit
  <2>3. UNCHANGED << thread_map, mpc, owner >>
    BY <1>2
    DEF Worker, WLoop, WAcquire, WWoken, WChkClose, WRetire, WUncount, WFetch, WStart, WRun, WFinish, WExit,
        mapVars, managerVars
  <2> QED BY <1>1, <2>2, <2>3
<1>3. CASE Manager
  <2> USE DEF GoM, workerSide, mapVars
  <2>1. ASSUME mpc # "end", wpc' = wpc, UNCHANGED << thread_map, owner >>,
               mpc' = "count" \/ mpc # "count"
        PROVE  ThreadsOwned'
    BY <2>1
  <2>2. ASSUME NEW w \in Threads, MCreate(w) PROVE ThreadsOwned'
    <3>1. /\ wpc' = [wpc EXCEPT ![w] = "loop"] /\ mpc = "create" /\ mpc' = "count"
          /\ UNCHANGED << thread_map, owner >>
      BY <2>2 DEF MCreate
    <3>2. At(Started)' = At(Started) \cup {w}
      BY <3>1 DEF TypeOK, WorkerPCs
    <3>3. At(Started) \subseteq thread_map
      BY <3>1
    <3> QED BY <3>1, <3>2, <3>3
  <2>3. ASSUME NEW w \in Threads, MCount(w) PROVE ThreadsOwned'
    BY <2>3 DEF MCount
  <2> HIDE DEF ThreadsOwned
  <2> QED
    BY <1>3, <2>1, <2>2, <2>3
    DEF Manager, MTop, MSample, MReap, MClear, MDecide, MRemove, MSleep
<1>4. CASE Owner
  <2>1. wpc' = wpc /\ UNCHANGED << thread_map, mpc >>
    BY <1>4 DEF Owner, AddTask, Close, JoinManager, JoinWorkers, mapVars, managerVars
  <2>2. owner' \in {"joinWorkers", "gone"} => mpc = "end"
    BY <1>4 DEF Owner, AddTask, Close, JoinManager, JoinWorkers
  <2> QED BY <2>1, <2>2
<1>5. CASE UNCHANGED vars BY <1>5 DEF vars
<1> QED BY <1>2, <1>3, <1>4, <1>5 DEF Next, Ended

LEMMA NoneOutlivesStep == IInv /\ ThreadsOwned /\ NoneOutlives /\ [Next]_vars => NoneOutlives'
<1> SUFFICES ASSUME TypeOK, ThreadsOwned, NoneOutlives, [Next]_vars, owner' = "gone"
             PROVE  \A w \in Threads : wpc'[w] \in {"none", "end"}
  BY DEF IInv, NoneOutlives
<1>1. CASE owner = "gone"
  <2>1. \A w \in Threads : wpc[w] \in {"none", "end"}
    BY <1>1 DEF NoneOutlives
  <2>2. mpc = "end"
    BY <1>1 DEF ThreadsOwned
  <2>3. wpc' = wpc
    BY <1>1, <2>1, <2>2
    DEF Next, Owner, AddTask, Close, JoinManager, JoinWorkers, Manager, MTop, MSample, MReap, MClear,
        MDecide, MCreate, MCount, MRemove, MSleep, GoM, Worker, Go, WLoop, WAcquire, WWoken, WChkClose,
        WRetire, WUncount, WFetch, WStart, WRun, WFinish, WExit, Ended, vars
  <2> QED BY <2>1, <2>3
<1>2. CASE owner # "gone"
  <2>1. JoinWorkers
    BY <1>2
    DEF Next, Owner, AddTask, Close, JoinManager, Manager, MTop, MSample, MReap, MClear, MDecide, MCreate,
        MCount, MRemove, MSleep, workerSide, Worker, WLoop, WAcquire, WWoken, WChkClose, WRetire, WUncount,
        WFetch, WStart, WRun, WFinish, WExit, Ended, vars
  <2>2. /\ owner = "joinWorkers" /\ wpc' = wpc
        /\ \A w \in thread_map : wpc[w] = "end"
    BY <2>1 DEF JoinWorkers
  <2>3. At(Started) \subseteq thread_map
    BY <2>2 DEF ThreadsOwned
  <2> QED BY <2>2, <2>3 DEF At, Where, Started, TypeOK
<1> QED BY <1>1, <1>2

\* When the destructor has returned no thread of the pool is left, whichever ids
\* the unlocked need_to_erase lost.
THEOREM AllJoined == Spec => []NoneOutlives
<1>1. Init => ThreadsOwned /\ NoneOutlives
  BY DEF Init, ThreadsOwned, NoneOutlives, At, Where, Started
<1> QED BY <1>1, Invariance, ThreadsOwnedStep, NoneOutlivesStep, PTL DEF Spec

-------------------------------------------------------------------------------
(* A pool whose minimum is its capacity: FixedPoolSurvives rests on the      *)
(* invariant above, which keeps getTask from throwing.                       *)

\* The inductive invariant.
FixedInv == QueueDistinct /\ (Fixed /\ ~shutdown => Steady)

LEMMA InitFixed == Init => FixedInv
BY DEF Init, FixedInv, QueueDistinct, Steady

\* A task enters the queue when it is not there, and leaves it at the front.
LEMMA QueueDistinctStep == IInv /\ QueueDistinct /\ [Next]_vars => QueueDistinct'
<1> SUFFICES ASSUME TypeOK, QueueDistinct, [Next]_vars PROVE QueueDistinct'
  BY DEF IInv
<1> USE DEF QueueDistinct
<1>1. CASE UNCHANGED queue BY <1>1
<1>2. ASSUME NEW w \in Threads, WFetch(w) PROVE QueueDistinct'
  <2>1. CASE queue = << >> BY <1>2, <2>1 DEF WFetch
  <2>2. CASE queue # << >>
    <3>1. queue' = Tail(queue) /\ queue \in Seq(Task)
      BY <1>2, <2>2 DEF WFetch, TypeOK
    <3>2. \A i \in DOMAIN Tail(queue) : i + 1 \in DOMAIN queue /\ Tail(queue)[i] = queue[i + 1]
      BY <3>1, <2>2
    <3>3. DOMAIN Tail(queue) \subseteq Nat
      BY <3>1, <2>2
    <3> QED BY <3>1, <3>2, <3>3
  <2> QED BY <2>1, <2>2
<1>3. ASSUME NEW t \in Task, AddTask(t) PROVE QueueDistinct'
  <2>1. CASE Len(queue) >= QueueMax BY <1>3, <2>1 DEF AddTask
  <2>2. CASE ~(Len(queue) >= QueueMax)
    <3> DEFINE k == Ahead(queue, t)
    <3>1. queue' = Place(queue, t) /\ t \notin Queued /\ queue \in Seq(Task)
      BY <1>3, <2>2 DEF AddTask, TypeOK
    <3>2. \A i \in DOMAIN queue : queue[i] # t
      BY <3>1 DEF Queued
    <3>3. k \in 0 .. Len(queue)
      BY <3>1, AheadType
    <3>4. /\ Len(queue') = Len(queue) + 1 /\ queue' \in Seq(Task)
          /\ \A i \in 1 .. Len(queue) + 1 :
                queue'[i] = IF i <= k THEN queue[i] ELSE IF i = k + 1 THEN t ELSE queue[i - 1]
      BY <3>1, Placed
    <3> HIDE DEF k
    <3>5. DOMAIN queue' = 1 .. Len(queue) + 1 /\ DOMAIN queue = 1 .. Len(queue) /\ Len(queue) \in Nat
      BY <3>1, <3>4
    <3> SUFFICES ASSUME NEW i \in DOMAIN queue', NEW j \in DOMAIN queue', i < j PROVE queue'[i] # queue'[j]
      BY <3>5
    <3>6. CASE i <= k /\ j <= k
      BY <3>3, <3>4, <3>5, <3>6
    <3>7. CASE i <= k /\ j > k
      BY <3>2, <3>3, <3>4, <3>5, <3>7
    <3>8. CASE i > k
      <4>1. j - 1 \in DOMAIN queue /\ queue'[j] = queue[j - 1]
        BY <3>3, <3>4, <3>5, <3>8
      <4>2. CASE i = k + 1
        BY <3>2, <3>3, <3>4, <3>5, <4>1, <4>2
      <4>3. CASE i > k + 1
        <5>1. i - 1 \in DOMAIN queue /\ queue'[i] = queue[i - 1] /\ i - 1 # j - 1
          BY <3>3, <3>4, <3>5, <4>3
        <5> QED BY <4>1, <5>1
      <4> QED BY <3>8, <4>2, <4>3, <3>3, <3>5
    <3> QED BY <3>6, <3>7, <3>8, <3>3, <3>5
  <2> QED BY <2>1, <2>2
<1>4. ASSUME NEW w \in Threads, Worker(w) PROVE QueueDistinct'
  BY <1>1, <1>2, <1>4
  DEF Worker, WLoop, WAcquire, WWoken, WChkClose, WRetire, WUncount, WStart, WRun, WFinish, WExit
<1>5. CASE Manager
  BY <1>1, <1>5
  DEF Manager, MTop, MSample, MReap, MClear, MDecide, MCreate, MCount, MRemove, MSleep, workerSide
<1>6. CASE Owner
  BY <1>1, <1>3, <1>6 DEF Owner, Close, JoinManager, JoinWorkers
<1> QED BY <1>1, <1>4, <1>5, <1>6 DEF Next, Ended, vars

\* There is always room for a task that is not in the queue yet.
LEMMA QueueHasRoom ==
    ASSUME TypeOK, QueueDistinct, Fixed, NEW t \in Task, t \notin Queued
    PROVE  Len(queue) < QueueMax
<1>1. Len(queue) \in Nat /\ DOMAIN queue = 1 .. Len(queue)
  BY DEF TypeOK
<1>2. queue \in [1 .. Len(queue) -> Task \ {t}]
  BY <1>1 DEF TypeOK, Queued
<1>3. queue \in Injection(1 .. Len(queue), Task \ {t})
  BY <1>1, <1>2 DEF QueueDistinct, Injection, IsInjective
<1>4. /\ IsFiniteSet(Task \ {t}) /\ Cardinality(Task \ {t}) = Cardinality(Task) - 1
      /\ Cardinality(Task) \in Nat
  BY TaskAssumption, FS_RemoveElement, FS_CardinalityType
<1>5. Cardinality(1 .. Len(queue)) <= Cardinality(Task \ {t})
  BY <1>3, <1>4, FS_Injection
<1>6. Cardinality(1 .. Len(queue)) = Len(queue)
  <2>1. \A n \in Nat : Cardinality(1 .. n) = IF 1 > n THEN 0 ELSE n - 1 + 1
    BY FS_Interval
  <2> QED BY <1>1, <2>1
<1> QED BY <1>1, <1>4, <1>5, <1>6, SizesAssumption DEF Fixed

\* A worker about to fetch is counted, so there is something to fetch.
LEMMA SomethingToFetch ==
    ASSUME TypeOK, NoEmptyFetch, NEW w \in Threads, wpc[w] = "fetch"
    PROVE  queue # << >>
<1>1. IsFiniteSet(At({"fetch"})) /\ w \in At({"fetch"})
  BY ThreadsAssumption, FS_Subset DEF At, Where
<1>2. NFetch # 0 /\ NFetch \in Nat
  BY <1>1, FS_EmptySet, FS_CardinalityType DEF NFetch
<1> QED BY <1>2 DEF NoEmptyFetch

\* While the pool is open nothing disturbs a fixed pool.
LEMMA SteadyStep == IInv /\ FixedInv /\ [Next]_vars => (Fixed /\ ~shutdown' => Steady')
<1> SUFFICES ASSUME IInv, QueueDistinct, Fixed /\ ~shutdown => Steady, [Next]_vars, Fixed, ~shutdown'
             PROVE  Steady'
  BY DEF FixedInv
<1>1. ~shutdown
  BY DEF Next, Owner, AddTask, Close, JoinManager, JoinWorkers, Manager, MTop, MSample, MReap, MClear,
         MDecide, MCreate, MCount, MRemove, MSleep, workerSide, Worker, WLoop, WAcquire, WWoken, WChkClose, WRetire,
         WUncount, WFetch, WStart, WRun, WFinish, WExit, Ended, vars
<1>2. Steady /\ TypeOK /\ NoEmptyFetch
  BY <1>1 DEF IInv
<1> USE DEF Steady
<1>3. ASSUME NEW w \in Threads, Worker(w) PROVE Steady'
  <2> USE <1>1, <1>2 DEF Go, taskVars, poolVars, mapVars, managerVars
  <2>1. ASSUME NEW to, wpc' = [wpc EXCEPT ![w] = to],
               to \notin {"retire", "uncount", "exit", "end"},
               UNCHANGED << thread_size, need_to_close_num, need_to_erase, mpc >>, ~terminated'
        PROVE  Steady'
    BY <2>1 DEF TypeOK
  <2> HIDE DEF Steady
  <2>2. CASE WLoop(w) BY <2>1, <2>2 DEF WLoop
  <2>3. CASE WAcquire(w) BY <2>1, <2>3 DEF WAcquire
  <2>4. CASE WWoken(w) BY <2>1, <2>4 DEF WWoken
  <2>5. CASE WChkClose(w)
    <3>1. ~(need_to_close_num > 0)
      BY DEF Steady
    <3> QED BY <2>1, <2>5, <3>1 DEF WChkClose
  <2>6. CASE WRetire(w) \/ WUncount(w) \/ WExit(w)
    BY <2>6 DEF Steady, WRetire, WUncount, WExit
  <2>7. CASE WFetch(w)
    <3>1. queue # << >>
      BY <2>7, SomethingToFetch DEF WFetch
    <3>2. wpc' = [wpc EXCEPT ![w] = "start"] /\ terminated' = terminated /\ ~terminated
      BY <2>7, <3>1 DEF WFetch
    <3>3. UNCHANGED << thread_size, need_to_close_num, need_to_erase, mpc >>
      BY <2>7 DEF WFetch
    <3> QED BY <2>1, <3>2, <3>3
  <2>8. CASE WStart(w) BY <2>1, <2>8 DEF WStart
  <2>9. CASE WRun(w)
    <3>1. ~terminated'
      BY <2>9 DEF WRun, Fixed
    <3> QED BY <2>1, <2>9, <3>1 DEF WRun
  <2>10. CASE WFinish(w) BY <2>1, <2>10 DEF WFinish
  <2> QED
    BY <1>3, <2>2, <2>3, <2>4, <2>5, <2>6, <2>7, <2>8, <2>9, <2>10 DEF Worker
<1>4. CASE Manager
  <2> USE <1>1, <1>2 DEF GoM, workerSide, mapVars, taskVars
  <2>1. CASE MTop BY <2>1 DEF MTop
  <2>2. CASE MSample BY <2>2 DEF MSample
  <2>3. CASE MReap
    <3>1. ~terminated'
      BY <2>3 DEF MReap
    <3> QED BY <2>3, <3>1 DEF MReap
  <2>4. CASE MClear BY <2>4 DEF MClear
  <2>5. CASE MDecide
    <3>1. ~WantsMore /\ ~WantsLess
      BY SizesAssumption DEF WantsMore, WantsLess, Fixed
    <3> QED BY <2>5, <3>1 DEF MDecide
  <2>6. ASSUME NEW w \in Threads, MCreate(w) \/ MCount(w) PROVE Steady'
    BY <2>6 DEF MCreate, MCount
  <2>7. CASE MRemove BY <2>7 DEF MRemove
  <2>8. CASE MSleep BY <2>8 DEF MSleep
  <2> QED BY <1>4, <2>1, <2>2, <2>3, <2>4, <2>5, <2>6, <2>7, <2>8 DEF Manager
<1>5. CASE Owner
  <2> USE <1>1, <1>2 DEF poolVars, mapVars, managerVars
  <2>1. ASSUME NEW t \in Task, AddTask(t) PROVE Steady'
    <3>1. Len(queue) < QueueMax
      BY <2>1, QueueHasRoom DEF AddTask
    <3>2. ~(Len(queue) >= QueueMax)
      BY <3>1, SizesAssumption DEF TypeOK
    <3> QED BY <2>1, <3>2 DEF AddTask
  <2>2. CASE Close BY <2>2 DEF Close
  <2>3. CASE JoinManager BY <2>3 DEF JoinManager
  <2>4. CASE JoinWorkers BY <2>4 DEF JoinWorkers
  <2> QED BY <1>5, <2>1, <2>2, <2>3, <2>4 DEF Owner
<1>6. CASE UNCHANGED vars BY <1>1, <1>2, <1>6 DEF vars
<1> QED BY <1>3, <1>4, <1>5, <1>6 DEF Next, Ended

\* A pool that cannot resize, whose tasks do not throw and fit into the queue,
\* ends the process only while it is being closed.
THEOREM FixedPool == Spec => []FixedPoolSurvives
<1>1. IInv /\ FixedInv /\ [Next]_vars => FixedInv'
  BY QueueDistinctStep, SteadyStep DEF FixedInv, Fixed
<1>2. FixedInv => FixedPoolSurvives
  BY DEF FixedInv, FixedPoolSurvives, Steady
<1> QED BY <1>1, <1>2, InitFixed, Invariance, PTL DEF Spec

-------------------------------------------------------------------------------
(* The pool implements TaskService                                           *)

-------------------------------------------------------------------------------
(* What a step does to the tasks                                           *)

Calm == Holders' = Holders /\ UNCHANGED << task, queue, done >>

\* A step that moves a worker neither to a task nor away from one is calm.
LEMMA MoveIsCalm ==
    ASSUME TypeOK, NEW w \in Threads, NEW to, wpc' = [wpc EXCEPT ![w] = to],
           UNCHANGED << task, queue, done >>,
           wpc[w] \in {"start", "run", "finish"} <=> to \in {"start", "run", "finish"}
    PROVE  Calm
BY DEF TypeOK, Calm, Holders, At, Where

\* All steps but three are.
LEMMA MostAreCalm ==
    ASSUME TypeOK, [Next]_vars
    PROVE  \/ Calm
           \/ \E w \in Threads : WFetch(w) /\ queue # << >>
           \/ \E w \in Threads : WFinish(w)
           \/ \E t \in Task : AddTask(t) /\ Len(queue) < QueueMax
<1>1. ASSUME UNCHANGED << wpc, task, queue, done >> PROVE Calm
  BY <1>1 DEF Calm, Holders, At, Where
<1>2. ASSUME NEW w \in Threads, Worker(w)
      PROVE  Calm \/ (WFetch(w) /\ queue # << >>) \/ WFinish(w)
  <2> USE DEF Go, taskVars
  <2>1. CASE WLoop(w) BY <2>1, MoveIsCalm DEF WLoop
  <2>2. CASE WAcquire(w) BY <2>2, MoveIsCalm DEF WAcquire
  <2>3. CASE WWoken(w) BY <2>3, MoveIsCalm DEF WWoken
  <2>4. CASE WChkClose(w) BY <2>4, MoveIsCalm DEF WChkClose
  <2>5. CASE WRetire(w) BY <2>5, MoveIsCalm DEF WRetire
  <2>6. CASE WUncount(w) BY <2>6, MoveIsCalm DEF WUncount
  <2>7. CASE WFetch(w)
    BY <1>1, <2>7 DEF WFetch
  <2>8. CASE WStart(w) BY <2>8, MoveIsCalm DEF WStart
  <2>9. CASE WRun(w) BY <2>9, MoveIsCalm DEF WRun
  <2>10. CASE WExit(w) BY <2>10, MoveIsCalm DEF WExit
  <2> QED
    BY <1>2, <2>1, <2>2, <2>3, <2>4, <2>5, <2>6, <2>7, <2>8, <2>9, <2>10 DEF Worker
<1>3. ASSUME NEW w \in Threads, MCreate(w) PROVE Calm
  BY <1>3, MoveIsCalm DEF MCreate, taskVars
<1>4. CASE Manager
  BY <1>1, <1>3, <1>4
  DEF Manager, MTop, MSample, MReap, MClear, MDecide, MCount, MRemove, MSleep, workerSide, taskVars
<1>5. ASSUME NEW t \in Task, AddTask(t) PROVE Calm \/ Len(queue) < QueueMax
  <2>1. CASE Len(queue) >= QueueMax
    BY <1>1, <1>5, <2>1 DEF AddTask, taskVars
  <2>2. CASE ~(Len(queue) >= QueueMax)
    BY <2>2, SizesAssumption DEF TypeOK
  <2> QED BY <2>1, <2>2
<1>6. CASE Owner
  BY <1>1, <1>5, <1>6 DEF Owner, Close, JoinManager, JoinWorkers, taskVars
<1> QED BY <1>1, <1>2, <1>4, <1>6 DEF Next, Ended, vars

\* The front of the queue goes to the worker that fetches it.
LEMMA FetchTakes ==
    ASSUME TypeOK, QueueDistinct, NEW w \in Threads, WFetch(w), queue # << >>
    PROVE  /\ Head(queue) \in Queued
           /\ Queued' = Queued \ {Head(queue)}
           /\ w \notin Holders /\ Holders' = Holders \cup {w}
           /\ task' = [task EXCEPT ![w] = Head(queue)]
           /\ Held' = Held \cup {Head(queue)}
           /\ done' = done
<1>1. queue \in Seq(Task) /\ queue' = Tail(queue)
  BY DEF WFetch, TypeOK
<1>2. /\ DOMAIN queue = 1 .. Len(queue) /\ Len(queue) \in Nat \ {0} /\ Head(queue) = queue[1]
      /\ DOMAIN Tail(queue) = 1 .. Len(queue) - 1
      /\ \A i \in DOMAIN Tail(queue) : Tail(queue)[i] = queue[i + 1]
  BY <1>1
<1>3. Head(queue) \in Queued
  BY <1>2 DEF Queued
<1>4. Queued' = Queued \ {Head(queue)}
  <2>1. ASSUME NEW x \in Queued \ {Head(queue)} PROVE x \in Queued'
    <3>1. PICK i \in 1 .. Len(queue) : x = queue[i]
      BY <1>2 DEF Queued
    <3>2. i - 1 \in DOMAIN Tail(queue) /\ Tail(queue)[i - 1] = x
      BY <1>2, <2>1, <3>1
    <3> QED BY <1>1, <3>2 DEF Queued
  <2>2. ASSUME NEW x \in Queued' PROVE x \in Queued \ {Head(queue)}
    <3>1. PICK i \in DOMAIN Tail(queue) : x = Tail(queue)[i]
      BY <1>1, <2>2 DEF Queued
    <3>2. i + 1 \in DOMAIN queue /\ i + 1 # 1 /\ x = queue[i + 1] /\ 1 \in DOMAIN queue
      BY <1>2, <3>1
    <3>3. x # queue[1]
      BY <3>2 DEF QueueDistinct
    <3> QED BY <1>2, <3>2, <3>3 DEF Queued
  <2> QED BY <2>1, <2>2
<1>5. wpc[w] = "fetch" /\ wpc' = [wpc EXCEPT ![w] = "start"] /\ task' = [task EXCEPT ![w] = Head(queue)]
      /\ done' = done
  BY DEF WFetch
<1>6. w \notin Holders /\ Holders' = Holders \cup {w}
  BY <1>5 DEF TypeOK, Holders, At, Where
<1>7. Held' = Held \cup {Head(queue)}
  BY <1>5, <1>6 DEF TypeOK, Held, Holders
<1> QED BY <1>3, <1>4, <1>5, <1>6, <1>7

\* A worker that is done has no task.
LEMMA FinishGives ==
    ASSUME TypeOK, TasksApart, NEW w \in Threads, WFinish(w)
    PROVE  /\ w \in Holders /\ Holders' = Holders \ {w}
           /\ \A v \in Holders' : task'[v] = task[v]
           /\ done' = done \cup {task[w]}
           /\ Held' = Held \ {task[w]} /\ task[w] \in Held
           /\ queue' = queue /\ Queued' = Queued
<1>1. wpc[w] = "finish" /\ wpc' = [wpc EXCEPT ![w] = "loop"] /\ task' = [task EXCEPT ![w] = NoTask]
      /\ done' = done \cup {task[w]} /\ queue' = queue
  BY DEF WFinish, Go
<1>2. w \in Holders /\ Holders' = Holders \ {w}
  BY <1>1 DEF TypeOK, Holders, At, Where
<1>3. \A v \in Holders' : v \in Holders /\ v # w /\ task'[v] = task[v]
  BY <1>1, <1>2 DEF TypeOK, Holders, At, Where
<1>4. Held = { task[v] : v \in Holders } /\ Held' = { task'[v] : v \in Holders' }
  BY DEF Held, Holders
<1>5. Held' = Held \ {task[w]} /\ task[w] \in Held
  BY <1>2, <1>3, <1>4 DEF TasksApart
<1> QED BY <1>1, <1>2, <1>3, <1>5 DEF Queued

\* A task that is added is new, and put in its place.
LEMMA AddQueues ==
    ASSUME TypeOK, NEW t \in Task, AddTask(t), Len(queue) < QueueMax
    PROVE  /\ t \notin Queued \cup Held \cup done
           /\ queue' = Place(queue, t) /\ Queued' = Queued \cup {t}
           /\ Holders' = Holders /\ Held' = Held /\ UNCHANGED << task, done, terminated, shutdown >>
<1>1. ~(Len(queue) >= QueueMax)
  BY SizesAssumption DEF TypeOK
<1>2. /\ queue' = Place(queue, t) /\ t \notin Queued \cup Held \cup done
      /\ UNCHANGED << wpc, task, done, terminated, shutdown >>
  BY <1>1 DEF AddTask, taskVars
<1>3. Queued' = Queued \cup {t}
  <2>1. /\ \A i \in DOMAIN queue' : queue'[i] = t \/ \E j \in DOMAIN queue : queue'[i] = queue[j]
        /\ \E i \in DOMAIN queue' : queue'[i] = t
        /\ \A j \in DOMAIN queue : \E i \in DOMAIN queue' : queue'[i] = queue[j]
    BY <1>2, PlacedRange DEF TypeOK
  <2> QED BY <2>1 DEF Queued
<1> QED BY <1>2, <1>3 DEF Held, Holders, At, Where

-------------------------------------------------------------------------------
(* The invariants of the refinement                                        *)

\* A task goes from the queue to a worker, and from there to the finished ones.
LEMMA TasksApartStep == IInv /\ QueueDistinct /\ TasksApart /\ [Next]_vars => TasksApart'
<1> SUFFICES ASSUME TypeOK, QueueDistinct, TasksApart, [Next]_vars PROVE TasksApart'
  BY DEF IInv
<1>1. CASE Calm
  BY <1>1 DEF Calm, TasksApart, Queued
<1>2. ASSUME NEW w \in Threads, WFetch(w), queue # << >> PROVE TasksApart'
  <2>1. /\ Head(queue) \in Queued /\ Queued' = Queued \ {Head(queue)}
        /\ w \notin Holders /\ Holders' = Holders \cup {w}
        /\ task' = [task EXCEPT ![w] = Head(queue)] /\ done' = done
    BY <1>2, FetchTakes
  <2>2. task'[w] = Head(queue) /\ \A v \in Holders : v # w /\ task'[v] = task[v]
    BY <2>1 DEF TypeOK, Holders, At, Where
  <2>3. Head(queue) \notin Queued' \cup done /\ \A v \in Holders : task[v] # Head(queue)
    BY <2>1 DEF TasksApart
  <2> QED BY <2>1, <2>2, <2>3 DEF TasksApart
<1>3. ASSUME NEW w \in Threads, WFinish(w) PROVE TasksApart'
  <2>1. /\ w \in Holders /\ Holders' = Holders \ {w} /\ \A v \in Holders' : task'[v] = task[v]
        /\ done' = done \cup {task[w]} /\ Queued' = Queued
    BY <1>3, FinishGives
  <2> QED BY <2>1 DEF TasksApart
<1>4. ASSUME NEW t \in Task, AddTask(t), Len(queue) < QueueMax PROVE TasksApart'
  <2>1. /\ t \notin Queued \cup Held \cup done /\ Queued' = Queued \cup {t}
        /\ Holders' = Holders /\ UNCHANGED << task, done >>
    BY <1>4, AddQueues
  <2>2. \A v \in Holders : task[v] # t
    BY <2>1 DEF Held, Holders
  <2> QED BY <2>1, <2>2 DEF TasksApart
<1> QED BY <1>1, <1>2, <1>3, <1>4, MostAreCalm

\* The manager creates a thread below the capacity only, and a worker that stops
\* being counted stops.
LEMMA SizeBoundStep == IInv /\ SizeBound /\ [Next]_vars => SizeBound'
<1> SUFFICES ASSUME TypeOK, SizeBound, [Next]_vars PROVE SizeBound'
  BY DEF IInv
<1>0. NLive \in Nat /\ thread_size \in Int
  BY CountsOrdered DEF TypeOK
<1> USE <1>0, SizesAssumption DEF SizeBound
<1>1. ASSUME NLive' <= NLive, UNCHANGED << thread_size, mpc >>, NLive' \in Int PROVE SizeBound'
  BY <1>1
<1>2. CASE UNCHANGED << wpc, thread_size, mpc >>
  BY <1>2, SameCounts
<1>3. ASSUME NEW w \in Threads, Worker(w) PROVE SizeBound'
  <2>1. \A from, to : Moved(from, to) => NLive' = NLive + Delta(Live, from, to)
    BY DEF Moved
  <2> USE DEF Delta, Live, WorkerPCs, poolVars, managerVars, Go
  <2>2. CASE WLoop(w)
    <3>1. NLive' = NLive + Delta(Live, "loop", IF shutdown THEN "exit" ELSE "acquire")
      BY <2>1, <2>2, WorkerMoves
    <3> QED BY <1>1, <2>2, <3>1 DEF WLoop
  <2>3. CASE WAcquire(w)
    <3>1. NLive' = NLive + Delta(Live, "acquire", "woken")
      BY <2>1, <2>3, WorkerMoves
    <3> QED BY <1>1, <2>3, <3>1 DEF WAcquire
  <2>4. CASE WWoken(w)
    <3>1. NLive' = NLive + Delta(Live, "woken", IF shutdown THEN "exit" ELSE "chkClose")
      BY <2>1, <2>4, WorkerMoves
    <3> QED BY <1>1, <2>4, <3>1 DEF WWoken
  <2>5. CASE WChkClose(w)
    <3>1. NLive' = NLive + Delta(Live, "chkClose", IF need_to_close_num > 0 THEN "retire" ELSE "fetch")
      BY <2>1, <2>5, WorkerMoves
    <3> QED BY <1>1, <2>5, <3>1 DEF WChkClose
  <2>6. CASE WRetire(w)
    <3>1. NLive' = NLive + Delta(Live, "retire", "uncount")
      BY <2>1, <2>6, WorkerMoves
    <3> QED BY <1>1, <2>6, <3>1 DEF WRetire
  <2>7. CASE WUncount(w)
    <3>1. NLive' = NLive + Delta(Live, "uncount", "exit")
      BY <2>1, <2>7, WorkerMoves
    <3> QED BY <2>7, <3>1 DEF WUncount
  <2>8. CASE WFetch(w)
    <3>1. CASE queue = << >>
      BY <1>2, <2>8, <3>1 DEF WFetch
    <3>2. CASE queue # << >>
      <4>1. NLive' = NLive + Delta(Live, "fetch", "start")
        BY <2>1, <2>8, <3>2, WorkerMoves
      <4> QED BY <1>1, <2>8, <4>1 DEF WFetch
    <3> QED BY <3>1, <3>2
  <2>9. CASE WStart(w)
    <3>1. NLive' = NLive + Delta(Live, "start", "run")
      BY <2>1, <2>9, WorkerMoves
    <3> QED BY <1>1, <2>9, <3>1 DEF WStart
  <2>10. CASE WRun(w)
    <3>1. NLive' = NLive + Delta(Live, "run", "finish")
      BY <2>1, <2>10, WorkerMoves
    <3> QED BY <1>1, <2>10, <3>1 DEF WRun
  <2>11. CASE WFinish(w)
    <3>1. NLive' = NLive + Delta(Live, "finish", "loop")
      BY <2>1, <2>11, WorkerMoves
    <3> QED BY <1>1, <2>11, <3>1 DEF WFinish
  <2>12. CASE WExit(w)
    <3>1. NLive' = NLive + Delta(Live, "exit", "end")
      BY <2>1, <2>12, WorkerMoves
    <3> QED BY <1>1, <2>12, <3>1 DEF WExit
  <2> QED
    BY <1>3, <2>2, <2>3, <2>4, <2>5, <2>6, <2>7, <2>8, <2>9, <2>10, <2>11, <2>12 DEF Worker
<1>4. CASE Manager
  <2> USE DEF GoM, workerSide, poolVars, taskVars
  <2>1. CASE MTop BY <2>1, SameCounts DEF MTop
  <2>2. CASE MSample BY <2>2, SameCounts DEF MSample
  <2>3. CASE MReap BY <2>3, SameCounts DEF MReap
  <2>4. CASE MClear BY <2>4, SameCounts DEF MClear
  <2>5. CASE MDecide BY <2>5, SameCounts DEF MDecide, WantsMore
  <2>6. ASSUME NEW w \in Threads, MCreate(w) PROVE SizeBound'
    <3>1. Moved("none", "loop")
      <4>1. wpc[w] = "none" /\ wpc' = [wpc EXCEPT ![w] = "loop"] /\ "loop" \in WorkerPCs
        BY <2>6 DEF MCreate, WorkerPCs
      <4> QED BY <4>1, MoveCounts
    <3>2. NLive' = NLive + 1
      BY <3>1 DEF Moved, Delta, Live, WorkerPCs
    <3> QED BY <2>6, <3>2 DEF MCreate
  <2>7. ASSUME NEW w \in Threads, MCount(w) PROVE SizeBound'
    BY <2>7, SameCounts DEF MCount
  <2>8. CASE MRemove BY <2>8, SameCounts DEF MRemove
  <2>9. CASE MSleep BY <2>9, SameCounts DEF MSleep
  <2> QED BY <1>4, <2>1, <2>2, <2>3, <2>4, <2>5, <2>6, <2>7, <2>8, <2>9 DEF Manager
<1>5. CASE Owner
  BY <1>2, <1>5 DEF Owner, AddTask, Close, JoinManager, JoinWorkers, poolVars, managerVars
<1> QED BY <1>2, <1>3, <1>4, <1>5 DEF Next, Ended, vars

\* The inductive invariant of the refinement.
LEMMA ServiceInvariance == Spec => []ServiceInv
<1>1. Init => ServiceInv
  <2> SUFFICES ASSUME Init PROVE ServiceInv
    OBVIOUS
  <2>1. IInv
    BY InitIInv
  <2>2. Holders = {} /\ Queued = {}
    BY DEF Init, Holders, At, Where, Queued
  <2>3. NLive = thread_size
    BY <2>1, SizesAssumption DEF IInv, ThreadSizeExact, Init
  <2>4. SizeBound
    BY <2>3, SizesAssumption DEF Init, SizeBound
  <2>5. QueueDistinct /\ TasksApart
    BY <2>2 DEF Init, QueueDistinct, TasksApart
  <2> QED BY <2>4, <2>5 DEF ServiceInv
<1>2. IInv /\ ServiceInv /\ [Next]_vars => ServiceInv'
  BY QueueDistinctStep, TasksApartStep, SizeBoundStep DEF ServiceInv
<1> QED BY <1>1, <1>2, Invariance, PTL DEF Spec

-------------------------------------------------------------------------------
(* The steps of the service                                                *)

\* What a step does to the mode of the service: nothing, or it aborts the
\* process, or it closes the pool.
LEMMA ModeSteps ==
    ASSUME TypeOK, OpenWhileOwned, [Next]_vars
    PROVE  \/ UNCHANGED << terminated, shutdown >>
           \/ ~terminated /\ terminated' /\ shutdown' = shutdown
           \/ ~terminated /\ ~terminated' /\ ~shutdown /\ shutdown'
<1>1. terminated \in BOOLEAN /\ shutdown \in BOOLEAN
  BY DEF TypeOK
<1>2. ASSUME ~terminated, terminated' \in BOOLEAN, shutdown' = shutdown
      PROVE  UNCHANGED << terminated, shutdown >> \/ (~terminated /\ terminated' /\ shutdown' = shutdown)
  BY <1>1, <1>2
<1>3. ASSUME NEW w \in Threads, Worker(w)
      PROVE  \/ UNCHANGED << terminated, shutdown >>
             \/ ~terminated /\ terminated' /\ shutdown' = shutdown
  <2>1. CASE WFetch(w) BY <1>2, <2>1 DEF WFetch
  <2>2. CASE WRun(w)
    <3>1. ~terminated /\ shutdown' = shutdown
      BY <2>2 DEF WRun, Go
    <3>2. terminated' \in BOOLEAN
      BY <2>2 DEF WRun
    <3> QED BY <1>2, <3>1, <3>2
  <2> QED
    BY <1>3, <2>1, <2>2
    DEF Worker, WLoop, WAcquire, WWoken, WChkClose, WRetire, WUncount, WStart, WFinish, WExit
<1>4. CASE Manager
  <2>1. CASE MReap BY <1>2, <2>1 DEF MReap, GoM, workerSide
  <2> QED
    BY <1>4, <2>1
    DEF Manager, MTop, MSample, MClear, MDecide, MCreate, MCount, MRemove, MSleep, workerSide
<1>5. CASE Owner
  <2>1. ASSUME NEW t \in Task, AddTask(t)
        PROVE  \/ UNCHANGED << terminated, shutdown >>
               \/ ~terminated /\ terminated' /\ shutdown' = shutdown
    BY <1>2, <2>1 DEF AddTask
  <2> QED
    BY <1>1, <1>5, <2>1 DEF Owner, Close, JoinManager, JoinWorkers, OpenWhileOwned
<1> QED BY <1>3, <1>4, <1>5 DEF Next, Ended, vars

\* As many tasks run as workers hold one, and one that fetches is not one of them.
LEMMA RoomToStart ==
    ASSUME TypeOK, SizeBound, NEW w \in Threads, wpc[w] = "fetch"
    PROVE  Cardinality(Held) < ThreadMax
<1>1. /\ IsFiniteSet(Holders) /\ IsFiniteSet(At(Live))
      /\ w \notin Holders /\ Holders \cup {w} \subseteq At(Live)
  BY ThreadsAssumption, FS_Subset DEF Holders, At, Where, Live, WorkerPCs
<1>2. Cardinality(Holders) \in Nat /\ Cardinality(Holders) + 1 <= NLive /\ NLive \in Nat
  <2>1. Cardinality(Holders \cup {w}) = Cardinality(Holders) + 1
    BY <1>1, FS_AddElement
  <2>2. Cardinality(Holders \cup {w}) <= Cardinality(At(Live))
    BY <1>1, FS_Subset
  <2> QED BY <1>1, <2>1, <2>2, FS_CardinalityType DEF NLive
<1>3. IsFiniteSet(Held) /\ Cardinality(Held) <= Cardinality(Holders)
  <2>1. Held = { task[v] : v \in Holders }
    BY DEF Held, Holders
  <2>2. [v \in Holders |-> task[v]] \in Surjection(Holders, Held)
    BY <2>1 DEF Surjection
  <2> QED BY <1>1, <2>2, FS_Surjection
<1>4. Cardinality(Held) \in Nat
  BY <1>3, FS_CardinalityType
<1> QED BY <1>2, <1>3, <1>4, SizesAssumption DEF SizeBound, TypeOK

\* Every step of the pool is one of the service, or leaves it alone.
LEMMA Simulation == IInv /\ ServiceInv /\ [Next]_vars => [TS!Next]_(TS!vars)
<1> SUFFICES ASSUME IInv, ServiceInv, [Next]_vars PROVE TS!Next \/ UNCHANGED TS!vars
  OBVIOUS
<1>0. TypeOK /\ OpenWhileOwned /\ QueueDistinct /\ TasksApart /\ SizeBound
  BY DEF IInv, ServiceInv
<1>1. CASE Calm
  <2>1. UNCHANGED << queue, Held, done >>
    BY <1>1 DEF Calm, Held, Holders
  <2>2. CASE UNCHANGED << terminated, shutdown >>
    BY <2>1, <2>2 DEF TS!vars
  <2>3. CASE ~terminated /\ terminated' /\ shutdown' = shutdown
    <3>1. TS!Abort
      BY <2>1, <2>3 DEF TS!Abort
    <3> QED BY <3>1 DEF TS!Next
  <2>4. CASE ~terminated /\ ~terminated' /\ ~shutdown /\ shutdown'
    <3>1. TS!Close
      BY <2>1, <2>4 DEF TS!Close
    <3> QED BY <3>1 DEF TS!Next
  <2> QED BY <1>0, <2>2, <2>3, <2>4, ModeSteps
<1>2. ASSUME NEW w \in Threads, WFetch(w), queue # << >> PROVE TS!Next
  <2>1. ~terminated /\ UNCHANGED << terminated, shutdown >> /\ queue' = Tail(queue) /\ wpc[w] = "fetch"
    BY <1>2 DEF WFetch
  <2>2. Held' = Held \cup {Head(queue)} /\ done' = done
    BY <1>0, <1>2, FetchTakes
  <2>3. Cardinality(Held) < ThreadMax
    BY <1>0, <2>1, RoomToStart
  <2>4. /\ (IF terminated THEN "aborted" ELSE IF shutdown THEN "closed" ELSE "open") # "aborted"
        /\ UNCHANGED (IF terminated THEN "aborted" ELSE IF shutdown THEN "closed" ELSE "open")
    BY <2>1
  <2>5. TS!Start
    <3>1. TS!Cardinality(Held) = Cardinality(Held)
      BY DEF Cardinality, TS!Cardinality
    <3> QED BY <1>2, <2>1, <2>2, <2>3, <2>4, <3>1 DEF TS!Start
  <2> QED BY <2>5 DEF TS!Next
<1>3. ASSUME NEW w \in Threads, WFinish(w) PROVE TS!Next
  <2>1. ~terminated /\ UNCHANGED << terminated, shutdown >>
    BY <1>3 DEF WFinish, Go
  <2>2. /\ w \in Holders /\ done' = done \cup {task[w]} /\ queue' = queue
        /\ Held' = Held \ {task[w]} /\ task[w] \in Held
    BY <1>0, <1>3, FinishGives
  <2>3. task[w] \in Task
    BY <2>2 DEF IInv, HoldsTask, Holders
  <2>4. TS!Finish(task[w])
    BY <2>1, <2>2 DEF TS!Finish
  <2> QED BY <2>3, <2>4 DEF TS!Next
<1>4. ASSUME NEW t \in Task, AddTask(t), Len(queue) < QueueMax PROVE TS!Next
  <2>1. ~terminated /\ ~shutdown
    BY <1>0, <1>4 DEF AddTask, OpenWhileOwned
  <2>2. /\ t \notin Queued \cup Held \cup done /\ queue' = Place(queue, t)
        /\ Held' = Held /\ UNCHANGED << done, terminated, shutdown >>
    BY <1>0, <1>4, AddQueues
  <2>3. TS!Submit(t)
    BY <2>1, <2>2 DEF TS!Submit, TS!Known, Queued
  <2> QED BY <2>3 DEF TS!Next
<1> QED BY <1>0, <1>1, <1>2, <1>3, <1>4, MostAreCalm

\* The pool implements the service its caller relies on: tasks start in the order
\* of addTask, each at most once and no more than thread_capacity at a time, and
\* a task that started finishes unless the process ends.
THEOREM Implements == Spec => Service
<1>1. Init => TS!Init
  <2> SUFFICES ASSUME Init PROVE TS!Init
    OBVIOUS
  <2>1. Held = {}
    BY DEF Init, Held, At, Where
  <2> QED BY <2>1 DEF Init, TS!Init
<1> QED BY <1>1, Simulation, Invariance, ServiceInvariance, PTL DEF Spec, Service, TS!Spec

-------------------------------------------------------------------------------
(* The order of a pool with priorities                                      *)

\* The tasks with a smaller number than a new one are the first ones, and those
\* are the tasks it is placed behind.
LEMMA AheadSmaller ==
    ASSUME Kind = "PRIORITY", NEW q \in Seq(Task), NEW t \in Task,
           \A i, j \in DOMAIN q : i <= j => Priority[q[i]] <= Priority[q[j]]
    PROVE  \A i \in DOMAIN q : Priority[q[i]] < Priority[t] <=> i <= Ahead(q, t)
<1> DEFINE S == { i \in DOMAIN q : Priority[q[i]] < Priority[t] }
           k == Ahead(q, t)
<1>1. DOMAIN q = 1 .. Len(q) /\ Len(q) \in Nat /\ k \in 0 .. Len(q) /\ k = Cardinality(S)
  BY AheadType DEF Ahead
<1>2. \A i \in DOMAIN q : Priority[q[i]] \in Int
  BY KindAssumption
<1>3. Priority[t] \in Int
  BY KindAssumption
<1> HIDE DEF k
<1>4. \A n \in Nat : IsFiniteSet(1 .. n) /\ Cardinality(1 .. n) = n
  <2>1. \A n \in Nat : IsFiniteSet(1 .. n) /\ Cardinality(1 .. n) = IF 1 > n THEN 0 ELSE n - 1 + 1
    BY FS_Interval
  <2> QED BY <2>1
<1>5. IsFiniteSet(S)
  BY <1>1, <1>4, FS_Subset
<1>6. S \subseteq 1 .. k
  <2> SUFFICES ASSUME NEW i \in S PROVE i <= k
    BY <1>1
  <2>1. 1 .. i \subseteq S
    BY <1>1, <1>2, <1>3
  <2>2. Cardinality(1 .. i) <= Cardinality(S)
    BY <1>5, <2>1, FS_Subset
  <2> QED BY <1>1, <1>4, <2>2
<1>7. S = 1 .. k
  <2>1. IsFiniteSet(1 .. k) /\ Cardinality(1 .. k) = k /\ Cardinality(S) = k
    BY <1>1, <1>4
  <2> HIDE DEF S
  <2> QED BY <1>6, <2>1, FS_Subset
<1> QED BY <1>1, <1>7 DEF k

LEMMA SortedStep == IInv /\ Sorted /\ [Next]_vars => Sorted'
<1> SUFFICES ASSUME TypeOK, Sorted, [Next]_vars, Kind = "PRIORITY"
             PROVE  \A i, j \in DOMAIN queue' : i <= j => Priority[queue'[i]] <= Priority[queue'[j]]
  BY DEF IInv, Sorted
<1>0. /\ queue \in Seq(Task) /\ DOMAIN queue = 1 .. Len(queue) /\ Len(queue) \in Nat
      /\ \A i, j \in DOMAIN queue : i <= j => Priority[queue[i]] <= Priority[queue[j]]
      /\ \A i \in DOMAIN queue : Priority[queue[i]] \in Int
  BY KindAssumption DEF TypeOK, Sorted
<1>1. CASE queue' = queue
  BY <1>0, <1>1
<1>2. ASSUME NEW w \in Threads, WFetch(w), queue # << >>
      PROVE  \A i, j \in DOMAIN queue' : i <= j => Priority[queue'[i]] <= Priority[queue'[j]]
  <2>1. queue' = Tail(queue)
    BY <1>2 DEF WFetch
  <2>2. \A i \in DOMAIN Tail(queue) : i + 1 \in DOMAIN queue /\ Tail(queue)[i] = queue[i + 1] /\ i \in Int
    BY <1>0, <1>2
  <2> QED BY <1>0, <2>1, <2>2
<1>3. ASSUME NEW t \in Task, AddTask(t), Len(queue) < QueueMax
      PROVE  \A i, j \in DOMAIN queue' : i <= j => Priority[queue'[i]] <= Priority[queue'[j]]
  <2> DEFINE k == Ahead(queue, t)
  <2>1. queue' = Place(queue, t)
    BY <1>3, AddQueues
  <2>2. k \in 0 .. Len(queue)
    BY <1>0, AheadType
  <2>3. /\ queue' \in Seq(Task) /\ Len(queue') = Len(queue) + 1
        /\ \A i \in 1 .. Len(queue) + 1 :
              queue'[i] = IF i <= k THEN queue[i] ELSE IF i = k + 1 THEN t ELSE queue[i - 1]
    BY <1>0, <2>1, Placed
  <2>4. \A i \in DOMAIN queue : Priority[queue[i]] < Priority[t] <=> i <= k
    BY <1>0, AheadSmaller
  <2>5. Priority[t] \in Int
    BY KindAssumption
  <2> HIDE DEF k
  <2>6. DOMAIN queue' = 1 .. Len(queue) + 1
    BY <1>0, <2>3
  <2> SUFFICES ASSUME NEW i \in DOMAIN queue', NEW j \in DOMAIN queue', i < j
               PROVE  Priority[queue'[i]] <= Priority[queue'[j]]
    <3>1. \A i \in DOMAIN queue' : queue'[i] \in Task
      BY <2>3
    <3>2. \A i \in DOMAIN queue' : Priority[queue'[i]] \in Int /\ i \in Int
      BY <1>0, <2>6, <3>1, KindAssumption
    <3> QED BY <3>2
  <2>7. CASE j <= k
    BY <1>0, <2>2, <2>3, <2>6, <2>7
  <2>8. CASE j = k + 1
    <3>1. queue'[j] = t /\ queue'[i] = queue[i] /\ i \in DOMAIN queue /\ i <= k
      BY <1>0, <2>2, <2>3, <2>6, <2>8
    <3> QED BY <1>0, <2>4, <2>5, <3>1
  <2>9. CASE j > k + 1
    <3>1. queue'[j] = queue[j - 1] /\ j - 1 \in DOMAIN queue /\ ~(j - 1 <= k)
      BY <1>0, <2>2, <2>3, <2>6, <2>9
    <3>2. CASE i <= k
      <4>1. queue'[i] = queue[i] /\ i \in DOMAIN queue /\ i <= j - 1
        BY <1>0, <2>2, <2>3, <2>6, <2>9, <3>2
      <4> QED BY <1>0, <3>1, <4>1
    <3>3. CASE i = k + 1
      <4>1. queue'[i] = t
        BY <1>0, <2>2, <2>3, <2>6, <3>3
      <4> QED BY <1>0, <2>4, <2>5, <3>1, <4>1
    <3>4. CASE i > k + 1
      <4>1. queue'[i] = queue[i - 1] /\ i - 1 \in DOMAIN queue /\ i - 1 <= j - 1
        BY <1>0, <2>2, <2>3, <2>6, <3>4
      <4> QED BY <1>0, <3>1, <4>1
    <3> QED BY <1>0, <2>2, <2>6, <3>2, <3>3, <3>4
  <2> QED BY <1>0, <2>2, <2>6, <2>7, <2>8, <2>9
<1> QED BY <1>1, <1>2, <1>3, MostAreCalm DEF Calm, WFinish

\* In a pool with priorities no task starts while one with a smaller number waits.
THEOREM Urgent == Spec => LowestFirst
<1>1. Init => Sorted
  BY DEF Init, Sorted
<1>2. IInv /\ Sorted /\ [Next]_vars =>
        [ \A w \in Threads :
            Kind = "PRIORITY" /\ wpc[w] = "fetch" /\ wpc'[w] = "start"
              => \A u \in Queued : Priority[task'[w]] <= Priority[u] ]_vars
  <2> SUFFICES ASSUME TypeOK, Sorted, [Next]_vars, NEW w \in Threads, Kind = "PRIORITY",
                      wpc[w] = "fetch", wpc'[w] = "start", NEW u \in Queued
               PROVE  Priority[task'[w]] <= Priority[u]
    BY DEF IInv
  <2>1. WFetch(w) /\ queue # << >>
    <3>1. ASSUME NEW v \in Threads, Worker(v) PROVE v = w /\ WFetch(v)
      BY <3>1
      DEF TypeOK, Worker, Go, WLoop, WAcquire, WWoken, WChkClose, WRetire, WUncount, WFetch, WStart,
          WRun, WFinish, WExit
    <3>2. ~Manager /\ ~Owner /\ ~UNCHANGED vars
      BY DEF TypeOK, Manager, MTop, MSample, MReap, MClear, MDecide, MCreate, MCount, MRemove, MSleep,
             workerSide, Owner, AddTask, Close, JoinManager, JoinWorkers, vars
    <3>3. WFetch(w)
      BY <3>1, <3>2 DEF Next, Ended
    <3> QED BY <3>3 DEF WFetch
  <2>2. task'[w] = Head(queue)
    BY <2>1 DEF WFetch, TypeOK
  <2>3. queue \in Seq(Task) /\ 1 \in DOMAIN queue /\ Head(queue) = queue[1] /\ DOMAIN queue \subseteq Nat \ {0}
    BY <2>1 DEF TypeOK
  <2> QED BY <2>2, <2>3 DEF Sorted, Queued
<1> QED BY <1>1, <1>2, SortedStep, Invariance, PTL DEF Spec, LowestFirst
===============================================================================
