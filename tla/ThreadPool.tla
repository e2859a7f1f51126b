------------------------------ MODULE ThreadPool ------------------------------
(***************************************************************************)
(* The elastic thread pool of src/ThreadPool/ThreadPool.hpp with either     *)
(* queue QueueFactory makes: ThreadQueue (NORMAL, which                     *)
(* TcpServer::TcpServer asks for) or ThreadPriorityQueue (PRIORITY).  There  *)
(* is no custom scaling rule.                                              *)
(*                                                                         *)
(* Three kinds of threads share the pool: the owner (the thread of the      *)
(* epoll loop, which calls addTask and the destructor), the manager and     *)
(* the workers.  A step of the model is one access to shared state that     *)
(* the other threads can tell apart; the statements between two unlocked    *)
(* reads are separate steps because the code takes no lock around them.     *)
(***************************************************************************)
EXTENDS Integers, Sequences, FiniteSets

CONSTANTS
    Kind,       \* the ThreadPoolType, "NORMAL" or "PRIORITY"
    Priority,   \* the number addTask is given with each task, for PRIORITY
    Threads,    \* thread identifiers; their number bounds the threads created
    Task,       \* the tasks the owner may submit, each once
    Throwing,   \* the tasks whose handler throws
    NoTask,     \* what a worker without a task holds
    ThreadMin,  \* thread_min
    ThreadMax,  \* thread_capacity
    QueueMax,   \* capacity of the task queue
    RetireMax   \* bound of the model on need_to_close_num

ASSUME ThreadsAssumption == IsFiniteSet(Threads)
ASSUME TaskAssumption == IsFiniteSet(Task) /\ Throwing \subseteq Task /\ NoTask \notin Task
ASSUME KindAssumption == Kind \in {"NORMAL", "PRIORITY"} /\ Priority \in [Task -> Int]
ASSUME SizesAssumption ==
    /\ ThreadMin \in Nat /\ ThreadMax \in Nat /\ QueueMax \in Nat /\ RetireMax \in Nat
    /\ ThreadMin <= ThreadMax

VARIABLES
    queue,          \* task_queue or task_set, the next task first (size is its length)
    sem,            \* queue_sem
    wpc,            \* where each worker is in WorkerWorkFunction
    task,           \* the task a worker took out of the queue
    thread_size,
    thread_busy_num,
    need_to_close_num,
    need_to_erase,  \* ids of the threads that announced their end
    thread_map,     \* ids of the std::thread objects the pool owns
    shutdown,
    mpc,            \* where the manager is in managerWorkFunction
    task_num,       \* the manager's local variable
    owner,          \* "running", "joinManager", "joinWorkers" or "gone"
    terminated,     \* std::terminate was called
    done            \* history: the tasks whose function returned

taskVars == << task, done >>
poolVars == << thread_size, thread_busy_num, need_to_close_num >>
mapVars == << need_to_erase, thread_map >>
managerVars == << mpc, task_num >>
vars == << queue, sem, wpc, task, thread_size, thread_busy_num, need_to_close_num,
           need_to_erase, thread_map, shutdown, mpc, task_num, owner, terminated, done >>

Where(f, L) == { w \in Threads : f[w] \in L }
At(L) == Where(wpc, L)

Queued == { queue[i] : i \in DOMAIN queue }
Held == { task[w] : w \in At({"start", "run", "finish"}) }

WorkerPCs == {"none", "loop", "acquire", "woken", "chkClose", "fetch", "retire",
              "uncount", "start", "run", "finish", "exit", "end"}
ManagerPCs == {"top", "sample", "reap", "clear", "decide", "create", "count",
               "remove", "sleep", "end"}

TypeOK ==
    /\ queue \in Seq(Task)
    /\ sem \in Nat
    /\ wpc \in [Threads -> WorkerPCs]
    /\ task \in [Threads -> Task \cup {NoTask}]
    /\ thread_size \in Int /\ thread_busy_num \in Int /\ need_to_close_num \in Int
    /\ need_to_erase \subseteq Threads /\ thread_map \subseteq Threads
    /\ shutdown \in BOOLEAN /\ terminated \in BOOLEAN
    /\ mpc \in ManagerPCs /\ task_num \in Nat
    /\ owner \in {"running", "joinManager", "joinWorkers", "gone"}
    /\ done \subseteq Task

\* The state when the constructor returns.  The manager starts before the
\* workers, but its first pass finds nothing to do whatever they did, so it
\* is taken to be at the top of its loop.
Init ==
    /\ queue = << >> /\ sem = 0
    /\ thread_map \in { S \in SUBSET Threads : Cardinality(S) = ThreadMin }
    /\ wpc = [w \in Threads |-> IF w \in thread_map THEN "loop" ELSE "none"]
    /\ task = [w \in Threads |-> NoTask]
    /\ thread_size = ThreadMin /\ thread_busy_num = 0 /\ need_to_close_num = 0
    /\ need_to_erase = {}
    /\ shutdown = FALSE /\ terminated = FALSE
    /\ mpc = "top" /\ task_num = 0
    /\ owner = "running"
    /\ done = {}

-------------------------------------------------------------------------------
(* The worker: WorkerWorkFunction.  Nothing moves once the process is ended. *)

Go(w, from, to) == ~terminated /\ wpc[w] = from /\ wpc' = [wpc EXCEPT ![w] = to]

\* while (!shutdown)
WLoop(w) ==
    /\ Go(w, "loop", IF shutdown THEN "exit" ELSE "acquire")
    /\ UNCHANGED << queue, sem, taskVars, poolVars, mapVars, shutdown, managerVars, owner, terminated >>

\* Mutant: the semaphore does not block.
WAcquireNoWait(w) ==
    /\ Go(w, "acquire", "woken")
    /\ sem' = sem - 1
    /\ UNCHANGED << queue, taskVars, poolVars, mapVars, shutdown, managerVars, owner, terminated >>

\* task_queue->acquire()
WAcquire(w) ==
    /\ sem > 0
    /\ Go(w, "acquire", "woken")
    /\ sem' = sem - 1
    /\ UNCHANGED << queue, taskVars, poolVars, mapVars, shutdown, managerVars, owner, terminated >>

\* if (shutdown) break
WWoken(w) ==
    /\ Go(w, "woken", IF shutdown THEN "exit" ELSE "chkClose")
    /\ UNCHANGED << queue, sem, taskVars, poolVars, mapVars, shutdown, managerVars, owner, terminated >>

\* Mutant: the request to retire is not looked at.
WChkCloseSkipped(w) ==
    /\ Go(w, "chkClose", "fetch")
    /\ UNCHANGED << queue, sem, taskVars, poolVars, mapVars, shutdown, managerVars, owner, terminated >>

\* Mutant: zero pending requests are taken for one.
WChkCloseOffByOne(w) ==
    /\ Go(w, "chkClose", IF need_to_close_num >= 0 THEN "retire" ELSE "fetch")
    /\ UNCHANGED << queue, sem, taskVars, poolVars, mapVars, shutdown, managerVars, owner, terminated >>

\* if (need_to_close_num > 0), read without the lock
WChkClose(w) ==
    /\ Go(w, "chkClose", IF need_to_close_num > 0 THEN "retire" ELSE "fetch")
    /\ UNCHANGED << queue, sem, taskVars, poolVars, mapVars, shutdown, managerVars, owner, terminated >>

\* shutdownThread() of a worker that retires
WRetire(w) ==
    /\ Go(w, "retire", "uncount")
    /\ need_to_erase' = need_to_erase \cup {w}
    /\ UNCHANGED << queue, sem, taskVars, poolVars, thread_map, shutdown, managerVars, owner, terminated >>

\* Mutant: thread_size keeps counting the worker that retires.
WUncountKeepsSize(w) ==
    /\ Go(w, "uncount", "exit")
    /\ need_to_close_num' = need_to_close_num - 1
    /\ UNCHANGED << queue, sem, taskVars, thread_size, thread_busy_num, mapVars, shutdown, managerVars, owner, terminated >>

WUncount(w) ==
    /\ Go(w, "uncount", "exit")
    /\ need_to_close_num' = need_to_close_num - 1
    /\ thread_size' = thread_size - 1
    /\ UNCHANGED << queue, sem, taskVars, thread_busy_num, mapVars, shutdown, managerVars, owner, terminated >>

\* Mutant: the front of the queue is read and not popped.
WFetchNoPop(w) ==
    /\ ~terminated
    /\ wpc[w] = "fetch"
    /\ queue # << >>
    /\ wpc' = [wpc EXCEPT ![w] = "start"]
    /\ task' = [task EXCEPT ![w] = Head(queue)]
    /\ UNCHANGED << queue, sem, done, poolVars, mapVars, shutdown, managerVars, owner, terminated >>

\* getTask(): an empty queue is an exception nobody catches
WFetch(w) ==
    /\ ~terminated
    /\ wpc[w] = "fetch"
    /\ IF queue = << >>
       THEN /\ terminated' = TRUE
            /\ UNCHANGED << queue, wpc, task >>
       ELSE /\ wpc' = [wpc EXCEPT ![w] = "start"]
            /\ task' = [task EXCEPT ![w] = Head(queue)]
            /\ queue' = Tail(queue)
            /\ UNCHANGED terminated
    /\ UNCHANGED << sem, done, poolVars, mapVars, shutdown, managerVars, owner >>

WStart(w) ==
    /\ Go(w, "start", "run")
    /\ thread_busy_num' = thread_busy_num + 1
    /\ UNCHANGED << queue, sem, taskVars, thread_size, need_to_close_num, mapVars, shutdown,
                    managerVars, owner, terminated >>

\* std::apply(func, args)
WRun(w) ==
    /\ Go(w, "run", "finish")
    /\ terminated' = (task[w] \in Throwing)
    /\ UNCHANGED << queue, sem, taskVars, poolVars, mapVars, shutdown, managerVars, owner >>

WFinish(w) ==
    /\ Go(w, "finish", "loop")
    /\ thread_busy_num' = thread_busy_num - 1
    /\ done' = done \cup {task[w]}
    /\ task' = [task EXCEPT ![w] = NoTask]
    /\ UNCHANGED << queue, sem, thread_size, need_to_close_num, mapVars, shutdown, managerVars,
                    owner, terminated >>

\* after the loop: if (shutdown) shutdownThread()
WExit(w) ==
    /\ Go(w, "exit", "end")
    /\ need_to_erase' = IF shutdown THEN need_to_erase \cup {w} ELSE need_to_erase
    /\ UNCHANGED << queue, sem, taskVars, poolVars, thread_map, shutdown, managerVars, owner, terminated >>

Worker(w) ==
    \/ WLoop(w) \/ WAcquire(w) \/ WWoken(w) \/ WChkClose(w) \/ WRetire(w) \/ WUncount(w)
    \/ WFetch(w) \/ WStart(w) \/ WRun(w) \/ WFinish(w) \/ WExit(w)

-------------------------------------------------------------------------------
(* The manager: managerWorkFunction                                        *)

workerSide == << queue, sem, wpc, task, done, thread_busy_num, shutdown, owner >>

GoM(from, to) == ~terminated /\ mpc = from /\ mpc' = to

\* while (!shutdown)
MTop ==
    /\ GoM("top", IF shutdown THEN "end" ELSE "sample")
    /\ UNCHANGED << workerSide, thread_size, need_to_close_num, mapVars, task_num, terminated >>

MSample ==
    /\ GoM("sample", "reap")
    /\ task_num' = Len(queue)
    /\ UNCHANGED << workerSide, thread_size, need_to_close_num, mapVars, terminated >>

\* thread_map.erase(id) destroys a std::thread nobody joined: std::terminate
MReap ==
    /\ GoM("reap", "clear")
    /\ terminated' = (need_to_erase \cap thread_map # {})
    /\ UNCHANGED << workerSide, thread_size, need_to_close_num, mapVars, task_num >>

\* need_to_erase.clear(), also of an id pushed since the loop above read it
MClear ==
    /\ GoM("clear", "decide")
    /\ need_to_erase' = {}
    /\ UNCHANGED << workerSide, thread_size, need_to_close_num, thread_map, task_num, terminated >>

WantsMore == task_num > thread_size /\ thread_size < ThreadMax
\* Mutant: off by one, the minimum itself is shrunk.
WantsLessAtMin == thread_busy_num * 2 < thread_size /\ thread_size >= ThreadMin
WantsLess == thread_busy_num * 2 < thread_size /\ thread_size > ThreadMin

\* The bounds of the model: a thread is created while an identifier is left,
\* and a retirement requested while fewer than RetireMax are pending (nothing
\* in the code bounds them: the manager asks again at every pass).
Spare == At({"none"}) # {}
Patient == need_to_close_num < RetireMax

MDecide ==
    /\ GoM("decide", IF WantsMore /\ Spare THEN "create"
                     ELSE IF ~WantsMore /\ WantsLess /\ Patient THEN "remove" ELSE "sleep")
    /\ UNCHANGED << workerSide, thread_size, need_to_close_num, mapVars, task_num, terminated >>

\* The new thread runs before the pool counts it.
MCreate(w) ==
    /\ GoM("create", "count")
    /\ wpc[w] = "none"
    /\ wpc' = [wpc EXCEPT ![w] = "loop"]
    /\ UNCHANGED << queue, sem, taskVars, poolVars, mapVars, shutdown, task_num, owner, terminated >>

MCount(w) ==
    /\ GoM("count", "sleep")
    /\ w \in At(WorkerPCs \ {"none"}) \ thread_map
    /\ thread_map' = thread_map \cup {w}
    /\ thread_size' = thread_size + 1
    /\ UNCHANGED << workerSide, need_to_close_num, need_to_erase, task_num, terminated >>

\* Mutant: a token is posted for a request that is not recorded.
MRemoveUnrecorded ==
    /\ GoM("remove", "sleep")
    /\ sem' = sem + 1
    /\ UNCHANGED << queue, wpc, taskVars, poolVars, mapVars, shutdown, task_num, owner, terminated >>

\* The token is posted under the lock.
MRemove ==
    /\ GoM("remove", "sleep")
    /\ need_to_close_num' = need_to_close_num + 1
    /\ sem' = sem + 1
    /\ UNCHANGED << queue, wpc, taskVars, thread_size, thread_busy_num, mapVars, shutdown,
                    task_num, owner, terminated >>

MSleep ==
    /\ GoM("sleep", "top")
    /\ UNCHANGED << workerSide, thread_size, need_to_close_num, mapVars, task_num, terminated >>

Manager ==
    \/ MTop \/ MSample \/ MReap \/ MClear \/ MDecide \/ MRemove \/ MSleep
    \/ \E w \in Threads : MCreate(w) \/ MCount(w)

-------------------------------------------------------------------------------
(* The owner: addTask, and the destructor                                  *)

\* Where a task goes: in a ThreadQueue behind all others; in the multiset of a
\* ThreadPriorityQueue behind those with a smaller number, and before those with
\* its own, which came earlier (TaskWrapper::operator<).
Ahead(q, t) ==
    IF Kind = "NORMAL" THEN Len(q)
    ELSE Cardinality({ i \in DOMAIN q : Priority[q[i]] < Priority[t] })

\* Mutant: the number is not looked at.
PlaceLast(q, t) == Append(q, t)
Place(q, t) ==
    SubSeq(q, 1, Ahead(q, t)) \o << t >> \o SubSeq(q, Ahead(q, t) + 1, Len(q))

\* Mutant: a token is posted only when the queue was empty.
AddTaskPostsWhenEmpty(t) ==
    /\ ~terminated
    /\ owner = "running"
    /\ t \notin Queued \cup Held \cup done
    /\ Len(queue) < QueueMax
    /\ queue' = Place(queue, t)
    /\ sem' = IF queue = << >> THEN sem + 1 ELSE sem
    /\ UNCHANGED << wpc, taskVars, poolVars, mapVars, shutdown, managerVars, owner, terminated >>

\* addTask: a full queue is an exception nobody catches
AddTask(t) ==
    /\ ~terminated
    /\ owner = "running"
    /\ t \notin Queued \cup Held \cup done
    /\ IF Len(queue) >= QueueMax
       THEN /\ terminated' = TRUE
            /\ UNCHANGED << queue, sem >>
       ELSE /\ queue' = Place(queue, t)
            /\ sem' = sem + 1
            /\ UNCHANGED terminated
    /\ UNCHANGED << wpc, taskVars, poolVars, mapVars, shutdown, managerVars, owner >>

\* Mutant: one token is posted per busy worker.
CloseWakesBusy ==
    /\ ~terminated
    /\ owner = "running"
    /\ owner' = "joinManager"
    /\ shutdown' = TRUE
    /\ sem' = sem + thread_busy_num
    /\ UNCHANGED << queue, wpc, taskVars, poolVars, mapVars, managerVars, terminated >>

\* closeThreadPool()
Close ==
    /\ ~terminated
    /\ owner = "running"
    /\ owner' = "joinManager"
    /\ shutdown' = TRUE
    /\ sem' = sem + (IF thread_size > 0 THEN thread_size ELSE 0)
    /\ UNCHANGED << queue, wpc, taskVars, poolVars, mapVars, managerVars, terminated >>

JoinManager ==
    /\ ~terminated
    /\ owner = "joinManager" /\ mpc = "end"
    /\ owner' = "joinWorkers"
    /\ UNCHANGED << queue, sem, wpc, taskVars, poolVars, mapVars, shutdown, managerVars, terminated >>

\* Mutant: a worker that announced its end is not joined.
JoinWorkersUnannounced ==
    /\ ~terminated
    /\ owner = "joinWorkers"
    /\ \A w \in thread_map \ need_to_erase : wpc[w] = "end"
    /\ owner' = "gone"
    /\ UNCHANGED << queue, sem, wpc, taskVars, poolVars, mapVars, shutdown, managerVars, terminated >>

JoinWorkers ==
    /\ ~terminated
    /\ owner = "joinWorkers"
    /\ \A w \in thread_map : wpc[w] = "end"
    /\ owner' = "gone"
    /\ UNCHANGED << queue, sem, wpc, taskVars, poolVars, mapVars, shutdown, managerVars, terminated >>

Owner == (\E t \in Task : AddTask(t)) \/ Close \/ JoinManager \/ JoinWorkers

-------------------------------------------------------------------------------

\* The process has ended, or the pool has been destroyed.
Over == terminated \/ owner = "gone"

Ended == Over /\ UNCHANGED vars

Next == Owner \/ Manager \/ (\E w \in Threads : Worker(w)) \/ Ended

Spec == Init /\ [][Next]_vars

\* The operating system runs every thread that can run; addTask and the
\* destructor are called when the environment wants.
Fairness ==
    /\ \A w \in Threads : WF_vars(Worker(w))
    /\ WF_vars(Manager)
    /\ WF_vars(JoinManager \/ JoinWorkers)

FairSpec == Spec /\ Fairness

-------------------------------------------------------------------------------
(* Properties                                                              *)

\* A worker between a successful acquire and the step that uses its token up.
Woken == {"woken", "chkClose", "fetch", "retire", "uncount"}
\* Of those, the ones past the check of shutdown.
Committed == Woken \ {"woken"}
\* A worker that thread_size is meant to count.
Live == WorkerPCs \ {"none", "exit", "end"}

NWoken == Cardinality(At(Woken))
NCommitted == Cardinality(At(Committed))
NFetch == Cardinality(At({"fetch"}))
NLive == Cardinality(At(Live))
NAcquire == Cardinality(At({"acquire"}))

\* Until the pool closes every token answers for something: the posted tokens and
\* the workers that took one are as many as the queued tasks and the requests to
\* retire (addTask, the manager's release(), acquire()).  When more workers answer
\* a request than made it, need_to_close_num is below zero, and that many queued
\* tasks have no token left: the next properties are about them.
TokenBalance ==
    ~shutdown => sem + NWoken = Len(queue) + need_to_close_num

\* Workers that left while the pool was open.
NGone == Cardinality(At({"exit", "end"}))

\* A wakeup is lost only to a retirement nobody asked for.  A task queued without
\* a token, posted or taken, had it taken by a worker that read need_to_close_num
\* before another had counted it down; the first worker to leave was asked to,
\* so fewer tasks sleep than workers have gone.
LostWakeups ==
    ~shutdown /\ Len(queue) > sem + NWoken => Len(queue) - (sem + NWoken) < NGone

\* What makes it inductive: the requests made are those pending and those answered,
\* and a worker that answers, or answered, was preceded by one.
Requested ==
    ~shutdown =>
        /\ need_to_close_num + NGone >= 0
        /\ At({"retire", "uncount", "exit", "end"}) # {} => need_to_close_num + NGone >= 1

\* The queue wakes a worker for every task it holds: what release() in pushTask is
\* for.  It does not hold: a task can wait with no token while workers sleep.
TasksWoken == ~shutdown => Len(queue) <= sem + NWoken

\* getTask never meets an empty queue, so it never throws: the unlocked test
\* of need_to_close_num can send too many workers away, never too many to the
\* queue.
NoEmptyFetch == NFetch <= Len(queue)

\* What makes NoEmptyFetch inductive: the workers past the check of shutdown
\* are covered by queued tasks and pending requests together.
CommittedCovered == NCommitted <= Len(queue) + need_to_close_num

\* The unlocked counter the scaling rule reads is the number of workers that
\* can still take a task, but for the thread the manager has started and not
\* yet counted.
ThreadSizeExact ==
    ~shutdown => NLive = thread_size + (IF mpc = "count" THEN 1 ELSE 0)

\* closeThreadPool posts one token per counted thread: of the workers that
\* wait on the semaphore when the pool closes at most one is left asleep, the
\* one the manager had not counted yet.
StrandedAtMostOne == shutdown => NAcquire <= sem + 1

\* The pool closes once, by the owner.
OpenWhileOwned == owner = "running" => ~shutdown

\* A worker past getTask has a task.
HoldsTask == \A w \in At({"start", "run", "finish"}) : task[w] \in Task

\* The inductive invariant of ThreadPoolProofs.
IInv ==
    /\ TypeOK
    /\ HoldsTask
    /\ OpenWhileOwned
    /\ TokenBalance
    /\ CommittedCovered
    /\ NoEmptyFetch
    /\ ThreadSizeExact
    /\ StrandedAtMostOne

\* No task is queued twice.
QueueDistinct == \A i, j \in DOMAIN queue : queue[i] = queue[j] => i = j

\* The premises of the next property: the pool cannot resize, no task throws and
\* the queue has room for all tasks.
Fixed == ThreadMin = ThreadMax /\ Throwing = {} /\ Cardinality(Task) <= QueueMax

\* What makes the next property inductive: while a fixed pool is open, the manager
\* only sleeps and no worker retires.
Steady ==
    /\ ~terminated
    /\ thread_size = ThreadMin /\ need_to_close_num = 0 /\ need_to_erase = {}
    /\ mpc \notin {"create", "count", "remove"}
    /\ \A w \in Threads : wpc[w] \notin {"retire", "uncount", "exit", "end"}

\* A pool of fixed size aborts the process only while it is being closed,
\* unless a task throws or the queue overflows.
FixedPoolSurvives ==
    Fixed => (terminated => shutdown)

\* A task is in one place: queued, with one worker, or done.
Holders == At({"start", "run", "finish"})
TasksApart ==
    /\ \A w \in Holders : task[w] \notin Queued \cup done
    /\ \A v, w \in Holders : task[v] = task[w] => v = w
    /\ Queued \cap done = {}

\* Also while the pool is being closed, thread_size covers the workers that can
\* take a task, and stays below the capacity with the one the manager adds.
SizeBound ==
    /\ NLive <= thread_size + (IF mpc = "count" THEN 1 ELSE 0)
    /\ thread_size + (IF mpc \in {"create", "count"} THEN 1 ELSE 0) <= ThreadMax

\* What makes the next property inductive.
ServiceInv == QueueDistinct /\ TasksApart /\ SizeBound

\* The pool implements the promise to its caller: tasks start in the order of
\* addTask, at most once, at most thread_capacity at a time, and what started
\* finishes unless the process aborts.
TS == INSTANCE TaskService WITH
        waiting <- queue, running <- Held, Capacity <- ThreadMax,
        mode <- IF terminated THEN "aborted" ELSE IF shutdown THEN "closed" ELSE "open"
Service == TS!Spec

\* No task of a pool with priorities starts while one with a smaller number waits:
\* the multiset stays sorted through every addTask and getTask, whichever worker
\* fetches (TaskWrapper::operator<, getTask).
LowestFirst ==
    [][ \A w \in Threads :
          Kind = "PRIORITY" /\ wpc[w] = "fetch" /\ wpc'[w] = "start"
            => \A u \in Queued : Priority[task'[w]] <= Priority[u] ]_vars

\* What makes it inductive.
Sorted ==
    Kind = "PRIORITY" => \A i, j \in DOMAIN queue : i <= j => Priority[queue[i]] <= Priority[queue[j]]

\* A worker that was started.
Started == WorkerPCs \ {"none"}

\* What makes the next property inductive: the pool owns every thread it started,
\* but for the one being counted, and counts it before its manager is joined.
ThreadsOwned ==
    /\ \A v, w \in At(Started) \ thread_map : mpc = "count" /\ v = w
    /\ owner \in {"joinWorkers", "gone"} => mpc = "end"

\* The destructor returns only when every thread of the pool has ended, also the
\* workers that retired, whose ids may be lost (clear() at line 154), and the one
\* created while the pool was being closed: none of them touches freed memory.
NoneOutlives == owner = "gone" => \A w \in Threads : wpc[w] \in {"none", "end"}

\* A pool that shrinks by a worker goes on running: nothing but its closing
\* ends the process when no task throws and the queue never fills.  The manager
\* reports "kill a thread"; what ends is the process, because thread_map.erase
\* destroys a std::thread that was never joined.
ShrinkingSurvives ==
    (Throwing = {} /\ Cardinality(Task) <= QueueMax) => (terminated => shutdown)

\* In a pool of fixed size an accepted task is run, unless the pool is closed
\* first or the process aborts.
EveryTaskRuns == \A t \in Task : (t \in Queued) ~> (t \in done \/ shutdown \/ terminated)

\* The destructor of a pool of fixed size returns, unless the process aborts.
ShutdownCompletes == shutdown ~> Over

==============================================================================
