----------------------------- MODULE SqlConnPool -----------------------------
(***************************************************************************)
(* The pool of database connections: src/MySqlConnPool (SqlConnSet, the     *)
(* monitor thread of MySqlConnPool and MySqlConnGuardPtr).                  *)
(*                                                                         *)
(* The clients are the worker threads that run request handlers: each holds *)
(* a connection through a MySqlConnGuardPtr while its handler runs.  The    *)
(* monitor adds connections when few are available and drops one when the   *)
(* set looks idle.  The closer is the thread that gives up the last         *)
(* shared_ptr to the pool, when no handler uses it any more.                *)
(***************************************************************************)
EXTENDS Integers, Sequences, FiniteSets

CONSTANTS
    Client,     \* threads that run handlers
    Conn,       \* connections that can be open at the same time
    NoConn,     \* no connection
    MinConn,    \* conf_min_num
    MaxConn,    \* conf_max_num
    Budget,     \* bound of the model: requests each client makes
    Faults      \* what may abort the process: "connect", "freeRes"

ASSUME ConnAssumption ==
    /\ IsFiniteSet(Conn) /\ IsFiniteSet(Client)
    /\ NoConn \notin Conn
ASSUME NumbersAssumption == MinConn \in Nat /\ MaxConn \in Nat /\ Budget \in Nat
ASSUME FaultsAssumption == Faults \subseteq {"connect", "freeRes"}

VARIABLES
    sql_queue,      \* SqlConnSet::sql_queue, the available connections
    available_num,  \* SqlConnSet::available_num, the semaphore
    av_num,         \* SqlConnSet::av_num
    size,           \* SqlConnSet::size
    open,           \* history: the connections open at the server
    cpc,            \* where each client is: "idle", "wait", "pop" or "use"
    conn,           \* MySqlConnGuardPtr::conn_ of each client
    requests,       \* requests a client may still make
    mpc,            \* where the monitor is in monitorFunc
    idle,           \* what the monitor's clock test said
    mconn,          \* the monitor's connection: dis_sql or new_sql
    is_running,
    dpc,            \* where the closer is: "none" until the pool is given up
    i,              \* loop counter of clearSqlSet
    terminated      \* std::terminate was called, or the process crashed

setVars == << sql_queue, available_num, av_num >>
clientVars == << cpc, conn, requests >>
monitorVars == << mpc, idle, mconn >>
closerVars == << is_running, dpc, i >>
vars == << sql_queue, available_num, av_num, size, open, cpc, conn, requests, mpc, idle, mconn,
           is_running, dpc, i, terminated >>

MonitorPCs == {"loop", "check", "wait", "pop", "drop", "connect", "add", "sizeUp", "sleep", "end"}

TypeOK ==
    /\ sql_queue \in Seq(Conn)
    /\ available_num \in Nat /\ av_num \in Int /\ size \in Int
    /\ open \subseteq Conn
    /\ cpc \in [Client -> {"idle", "wait", "pop", "use"}]
    /\ conn \in [Client -> Conn \cup {NoConn}]
    /\ requests \in [Client -> Nat]
    /\ mpc \in MonitorPCs /\ idle \in BOOLEAN /\ mconn \in Conn \cup {NoConn}
    /\ is_running \in BOOLEAN /\ i \in Nat
    /\ dpc \in {"none", "loop", "wait", "pop", "join", "gone"}
    /\ terminated \in BOOLEAN

Init ==
    /\ sql_queue = << >> /\ available_num = 0 /\ av_num = 0 /\ size = 0
    /\ open = {}
    /\ cpc = [c \in Client |-> "idle"]
    /\ conn = [c \in Client |-> NoConn]
    /\ requests = [c \in Client |-> Budget]
    /\ mpc = "loop" /\ idle = FALSE /\ mconn = NoConn
    /\ is_running = TRUE /\ dpc = "none" /\ i = 0
    /\ terminated = FALSE

-------------------------------------------------------------------------------
(* The connection set: SqlConnSet                                          *)

\* Mutant: the semaphore does not block.
TakeTokenNoWait ==
    /\ available_num' = available_num - 1
    /\ UNCHANGED << sql_queue, av_num >>

\* acquire, first half: sem_wait
TakeToken ==
    /\ available_num > 0
    /\ available_num' = available_num - 1
    /\ UNCHANGED << sql_queue, av_num >>

\* Mutant: the connection that is handed out stays in the queue.
PopConnFront ==
    IF sql_queue = << >>
    THEN terminated' = TRUE /\ UNCHANGED setVars
    ELSE /\ av_num' = av_num - 1
         /\ UNCHANGED << sql_queue, available_num, terminated >>

\* acquire, second half: front and pop under the lock.  On an empty queue they
\* are undefined, taken here to end the process.
PopConn ==
    IF sql_queue = << >>
    THEN terminated' = TRUE /\ UNCHANGED setVars
    ELSE /\ sql_queue' = Tail(sql_queue)
         /\ av_num' = av_num - 1
         /\ UNCHANGED << available_num, terminated >>

\* Mutant: the semaphore is not posted when connections are available already.
PushConnQuiet(s) ==
    /\ sql_queue' = Append(sql_queue, s)
    /\ av_num' = av_num + 1
    /\ available_num' = IF sql_queue = << >> THEN available_num + 1 ELSE available_num

\* release: the push is under the lock and the post follows it; nothing
\* distinguishes the two steps from one.
PushConn(s) ==
    /\ sql_queue' = Append(sql_queue, s)
    /\ av_num' = av_num + 1
    /\ available_num' = available_num + 1

-------------------------------------------------------------------------------
(* A handler's thread                                                      *)

GoC(c, from, to) == ~terminated /\ cpc[c] = from /\ cpc' = [cpc EXCEPT ![c] = to]

\* MySqlConnGuardPtr(conn_pool) is constructed
Request(c) ==
    /\ dpc = "none"
    /\ requests[c] > 0
    /\ GoC(c, "idle", "wait")
    /\ requests' = [requests EXCEPT ![c] = @ - 1]
    /\ UNCHANGED << setVars, size, open, conn, monitorVars, closerVars, terminated >>

CTake(c) ==
    /\ GoC(c, "wait", "pop")
    /\ TakeToken
    /\ UNCHANGED << size, open, conn, requests, monitorVars, closerVars, terminated >>

CPop(c) ==
    /\ GoC(c, "pop", "use")
    /\ PopConn
    /\ conn' = [conn EXCEPT ![c] = IF sql_queue = << >> THEN NoConn ELSE Head(sql_queue)]
    /\ UNCHANGED << size, open, requests, monitorVars, closerVars >>

\* Mutant: the guard ends without giving the connection back.
CReleaseLost(c) ==
    /\ GoC(c, "use", "idle")
    /\ conn' = [conn EXCEPT ![c] = NoConn]
    /\ UNCHANGED << setVars, size, open, requests, monitorVars, closerVars, terminated >>

\* ~MySqlConnGuardPtr, also when the handler throws
CRelease(c) ==
    /\ GoC(c, "use", "idle")
    /\ PushConn(conn[c])
    /\ conn' = [conn EXCEPT ![c] = NoConn]
    /\ UNCHANGED << size, open, requests, monitorVars, closerVars, terminated >>

Handler(c) == CTake(c) \/ CPop(c) \/ CRelease(c)

-------------------------------------------------------------------------------
(* The monitor: monitorFunc                                                *)

GoM(from, to) == ~terminated /\ mpc = from /\ mpc' = to

\* while (is_running), and the clock test.  The time of the last acquire is
\* stamped after the lock is given up and its age is cut to an int, which wraps
\* after 24 days: the test may say anything.
MLoop ==
    /\ GoM("loop", IF is_running THEN "check" ELSE "end")
    /\ idle' \in BOOLEAN
    /\ UNCHANGED << setVars, size, open, clientVars, mconn, closerVars, terminated >>

\* Mutant: off by one at the configured minimum.
MayShrinkAtMin == idle /\ size >= MinConn /\ av_num > 2
MayShrink == idle /\ size > MinConn /\ av_num > 2

\* Mutant: a pool below its minimum does not grow.
MayGrowFromMin == size < MaxConn /\ size >= MinConn /\ av_num < 2
MayGrow == size < MaxConn /\ av_num < 2

\* The tests read size and av_num without the lock.
MCheck ==
    /\ GoM("check", IF MayShrink THEN "wait" ELSE IF MayGrow THEN "connect" ELSE "sleep")
    /\ UNCHANGED << setVars, size, open, clientVars, idle, mconn, closerVars, terminated >>

MTake ==
    /\ GoM("wait", "pop")
    /\ TakeToken
    /\ UNCHANGED << size, open, clientVars, idle, mconn, closerVars, terminated >>

MPop ==
    /\ GoM("pop", "drop")
    /\ PopConn
    /\ mconn' = IF sql_queue = << >> THEN NoConn ELSE Head(sql_queue)
    /\ UNCHANGED << size, open, clientVars, idle, closerVars >>

\* dis_sql->disconnect(), sizeDown(); the driver object is never freed
MDrop ==
    /\ GoM("drop", "sleep")
    /\ open' = open \ {mconn}
    /\ size' = size - 1
    /\ mconn' = NoConn
    /\ UNCHANGED << setVars, clientVars, idle, closerVars, terminated >>

\* connectToSql throws when the database refuses, and nothing catches it
MConnect ==
    /\ ~terminated
    /\ mpc = "connect"
    /\ \/ /\ "connect" \in Faults
          /\ terminated' = TRUE
          /\ UNCHANGED << mpc, open, mconn >>
       \/ \E s \in Conn \ open :
             /\ mpc' = "add"
             /\ open' = open \cup {s}
             /\ mconn' = s
             /\ UNCHANGED terminated
    /\ UNCHANGED << setVars, size, clientVars, idle, closerVars >>

\* release(new_sql) deletes the result a new driver never initialised: nothing
\* happens when the memory held zero, anything when it did not
MAdd ==
    /\ GoM("add", "sizeUp")
    /\ PushConn(mconn)
    /\ mconn' = NoConn
    /\ terminated' \in IF "freeRes" \in Faults THEN BOOLEAN ELSE {FALSE}
    /\ UNCHANGED << size, open, clientVars, idle, closerVars >>

MSizeUp ==
    /\ GoM("sizeUp", "sleep")
    /\ size' = size + 1
    /\ UNCHANGED << setVars, open, clientVars, idle, mconn, closerVars, terminated >>

MSleep ==
    /\ GoM("sleep", "loop")
    /\ UNCHANGED << setVars, size, open, clientVars, idle, mconn, closerVars, terminated >>

Monitor ==
    \/ MLoop \/ MCheck \/ MTake \/ MPop \/ MDrop \/ MConnect \/ MAdd \/ MSizeUp \/ MSleep

-------------------------------------------------------------------------------
(* The closer: ~MySqlConnPool and clearSqlSet                              *)

GoD(from, to) == ~terminated /\ dpc = from /\ dpc' = to

\* The last reference to the pool is dropped.  A handler keeps one of its own
\* as long as it runs, so none does.
GiveUp ==
    /\ \A c \in Client : cpc[c] = "idle"
    /\ GoD("none", "loop")
    /\ is_running' = FALSE
    /\ i' = 0
    /\ UNCHANGED << setVars, size, open, clientVars, monitorVars, terminated >>

\* Mutant: the loop counts up to size, which the monitor still changes.
DLoopToSize ==
    /\ GoD("loop", IF i < size THEN "wait" ELSE "join")
    /\ UNCHANGED << setVars, size, open, clientVars, monitorVars, is_running, i, terminated >>

\* for (int i = 0; i < sql_queue.size(); i++), while the body shortens the queue
DLoop ==
    /\ GoD("loop", IF i < Len(sql_queue) THEN "wait" ELSE "join")
    /\ UNCHANGED << setVars, size, open, clientVars, monitorVars, is_running, i, terminated >>

DTake ==
    /\ GoD("wait", "pop")
    /\ TakeToken
    /\ UNCHANGED << size, open, clientVars, monitorVars, is_running, i, terminated >>

\* acquire returns; disconnect, delete
DPop ==
    /\ GoD("pop", "loop")
    /\ PopConn
    /\ open' = IF sql_queue = << >> THEN open ELSE open \ {Head(sql_queue)}
    /\ i' = i + 1
    /\ UNCHANGED << size, clientVars, monitorVars, is_running >>

DJoin ==
    /\ mpc = "end"
    /\ GoD("join", "gone")
    /\ UNCHANGED << setVars, size, open, clientVars, monitorVars, is_running, i, terminated >>

Closer == DLoop \/ DTake \/ DPop \/ DJoin

-------------------------------------------------------------------------------

Over == terminated \/ dpc = "gone"

Ended == Over /\ UNCHANGED vars

Next ==
    \/ Monitor
    \/ GiveUp \/ Closer
    \/ \E c \in Client : Request(c) \/ Handler(c)
    \/ Ended

Spec == Init /\ [][Next]_vars

\* Every thread that can run is run, and every handler ends; a thread that
\* waits on the semaphore gets no more than that.  Requests and the end of the
\* pool come from the environment.
Fairness ==
    /\ \A c \in Client : WF_vars(Handler(c))
    /\ WF_vars(Monitor)
    /\ WF_vars(Closer)

FairSpec == Spec /\ Fairness

-------------------------------------------------------------------------------
(* Properties                                                              *)

Users == { c \in Client : cpc[c] = "use" }
Popping == { c \in Client : cpc[c] = "pop" }
NPopping ==
    Cardinality(Popping)
        + (IF mpc = "pop" THEN 1 ELSE 0) + (IF dpc = "pop" THEN 1 ELSE 0)

\* A thread that got through the semaphore finds a connection in the queue,
\* whatever the others did between its sem_wait and its lock: each token, free
\* or taken, stands for one queued connection (SqlConnSet::acquire, release).
TokenPerConn == available_num + NPopping = Len(sql_queue)

Distinct(q) == \A j, k \in DOMAIN q : j # k => q[j] # q[k]
Members(q) == { q[j] : j \in DOMAIN q }
QueuedConns == Members(sql_queue)

\* A connection has one user: it is in the queue once, with one handler, or
\* with the monitor; and it is open while a handler uses it.
OneUser ==
    /\ Distinct(sql_queue)
    /\ \A c \in Users :
          /\ conn[c] \in open \ QueuedConns
          /\ conn[c] # mconn
          /\ \A d \in Users : conn[c] = conn[d] => c = d
    /\ mconn \notin QueuedConns

\* What makes them inductive: a queued connection is open, and so is the one the
\* monitor is about to add.
QueuedOpen == QueuedConns \subseteq open /\ (mpc = "add" => mconn \in open)

IInv == TypeOK /\ TokenPerConn /\ OneUser /\ QueuedOpen

\* Until the pool is given up, size is the number of open connections but for
\* the one being added; the pool never opens more than conf_max_num, and when it
\* drops one, at least conf_min_num are left, whatever the clients do between the
\* monitor's test and its disconnect (MySqlConnPool.cpp:70-93).
SizeExact ==
    /\ dpc = "none" =>
          /\ Cardinality(open) = size + (IF mpc \in {"add", "sizeUp"} THEN 1 ELSE 0)
          /\ Cardinality(open) <= MaxConn
    /\ mpc \in {"wait", "pop", "drop"} => size > MinConn

\* The pool ends the process only where the monitor adds a connection: when the
\* database refuses it, or when the result it never had is freed.  No acquire meets
\* an empty queue (MySqlConnPool.cpp:91-92, SqlConnSet.cpp:7-8).
AbortExplained == terminated => mpc \in {"connect", "sizeUp"}

\* What SizeExact rests on: the driver the monitor has in hand, no handler with
\* one outside its request, no handler left once the pool is given up, and no
\* open connection that neither the queue, nor a handler, nor the monitor has.
CInv ==
    /\ open = QueuedConns \cup { conn[c] : c \in Users } \cup ({mconn} \ {NoConn})
    /\ \A c \in Client : conn[c] # NoConn => c \in Users
    /\ mconn # NoConn <=> mpc \in {"drop", "add"}
    /\ dpc # "none" => \A c \in Client : cpc[c] = "idle"
    /\ size \in Nat /\ size <= MaxConn
    /\ mpc \in {"connect", "add", "sizeUp"} => size < MaxConn
    /\ Cardinality(open) <= size + (IF mpc \in {"add", "sizeUp"} THEN 1 ELSE 0)

\* The pool does what ConnService promises: a connection that is queued is free,
\* one a guard has is its handler's, and the monitor and the closer take theirs
\* out of the pool (SqlConnSet, MySqlConnPool, MySqlConnGuardPtr).
CS == INSTANCE ConnService WITH
    free <- QueuedConns,
    held <- conn,
    mode <- IF terminated THEN "aborted" ELSE IF dpc = "none" THEN "open" ELSE "closing"

Service == CS!Spec

\* Every handler that asks for a connection gets one.
EveryRequestServed == \A c \in Client : (cpc[c] = "wait") ~> (cpc[c] = "use" \/ terminated)

\* The destructor returns: clearSqlSet never waits for a connection that does not
\* come back, even when the monitor takes one at the same time.
CloseCompletes == (dpc = "loop") ~> Over

\* The pool holds conf_min_num connections once it had the time to open them.
MinReached == <>(size >= MinConn \/ terminated \/ dpc # "none")

\* Closing the pool closes every connection: "clear mysql conn pool done".
AllCleared == dpc = "gone" => open = {}
==============================================================================
