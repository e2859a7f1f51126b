------------------------------ MODULE Lifecycle ------------------------------
(***************************************************************************)
(* The start and the stop of the server: main.cpp, the constructor of        *)
(* TcpServer, the loop as far as a signal can interrupt it, and the           *)
(* destructors that the signal handler runs in the thread it interrupts.     *)
(*                                                                         *)
(* The thread pool is what TaskService promises of it; the connection pool   *)
(* is an object with owners: the server and every task that is at work.      *)
(***************************************************************************)
EXTENDS Naturals, Sequences, FiniteSets

CONSTANTS
    Task,       \* the messages a process may hand to its thread pool
    Capacity,   \* the workers of that pool
    LivesMax,   \* bound of the model: processes, one after the other
    Faults      \* "conf": MySqlConnPool.json cannot be read.  "socket": socket() fails.
                \* "grow": a stop may meet the pool starting a thread.
                \* "erase": the pool's manager may destroy a thread nobody has joined.
                \* "throw": a task may end the process, by an exception or by SIGPIPE.
                \* "slow": a client may stop reading what it is sent.

ASSUME LifecycleAssumption ==
    /\ Capacity \in Nat \ {0} /\ LivesMax \in Nat \ {0}
    /\ Faults \subseteq {"conf", "socket", "grow", "erase", "throw", "slow"}
    /\ "server" \notin Task

VARIABLES
    mpc,            \* where main is: in the constructor, on its way to epoll_wait, in it, serving
                    \* an event, inside addTask with the queue locked, or in a loop without a socket
    hpc,            \* where the signal handler is, or "none"
    disposition,    \* what SIGINT does: "handler" or "ignore"
    server,         \* the object: "null", "alive" or "dead" when its memory is freed
    keys,           \* its two maps of keys exist
    shares,         \* who owns the connection pool: "server" and tasks
    conn_pool,      \* the connection pool exists
    listen_socket,  \* "none", or the port it listens on: the one "told" or an "other"
    peer,           \* the client of this process: "none", "asks", "connected" or "left"
    lingering,      \* the port is taken by a connection of an earlier process (TIME_WAIT)
    waiting, running, done, mode,   \* the thread pool: see TaskService
    jpc,            \* where each task is: "out" when it is not running
    growing,        \* the pool was starting a thread when the signal came
    lives,          \* processes so far
    ended,          \* how this process ended, or "no"
    undefined,      \* history: it used what no longer exists
    story,         \* history: what happened to this process that bears on its stop
    cut             \* history: an earlier process ended while a client was connected

poolVars == << waiting, running, done, mode >>
jobVars == << poolVars, jpc >>
partVars == << keys, shares, conn_pool >>
netVars == << listen_socket, peer, lingering >>
handlerVars == << hpc, disposition, growing >>
histVars == << lives, cut >>
vars == << mpc, handlerVars, server, partVars, netVars, jobVars, histVars, ended, undefined, story >>

\* The queue of the server's pool: ThreadPoolType::NORMAL
AtEnd(q, t) == Append(q, t)
Pool == INSTANCE TaskService WITH Place <- AtEnd

HandlerPlaces == {"keys", "close", "release", "shutdown", "join", "stuck", "free", "ign"}
AtWork == { t \in Task : jpc[t] # "out" }
Stories == {"signalled", "early", "busy", "jobs", "again", "growing", "nosocket", "noconf",
            "erased", "threw"}

TypeOK ==
    /\ mpc \in {"new", "start", "listen", "serve", "add", "spin", "back"}
    /\ hpc \in HandlerPlaces \cup {"none"} /\ disposition \in {"handler", "ignore"}
    /\ server \in {"null", "alive", "dead"} /\ {keys, conn_pool} \subseteq BOOLEAN
    /\ shares \subseteq {"server"} \cup Task
    /\ listen_socket \in {"none", "told", "other"} /\ lingering \in BOOLEAN
    /\ peer \in {"none", "asks", "connected", "left"}
    /\ jpc \in [Task -> {"out", "begin", "check", "work", "send", "leave"}]
    /\ waiting \in Seq(Task) /\ done \subseteq Task /\ mode \in {"open", "closed", "aborted"}
    /\ running = AtWork
    /\ growing \in BOOLEAN /\ lives \in 1 .. LivesMax /\ cut \in BOOLEAN
    /\ ended \in {"no", "exit", "abort"} /\ undefined \in BOOLEAN
    /\ story \subseteq Stories
    /\ keys => server = "alive"

\* Only what the kernel keeps of the processes before is not at its beginning.
Init ==
    /\ mpc = "new" /\ hpc = "none" /\ disposition = "handler" /\ growing = FALSE
    /\ server = "null" /\ keys = FALSE /\ shares = {} /\ conn_pool = FALSE
    /\ listen_socket = "none" /\ peer = "none" /\ lingering = FALSE
    /\ Pool!Init /\ jpc = [t \in Task |-> "out"]
    /\ ended = "no" /\ undefined = FALSE /\ story = {}
    /\ lives = 1 /\ cut = FALSE

-------------------------------------------------------------------------------
(* How a process ends and the next begins                                  *)

\* The kernel closes the sockets.  A connection whose client has not closed it before
\* may keep the port for a minute.
Ends(how) ==
    /\ ended' = how
    /\ cut' = (cut \/ peer = "connected")
    /\ lingering' \in IF peer = "connected" THEN {lingering, TRUE} ELSE {lingering}

GoesOn == UNCHANGED << ended, cut, lingering >>

\* What no longer exists is used: the process may come to grief or go on.
Undefined ==
    /\ undefined' = TRUE
    /\ GoesOn \/ Ends("abort")

Using(ok) == IF ok THEN GoesOn /\ UNCHANGED undefined ELSE Undefined

Expire ==
    /\ lingering /\ ended # "no"
    /\ lingering' = FALSE
    /\ UNCHANGED << mpc, handlerVars, server, partVars, listen_socket, peer, jobVars, lives, cut,
                    ended, undefined, story >>

Restart ==
    /\ ended # "no" /\ lives < LivesMax
    /\ lives' = lives + 1
    /\ mpc' = "new" /\ hpc' = "none" /\ disposition' = "handler" /\ growing' = FALSE
    /\ server' = "null" /\ keys' = FALSE /\ shares' = {} /\ conn_pool' = FALSE
    /\ listen_socket' = "none" /\ peer' = "none"
    /\ waiting' = << >> /\ running' = {} /\ done' = {} /\ mode' = "open"
    /\ jpc' = [t \in Task |-> "out"]
    /\ ended' = "no" /\ undefined' = FALSE /\ story' = {}
    /\ UNCHANGED << lingering, cut >>

-------------------------------------------------------------------------------
(* main: the constructor and the loop                                      *)

\* Main is not inside the handler.
Main(from) == ended = "no" /\ hpc = "none" /\ mpc = from

\* The pools are made first.  readConf throws, and nobody catches it.
NoConf ==
    /\ Main("new") /\ "conf" \in Faults
    /\ Ends("abort")
    /\ story' = story \cup {"noconf"}
    /\ UNCHANGED << mpc, handlerVars, server, partVars, listen_socket, peer, jobVars, lives, undefined >>

Made ==
    /\ Main("new")
    /\ server' = "alive" /\ keys' = TRUE
    /\ conn_pool' = TRUE /\ shares' = {"server"}
    /\ UNCHANGED << handlerVars, peer, lingering, jobVars, histVars, ended, undefined >>

\* The constructor returns early and leaves shutdown and my_epoll as they were.
NoSocket ==
    /\ Made /\ "socket" \in Faults
    /\ mpc' \in {"spin", "back"}
    /\ story' = story \cup {"nosocket"}
    /\ UNCHANGED listen_socket

\* bind() is not looked at: when it fails, listen() takes another port.
Construct ==
    /\ Made
    /\ mpc' = "start"
    /\ listen_socket' = IF lingering THEN "other" ELSE "told"
    /\ UNCHANGED story

\* startListen: listen(), the test of shutdown, and into epoll_wait
Enter ==
    /\ Main("start") /\ server = "alive"
    /\ mpc' = "listen"
    /\ UNCHANGED << handlerVars, server, partVars, netVars, jobVars, histVars, ended, undefined, story >>

\* epoll_wait reports something
Wake ==
    /\ Main("listen") /\ server = "alive" /\ peer # "none"
    /\ mpc' = "serve"
    /\ UNCHANGED << handlerVars, server, partVars, netVars, jobVars, histVars, ended, undefined, story >>

\* Mutant: the server hangs up on a client it does not know.
ServeHangsUp ==
    /\ Main("serve") /\ server = "alive"
    /\ \/ peer = "asks" /\ peer' = "connected" /\ UNCHANGED lingering
       \/ peer = "connected" /\ peer' = "left" /\ lingering' = TRUE
    /\ mpc' = "listen"
    /\ UNCHANGED << handlerVars, server, partVars, listen_socket, jobVars, histVars, ended, undefined, story >>
\* A connection is accepted, a key gets its place in the maps, or a client that left
\* loses it.  The server itself closes no connection.
Serve ==
    /\ Main("serve") /\ server = "alive"
    /\ mpc' = "listen"
    /\ peer' = IF peer = "asks" THEN "connected" ELSE peer
    /\ UNCHANGED << handlerVars, server, partVars, listen_socket, lingering, jobVars, histVars,
                    ended, undefined, story >>

\* haveNewClientMsg enters addTask, ...
Lock ==
    /\ Main("serve") /\ server = "alive" /\ peer = "connected"
    /\ Task \ Pool!Known # {}
    /\ mpc' = "add"
    /\ UNCHANGED << handlerVars, server, partVars, netVars, jobVars, histVars, ended, undefined, story >>

\* ... and leaves it: back to the events that were reported with this one.
Add ==
    /\ Main("add") /\ server = "alive"
    /\ \E t \in Task : Pool!Submit(t)
    /\ mpc' = "serve"
    /\ UNCHANGED << handlerVars, server, partVars, netVars, jpc, histVars, ended, undefined, story >>

\* main returns: the handler has interrupted epoll_wait, or shutdown was never FALSE.
Return ==
    /\ Main("back")
    /\ Ends("exit")
    /\ UNCHANGED << mpc, handlerVars, server, partVars, listen_socket, peer, jobVars, lives, undefined, story >>

\* Main goes on where the handler interrupted it, in an object that is gone.
Stray ==
    /\ mpc \in {"start", "listen", "serve", "add"} /\ Main(mpc) /\ server = "dead"
    /\ Undefined
    /\ mpc' = "listen"
    /\ UNCHANGED << handlerVars, server, partVars, listen_socket, peer, jobVars, lives, story >>

MainStep == NoConf \/ NoSocket \/ Construct \/ Enter \/ Wake \/ Serve \/ Lock \/ Add \/ Return

-------------------------------------------------------------------------------
(* The client                                                              *)

Connect ==
    /\ ended = "no" /\ listen_socket = "told" /\ peer = "none" /\ mpc \notin {"new", "start"}
    /\ peer' = "asks"
    /\ UNCHANGED << mpc, handlerVars, server, partVars, listen_socket, lingering, jobVars, histVars,
                    ended, undefined, story >>

Leave ==
    /\ ended = "no" /\ peer = "connected"
    /\ peer' = "left"
    /\ UNCHANGED << mpc, handlerVars, server, partVars, listen_socket, lingering, jobVars, histVars,
                    ended, undefined, story >>

-------------------------------------------------------------------------------
(* The signal handler: the first SIGINT comes to main's thread             *)

Signal ==
    /\ ended = "no" /\ disposition = "handler" /\ hpc = "none"
    /\ hpc' = IF server = "null" THEN "ign" ELSE "keys"
    /\ growing' \in IF "grow" \in Faults THEN BOOLEAN ELSE {FALSE}
    /\ story' = story \cup {"signalled"}
                      \cup (IF mpc = "new" THEN {"early"} ELSE {})
                      \cup (IF mpc \in {"start", "serve", "add"} THEN {"busy"} ELSE {})
                      \cup (IF waiting # << >> \/ running # {} THEN {"jobs"} ELSE {})
                      \cup (IF growing' THEN {"growing"} ELSE {})
    /\ UNCHANGED << mpc, disposition, server, partVars, netVars, jobVars, histVars, ended, undefined >>

\* SIGINT is blocked in main while its handler runs: the next one comes to another thread
\* and deletes the server once more.  It ends the process at the latest where that thread
\* joins itself.
SignalAgain ==
    /\ ended = "no" /\ disposition = "handler"
    /\ hpc \notin {"none", "free", "ign"}
    /\ story' = story \cup {"again"}
    /\ undefined' = TRUE
    /\ Ends("abort")
    /\ UNCHANGED << mpc, handlerVars, server, partVars, listen_socket, peer, jobVars, lives >>

Handler(from, to) == ended = "no" /\ hpc = from /\ hpc' = to

\* ~Server frees the keys, perhaps of maps main is just changing.
FreeKeys ==
    /\ Handler("keys", "close")
    /\ keys' = FALSE
    /\ Using(mpc # "serve")
    /\ UNCHANGED << mpc, disposition, growing, server, shares, conn_pool, listen_socket, peer, jobVars,
                    lives, story >>

\* ~TcpServer: closeServer throws where no socket was made, out of a destructor.
CloseServer ==
    /\ Handler("close", "release")
    /\ listen_socket' = "none"
    /\ IF listen_socket = "none" THEN Ends("abort") ELSE GoesOn
    /\ UNCHANGED << mpc, disposition, growing, server, partVars, peer, jobVars, lives, undefined, story >>

\* Mutant: the pool has one owner, and the tasks a pointer.
GivesUpAlone(o) ==
    /\ shares' = shares \ {o}
    /\ conn_pool' = (conn_pool /\ o # "server")
\* Mutant: a task never gives its share back.
GivesUpLeaks(o) ==
    /\ shares' = shares \ ({o} \cap {"server"})
    /\ conn_pool' = (conn_pool /\ shares' # {})
\* A shared_ptr is destroyed: the last one takes the pool along (and waits for its
\* monitor, which SqlConnPool shows to end).
GivesUp(o) ==
    /\ shares' = shares \ {o}
    /\ conn_pool' = (conn_pool /\ shares' # {})

\* The members go in reverse order: mysql_conn_pool first, ...
ReleasePool ==
    /\ Handler("release", "shutdown")
    /\ GivesUp("server")
    /\ UNCHANGED << mpc, disposition, growing, server, keys, netVars, jobVars, histVars, ended,
                    undefined, story >>

\* ... then deal_msg_thread_pool.  A thread that is not counted yet may sleep on
\* (StrandedAtMostOne of ThreadPool), and one that has its task's token waits for the lock
\* that main holds.
Shutdown ==
    /\ \E to \in {"join"} \cup (IF growing \/ (mpc = "add" /\ waiting # << >>) THEN {"stuck"} ELSE {}) :
          Handler("shutdown", to)
    /\ Pool!Close
    /\ UNCHANGED << mpc, disposition, growing, server, partVars, netVars, jpc, histVars, ended,
                    undefined, story >>

\* ~ThreadPool waits for the tasks that are at work.
Join ==
    /\ Handler("join", "free")
    /\ running = {}
    /\ UNCHANGED << mpc, disposition, growing, server, partVars, netVars, jobVars, histVars, ended,
                    undefined, story >>

\* The memory goes after the members.
FreeServer ==
    /\ Handler("free", "ign")
    /\ server' = "dead"
    /\ UNCHANGED << mpc, disposition, growing, partVars, netVars, jobVars, histVars, ended, undefined, story >>

\* Mutant: the loop takes EINTR for an error like the others and goes on.
ResumesLoop == mpc
\* Of all places, only epoll_wait tells main that there was a signal.
Resumes == IF mpc = "listen" THEN "back" ELSE mpc

\* signal(SIGINT, SIG_IGN), for a server that was deleted and for one that was not made
HandlerEnds ==
    /\ Handler("ign", "none")
    /\ disposition' = "ignore"
    /\ mpc' = Resumes
    /\ UNCHANGED << growing, server, partVars, netVars, jobVars, histVars, ended, undefined, story >>

HandlerStep ==
    \/ FreeKeys \/ CloseServer \/ ReleasePool \/ Shutdown \/ Join \/ FreeServer \/ HandlerEnds

-------------------------------------------------------------------------------
(* The tasks: haveNewClientMsg's lambda and dealClient, on the workers      *)

Job(t, from, to) == ended = "no" /\ jpc[t] = from /\ jpc' = [jpc EXCEPT ![t] = to]

\* getTask takes the lock that addTask holds; nobody is left after the join.
Start ==
    /\ mpc # "add" /\ hpc \notin {"free", "ign"} /\ server = "alive"
    /\ waiting # << >> /\ Job(Head(waiting), "out", "begin")
    /\ Pool!Start
    /\ UNCHANGED << mpc, handlerVars, server, partVars, netVars, histVars, ended, undefined, story >>

\* The arguments of dealClient: the key of the socket, and a share of the pool
Begin(t) ==
    /\ Job(t, "begin", "check")
    /\ Using(keys /\ "server" \in shares)
    /\ shares' = IF conn_pool THEN shares \cup {t} ELSE shares
    /\ UNCHANGED << mpc, handlerVars, server, keys, conn_pool, listen_socket, peer, poolVars, lives, story >>

\* verifyAndDecrypt, with the key looked up again
Check(t) ==
    /\ \E to \in {"work", "leave"} : Job(t, "check", to)
    /\ Using(keys)
    /\ UNCHANGED << mpc, handlerVars, server, partVars, listen_socket, peer, poolVars, lives, story >>

\* The request is executed on a connection of the pool and answered with the key.  send()
\* waits while the client does not read, without a limit of time.
Work(t) ==
    /\ \E to \in {"leave"} \cup (IF "slow" \in Faults /\ peer = "connected" THEN {"send"} ELSE {}) :
          Job(t, "work", to)
    /\ Using(keys /\ conn_pool)
    /\ UNCHANGED << mpc, handlerVars, server, partVars, listen_socket, peer, poolVars, lives, story >>

Finish(t) ==
    /\ Job(t, "leave", "out")
    /\ GivesUp(t)
    /\ Pool!Finish(t)
    /\ UNCHANGED << mpc, handlerVars, server, keys, netVars, histVars, ended, undefined, story >>

\* The client reads again, or its connection is given up.
Unblock(t) ==
    /\ Job(t, "send", "leave")
    /\ UNCHANGED << mpc, handlerVars, server, partVars, netVars, poolVars, histVars, ended, undefined,
                    story >>

\* What a task throws nobody catches (PayloadCodec, Accounts), and nobody asked to be spared
\* SIGPIPE (AnswerStream).
TaskAborts(t) ==
    /\ "throw" \in Faults /\ ended = "no" /\ jpc[t] \in {"check", "work", "send"}
    /\ Pool!Abort /\ Ends("abort")
    /\ story' = story \cup {"threw"}
    /\ UNCHANGED << mpc, handlerVars, server, partVars, listen_socket, peer, jpc, lives, undefined >>

\* The manager destroys the std::thread of a worker that retired, or that left at the close:
\* nobody has joined it (FixedPoolSurvives and ShrinkingSurvives of ThreadPool).
PoolAborts ==
    /\ "erase" \in Faults /\ ended = "no" /\ server = "alive" /\ hpc \notin {"free", "ign"}
    /\ Pool!Abort /\ Ends("abort")
    /\ story' = story \cup {"erased"}
    /\ UNCHANGED << mpc, handlerVars, server, partVars, listen_socket, peer, jpc, lives, undefined >>

JobStep(t) == Begin(t) \/ Check(t) \/ Work(t) \/ Finish(t)

-------------------------------------------------------------------------------

\* The process has ended, for good.
Over ==
    /\ ended # "no" /\ lives = LivesMax /\ ~lingering
    /\ UNCHANGED vars

Next ==
    \/ MainStep \/ Stray \/ HandlerStep \/ Signal \/ SignalAgain
    \/ Start \/ \E t \in Task : JobStep(t) \/ Unblock(t) \/ TaskAborts(t)
    \/ PoolAborts
    \/ Connect \/ Leave \/ Expire \/ Restart \/ Over

Spec == Init /\ [][Next]_vars

\* The threads run; signals, clients and restarts come when they come.  Nothing is
\* promised of a main that has strayed, nor of a client that does not read.
Fairness ==
    /\ WF_vars(MainStep) /\ WF_vars(HandlerStep) /\ WF_vars(Start)
    /\ \A t \in Task : WF_vars(JobStep(t))

FairSpec == Spec /\ Fairness

-------------------------------------------------------------------------------
(* Properties                                                              *)

\* A stop uses nothing that is gone, unless a task was accepted and not finished, main was
\* neither in the constructor nor in epoll_wait, or the signal came twice (main.cpp:13-24,
\* Server.cpp:32-44).  A process that uses nothing that is gone ends by returning from main,
\* unless it had no configuration or no socket, a task ended it, or the pool's manager did,
\* which it may do during a stop as well (ThreadPool.hpp:150-153, 217-219).
UndefinedExplained ==
    /\ undefined => story \cap {"busy", "jobs", "again"} # {}
    /\ ended = "abort" => undefined \/ story \cap {"nosocket", "noconf", "erased", "threw"} # {}

\* Nothing goes while a task can still use it, whatever the order of the members: the
\* connection pool stays as long as a task has it, although the server gives it up before it
\* waits for its tasks, and the memory of the server is freed when no task is left
\* (TcpServer.h:82-83, Server.cpp:84, ThreadPool.hpp:69-79).
NothingGoesEarly ==
    /\ shares # {} => conn_pool
    /\ server = "dead" => running = {}

\* When main returns after a stop, the pools are gone with their threads, the port is closed
\* and the object is freed, by one thread and once.
ExitIsClean ==
    ended = "exit" /\ "nosocket" \notin story =>
        /\ server = "dead" /\ ~conn_pool /\ ~keys
        /\ running = {} /\ mode = "closed" /\ listen_socket = "none"

\* The server listens where it says, unless a process before it ended while a client was
\* connected; clients that left before do not cost the port (TcpServer.cpp:18, 29).
PortExplained == listen_socket = "other" => cut

\* What the server says is where it listens (TcpServer.cpp:18).
PortTold == listen_socket # "other"

InSend == \E t \in Task : jpc[t] = "send"

\* One signal ends the process, also when tasks are at work: they finish and are waited
\* for.  The exceptions are a signal too early, one that meets main on its way or at work or
\* the pool starting a thread, and a worker that waits for a client which does not read
\* (main.cpp:13-24, ThreadPool.hpp:69-79, TcpServer.cpp:59-79, 181).
StopEnds ==
    ("signalled" \in story) ~>
        (ended # "no" \/ InSend \/ story \cap {"early", "busy", "growing"} # {})
===============================================================================
