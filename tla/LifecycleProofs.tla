--------------------------- MODULE LifecycleProofs ---------------------------
(***************************************************************************)
(* For any tasks, pool size and number of restarts: what a stop touches      *)
(* exists or is explained, nothing goes while a task can use it, main        *)
(* returns only when all is gone, and the port is lost only to a client that *)
(* an earlier process left connected.                                      *)
(***************************************************************************)
EXTENDS Lifecycle, TLAPS

-------------------------------------------------------------------------------
(* The invariant                                                           *)

\* The connection pool exists as long as somebody owns it, and only the server and tasks
\* at work do.
Owned ==
    /\ conn_pool <=> shares # {}
    /\ shares \subseteq {"server"} \cup running

AfterKeys == {"close", "release", "shutdown", "join", "stuck", "free"}
AfterClose == AfterKeys \ {"close"}
AfterRelease == AfterClose \ {"release"}
AfterShutdown == AfterRelease \ {"shutdown"}

\* Where the handler is says what is gone, ...
Gone ==
    /\ hpc \in AfterKeys => ~keys
    /\ hpc \in AfterClose => listen_socket = "none"
    /\ hpc \in AfterRelease => "server" \notin shares
    /\ hpc \in AfterShutdown => mode # "open"
    /\ hpc = "free" => running = {}
    /\ server = "dead" =>
          /\ ~keys /\ listen_socket = "none" /\ "server" \notin shares
          /\ mode # "open" /\ running = {}

\* A pool that gave up took the process along.
Aborted == mode = "aborted" => ended = "abort"

\* ... what is still there, ...
Kept ==
    /\ server = "alive" =>
          /\ hpc \in {"none", "keys"} => keys
          /\ hpc \in {"none", "keys", "close", "release"} => "server" \in shares

\* ... and what main and the object can be meanwhile.
Staged ==
    /\ server = "null" <=> mpc = "new"
    /\ hpc \in AfterKeys \cup {"keys"} => server = "alive"
    /\ hpc = "ign" => server # "alive"
    /\ server = "dead" /\ hpc = "none" => disposition = "ignore"

\* The history has what bears on the stop: main at work, ...
BusyTold ==
    /\ mpc \in {"start", "serve", "add"} /\ (hpc # "none" \/ server = "dead") => "busy" \in story
    /\ mpc = "listen" /\ hpc = "none" /\ server = "dead" => undefined

\* ... tasks, ...
JobsTold ==
    waiting # << >> \/ running # {} =>
        \/ "jobs" \in story
        \/ hpc = "none" /\ keys /\ "server" \in shares

\* ... and a constructor that made no socket.
SocketTold ==
    /\ mpc = "spin" => "nosocket" \in story
    /\ mpc = "back" => server = "dead" \/ "nosocket" \in story
    /\ server = "alive" /\ listen_socket = "none" /\ hpc \in {"none", "keys", "close"} =>
          "nosocket" \in story

PortInv == (lingering => cut) /\ PortExplained

IInv ==
    /\ TypeOK /\ Owned /\ Aborted /\ Gone /\ Kept /\ Staged
    /\ BusyTold /\ JobsTold /\ SocketTold
    /\ UndefinedExplained /\ ExitIsClean /\ PortInv

\* The parts of TypeOK: the tasks, ...
TasksType ==
    /\ waiting \in Seq(Task) /\ done \subseteq Task /\ mode \in {"open", "closed", "aborted"}
    /\ jpc \in [Task -> {"out", "begin", "check", "work", "send", "leave"}]
    /\ running = AtWork

\* ... main, the handler and the object, ...
PlaceType ==
    /\ mpc \in {"new", "start", "listen", "serve", "add", "spin", "back"}
    /\ hpc \in HandlerPlaces \cup {"none"} /\ disposition \in {"handler", "ignore"}
    /\ server \in {"null", "alive", "dead"} /\ keys \in BOOLEAN /\ conn_pool \in BOOLEAN
    /\ keys => server = "alive"

\* ... the network and the ends of the processes, ...
EndType ==
    /\ listen_socket \in {"none", "told", "other"} /\ lingering \in BOOLEAN
    /\ peer \in {"none", "asks", "connected", "left"}
    /\ growing \in BOOLEAN /\ lives \in 1 .. LivesMax /\ cut \in BOOLEAN
    /\ ended \in {"no", "exit", "abort"} /\ undefined \in BOOLEAN

\* ... the owners and the history.
SharesType == shares \subseteq {"server"} \cup Task
StoryType == story \subseteq Stories

LEMMA Parts == TypeOK <=> TasksType /\ PlaceType /\ EndType /\ SharesType /\ StoryType
BY DEF TypeOK, TasksType, PlaceType, EndType, SharesType, StoryType

\* A task is at work when it has a place in its handler.
LEMMA Working ==
    ASSUME TypeOK
    PROVE  /\ \A t \in Task : t \in running <=> jpc[t] # "out"
           /\ running \subseteq Task
           /\ keys \in BOOLEAN /\ conn_pool \in BOOLEAN /\ undefined \in BOOLEAN
           /\ mode \in {"open", "closed", "aborted"}
BY DEF TypeOK, AtWork

\* The tasks that are running are those at work, as each has moved.
LEMMA TasksTypeStep ==
    ASSUME TasksType, [Next]_vars
    PROVE  TasksType'
<1> USE DEF TasksType, AtWork, vars, jobVars, poolVars
<1>1. CASE Start
  <2>1. Head(waiting) \in Task /\ Tail(waiting) \in Seq(Task)
    BY <1>1 DEF Start
  <2>2. /\ waiting' = Tail(waiting) /\ running' = running \cup {Head(waiting)}
        /\ done' = done /\ mode' = mode
        /\ jpc' = [jpc EXCEPT ![Head(waiting)] = "begin"]
    BY <1>1 DEF Start, Pool!Start, Job
  <2> QED BY <2>1, <2>2
<1>2. ASSUME NEW t \in Task, NEW from, NEW to \in {"begin", "check", "work", "send", "leave"},
             Job(t, from, to), from # "out", UNCHANGED poolVars
      PROVE  TasksType'
  BY <1>2 DEF Job
<1>3. ASSUME NEW t \in Task, JobStep(t) PROVE TasksType'
  <2>1. CASE Begin(t)
    BY <1>2, <2>1 DEF Begin
  <2>2. CASE Check(t)
    BY <1>2, <2>2 DEF Check
  <2>3. CASE Work(t)
    BY <1>2, <2>3 DEF Work
  <2>4. CASE Finish(t)
    BY <2>4 DEF Finish, Job, Pool!Finish
  <2> QED BY <1>3, <2>1, <2>2, <2>3, <2>4 DEF JobStep
<1>4. CASE Add
  BY <1>4 DEF Add, Pool!Submit, AtEnd
<1>5. CASE Shutdown
  BY <1>5 DEF Shutdown, Pool!Close
<1>6. CASE Restart
  BY <1>6 DEF Restart
<1>7. ASSUME NEW t \in Task, Unblock(t) PROVE TasksType'
  BY <1>2, <1>7 DEF Unblock
<1>8. CASE PoolAborts \/ \E t \in Task : TaskAborts(t)
  BY <1>8 DEF PoolAborts, TaskAborts, Pool!Abort
<1>9. CASE UNCHANGED jobVars
  BY <1>9
<1> QED
  BY <1>1, <1>3, <1>4, <1>5, <1>6, <1>7, <1>8, <1>9
  DEF Next, MainStep, HandlerStep, Enter, Unblock, TaskAborts, PoolAborts, Pool!Abort, NoConf,
      NoSocket, Construct, Made, Wake, Serve, Lock, Return,
      Stray,
      FreeKeys, CloseServer, ReleasePool, Join, FreeServer, HandlerEnds, Signal, SignalAgain,
      Connect, Leave, Expire, Over

\* Places move among those that are written, ...
LEMMA PlaceTypeStep ==
    ASSUME PlaceType, Gone, [Next]_vars
    PROVE  PlaceType'
<1> USE DEF PlaceType, HandlerPlaces, handlerVars, partVars, netVars, jobVars, poolVars, histVars
<1>1. CASE NoSocket \/ Construct
  BY <1>1 DEF NoSocket, Construct, Main, Made
<1>2. CASE Enter \/ Wake \/ Serve \/ Lock
  BY <1>2 DEF Enter, Wake, Serve, Lock, Main
<1>3. CASE Add
  BY <1>3 DEF Add, Main, Pool!Submit, AtEnd
<1>4. CASE Stray
  BY <1>4 DEF Stray, Main, Undefined, GoesOn, Ends
<1>5. CASE FreeKeys
  BY <1>5 DEF FreeKeys, Handler, Using, Undefined, GoesOn, Ends
<1>6. CASE CloseServer
  BY <1>6 DEF CloseServer, Handler, GoesOn, Ends
<1>7. CASE ReleasePool
  BY <1>7 DEF ReleasePool, Handler, GivesUp
<1>8. CASE Shutdown
  BY <1>8 DEF Shutdown, Handler, Pool!Close
<1>9. CASE Join
  BY <1>9 DEF Join, Handler
<1>10. CASE FreeServer
  <2>1. ~keys
    BY <1>10 DEF FreeServer, Handler, Gone, AfterKeys
  <2> QED BY <2>1, <1>10 DEF FreeServer, Handler
<1>11. CASE HandlerEnds
  BY <1>11 DEF HandlerEnds, Handler, Resumes
<1>12. CASE Signal
  BY <1>12 DEF Signal
<1>13. ASSUME NEW t \in Task, Finish(t) PROVE PlaceType'
  BY <1>13 DEF Finish, Job, GivesUp, Pool!Finish
<1>14. CASE Restart
  BY <1>14 DEF Restart
<1>abort. CASE PoolAborts \/ \E t \in Task : TaskAborts(t)
  <2>1. UNCHANGED << mpc, hpc, disposition, server, keys, conn_pool >>
    BY <1>abort DEF PoolAborts, TaskAborts, Pool!Abort
  <2> QED BY <2>1
<1>15. CASE UNCHANGED << mpc, hpc, disposition, server, keys, conn_pool >>
  BY <1>15
<1> QED
  BY <1>abort, <1>1, <1>2, <1>3, <1>4, <1>5, <1>6, <1>7, <1>8, <1>9, <1>10, <1>11, <1>12, <1>13,
      <1>14, <1>15
  DEF Next, MainStep, HandlerStep, Enter, Unblock, JobStep,
      Over, vars, NoConf, Main, Ends, Return, SignalAgain,
      Start, Job, Pool!Start, Begin, Using, Undefined, GoesOn, Check, Work, Connect, Leave, Expire

\* ... and so do the ends of processes.
LEMMA EndTypeStep ==
    ASSUME EndType, [Next]_vars
    PROVE  EndType'
<1> USE DEF EndType, handlerVars, partVars, netVars, jobVars, poolVars, histVars
<1>1. CASE NoConf
  BY <1>1 DEF NoConf, Main, Ends
<1>2. CASE NoSocket \/ Construct
  BY <1>2 DEF NoSocket, Construct, Main, Made
<1>3. CASE Enter \/ Wake \/ Serve \/ Lock
  BY <1>3 DEF Enter, Wake, Serve, Lock, Main
<1>4. CASE Return
  BY <1>4 DEF Return, Main, Ends
<1>5. CASE Stray
  BY <1>5 DEF Stray, Main, Undefined, GoesOn, Ends
<1>6. CASE FreeKeys
  BY <1>6 DEF FreeKeys, Handler, Using, Undefined, GoesOn, Ends
<1>7. CASE CloseServer
  BY <1>7 DEF CloseServer, Handler, GoesOn, Ends
<1>8. CASE Signal
  BY <1>8 DEF Signal
<1>9. CASE SignalAgain
  BY <1>9 DEF SignalAgain, Ends
<1>10. ASSUME NEW t \in Task, Begin(t) PROVE EndType'
  BY <1>10 DEF Begin, Job, Using, Undefined, GoesOn, Ends
<1>11. ASSUME NEW t \in Task, Check(t) PROVE EndType'
  BY <1>11 DEF Check, Job, Using, Undefined, GoesOn, Ends
<1>12. ASSUME NEW t \in Task, Work(t) PROVE EndType'
  BY <1>12 DEF Work, Job, Using, Undefined, GoesOn, Ends
<1>13. CASE Connect \/ Leave \/ Expire
  BY <1>13 DEF Connect, Leave, Expire
<1>14. CASE Restart
  <2>1. lives + 1 \in 1 .. LivesMax
    BY LifecycleAssumption, <1>14 DEF Restart
  <2> QED BY <2>1, <1>14 DEF Restart
<1>abort. CASE PoolAborts \/ \E t \in Task : TaskAborts(t)
  BY <1>abort DEF PoolAborts, TaskAborts, Pool!Abort, Ends
<1>15. CASE UNCHANGED << listen_socket, lingering, peer, growing, lives, cut, ended, undefined >>
  BY <1>15
<1> QED
  BY <1>abort, <1>1, <1>2, <1>3, <1>4, <1>5, <1>6, <1>7, <1>8, <1>9, <1>10, <1>11, <1>12, <1>13,
      <1>14, <1>15
  DEF Next, MainStep, HandlerStep, Enter, Unblock, JobStep,
      Over, vars, Add, Main, Pool!Submit, AtEnd,
      ReleasePool, Handler, GivesUp, Shutdown, Pool!Close, Join, FreeServer, HandlerEnds, Resumes,
      Start, Job, Pool!Start, Finish, Pool!Finish

\* The history has what is written.
LEMMA StoryTypeStep ==
    ASSUME StoryType, [Next]_vars
    PROVE  StoryType'
<1> USE DEF StoryType, Stories, handlerVars, partVars, netVars, jobVars, poolVars, histVars
<1>1. CASE NoConf
  BY <1>1 DEF NoConf, Main, Ends
<1>2. CASE NoSocket \/ Construct
  BY <1>2 DEF NoSocket, Construct, Main, Made
<1>3. CASE Signal
  BY <1>3 DEF Signal
<1>4. CASE SignalAgain
  BY <1>4 DEF SignalAgain, Ends
<1>5. CASE Restart
  BY <1>5 DEF Restart
<1>abort. CASE PoolAborts \/ \E t \in Task : TaskAborts(t)
  BY <1>abort DEF PoolAborts, TaskAborts, Pool!Abort, Ends
<1>6. CASE UNCHANGED << story >>
  BY <1>6
<1> QED
  BY <1>abort, <1>1, <1>2, <1>3, <1>4, <1>5, <1>6
  DEF Next, MainStep, HandlerStep, Enter, Unblock, JobStep,
      Over, vars, Wake, Serve, Lock, Main, Add, Pool!Submit,
      AtEnd, Return, Ends, Stray, Undefined, GoesOn, FreeKeys, Handler, Using, CloseServer,
      ReleasePool, GivesUp, Shutdown, Pool!Close, Join, FreeServer, HandlerEnds, Resumes, Start,
      Job, Pool!Start, Begin, Check, Work, Finish, Pool!Finish, Connect, Leave, Expire

\* Owners come and go with the connection pool.
LEMMA OwnedStep ==
    ASSUME TypeOK, Owned, [Next]_vars
    PROVE  Owned'
<1> USE DEF Owned, handlerVars, partVars, netVars, jobVars, poolVars, histVars
<1>1. /\ \A t \in Task : t \in running <=> jpc[t] # "out"
      /\ running \subseteq Task
      /\ keys \in BOOLEAN /\ conn_pool \in BOOLEAN /\ undefined \in BOOLEAN
      /\ mode \in {"open", "closed", "aborted"}
  BY Working
<1>2. CASE NoSocket \/ Construct
  BY <1>2, <1>1 DEF NoSocket, Construct, Main, Made
<1>3. CASE ReleasePool
  BY <1>3, <1>1 DEF ReleasePool, Handler, GivesUp
<1>4. CASE Start
  BY <1>4, <1>1 DEF Start, Job, Pool!Start
<1>5. ASSUME NEW t \in Task, Begin(t) PROVE Owned'
  BY LifecycleAssumption, <1>5, <1>1 DEF Begin, Job, Using, Undefined, GoesOn, Ends
<1>6. ASSUME NEW t \in Task, Finish(t) PROVE Owned'
  BY LifecycleAssumption, <1>6, <1>1 DEF Finish, Job, GivesUp, Pool!Finish
<1>7. CASE Restart
  BY <1>7, <1>1 DEF Restart
<1>abort. CASE PoolAborts \/ \E t \in Task : TaskAborts(t)
  <2>1. UNCHANGED << shares, conn_pool, running >>
    BY <1>abort DEF PoolAborts, TaskAborts, Pool!Abort
  <2> QED BY <2>1, <1>1
<1>8. CASE UNCHANGED << shares, conn_pool, running >>
  BY <1>8, <1>1
<1> QED
  BY <1>abort, <1>2, <1>3, <1>4, <1>5, <1>6, <1>7, <1>8
  DEF Next, MainStep, HandlerStep, Enter, Unblock, JobStep,
      Over, vars, NoConf, Main, Ends, Wake, Serve, Lock,
      Add, Pool!Submit, AtEnd, Return, Stray, Undefined, GoesOn, FreeKeys, Handler, Using,
      CloseServer, Shutdown, Pool!Close, Join, FreeServer, HandlerEnds, Resumes, Signal,
      SignalAgain, Check, Job, Work, Connect, Leave, Expire

\* What the handler has passed is gone.
LEMMA GoneStep ==
    ASSUME TypeOK, Owned, Gone, Staged, [Next]_vars
    PROVE  Gone'
<1> USE DEF Owned, Gone, Staged, AfterKeys, AfterClose, AfterRelease, AfterShutdown, handlerVars,
            partVars, netVars, jobVars, poolVars, histVars
<1>1. /\ \A t \in Task : t \in running <=> jpc[t] # "out"
      /\ running \subseteq Task
      /\ keys \in BOOLEAN /\ conn_pool \in BOOLEAN /\ undefined \in BOOLEAN
      /\ mode \in {"open", "closed", "aborted"}
  BY Working
<1>2. CASE NoSocket \/ Construct
  BY <1>2, <1>1 DEF NoSocket, Construct, Main, Made
<1>3. CASE FreeKeys
  BY <1>3, <1>1 DEF FreeKeys, Handler, Using, Undefined, GoesOn, Ends
<1>4. CASE CloseServer
  BY <1>4, <1>1 DEF CloseServer, Handler, GoesOn, Ends
<1>5. CASE ReleasePool
  BY <1>5, <1>1 DEF ReleasePool, Handler, GivesUp
<1>6. CASE Shutdown
  BY <1>6, <1>1 DEF Shutdown, Handler, Pool!Close
<1>7. CASE Join
  BY <1>7, <1>1 DEF Join, Handler
<1>8. CASE FreeServer
  BY <1>8, <1>1 DEF FreeServer, Handler
<1>9. CASE HandlerEnds
  BY <1>9, <1>1 DEF HandlerEnds, Handler, Resumes
<1>10. CASE Signal
  BY <1>10, <1>1 DEF Signal
<1>11. CASE Start
  BY <1>11, <1>1 DEF Start, Job, Pool!Start
<1>12. ASSUME NEW t \in Task, Begin(t) PROVE Gone'
  BY LifecycleAssumption, <1>12, <1>1 DEF Begin, Job, Using, Undefined, GoesOn, Ends
<1>13. ASSUME NEW t \in Task, Finish(t) PROVE Gone'
  BY LifecycleAssumption, <1>13, <1>1 DEF Finish, Job, GivesUp, Pool!Finish
<1>14. CASE Restart
  BY <1>14, <1>1 DEF Restart
<1>abort. CASE PoolAborts \/ \E t \in Task : TaskAborts(t)
  <2>1. UNCHANGED << hpc, keys, listen_socket, shares, running, server >> /\ mode' = "aborted"
    BY <1>abort DEF PoolAborts, TaskAborts, Pool!Abort
  <2> QED BY <2>1, <1>1
<1>15. CASE UNCHANGED << hpc, keys, listen_socket, shares, mode, running, server >>
  BY <1>15, <1>1
<1> QED
  BY <1>abort, <1>2, <1>3, <1>4, <1>5, <1>6, <1>7, <1>8, <1>9, <1>10, <1>11, <1>12, <1>13, <1>14,
      <1>15
  DEF Next, MainStep, HandlerStep, Enter, Unblock, JobStep,
      Over, vars, NoConf, Main, Ends, Wake, Serve, Lock,
      Add, Pool!Submit, AtEnd, Return, Stray, Undefined, GoesOn, SignalAgain, Check, Job, Using,
      Work, Connect, Leave, Expire

\* Nothing happens in a process after its pool gave up.
LEMMA AbortedStep ==
    ASSUME Aborted, [Next]_vars
    PROVE  Aborted'
<1> USE DEF Aborted, handlerVars, jobVars, poolVars, histVars
<1>1. CASE Expire \/ Restart \/ Over
  BY <1>1 DEF Expire, Restart, Over, vars
<1>2. CASE PoolAborts \/ \E t \in Task : TaskAborts(t)
  BY <1>2 DEF PoolAborts, TaskAborts, Pool!Abort, Ends
<1>3. CASE MainStep \/ Stray
  BY <1>3 DEF MainStep, Stray, Main, NoConf, Made, NoSocket, Construct, Enter, Wake, Serve, Lock, Add,
              Pool!Submit, Return
<1>4. CASE HandlerStep \/ Signal \/ SignalAgain
  BY <1>4 DEF HandlerStep, Handler, Signal, SignalAgain, FreeKeys, CloseServer, ReleasePool, Shutdown,
              Pool!Close, Join, FreeServer, HandlerEnds
<1>5. ASSUME NEW t \in Task, JobStep(t) \/ Unblock(t) PROVE Aborted'
  BY <1>5 DEF JobStep, Unblock, Job, Begin, Check, Work, Finish, Pool!Finish
<1>6. CASE Start \/ Connect \/ Leave
  BY <1>6 DEF Start, Job, Pool!Start, Connect, Leave
<1>7. CASE UNCHANGED vars
  BY <1>7 DEF vars
<1> QED
  BY <1>1, <1>2, <1>3, <1>4, <1>5, <1>6, <1>7 DEF Next

\* What it has not reached is there.
LEMMA KeptStep ==
    ASSUME TypeOK, Kept, Staged, [Next]_vars
    PROVE  Kept'
<1> USE DEF Kept, Staged, AfterKeys, handlerVars, partVars, netVars, jobVars, poolVars, histVars
<1>1. /\ \A t \in Task : t \in running <=> jpc[t] # "out"
      /\ running \subseteq Task
      /\ keys \in BOOLEAN /\ conn_pool \in BOOLEAN /\ undefined \in BOOLEAN
      /\ mode \in {"open", "closed", "aborted"}
  BY Working
<1>2. CASE NoSocket \/ Construct
  BY <1>2, <1>1 DEF NoSocket, Construct, Main, Made
<1>3. CASE FreeKeys
  BY <1>3, <1>1 DEF FreeKeys, Handler, Using, Undefined, GoesOn, Ends
<1>4. CASE CloseServer
  BY <1>4, <1>1 DEF CloseServer, Handler, GoesOn, Ends
<1>5. CASE ReleasePool
  BY <1>5, <1>1 DEF ReleasePool, Handler, GivesUp
<1>6. CASE Shutdown
  BY <1>6, <1>1 DEF Shutdown, Handler, Pool!Close
<1>7. CASE Join
  BY <1>7, <1>1 DEF Join, Handler
<1>8. CASE FreeServer
  BY <1>8, <1>1 DEF FreeServer, Handler
<1>9. CASE HandlerEnds
  BY <1>9, <1>1 DEF HandlerEnds, Handler, Resumes
<1>10. CASE Signal
  BY <1>10, <1>1 DEF Signal
<1>11. ASSUME NEW t \in Task, Begin(t) PROVE Kept'
  BY LifecycleAssumption, <1>11, <1>1 DEF Begin, Job, Using, Undefined, GoesOn, Ends
<1>12. ASSUME NEW t \in Task, Finish(t) PROVE Kept'
  BY LifecycleAssumption, <1>12, <1>1 DEF Finish, Job, GivesUp, Pool!Finish
<1>13. CASE Restart
  BY <1>13, <1>1 DEF Restart
<1>abort. CASE PoolAborts \/ \E t \in Task : TaskAborts(t)
  BY <1>abort, <1>1 DEF PoolAborts, TaskAborts, Pool!Abort, Ends
<1>14. CASE UNCHANGED << server, hpc, keys, shares >>
  BY <1>14, <1>1
<1> QED
  BY <1>abort, <1>2, <1>3, <1>4, <1>5, <1>6, <1>7, <1>8, <1>9, <1>10, <1>11, <1>12, <1>13, <1>14
  DEF Next, MainStep, HandlerStep, Enter, Unblock, JobStep,
      Over, vars, NoConf, Main, Ends, Wake, Serve, Lock,
      Add, Pool!Submit, AtEnd, Return, Stray, Undefined, GoesOn, SignalAgain, Start, Job,
      Pool!Start, Check, Using, Work, Connect, Leave, Expire

\* Main and the handler take turns.
LEMMA StagedStep ==
    ASSUME PlaceType, Staged, [Next]_vars
    PROVE  Staged'
<1> USE DEF PlaceType, Staged, AfterKeys, HandlerPlaces, handlerVars, partVars, netVars, jobVars,
            poolVars, histVars
<1>1. CASE NoSocket \/ Construct
  BY <1>1 DEF NoSocket, Construct, Main, Made
<1>2. CASE Enter \/ Wake \/ Serve \/ Lock
  BY <1>2 DEF Enter, Wake, Serve, Lock, Main
<1>3. CASE Add
  BY <1>3 DEF Add, Main, Pool!Submit, AtEnd
<1>4. CASE Stray
  BY <1>4 DEF Stray, Main, Undefined, GoesOn, Ends
<1>5. CASE FreeKeys
  BY <1>5 DEF FreeKeys, Handler, Using, Undefined, GoesOn, Ends
<1>6. CASE CloseServer
  BY <1>6 DEF CloseServer, Handler, GoesOn, Ends
<1>7. CASE ReleasePool
  BY <1>7 DEF ReleasePool, Handler, GivesUp
<1>8. CASE Shutdown
  BY <1>8 DEF Shutdown, Handler, Pool!Close
<1>9. CASE Join
  BY <1>9 DEF Join, Handler
<1>10. CASE FreeServer
  BY <1>10 DEF FreeServer, Handler
<1>11. CASE HandlerEnds
  BY <1>11 DEF HandlerEnds, Handler, Resumes
<1>12. CASE Signal
  BY <1>12 DEF Signal
<1>13. CASE Restart
  BY <1>13 DEF Restart
<1>abort. CASE PoolAborts \/ \E t \in Task : TaskAborts(t)
  BY <1>abort DEF PoolAborts, TaskAborts, Pool!Abort, Ends
<1>14. CASE UNCHANGED << server, mpc, hpc, disposition >>
  BY <1>14
<1> QED
  BY <1>abort, <1>1, <1>2, <1>3, <1>4, <1>5, <1>6, <1>7, <1>8, <1>9, <1>10, <1>11, <1>12, <1>13,
      <1>14
  DEF Next, MainStep, HandlerStep, Enter, Unblock, JobStep,
      Over, vars, NoConf, Main, Ends, Return, SignalAgain,
      Start, Job, Pool!Start, Begin, Using, Undefined, GoesOn, Check, Work, Finish, GivesUp,
      Pool!Finish, Connect, Leave, Expire

\* A main at work is told.
LEMMA BusyStep ==
    ASSUME PlaceType, Staged, BusyTold, [Next]_vars
    PROVE  BusyTold'
<1> USE DEF PlaceType, Staged, AfterKeys, BusyTold, handlerVars, partVars, netVars, jobVars,
            poolVars, histVars
<1>1. CASE NoConf
  BY <1>1 DEF NoConf, Main, Ends
<1>2. CASE NoSocket \/ Construct
  BY <1>2 DEF NoSocket, Construct, Main, Made
<1>3. CASE Enter \/ Wake \/ Serve \/ Lock
  BY <1>3 DEF Enter, Wake, Serve, Lock, Main
<1>4. CASE Add
  BY <1>4 DEF Add, Main, Pool!Submit, AtEnd
<1>5. CASE Stray
  BY <1>5 DEF Stray, Main, Undefined, GoesOn, Ends
<1>6. CASE FreeKeys
  BY <1>6 DEF FreeKeys, Handler, Using, Undefined, GoesOn, Ends
<1>7. CASE CloseServer
  BY <1>7 DEF CloseServer, Handler, GoesOn, Ends
<1>8. CASE ReleasePool
  BY <1>8 DEF ReleasePool, Handler, GivesUp
<1>9. CASE Shutdown
  BY <1>9 DEF Shutdown, Handler, Pool!Close
<1>10. CASE Join
  BY <1>10 DEF Join, Handler
<1>11. CASE FreeServer
  BY <1>11 DEF FreeServer, Handler
<1>12. CASE HandlerEnds
  BY <1>12 DEF HandlerEnds, Handler, Resumes
<1>13. CASE Signal
  BY <1>13 DEF Signal
<1>14. CASE SignalAgain
  BY <1>14 DEF SignalAgain, Ends
<1>15. ASSUME NEW t \in Task, Begin(t) PROVE BusyTold'
  BY <1>15 DEF Begin, Job, Using, Undefined, GoesOn, Ends
<1>16. ASSUME NEW t \in Task, Check(t) PROVE BusyTold'
  BY <1>16 DEF Check, Job, Using, Undefined, GoesOn, Ends
<1>17. ASSUME NEW t \in Task, Work(t) PROVE BusyTold'
  BY <1>17 DEF Work, Job, Using, Undefined, GoesOn, Ends
<1>18. CASE Restart
  BY <1>18 DEF Restart
<1>abort. CASE PoolAborts \/ \E t \in Task : TaskAborts(t)
  BY <1>abort DEF PoolAborts, TaskAborts, Pool!Abort, Ends
<1>19. CASE UNCHANGED << mpc, hpc, server, story, undefined >>
  BY <1>19
<1> QED
  BY <1>abort, <1>1, <1>2, <1>3, <1>4, <1>5, <1>6, <1>7, <1>8, <1>9, <1>10, <1>11, <1>12, <1>13,
      <1>14,
     <1>15, <1>16, <1>17, <1>18, <1>19
  DEF Next, MainStep, HandlerStep, Enter, Unblock, JobStep,
      Over, vars, Return, Main, Ends, Start, Job,
      Pool!Start, Finish, GivesUp, Pool!Finish, Connect, Leave, Expire

\* Tasks are told: those that are there when the signal comes.
LEMMA JobsStep ==
    ASSUME TypeOK, Kept, Staged, JobsTold, [Next]_vars
    PROVE  JobsTold'
<1> USE DEF Kept, Staged, AfterKeys, JobsTold, handlerVars, partVars, netVars, jobVars, poolVars,
            histVars
<1>1. /\ \A t \in Task : t \in running <=> jpc[t] # "out"
      /\ running \subseteq Task
      /\ keys \in BOOLEAN /\ conn_pool \in BOOLEAN /\ undefined \in BOOLEAN
      /\ mode \in {"open", "closed", "aborted"}
  BY Working
<1>2. CASE NoConf
  BY <1>2, <1>1 DEF NoConf, Main, Ends
<1>3. CASE NoSocket \/ Construct
  BY <1>3, <1>1 DEF NoSocket, Construct, Main, Made
<1>4. CASE Add
  BY <1>4, <1>1 DEF Add, Main, Pool!Submit, AtEnd
<1>5. CASE FreeKeys
  BY <1>5, <1>1 DEF FreeKeys, Handler, Using, Undefined, GoesOn, Ends
<1>6. CASE CloseServer
  BY <1>6, <1>1 DEF CloseServer, Handler, GoesOn, Ends
<1>7. CASE ReleasePool
  BY <1>7, <1>1 DEF ReleasePool, Handler, GivesUp
<1>8. CASE Shutdown
  BY <1>8, <1>1 DEF Shutdown, Handler, Pool!Close
<1>9. CASE Join
  BY <1>9, <1>1 DEF Join, Handler
<1>10. CASE FreeServer
  BY <1>10, <1>1 DEF FreeServer, Handler
<1>11. CASE HandlerEnds
  BY <1>11, <1>1 DEF HandlerEnds, Handler, Resumes
<1>12. CASE Signal
  BY <1>12, <1>1 DEF Signal
<1>13. CASE SignalAgain
  BY <1>13, <1>1 DEF SignalAgain, Ends
<1>14. CASE Start
  BY <1>14, <1>1 DEF Start, Job, Pool!Start
<1>15. ASSUME NEW t \in Task, Begin(t) PROVE JobsTold'
  BY LifecycleAssumption, <1>15, <1>1 DEF Begin, Job, Using, Undefined, GoesOn, Ends
<1>16. ASSUME NEW t \in Task, Finish(t) PROVE JobsTold'
  BY LifecycleAssumption, <1>16, <1>1 DEF Finish, Job, GivesUp, Pool!Finish
<1>17. CASE Restart
  BY <1>17, <1>1 DEF Restart
<1>abort. CASE PoolAborts \/ \E t \in Task : TaskAborts(t)
  BY <1>abort, <1>1 DEF PoolAborts, TaskAborts, Pool!Abort, Ends
<1>18. CASE UNCHANGED << waiting, running, story, hpc, keys, shares >>
  BY <1>18, <1>1
<1> QED
  BY <1>abort, <1>2, <1>3, <1>4, <1>5, <1>6, <1>7, <1>8, <1>9, <1>10, <1>11, <1>12, <1>13, <1>14,
      <1>15,
     <1>16, <1>17, <1>18
  DEF Next, MainStep, HandlerStep, Enter, Unblock, JobStep,
      Over, vars, Wake, Serve, Lock, Main, Return, Ends,
      Stray, Undefined, GoesOn, Check, Job, Using, Work, Connect, Leave, Expire

\* A missing socket is told.
LEMMA SocketStep ==
    ASSUME PlaceType, Staged, SocketTold, [Next]_vars
    PROVE  SocketTold'
<1> USE DEF PlaceType, Staged, AfterKeys, SocketTold, handlerVars, partVars, netVars, jobVars,
            poolVars, histVars
<1>1. CASE NoConf
  BY <1>1 DEF NoConf, Main, Ends
<1>2. CASE NoSocket \/ Construct
  BY <1>2 DEF NoSocket, Construct, Main, Made
<1>3. CASE Enter \/ Wake \/ Serve \/ Lock
  BY <1>3 DEF Enter, Wake, Serve, Lock, Main
<1>4. CASE Add
  BY <1>4 DEF Add, Main, Pool!Submit, AtEnd
<1>5. CASE Stray
  BY <1>5 DEF Stray, Main, Undefined, GoesOn, Ends
<1>6. CASE FreeKeys
  BY <1>6 DEF FreeKeys, Handler, Using, Undefined, GoesOn, Ends
<1>7. CASE CloseServer
  BY <1>7 DEF CloseServer, Handler, GoesOn, Ends
<1>8. CASE ReleasePool
  BY <1>8 DEF ReleasePool, Handler, GivesUp
<1>9. CASE Shutdown
  BY <1>9 DEF Shutdown, Handler, Pool!Close
<1>10. CASE Join
  BY <1>10 DEF Join, Handler
<1>11. CASE FreeServer
  BY <1>11 DEF FreeServer, Handler
<1>12. CASE HandlerEnds
  BY <1>12 DEF HandlerEnds, Handler, Resumes
<1>13. CASE Signal
  BY <1>13 DEF Signal
<1>14. CASE SignalAgain
  BY <1>14 DEF SignalAgain, Ends
<1>15. CASE Restart
  BY <1>15 DEF Restart
<1>abort. CASE PoolAborts \/ \E t \in Task : TaskAborts(t)
  BY <1>abort DEF PoolAborts, TaskAborts, Pool!Abort, Ends
<1>16. CASE UNCHANGED << mpc, story, server, listen_socket, hpc >>
  BY <1>16
<1> QED
  BY <1>abort, <1>1, <1>2, <1>3, <1>4, <1>5, <1>6, <1>7, <1>8, <1>9, <1>10, <1>11, <1>12, <1>13,
      <1>14,
     <1>15, <1>16
  DEF Next, MainStep, HandlerStep, Enter, Unblock, JobStep,
      Over, vars, Return, Main, Ends, Start, Job,
      Pool!Start, Begin, Using, Undefined, GoesOn, Check, Work, Finish, GivesUp, Pool!Finish,
      Connect, Leave, Expire

\* A step that uses what is gone has its reason told.
LEMMA UndefinedStep ==
    ASSUME TypeOK, Owned, Kept, Staged, BusyTold, JobsTold, SocketTold, UndefinedExplained,
           [Next]_vars
    PROVE  UndefinedExplained'
<1> USE DEF Owned, Kept, Staged, AfterKeys, BusyTold, JobsTold, SocketTold, UndefinedExplained,
            handlerVars, partVars, netVars, jobVars, poolVars, histVars
<1>1. /\ \A t \in Task : t \in running <=> jpc[t] # "out"
      /\ running \subseteq Task
      /\ keys \in BOOLEAN /\ conn_pool \in BOOLEAN /\ undefined \in BOOLEAN
      /\ mode \in {"open", "closed", "aborted"}
  BY Working
<1>2. CASE NoConf
  BY <1>2, <1>1 DEF NoConf, Main, Ends
<1>3. CASE NoSocket \/ Construct
  BY <1>3, <1>1 DEF NoSocket, Construct, Main, Made
<1>4. CASE Return
  BY <1>4, <1>1 DEF Return, Main, Ends
<1>5. CASE Stray
  BY <1>5, <1>1 DEF Stray, Main, Undefined, GoesOn, Ends
<1>6. CASE FreeKeys
  BY <1>6, <1>1 DEF FreeKeys, Handler, Using, Undefined, GoesOn, Ends
<1>7. CASE CloseServer
  BY <1>7, <1>1 DEF CloseServer, Handler, GoesOn, Ends
<1>8. CASE Signal
  BY <1>8, <1>1 DEF Signal
<1>9. CASE SignalAgain
  BY <1>9, <1>1 DEF SignalAgain, Ends
<1>10. ASSUME NEW t \in Task, Begin(t) PROVE UndefinedExplained'
  BY <1>10, <1>1 DEF Begin, Job, Using, Undefined, GoesOn, Ends
<1>11. ASSUME NEW t \in Task, Check(t) PROVE UndefinedExplained'
  BY <1>11, <1>1 DEF Check, Job, Using, Undefined, GoesOn, Ends
<1>12. ASSUME NEW t \in Task, Work(t) PROVE UndefinedExplained'
  BY <1>12, <1>1 DEF Work, Job, Using, Undefined, GoesOn, Ends
<1>13. CASE Restart
  BY <1>13, <1>1 DEF Restart
<1>abort. CASE PoolAborts \/ \E t \in Task : TaskAborts(t)
  <2>1. ended' = "abort" /\ undefined' = undefined
    BY <1>abort DEF PoolAborts, TaskAborts, Ends
  <2>2. story' = story \cup {"threw"} \/ story' = story \cup {"erased"}
    BY <1>abort DEF PoolAborts, TaskAborts
  <2> QED BY <2>1, <2>2, <1>1
<1>14. CASE UNCHANGED << undefined, story, ended >>
  BY <1>14, <1>1
<1> QED
  BY <1>abort, <1>2, <1>3, <1>4, <1>5, <1>6, <1>7, <1>8, <1>9, <1>10, <1>11, <1>12, <1>13, <1>14
  DEF Next, MainStep, HandlerStep, Enter, Unblock, JobStep,
      Over, vars, Wake, Serve, Lock, Main, Add, Pool!Submit,
      AtEnd, ReleasePool, Handler, GivesUp, Shutdown, Pool!Close, Join, FreeServer, HandlerEnds,
      Resumes, Start, Job, Pool!Start, Finish, Pool!Finish, Connect, Leave, Expire

\* Main returns when all is gone.
LEMMA ExitStep ==
    ASSUME TypeOK, Owned, Aborted, Gone, SocketTold, ExitIsClean, [Next]_vars
    PROVE  ExitIsClean'
<1> USE DEF Owned, Aborted, Gone, SocketTold, ExitIsClean, handlerVars, partVars, netVars, jobVars,
            poolVars, histVars
<1>1. /\ \A t \in Task : t \in running <=> jpc[t] # "out"
      /\ running \subseteq Task
      /\ keys \in BOOLEAN /\ conn_pool \in BOOLEAN /\ undefined \in BOOLEAN
      /\ mode \in {"open", "closed", "aborted"}
  BY Working
<1>2. CASE NoConf
  BY <1>2, <1>1 DEF NoConf, Main, Ends
<1>3. CASE NoSocket \/ Construct
  BY <1>3, <1>1 DEF NoSocket, Construct, Main, Made
<1>4. CASE Add
  BY <1>4, <1>1 DEF Add, Main, Pool!Submit, AtEnd
<1>5. CASE Return
  BY <1>5, <1>1 DEF Return, Main, Ends
<1>6. CASE Stray
  BY <1>6, <1>1 DEF Stray, Main, Undefined, GoesOn, Ends
<1>7. CASE FreeKeys
  BY <1>7, <1>1 DEF FreeKeys, Handler, Using, Undefined, GoesOn, Ends
<1>8. CASE CloseServer
  BY <1>8, <1>1 DEF CloseServer, Handler, GoesOn, Ends
<1>9. CASE ReleasePool
  BY <1>9, <1>1 DEF ReleasePool, Handler, GivesUp
<1>10. CASE Shutdown
  BY <1>10, <1>1 DEF Shutdown, Handler, Pool!Close
<1>11. CASE Join
  BY <1>11, <1>1 DEF Join, Handler
<1>12. CASE FreeServer
  BY <1>12, <1>1 DEF FreeServer, Handler
<1>13. CASE Signal
  BY <1>13, <1>1 DEF Signal
<1>14. CASE SignalAgain
  BY <1>14, <1>1 DEF SignalAgain, Ends
<1>15. CASE Start
  BY <1>15, <1>1 DEF Start, Job, Pool!Start
<1>16. ASSUME NEW t \in Task, Begin(t) PROVE ExitIsClean'
  BY <1>16, <1>1 DEF Begin, Job, Using, Undefined, GoesOn, Ends
<1>17. ASSUME NEW t \in Task, Check(t) PROVE ExitIsClean'
  BY <1>17, <1>1 DEF Check, Job, Using, Undefined, GoesOn, Ends
<1>18. ASSUME NEW t \in Task, Work(t) PROVE ExitIsClean'
  BY <1>18, <1>1 DEF Work, Job, Using, Undefined, GoesOn, Ends
<1>19. ASSUME NEW t \in Task, Finish(t) PROVE ExitIsClean'
  BY <1>19, <1>1 DEF Finish, Job, GivesUp, Pool!Finish
<1>20. CASE Restart
  BY <1>20, <1>1 DEF Restart
<1>abort. CASE PoolAborts \/ \E t \in Task : TaskAborts(t)
  BY <1>abort, <1>1 DEF PoolAborts, TaskAborts, Pool!Abort, Ends
<1>21. CASE UNCHANGED << ended, story, server, conn_pool, keys, running, mode, listen_socket >>
  BY <1>21, <1>1
<1> QED
  BY <1>abort, <1>2, <1>3, <1>4, <1>5, <1>6, <1>7, <1>8, <1>9, <1>10, <1>11, <1>12, <1>13, <1>14,
      <1>15,
     <1>16, <1>17, <1>18, <1>19, <1>20, <1>21
  DEF Next, MainStep, HandlerStep, Enter, Unblock, JobStep,
      Over, vars, Wake, Serve, Lock, Main, HandlerEnds,
      Handler, Resumes, Connect, Leave, Expire

\* A client that is connected when the process ends may cost the port.
LEMMA PortStep ==
    ASSUME EndType, PortInv, [Next]_vars
    PROVE  PortInv'
<1> USE DEF PortInv, PortExplained, handlerVars, partVars, netVars, jobVars, poolVars, histVars
<1>1. CASE NoConf
  BY <1>1 DEF NoConf, Main, Ends
<1>2. CASE NoSocket \/ Construct
  BY <1>2 DEF NoSocket, Construct, Main, Made
<1>3. CASE Enter \/ Wake \/ Serve \/ Lock
  BY <1>3 DEF Enter, Wake, Serve, Lock, Main
<1>4. CASE Return
  BY <1>4 DEF Return, Main, Ends
<1>5. CASE Stray
  <2>1. listen_socket' = listen_socket
    BY <1>5 DEF Stray
  <2>2. (UNCHANGED << lingering, cut >>) \/ Ends("abort")
    BY <1>5 DEF Stray, Undefined, GoesOn
  <2> QED BY <2>1, <2>2 DEF Ends
<1>6. CASE FreeKeys
  BY <1>6 DEF FreeKeys, Handler, Using, Undefined, GoesOn, Ends
<1>7. CASE CloseServer
  BY <1>7 DEF CloseServer, Handler, GoesOn, Ends
<1>8. CASE SignalAgain
  BY <1>8 DEF SignalAgain, Ends
<1>9. ASSUME NEW t \in Task, Begin(t) PROVE PortInv'
  BY <1>9 DEF Begin, Job, Using, Undefined, GoesOn, Ends
<1>10. ASSUME NEW t \in Task, Check(t) PROVE PortInv'
  BY <1>10 DEF Check, Job, Using, Undefined, GoesOn, Ends
<1>11. ASSUME NEW t \in Task, Work(t) PROVE PortInv'
  BY <1>11 DEF Work, Job, Using, Undefined, GoesOn, Ends
<1>12. CASE Connect \/ Leave \/ Expire
  BY <1>12 DEF Connect, Leave, Expire
<1>13. CASE Restart
  BY <1>13 DEF Restart
<1>abort. CASE PoolAborts \/ \E t \in Task : TaskAborts(t)
  BY <1>abort DEF PoolAborts, TaskAborts, Pool!Abort, Ends
<1>14. CASE UNCHANGED << lingering, cut, listen_socket >>
  BY <1>14
<1> QED
  BY <1>abort, <1>1, <1>2, <1>3, <1>4, <1>5, <1>6, <1>7, <1>8, <1>9, <1>10, <1>11, <1>12, <1>13,
      <1>14
  DEF Next, MainStep, HandlerStep, Enter, Unblock, JobStep,
      Over, vars, Add, Main, Pool!Submit, AtEnd,
      ReleasePool, Handler, GivesUp, Shutdown, Pool!Close, Join, FreeServer, HandlerEnds, Resumes,
      Signal, Start, Job, Pool!Start, Finish, Pool!Finish

-------------------------------------------------------------------------------
(* What a stop touches, leaves and frees                                   *)

LEMMA InitIInv == Init => IInv
<1> SUFFICES ASSUME Init PROVE IInv
  OBVIOUS
<1>1. TasksType
  BY DEF Init, Pool!Init, TasksType, AtWork
<1>2. PlaceType
  BY DEF Init, PlaceType, HandlerPlaces
<1>3. EndType
  <2>1. 1 \in 1 .. LivesMax
    BY LifecycleAssumption
  <2> QED BY <2>1 DEF Init, EndType
<1>4. SharesType /\ StoryType
  BY DEF Init, SharesType, StoryType
<1>5. Owned /\ Aborted /\ Gone /\ Kept /\ Staged
  BY DEF Init, Pool!Init, Owned, Aborted, Gone, Kept, Staged, AfterKeys, AfterClose, AfterRelease,
      AfterShutdown
<1>6. BusyTold /\ JobsTold /\ SocketTold
  BY DEF Init, Pool!Init, BusyTold, JobsTold, SocketTold
<1>7. UndefinedExplained /\ ExitIsClean /\ PortInv
  BY DEF Init, UndefinedExplained, ExitIsClean, PortInv, PortExplained
<1> QED BY <1>1, <1>2, <1>3, <1>4, <1>5, <1>6, <1>7, Parts DEF IInv

\* What the handler has passed, what it has not, and what the history says of the place
\* where the signal came: every step keeps that.
THEOREM Invariance == Spec => []IInv
<1>1. IInv /\ [Next]_vars => IInv'
  <2> SUFFICES ASSUME IInv, [Next]_vars PROVE IInv'
    OBVIOUS
  <2>1. TypeOK /\ TasksType /\ PlaceType /\ EndType /\ SharesType /\ StoryType
    BY Parts DEF IInv
  <2>2. /\ Owned /\ Aborted /\ Gone /\ Kept /\ Staged /\ BusyTold /\ JobsTold /\ SocketTold
        /\ UndefinedExplained /\ ExitIsClean /\ PortInv
    BY DEF IInv
  <2>3. TasksType' /\ PlaceType' /\ EndType' /\ StoryType'
    BY <2>1, <2>2, TasksTypeStep, PlaceTypeStep, EndTypeStep, StoryTypeStep
  <2>4. Owned' /\ Aborted' /\ Gone' /\ Kept' /\ Staged'
    BY <2>1, <2>2, OwnedStep, AbortedStep, GoneStep, KeptStep, StagedStep
  <2>5. BusyTold' /\ JobsTold' /\ SocketTold'
    BY <2>1, <2>2, BusyStep, JobsStep, SocketStep
  <2>6. UndefinedExplained' /\ ExitIsClean' /\ PortInv'
    BY <2>1, <2>2, UndefinedStep, ExitStep, PortStep
  <2>7. SharesType'
    <3>1. running' \subseteq Task
      BY <2>3 DEF TasksType, AtWork
    <3> QED BY <3>1, <2>4 DEF Owned, SharesType
  <2> QED BY <2>3, <2>4, <2>5, <2>6, <2>7, Parts
     DEF IInv, TypeOK, TasksType, PlaceType, EndType, SharesType, StoryType
<1> QED BY <1>1, InitIInv, PTL DEF Spec

\* A stop uses nothing that is gone, unless a task was accepted and not finished, main was
\* on its way to epoll_wait or serving an event, or the signal came twice; and a process that
\* uses nothing that is gone is ended only by a return from main, a missing configuration or
\* socket, a task, or the manager of the pool (main.cpp:13-24, Server.cpp:32-44,
\* ThreadPool.hpp:150-153, 217-219).
THEOREM UseExplained == Spec => []UndefinedExplained
<1>1. IInv => UndefinedExplained
  BY DEF IInv
<1> QED BY <1>1, Invariance, PTL

\* The connection pool stays as long as a task has it, and the memory of the server as
\* long as there is a task (TcpServer.h:82-83, ThreadPool.hpp:69-79).
THEOREM GoesInTime == Spec => []NothingGoesEarly
<1>1. IInv => NothingGoesEarly
  BY DEF IInv, Owned, Gone, NothingGoesEarly
<1> QED BY <1>1, Invariance, PTL

\* Main returns from a stop when pools, threads, keys and socket are gone
\* (main.cpp:13-20, TcpServer.cpp:76-79).
THEOREM ReturnsClean == Spec => []ExitIsClean
<1>1. IInv => ExitIsClean
  BY DEF IInv
<1> QED BY <1>1, Invariance, PTL

\* The port is lost only to a client that was connected when an earlier process ended
\* (TcpServer.cpp:18, 29).
THEOREM PortKept == Spec => []PortExplained
<1>1. IInv => PortExplained
  BY DEF IInv, PortInv
<1> QED BY <1>1, Invariance, PTL
==============================================================================
