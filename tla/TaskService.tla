----------------------------- MODULE TaskService -----------------------------
(***************************************************************************)
(* What the pool of ThreadPool/ThreadPool.hpp promises to the code that     *)
(* hands it work (Server::haveNewClientMsg): a task given to addTask is     *)
(* started at most once, tasks start in the order in which Place lines them *)
(* up, no more than Capacity of them run at a time, and a task that started *)
(* either finishes or takes the whole process down.  Nothing is promised    *)
(* for the tasks still waiting when the pool is closed.                     *)
(***************************************************************************)
EXTENDS Naturals, Sequences, FiniteSets

CONSTANTS
    Task,           \* the tasks that may be submitted, each at most once
    Place(_, _),    \* where a task goes among those that wait: the kind of the queue
    Capacity        \* how many tasks may run at the same time

VARIABLES
    waiting,    \* accepted tasks that have not started, the next one first
    running,    \* tasks that have started and not finished
    done,       \* tasks that have finished
    mode        \* "open", "closed" (no task is accepted) or "aborted"

vars == << waiting, running, done, mode >>

Known == { waiting[i] : i \in DOMAIN waiting } \cup running \cup done

Init ==
    /\ waiting = << >>
    /\ running = {}
    /\ done = {}
    /\ mode = "open"

Submit(t) ==
    /\ mode = "open"
    /\ t \in Task \ Known
    /\ waiting' = Place(waiting, t)
    /\ UNCHANGED << running, done, mode >>

\* A worker may still start a task for a moment after the close.
Start ==
    /\ mode # "aborted"
    /\ waiting # << >>
    /\ Cardinality(running) < Capacity
    /\ waiting' = Tail(waiting)
    /\ running' = running \cup {Head(waiting)}
    /\ UNCHANGED << done, mode >>

Finish(t) ==
    /\ mode # "aborted"
    /\ t \in running
    /\ running' = running \ {t}
    /\ done' = done \cup {t}
    /\ UNCHANGED << waiting, mode >>

Close ==
    /\ mode = "open"
    /\ mode' = "closed"
    /\ UNCHANGED << waiting, running, done >>

Abort ==
    /\ mode # "aborted"
    /\ mode' = "aborted"
    /\ UNCHANGED << waiting, running, done >>

Next ==
    \/ \E t \in Task : Submit(t)
    \/ Start
    \/ \E t \in Task : Finish(t)
    \/ Close
    \/ Abort

Spec == Init /\ [][Next]_vars
==============================================================================
