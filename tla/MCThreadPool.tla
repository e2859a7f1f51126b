---------------------------- MODULE MCThreadPool ----------------------------
(* Small pools for TLC.                                                     *)
EXTENDS ThreadPool, TLC

CONSTANTS t1, t2, t3, w1, w2, w3

TwoTasks == {t1, t2}
ThreeTasks == {t1, t2, t3}
TwoThreads == {w1, w2}
ThreeThreads == {w1, w2, w3}
NoneThrows == {}
OneThrows == {t1}

\* Two tasks that are more urgent than the third.
MCPriority == [t \in Task |-> IF t = t1 THEN 2 ELSE 1]

\* The workers are interchangeable; used by the runs that check no liveness.
ThreadSymmetry == Permutations(Threads)
=============================================================================
