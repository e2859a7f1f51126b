----------------------------- MODULE MCEventLoop -----------------------------
(* One client with two connections: it may do whatever two clients may.      *)
EXTENDS EventLoop, TLC

CONSTANTS c1, s1, s2, k1, k2, w1, w2

MCClient == {c1}
MCSock == {s1, s2}
MCKey == {k1, k2}
MCWorker == {w1, w2}
MCOwner == [s \in MCSock |-> c1]

\* How much is sent on each connection: as much on both, or less on the second.
One == [s \in MCSock |-> 1]
Two == [s \in MCSock |-> 2]
TwoAndOne == [s \in MCSock |-> IF s = s1 THEN 2 ELSE 1]
ThreeAndTwo == [s \in MCSock |-> IF s = s1 THEN 3 ELSE 2]

\* The keys are alike, and so are the workers.
Alike == { q @@ r : q \in Permutations(MCKey), r \in Permutations(MCWorker) }

OneKey == {k1}
OneWorker == {w1}
===============================================================================
