---------------------------- MODULE MCSqlConnPool ----------------------------
(* Small connection pools for TLC.                                          *)
EXTENDS SqlConnPool, TLC

CONSTANTS c1, c2, c3, s1, s2, s3, s4, s5

TwoClients == {c1, c2}
ThreeClients == {c1, c2, c3}
ThreeConns == {s1, s2, s3}
FourConns == {s1, s2, s3, s4}
FiveConns == {s1, s2, s3, s4, s5}
NoFaults == {}
BothFaults == {"connect", "freeRes"}

\* Clients and connections are interchangeable; for the runs without liveness.
Symmetry == Permutations(Client) \cup Permutations(Conn)
==============================================================================
