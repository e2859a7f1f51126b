----------------------------- MODULE ConnService -----------------------------
(***************************************************************************)
(* What the pool of database connections promises to the handlers and to    *)
(* the database server: a handler that gets a connection has it to itself   *)
(* until it gives it back, a connection is closed only while nobody has it, *)
(* at most MaxConn connections are in the pool, and before the pool is      *)
(* given up one is closed only while more than MinConn are there.  A        *)
(* connection is never forgotten: it is free, or with a handler, until it   *)
(* is closed.                                                              *)
(***************************************************************************)
EXTENDS Naturals, FiniteSets

CONSTANTS
    Client,     \* the threads that run handlers
    Conn,       \* the connections
    NoConn,     \* no connection
    MinConn,    \* the connections the pool keeps
    MaxConn     \* the most it ever has

VARIABLES
    free,   \* connections nobody has
    held,   \* the connection of each client
    mode    \* "open", "closing" (no client asks any more) or "aborted"

vars == << free, held, mode >>

Pooled == free \cup ({ held[c] : c \in Client } \ {NoConn})

Init ==
    /\ free = {}
    /\ held = [c \in Client |-> NoConn]
    /\ mode = "open"

\* A new connection enters the pool.
Add ==
    /\ mode # "aborted"
    /\ Cardinality(Pooled) < MaxConn
    /\ \E s \in Conn \ Pooled : free' = free \cup {s}
    /\ UNCHANGED << held, mode >>

Drop ==
    /\ mode # "aborted"
    /\ mode = "open" => Cardinality(Pooled) > MinConn
    /\ \E s \in free : free' = free \ {s}
    /\ UNCHANGED << held, mode >>

Acquire(c) ==
    /\ mode = "open"
    /\ held[c] = NoConn
    /\ \E s \in free : free' = free \ {s} /\ held' = [held EXCEPT ![c] = s]
    /\ UNCHANGED mode

Release(c) ==
    /\ mode = "open"
    /\ held[c] # NoConn
    /\ free' = free \cup {held[c]}
    /\ held' = [held EXCEPT ![c] = NoConn]
    /\ UNCHANGED mode

Close ==
    /\ mode = "open"
    /\ \A c \in Client : held[c] = NoConn
    /\ mode' = "closing"
    /\ UNCHANGED << free, held >>

\* The process ends: the connection being added may already be in the pool.
Abort ==
    /\ mode # "aborted"
    /\ mode' = "aborted"
    /\ \/ UNCHANGED free
       \/ \E s \in Conn \ Pooled : Cardinality(Pooled) < MaxConn /\ free' = free \cup {s}
    /\ UNCHANGED held

Next ==
    \/ Add \/ Drop \/ Close \/ Abort
    \/ \E c \in Client : Acquire(c) \/ Release(c)

Spec == Init /\ [][Next]_vars
==============================================================================
