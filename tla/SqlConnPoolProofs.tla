--------------------------- MODULE SqlConnPoolProofs ---------------------------
(***************************************************************************)
(* For any number of handlers and connections, and any limits.  First: a     *)
(* thread that got through the semaphore of SqlConnSet finds a connection,   *)
(* and no connection has two users.  Then: size counts the open connections, *)
(* none is lost, the pool stays within its limits, and it does what          *)
(* ConnService promises.                                                   *)
(***************************************************************************)
EXTENDS SqlConnPool, FiniteSetTheorems, TLAPS

-------------------------------------------------------------------------------
(* The queue as a sequence without repetition                              *)

\* Popping the front of a queue without repetitions removes that element.
LEMMA PopFacts ==
    ASSUME NEW q \in Seq(Conn), q # << >>, Distinct(q)
    PROVE  /\ Head(q) \in Conn /\ Tail(q) \in Seq(Conn)
           /\ Len(q) \in Nat /\ Len(q) > 0 /\ Len(Tail(q)) = Len(q) - 1
           /\ Distinct(Tail(q))
           /\ Head(q) \in Members(q)
           /\ Members(Tail(q)) = Members(q) \ {Head(q)}
<1>1. /\ Head(q) \in Conn /\ Tail(q) \in Seq(Conn) /\ Len(q) \in Nat /\ Len(q) > 0
      /\ Len(Tail(q)) = Len(q) - 1 /\ Head(q) = q[1]
  OBVIOUS
<1>2. /\ DOMAIN q = 1 .. Len(q) /\ DOMAIN Tail(q) = 1 .. Len(q) - 1
      /\ \A j \in 1 .. Len(q) - 1 : Tail(q)[j] = q[j + 1]
  OBVIOUS
<1>3. Distinct(Tail(q))
  <2> SUFFICES ASSUME NEW j \in 1 .. Len(q) - 1, NEW k \in 1 .. Len(q) - 1, j # k
               PROVE  Tail(q)[j] # Tail(q)[k]
    BY <1>2 DEF Distinct
  <2>1. j + 1 \in 1 .. Len(q) /\ k + 1 \in 1 .. Len(q) /\ j + 1 # k + 1
    BY <1>1
  <2>2. q[j + 1] # q[k + 1]
    BY <2>1, <1>2 DEF Distinct
  <2> QED BY <2>2, <1>2
<1>4. Head(q) \in Members(q)
  BY <1>1, <1>2 DEF Members
<1>5. Members(Tail(q)) \subseteq Members(q) \ {Head(q)}
  <2> SUFFICES ASSUME NEW j \in 1 .. Len(q) - 1
               PROVE  Tail(q)[j] \in Members(q) /\ Tail(q)[j] # Head(q)
    BY <1>2 DEF Members
  <2>1. j + 1 \in 1 .. Len(q) /\ 1 \in 1 .. Len(q) /\ j + 1 # 1
    BY <1>1
  <2>2. q[j + 1] # q[1]
    BY <2>1, <1>2 DEF Distinct
  <2> QED BY <2>1, <2>2, <1>1, <1>2 DEF Members
<1>6. Members(q) \ {Head(q)} \subseteq Members(Tail(q))
  <2> SUFFICES ASSUME NEW j \in 1 .. Len(q), q[j] # q[1]
               PROVE  q[j] \in Members(Tail(q))
    BY <1>1, <1>2 DEF Members
  <2>1. j - 1 \in 1 .. Len(q) - 1 /\ Tail(q)[j - 1] = q[j]
    BY <1>1, <1>2
  <2> QED BY <2>1, <1>2 DEF Members
<1> QED BY <1>1, <1>3, <1>4, <1>5, <1>6

\* Pushing a new element at the back keeps it free of repetitions.
LEMMA PushFacts ==
    ASSUME NEW q \in Seq(Conn), NEW s \in Conn, Distinct(q), s \notin Members(q)
    PROVE  /\ Append(q, s) \in Seq(Conn)
           /\ Len(q) \in Nat /\ Len(Append(q, s)) = Len(q) + 1
           /\ Distinct(Append(q, s))
           /\ Members(Append(q, s)) = Members(q) \cup {s}
<1> DEFINE r == Append(q, s)
<1>1. r \in Seq(Conn) /\ Len(q) \in Nat /\ Len(r) = Len(q) + 1
  OBVIOUS
<1>2. /\ DOMAIN q = 1 .. Len(q) /\ DOMAIN r = 1 .. Len(q) + 1
      /\ \A j \in 1 .. Len(q) : r[j] = q[j]
      /\ r[Len(q) + 1] = s
  OBVIOUS
<1> HIDE DEF r
<1>3. Distinct(r)
  <2> SUFFICES ASSUME NEW j \in 1 .. Len(q) + 1, NEW k \in 1 .. Len(q) + 1, j # k
               PROVE  r[j] # r[k]
    BY <1>2 DEF Distinct
  <2>1. \A l \in 1 .. Len(q) : q[l] # s
    BY <1>2 DEF Members
  <2>2. CASE j \in 1 .. Len(q) /\ k \in 1 .. Len(q)
    BY <2>2, <1>2 DEF Distinct
  <2>3. CASE j = Len(q) + 1
    <3>1. k \in 1 .. Len(q)
      BY <2>3, <1>1
    <3> QED BY <3>1, <2>1, <2>3, <1>2
  <2>4. CASE k = Len(q) + 1
    <3>1. j \in 1 .. Len(q)
      BY <2>4, <1>1
    <3> QED BY <3>1, <2>1, <2>4, <1>2
  <2> QED BY <2>2, <2>3, <2>4, <1>1
<1>4. Members(r) = Members(q) \cup {s}
  <2>1. 1 .. Len(q) + 1 = (1 .. Len(q)) \cup {Len(q) + 1}
    BY <1>1
  <2> QED BY <2>1, <1>2 DEF Members
<1> QED BY <1>1, <1>3, <1>4 DEF r

-------------------------------------------------------------------------------
(* Threads between the semaphore and the lock                              *)

NClients == Cardinality(Popping)

\* One client's step changes their number by what it enters and leaves.
LEMMA ClientMoves ==
    ASSUME TypeOK, NEW c \in Client, NEW from, NEW to \in {"idle", "wait", "pop", "use"},
           GoC(c, from, to)
    PROVE  /\ NClients \in Nat /\ NClients' \in Nat
           /\ NClients' = NClients + (IF to = "pop" THEN 1 ELSE 0) - (IF from = "pop" THEN 1 ELSE 0)
<1>1. IsFiniteSet(Popping)
  BY ConnAssumption, FS_Subset DEF Popping
<1>2. NClients \in Nat
  BY <1>1, FS_CardinalityType DEF NClients
<1>3. CASE to = "pop" /\ from # "pop"
  <2>1. Popping' = Popping \cup {c} /\ c \notin Popping
    BY <1>3 DEF Popping, GoC, TypeOK
  <2> QED BY <2>1, <1>1, <1>2, <1>3, FS_AddElement DEF NClients
<1>4. CASE to # "pop" /\ from = "pop"
  <2>1. Popping' = Popping \ {c} /\ c \in Popping
    BY <1>4 DEF Popping, GoC, TypeOK
  <2>2. IsFiniteSet(Popping') /\ NClients' = NClients - 1
    BY <2>1, <1>1, FS_RemoveElement DEF NClients
  <2>3. NClients' \in Nat
    BY <2>2, FS_CardinalityType DEF NClients
  <2> QED BY <2>2, <2>3, <1>2, <1>4
<1>5. CASE (to = "pop") <=> (from = "pop")
  <2>1. Popping' = Popping
    BY <1>5 DEF Popping, GoC, TypeOK
  <2> QED BY <2>1, <1>2, <1>5 DEF NClients
<1> QED BY <1>3, <1>4, <1>5

LEMMA ClientsInt == NClients \in Nat
<1>1. IsFiniteSet(Popping)
  BY ConnAssumption, FS_Subset DEF Popping
<1> QED BY <1>1, FS_CardinalityType DEF NClients

LEMMA ClientsStay ==
    ASSUME cpc' = cpc
    PROVE  NClients' = NClients
BY DEF NClients, Popping

-------------------------------------------------------------------------------
(* The inductive invariant                                                 *)

LEMMA InitIInv == Init => IInv
<1> SUFFICES ASSUME Init PROVE IInv
  OBVIOUS
<1>1. TypeOK
  <2>1. /\ sql_queue \in Seq(Conn) /\ cpc \in [Client -> {"idle", "wait", "pop", "use"}]
        /\ conn \in [Client -> Conn \cup {NoConn}] /\ requests \in [Client -> Nat]
    BY NumbersAssumption DEF Init
  <2>2. idle \in BOOLEAN /\ is_running \in BOOLEAN /\ terminated \in BOOLEAN
    BY Zenon DEF Init
  <2>3. mpc \in MonitorPCs
    BY DEF Init, MonitorPCs
  <2> QED BY <2>1, <2>2, <2>3 DEF Init, TypeOK
<1>2. NPopping = 0
  <2>1. Popping = {}
    BY DEF Init, Popping
  <2> QED BY <2>1, FS_EmptySet DEF Init, NPopping
<1>3. Len(sql_queue) = 0 /\ QueuedConns = {} /\ Distinct(sql_queue)
  BY DEF Init, QueuedConns, Members, Distinct
<1>4. Users = {}
  BY DEF Init, Users
<1> QED BY <1>1, <1>2, <1>3, <1>4 DEF Init, IInv, TokenPerConn, OneUser, QueuedOpen

\* A thread past the semaphore pops a connection that nobody uses.
LEMMA PopStep ==
    ASSUME IInv, NPopping >= 1, PopConn
    PROVE  /\ sql_queue # << >> /\ UNCHANGED << available_num, terminated >>
           /\ Head(sql_queue) \in Conn /\ Head(sql_queue) \in open /\ Head(sql_queue) # mconn
           /\ \A c \in Users : conn[c] # Head(sql_queue)
           /\ sql_queue' \in Seq(Conn) /\ av_num' \in Int
           /\ Len(sql_queue) \in Nat /\ Len(sql_queue') = Len(sql_queue) - 1
           /\ Distinct(sql_queue')
           /\ QueuedConns' = QueuedConns \ {Head(sql_queue)}
<1>1. sql_queue \in Seq(Conn) /\ av_num \in Int /\ available_num \in Nat /\ Distinct(sql_queue)
  BY DEF IInv, TypeOK, OneUser
<1>2. sql_queue # << >>
  <2> SUFFICES ASSUME sql_queue = << >> PROVE FALSE
    OBVIOUS
  <2>1. Len(sql_queue) = 0
    OBVIOUS
  <2>2. available_num + NPopping = Len(sql_queue)
    BY DEF IInv, TokenPerConn
  <2>3. NPopping \in Int
    BY ClientsInt DEF NPopping, NClients
  <2> QED BY <2>1, <2>2, <2>3, <1>1
<1>3. /\ Head(sql_queue) \in QueuedConns /\ Members(Tail(sql_queue)) = QueuedConns \ {Head(sql_queue)}
      /\ Head(sql_queue) \in Conn /\ Tail(sql_queue) \in Seq(Conn) /\ Distinct(Tail(sql_queue))
      /\ Len(sql_queue) \in Nat /\ Len(Tail(sql_queue)) = Len(sql_queue) - 1
  BY <1>1, <1>2, PopFacts DEF QueuedConns
<1>4. sql_queue' = Tail(sql_queue) /\ av_num' = av_num - 1 /\ UNCHANGED << available_num, terminated >>
  BY <1>2 DEF PopConn
<1>5. QueuedConns' = QueuedConns \ {Head(sql_queue)}
  BY <1>3, <1>4 DEF QueuedConns
<1>6. Head(sql_queue) \in open /\ Head(sql_queue) # mconn /\ \A c \in Users : conn[c] # Head(sql_queue)
  BY <1>3 DEF IInv, OneUser, QueuedOpen
<1> QED BY <1>1, <1>2, <1>3, <1>4, <1>5, <1>6

\* A connection pushed back is one that was not queued.
LEMMA PushStep ==
    ASSUME IInv, NEW s \in Conn, s \notin QueuedConns, PushConn(s)
    PROVE  /\ sql_queue' \in Seq(Conn) /\ av_num' \in Int /\ available_num' = available_num + 1
           /\ Len(sql_queue) \in Nat /\ Len(sql_queue') = Len(sql_queue) + 1
           /\ Distinct(sql_queue')
           /\ QueuedConns' = QueuedConns \cup {s}
BY PushFacts DEF PushConn, QueuedConns, IInv, TypeOK, OneUser

-------------------------------------------------------------------------------
(* One lemma per actor: every step keeps the invariant                     *)

\* The handlers' threads.
LEMMA ClientStep ==
    ASSUME IInv, NEW c \in Client, Request(c) \/ Handler(c)
    PROVE  IInv'
<1>1. CASE Request(c)
  <2>1. NClients' = NClients
    BY <1>1, ClientMoves DEF Request, IInv
  <2>2. TypeOK'
    <3>1. requests' \in [Client -> Nat] /\ cpc' \in [Client -> {"idle", "wait", "pop", "use"}]
      BY <1>1 DEF Request, GoC, IInv, TypeOK
    <3> QED BY <3>1, <1>1 DEF Request, setVars, monitorVars, closerVars, IInv, TypeOK
  <2>3. Users' = Users
    BY <1>1 DEF Request, GoC, Users, IInv, TypeOK
  <2>4. UNCHANGED << sql_queue, available_num, open, conn, mpc, mconn, dpc >>
    BY <1>1 DEF Request, setVars, monitorVars, closerVars
  <2> QED BY <2>1, <2>2, <2>3, <2>4
          DEF IInv, TokenPerConn, NPopping, NClients, OneUser, QueuedOpen, QueuedConns
<1>2. CASE CTake(c)
  <2>1. NClients \in Nat /\ NClients' = NClients + 1
    BY <1>2, ClientMoves DEF CTake, IInv
  <2>2. TypeOK'
    <3>1. cpc' \in [Client -> {"idle", "wait", "pop", "use"}]
      BY <1>2 DEF CTake, GoC, IInv, TypeOK
    <3>2. available_num' \in Nat
      BY <1>2 DEF CTake, TakeToken, IInv, TypeOK
    <3> QED BY <3>1, <3>2, <1>2 DEF CTake, TakeToken, monitorVars, closerVars, IInv, TypeOK
  <2>3. Users' = Users
    BY <1>2 DEF CTake, GoC, Users, IInv, TypeOK
  <2>4. UNCHANGED << sql_queue, open, conn, mpc, mconn, dpc >> /\ available_num' = available_num - 1
    BY <1>2 DEF CTake, TakeToken, monitorVars, closerVars
  <2>5. TokenPerConn'
    BY <2>1, <2>4 DEF IInv, TypeOK, TokenPerConn, NPopping, NClients
  <2> QED BY <2>2, <2>3, <2>4, <2>5 DEF IInv, OneUser, QueuedOpen, QueuedConns
<1>3. CASE CPop(c)
  <2> DEFINE s == Head(sql_queue)
  <2>1. NClients \in Nat /\ NClients' \in Nat /\ NClients' = NClients - 1
    BY <1>3, ClientMoves DEF CPop, IInv
  <2>2. NPopping >= 1 /\ PopConn
    BY <2>1, <1>3 DEF CPop, NPopping, NClients
  <2>3. /\ sql_queue # << >> /\ UNCHANGED << available_num, terminated >>
        /\ s \in Conn /\ s \in open /\ s # mconn /\ \A d \in Users : conn[d] # s
        /\ sql_queue' \in Seq(Conn) /\ av_num' \in Int
        /\ Len(sql_queue) \in Nat /\ Len(sql_queue') = Len(sql_queue) - 1
        /\ Distinct(sql_queue') /\ QueuedConns' = QueuedConns \ {s}
    BY <2>2, PopStep
  <2>4. /\ conn' = [conn EXCEPT ![c] = s]
        /\ UNCHANGED << size, open, requests, mpc, idle, mconn, is_running, dpc, i >>
        /\ cpc' = [cpc EXCEPT ![c] = "use"]
    BY <2>3, <1>3 DEF CPop, GoC, monitorVars, closerVars
  <2> HIDE DEF s
  <2>5. TypeOK'
    <3>1. cpc' \in [Client -> {"idle", "wait", "pop", "use"}] /\ conn' \in [Client -> Conn \cup {NoConn}]
      BY <2>3, <2>4 DEF IInv, TypeOK
    <3> QED BY <3>1, <2>3, <2>4 DEF IInv, TypeOK
  <2>6. /\ Users' = Users \cup {c} /\ conn'[c] = s
        /\ \A d \in Users \ {c} : conn'[d] = conn[d]
    BY <2>4 DEF Users, IInv, TypeOK
  <2>7. OneUser'
    BY <2>3, <2>4, <2>6 DEF IInv, OneUser
  <2>8. TokenPerConn'
    <3>1. NPopping' = NPopping - 1 /\ NPopping \in Int
      BY <2>1, <2>4 DEF NPopping, NClients
    <3>2. available_num \in Nat /\ available_num' = available_num /\ TokenPerConn
      BY <2>3 DEF IInv, TypeOK
    <3> QED BY <3>1, <3>2, <2>3 DEF TokenPerConn
  <2>9. QueuedOpen'
    BY <2>3, <2>4 DEF IInv, QueuedOpen
  <2> QED BY <2>5, <2>7, <2>8, <2>9 DEF IInv
<1>4. CASE CRelease(c)
  <2> DEFINE s == conn[c]
  <2>1. NClients \in Nat /\ NClients' = NClients
    BY <1>4, ClientMoves DEF CRelease, IInv
  <2>2. c \in Users /\ cpc' = [cpc EXCEPT ![c] = "idle"] /\ conn' = [conn EXCEPT ![c] = NoConn]
    BY <1>4 DEF CRelease, GoC, Users
  <2>3. s \in Conn /\ s \in open /\ s \notin QueuedConns /\ s # mconn
    BY <2>2 DEF IInv, TypeOK, OneUser
  <2>4. /\ sql_queue' \in Seq(Conn) /\ av_num' \in Int /\ available_num' = available_num + 1
        /\ Len(sql_queue) \in Nat /\ Len(sql_queue') = Len(sql_queue) + 1
        /\ Distinct(sql_queue') /\ QueuedConns' = QueuedConns \cup {s}
    BY <2>3, <1>4, PushStep DEF CRelease
  <2>5. UNCHANGED << size, open, requests, mpc, idle, mconn, is_running, dpc, i, terminated >>
    BY <1>4 DEF CRelease, monitorVars, closerVars
  <2>6. TypeOK'
    <3>1. cpc' \in [Client -> {"idle", "wait", "pop", "use"}] /\ conn' \in [Client -> Conn \cup {NoConn}]
      BY <2>2 DEF IInv, TypeOK
    <3>2. available_num' \in Nat
      BY <2>4 DEF IInv, TypeOK
    <3> QED BY <3>1, <3>2, <2>4, <2>5 DEF IInv, TypeOK
  <2>7. Users' = Users \ {c} /\ \A d \in Users' : conn'[d] = conn[d] /\ conn[d] # s
    <3>1. Users' = Users \ {c} /\ \A d \in Users' : conn'[d] = conn[d]
      BY <2>2 DEF Users, IInv, TypeOK
    <3> QED BY <3>1, <2>2 DEF IInv, OneUser
  <2> HIDE DEF s
  <2>8. OneUser'
    BY <2>3, <2>4, <2>5, <2>7 DEF IInv, OneUser
  <2>9. TokenPerConn'
    <3>1. NPopping' = NPopping /\ NPopping \in Int
      BY <2>1, <2>5 DEF NPopping, NClients
    <3>2. available_num \in Nat /\ TokenPerConn
      BY DEF IInv, TypeOK
    <3> QED BY <3>1, <3>2, <2>4 DEF TokenPerConn
  <2>10. QueuedOpen'
    BY <2>3, <2>4, <2>5 DEF IInv, QueuedOpen
  <2> QED BY <2>6, <2>8, <2>9, <2>10 DEF IInv
<1> QED BY <1>1, <1>2, <1>3, <1>4 DEF Handler

\* What a step leaves of the invariant when only the program counters of the
\* monitor and the closer move: the clients and the queue are where they were.
LEMMA QuietStep ==
    ASSUME IInv, TypeOK', UNCHANGED << setVars, open, clientVars, mconn >>,
           mpc' = "pop" <=> mpc = "pop", dpc' = "pop" <=> dpc = "pop", mpc' # "add"
    PROVE  IInv'
<1>1. UNCHANGED << sql_queue, available_num, cpc, conn, open, mconn >>
  BY DEF setVars, clientVars
<1>2. NClients' = NClients
  BY <1>1, ClientsStay
<1>3. TokenPerConn'
  BY <1>1, <1>2 DEF IInv, TokenPerConn, NPopping, NClients
<1>4. OneUser'
  BY <1>1 DEF IInv, OneUser, Users, QueuedConns
<1>5. QueuedOpen'
  BY <1>1 DEF IInv, QueuedOpen, QueuedConns
<1> QED BY <1>3, <1>4, <1>5 DEF IInv

\* The same for a step of the monitor or the closer through the semaphore.
LEMMA TokenStep ==
    ASSUME IInv, TypeOK', TakeToken, UNCHANGED << open, clientVars, mconn >>,
           \/ mpc # "pop" /\ mpc' = "pop" /\ dpc' = dpc
           \/ dpc # "pop" /\ dpc' = "pop" /\ mpc' = mpc
    PROVE  IInv'
<1>1. UNCHANGED << sql_queue, cpc, conn, open, mconn >> /\ available_num' = available_num - 1
  BY DEF TakeToken, clientVars
<1>2. NClients' = NClients /\ NClients \in Nat
  BY <1>1, ClientsStay, ClientsInt
<1>3. TokenPerConn'
  BY <1>1, <1>2 DEF IInv, TypeOK, TokenPerConn, NPopping, NClients
<1>4. OneUser'
  BY <1>1 DEF IInv, OneUser, Users, QueuedConns
<1>5. QueuedOpen'
  BY <1>1 DEF IInv, QueuedOpen, QueuedConns
<1> QED BY <1>3, <1>4, <1>5 DEF IInv

\* The monitor.
LEMMA MonitorStep ==
    ASSUME IInv, Monitor
    PROVE  IInv'
<1> USE DEF MonitorPCs
<1>1. CASE MLoop
  <2>1. TypeOK'
    <3>1. idle' \in BOOLEAN /\ UNCHANGED << is_running, terminated >>
      BY <1>1, Zenon DEF MLoop, closerVars
    <3> QED BY <3>1, <1>1 DEF MLoop, GoM, setVars, clientVars, closerVars, IInv, TypeOK
  <2> QED BY <2>1, <1>1, QuietStep DEF MLoop, GoM, closerVars
<1>2. CASE MCheck
  <2>1. TypeOK'
    BY <1>2 DEF MCheck, GoM, setVars, clientVars, closerVars, IInv, TypeOK
  <2>2. mpc = "check" /\ mpc' \in {"wait", "connect", "sleep"}
    BY <1>2 DEF MCheck, GoM
  <2> QED BY <2>1, <2>2, <1>2, QuietStep DEF MCheck, closerVars
<1>3. CASE MTake
  <2>1. TypeOK'
    <3>1. available_num' \in Nat
      BY <1>3 DEF MTake, TakeToken, IInv, TypeOK
    <3> QED BY <3>1, <1>3 DEF MTake, TakeToken, GoM, clientVars, closerVars, IInv, TypeOK
  <2> QED BY <2>1, <1>3, TokenStep DEF MTake, GoM, closerVars
<1>4. CASE MPop
  <2> DEFINE s == Head(sql_queue)
  <2>1. NClients \in Nat /\ NClients' = NClients /\ mpc = "pop" /\ mpc' = "drop" /\ dpc' = dpc
    BY <1>4, ClientsStay, ClientsInt DEF MPop, GoM, clientVars, closerVars
  <2>2. NPopping >= 1 /\ PopConn
    BY <2>1, <1>4 DEF MPop, NPopping, NClients
  <2>3. /\ sql_queue # << >> /\ UNCHANGED << available_num, terminated >>
        /\ s \in Conn /\ s \in open /\ s # mconn /\ \A d \in Users : conn[d] # s
        /\ sql_queue' \in Seq(Conn) /\ av_num' \in Int
        /\ Len(sql_queue) \in Nat /\ Len(sql_queue') = Len(sql_queue) - 1
        /\ Distinct(sql_queue') /\ QueuedConns' = QueuedConns \ {s}
    BY <2>2, PopStep
  <2>4. mconn' = s /\ UNCHANGED << size, open, cpc, conn, requests, idle, is_running, i >>
    BY <2>3, <1>4 DEF MPop, clientVars, closerVars
  <2> HIDE DEF s
  <2>5. TypeOK'
    BY <2>1, <2>3, <2>4 DEF IInv, TypeOK
  <2>6. OneUser'
    BY <2>3, <2>4 DEF IInv, OneUser, Users
  <2>7. TokenPerConn'
    BY <2>1, <2>3 DEF IInv, TypeOK, TokenPerConn, NPopping, NClients
  <2>8. QueuedOpen'
    BY <2>1, <2>3, <2>4 DEF IInv, QueuedOpen
  <2> QED BY <2>5, <2>6, <2>7, <2>8 DEF IInv
<1>5. CASE MDrop
  <2>1. /\ open' = open \ {mconn} /\ mconn' = NoConn /\ mpc = "drop" /\ mpc' = "sleep"
        /\ UNCHANGED << sql_queue, available_num, cpc, conn, dpc >>
    BY <1>5 DEF MDrop, GoM, setVars, clientVars, closerVars
  <2>2. NClients' = NClients
    BY <2>1, ClientsStay
  <2>3. TypeOK'
    BY <1>5 DEF MDrop, GoM, setVars, clientVars, closerVars, IInv, TypeOK
  <2>4. QueuedConns' = QueuedConns /\ Users' = Users
    BY <2>1 DEF QueuedConns, Users
  <2>5. NoConn \notin open /\ NoConn \notin QueuedConns
    BY ConnAssumption DEF IInv, TypeOK, QueuedOpen
  <2>6. OneUser'
    BY <2>1, <2>4, <2>5 DEF IInv, OneUser
  <2>7. TokenPerConn'
    BY <2>1, <2>2 DEF IInv, TokenPerConn, NPopping, NClients
  <2>8. QueuedOpen'
    BY <2>1, <2>4 DEF IInv, OneUser, QueuedOpen
  <2> QED BY <2>3, <2>6, <2>7, <2>8 DEF IInv
<1>6. CASE MConnect
  <2>1. /\ UNCHANGED << sql_queue, available_num, av_num, size, cpc, conn, requests, idle,
                        is_running, dpc, i >>
        /\ mpc = "connect"
    BY <1>6 DEF MConnect, setVars, clientVars, closerVars
  <2>2. NClients' = NClients
    BY <2>1, ClientsStay
  <2>3. QueuedConns' = QueuedConns /\ Users' = Users
    BY <2>1 DEF QueuedConns, Users
  <2>4. CASE terminated' = TRUE /\ UNCHANGED << mpc, open, mconn >>
    <3>1. TypeOK'
      <4>1. terminated' \in BOOLEAN
        BY <2>4, Zenon
      <4> QED BY <4>1, <2>1, <2>4 DEF IInv, TypeOK
    <3>2. OneUser'
      BY <2>1, <2>3, <2>4 DEF IInv, OneUser
    <3>3. TokenPerConn'
      BY <2>1, <2>2, <2>4 DEF IInv, TokenPerConn, NPopping, NClients
    <3>4. QueuedOpen'
      BY <2>3, <2>4 DEF IInv, QueuedOpen
    <3> QED BY <3>1, <3>2, <3>3, <3>4 DEF IInv
  <2>5. ASSUME NEW s \in Conn \ open, mpc' = "add", open' = open \cup {s}, mconn' = s,
               UNCHANGED terminated
        PROVE  IInv'
    <3>1. TypeOK'
      BY <2>1, <2>5 DEF IInv, TypeOK
    <3>2. OneUser'
      BY <2>1, <2>3, <2>5 DEF IInv, OneUser, QueuedOpen
    <3>3. TokenPerConn'
      BY <2>1, <2>2, <2>5 DEF IInv, TokenPerConn, NPopping, NClients
    <3>4. QueuedOpen'
      BY <2>3, <2>5 DEF IInv, QueuedOpen
    <3> QED BY <3>1, <3>2, <3>3, <3>4 DEF IInv
  <2> QED BY <1>6, <2>4, <2>5 DEF MConnect
<1>7. CASE MAdd
  <2>1. /\ mpc = "add" /\ mpc' = "sizeUp" /\ mconn' = NoConn
        /\ UNCHANGED << size, open, cpc, conn, requests, idle, is_running, dpc, i >>
    BY <1>7 DEF MAdd, GoM, clientVars, closerVars
  <2>2. mconn \in Conn /\ mconn \in open /\ mconn \notin QueuedConns
    BY <2>1 DEF IInv, TypeOK, OneUser, QueuedOpen
  <2>3. /\ sql_queue' \in Seq(Conn) /\ av_num' \in Int /\ available_num' = available_num + 1
        /\ Len(sql_queue) \in Nat /\ Len(sql_queue') = Len(sql_queue) + 1
        /\ Distinct(sql_queue') /\ QueuedConns' = QueuedConns \cup {mconn}
    BY <2>2, <1>7, PushStep DEF MAdd
  <2>4. NClients' = NClients /\ NClients \in Nat /\ Users' = Users
    BY <2>1, ClientsStay, ClientsInt DEF Users
  <2>5. TypeOK'
    <3>1. available_num' \in Nat
      BY <2>3 DEF IInv, TypeOK
    <3>2. terminated' \in BOOLEAN
      BY <1>7, Zenon DEF MAdd
    <3> QED BY <3>1, <3>2, <2>1, <2>3 DEF IInv, TypeOK
  <2>6. OneUser'
    <3>1. NoConn \notin open /\ NoConn \notin QueuedConns'
      BY <2>2, <2>3, ConnAssumption DEF IInv, TypeOK, QueuedOpen
    <3> QED BY <3>1, <2>1, <2>3, <2>4 DEF IInv, OneUser
  <2>7. TokenPerConn'
    BY <2>1, <2>3, <2>4 DEF IInv, TypeOK, TokenPerConn, NPopping, NClients
  <2>8. QueuedOpen'
    BY <2>1, <2>2, <2>3 DEF IInv, QueuedOpen
  <2> QED BY <2>5, <2>6, <2>7, <2>8 DEF IInv
<1>8. CASE MSizeUp
  <2>1. TypeOK'
    BY <1>8 DEF MSizeUp, GoM, setVars, clientVars, closerVars, IInv, TypeOK
  <2> QED BY <2>1, <1>8, QuietStep DEF MSizeUp, GoM, closerVars
<1>9. CASE MSleep
  <2>1. TypeOK'
    BY <1>9 DEF MSleep, GoM, setVars, clientVars, closerVars, IInv, TypeOK
  <2> QED BY <2>1, <1>9, QuietStep DEF MSleep, GoM, closerVars
<1> QED BY <1>1, <1>2, <1>3, <1>4, <1>5, <1>6, <1>7, <1>8, <1>9 DEF Monitor

\* The thread that gives the pool up.
LEMMA CloserStep ==
    ASSUME IInv, GiveUp \/ Closer
    PROVE  IInv'
<1>1. ASSUME TypeOK', UNCHANGED << setVars, open, clientVars, monitorVars >>,
             dpc' = "pop" <=> dpc = "pop"
      PROVE  IInv'
  <2>1. UNCHANGED << sql_queue, available_num, cpc, conn, open, mconn, mpc >>
    BY <1>1 DEF setVars, clientVars, monitorVars
  <2>2. NClients' = NClients
    BY <2>1, ClientsStay
  <2>3. TokenPerConn'
    BY <2>1, <2>2, <1>1 DEF IInv, TokenPerConn, NPopping, NClients
  <2>4. OneUser'
    BY <2>1 DEF IInv, OneUser, Users, QueuedConns
  <2>5. QueuedOpen'
    BY <2>1 DEF IInv, QueuedOpen, QueuedConns
  <2> QED BY <1>1, <2>3, <2>4, <2>5 DEF IInv
<1>2. CASE GiveUp
  <2>1. TypeOK'
    <3>1. is_running' \in BOOLEAN
      BY <1>2, Zenon DEF GiveUp
    <3> QED BY <3>1, <1>2 DEF GiveUp, GoD, setVars, clientVars, monitorVars, IInv, TypeOK
  <2> QED BY <2>1, <1>1, <1>2 DEF GiveUp, GoD
<1>3. CASE DLoop
  <2>1. TypeOK'
    BY <1>3 DEF DLoop, GoD, setVars, clientVars, monitorVars, IInv, TypeOK
  <2>2. dpc = "loop" /\ dpc' \in {"wait", "join"}
    BY <1>3 DEF DLoop, GoD
  <2> QED BY <2>1, <2>2, <1>1, <1>3 DEF DLoop
<1>4. CASE DTake
  <2>1. TypeOK'
    <3>1. available_num' \in Nat
      BY <1>4 DEF DTake, TakeToken, IInv, TypeOK
    <3> QED BY <3>1, <1>4 DEF DTake, TakeToken, GoD, clientVars, monitorVars, IInv, TypeOK
  <2> QED BY <2>1, <1>4, TokenStep DEF DTake, GoD, monitorVars
<1>5. CASE DPop
  <2> DEFINE s == Head(sql_queue)
  <2>1. NClients \in Nat /\ NClients' = NClients /\ dpc = "pop" /\ dpc' = "loop" /\ mpc' = mpc
    BY <1>5, ClientsStay, ClientsInt DEF DPop, GoD, clientVars, monitorVars
  <2>2. NPopping >= 1 /\ PopConn
    BY <2>1, <1>5 DEF DPop, NPopping, NClients
  <2>3. /\ sql_queue # << >> /\ UNCHANGED << available_num, terminated >>
        /\ s \in Conn /\ s \in open /\ s # mconn /\ \A d \in Users : conn[d] # s
        /\ sql_queue' \in Seq(Conn) /\ av_num' \in Int
        /\ Len(sql_queue) \in Nat /\ Len(sql_queue') = Len(sql_queue) - 1
        /\ Distinct(sql_queue') /\ QueuedConns' = QueuedConns \ {s}
    BY <2>2, PopStep
  <2>4. /\ open' = open \ {s} /\ i' = i + 1
        /\ UNCHANGED << size, cpc, conn, requests, idle, mconn, is_running >>
    BY <2>3, <1>5 DEF DPop, clientVars, monitorVars
  <2> HIDE DEF s
  <2>5. TypeOK'
    BY <2>1, <2>3, <2>4 DEF IInv, TypeOK
  <2>6. OneUser'
    <3>1. Users' = Users
      BY <2>4 DEF Users
    <3> QED BY <3>1, <2>3, <2>4 DEF IInv, OneUser
  <2>7. TokenPerConn'
    <3>1. NPopping' = NPopping - 1 /\ NPopping \in Int
      BY <2>1 DEF NPopping, NClients
    <3>2. available_num \in Nat /\ available_num' = available_num /\ TokenPerConn
      BY <2>3 DEF IInv, TypeOK
    <3> QED BY <3>1, <3>2, <2>3 DEF TokenPerConn
  <2>8. QueuedOpen'
    BY <2>1, <2>3, <2>4 DEF IInv, QueuedOpen
  <2> QED BY <2>5, <2>6, <2>7, <2>8 DEF IInv
<1>6. CASE DJoin
  <2>1. TypeOK'
    BY <1>6 DEF DJoin, GoD, setVars, clientVars, monitorVars, IInv, TypeOK
  <2> QED BY <2>1, <1>1, <1>6 DEF DJoin, GoD
<1> QED BY <1>2, <1>3, <1>4, <1>5, <1>6 DEF Closer

LEMMA StutterStep ==
    ASSUME IInv, UNCHANGED vars
    PROVE  IInv'
BY DEF vars, IInv, TypeOK, TokenPerConn, NPopping, Popping, OneUser, Users, QueuedOpen, QueuedConns

-------------------------------------------------------------------------------
(* The theorems                                                            *)

\* The inductive invariant: the queue, the semaphore and the threads between
\* them agree, and each connection is in one place (SqlConnSet::acquire, release).
THEOREM Invariance == Spec => []IInv
<1>1. IInv /\ [Next]_vars => IInv'
  BY ClientStep, MonitorStep, CloserStep, StutterStep DEF Next, Ended
<1> QED BY InitIInv, <1>1, PTL DEF Spec

\* Every variable keeps its type; in particular the semaphore is never negative.
THEOREM TypeCorrect == Spec => []TypeOK
<1>1. IInv => TypeOK
  BY DEF IInv
<1> QED BY <1>1, Invariance, PTL

\* Every token, free or taken by a thread that has not reached the lock, stands
\* for one queued connection: SqlConnSet::acquire finds one after its sem_wait.
THEOREM Tokens == Spec => []TokenPerConn
<1>1. IInv => TokenPerConn
  BY DEF IInv
<1> QED BY <1>1, Invariance, PTL

\* No two handlers, nor a handler and the monitor, hold one connection, and the
\* one a handler uses is open (MySqlConnGuardPtr, monitorFunc).
THEOREM Exclusive == Spec => []OneUser
<1>1. IInv => OneUser
  BY DEF IInv
<1> QED BY <1>1, Invariance, PTL

-------------------------------------------------------------------------------
(* The size, the limits, and what ConnService promises                       *)

Holding == { conn[c] : c \in Users }
Adding == IF mpc \in {"add", "sizeUp"} THEN 1 ELSE 0

\* The invariant of this part, on top of IInv.
JInv == CInv /\ SizeExact /\ AbortExplained

LEMMA InitJInv == Init => JInv
<1> SUFFICES ASSUME Init PROVE JInv
  OBVIOUS
<1>1. Users = {} /\ QueuedConns = {} /\ Cardinality(open) = 0
  BY FS_EmptySet DEF Init, Users, QueuedConns, Members
<1> QED BY <1>1, NumbersAssumption, Zenon, SMT DEF Init, JInv, CInv, SizeExact, AbortExplained

\* The part of the invariant about the size follows when neither the open
\* connections, nor size, nor the monitor moves.
LEMMA SizesStay ==
    ASSUME JInv, UNCHANGED << size, open, mpc, mconn, terminated >>, dpc = "none" \/ dpc' # "none"
    PROVE  /\ SizeExact' /\ AbortExplained'
           /\ mconn' # NoConn <=> mpc' \in {"drop", "add"}
           /\ size' \in Nat /\ size' <= MaxConn
           /\ mpc' \in {"connect", "add", "sizeUp"} => size' < MaxConn
           /\ Cardinality(open') <= size' + (IF mpc' \in {"add", "sizeUp"} THEN 1 ELSE 0)
BY DEF JInv, CInv, SizeExact, AbortExplained

\* Whoever is between the semaphore and the lock pops a connection nobody has.
LEMMA Pops ==
    ASSUME IInv, (\E c \in Client : CPop(c)) \/ MPop \/ DPop
    PROVE  /\ sql_queue # << >> /\ UNCHANGED << available_num, terminated >>
           /\ Head(sql_queue) \in Conn /\ Head(sql_queue) \in open /\ Head(sql_queue) # mconn
           /\ \A c \in Users : conn[c] # Head(sql_queue)
           /\ Head(sql_queue) \in QueuedConns
           /\ QueuedConns' = QueuedConns \ {Head(sql_queue)}
<1>1. NClients \in Nat /\ PopConn
  BY ClientsInt DEF CPop, MPop, DPop
<1>2. NPopping >= 1
  <2>1. ASSUME NEW c \in Client, CPop(c) PROVE NClients >= 1
    <3>1. NClients \in Nat /\ NClients' \in Nat /\ NClients' = NClients - 1
      BY <2>1, ClientMoves DEF CPop, IInv
    <3> QED BY <3>1
  <2> QED BY <1>1, <2>1 DEF NPopping, NClients, MPop, GoM, DPop, GoD
<1>3. sql_queue # << >>
  BY <1>1, <1>2, PopStep
<1>4. Head(sql_queue) \in QueuedConns
  BY <1>3, PopFacts DEF IInv, TypeOK, OneUser, QueuedConns
<1> QED BY <1>1, <1>2, <1>4, PopStep

-------------------------------------------------------------------------------
(* One lemma per actor                                                     *)

LEMMA ClientKeeps ==
    ASSUME IInv, JInv, NEW c \in Client, Request(c) \/ Handler(c)
    PROVE  JInv'
<1>1. /\ UNCHANGED << size, open, mpc, mconn, dpc, terminated >>
      /\ dpc = "none"
  <2>1. CASE CPop(c)
    <3>1. UNCHANGED terminated
      BY <2>1, Pops
    <3> QED BY <2>1, <3>1 DEF CPop, GoC, monitorVars, closerVars, JInv, CInv
  <2> QED
    BY <2>1 DEF Request, Handler, CTake, CRelease, GoC, monitorVars, closerVars, JInv, CInv
<1>2. /\ cpc' \in [Client -> {"idle", "wait", "pop", "use"}]
      /\ conn \in [Client -> Conn \cup {NoConn}] /\ cpc \in [Client -> {"idle", "wait", "pop", "use"}]
  BY ClientStep DEF IInv, TypeOK
<1>3. /\ open = QueuedConns' \cup Holding' \cup ({mconn} \ {NoConn})
      /\ \A d \in Client : conn'[d] # NoConn => d \in Users'
  <2>0. /\ open = QueuedConns \cup Holding \cup ({mconn} \ {NoConn})
        /\ \A d \in Client : conn[d] # NoConn => d \in Users
    BY DEF JInv, CInv, Holding
  <2>1. CASE Request(c) \/ CTake(c)
    <3>1. /\ UNCHANGED << sql_queue, conn >> /\ cpc[c] # "use"
          /\ \/ cpc' = [cpc EXCEPT ![c] = "wait"]
             \/ cpc' = [cpc EXCEPT ![c] = "pop"]
      BY <2>1 DEF Request, CTake, TakeToken, GoC, setVars
    <3>2. Users' = Users
      BY <1>2, <3>1 DEF Users
    <3> QED BY <2>0, <3>1, <3>2 DEF Holding, QueuedConns
  <2>2. CASE CPop(c)
    <3> DEFINE s == Head(sql_queue)
    <3>1. /\ s \in QueuedConns /\ QueuedConns' = QueuedConns \ {s} /\ sql_queue # << >>
      BY <2>2, Pops
    <3>2. conn' = [conn EXCEPT ![c] = s] /\ cpc' = [cpc EXCEPT ![c] = "use"] /\ cpc[c] = "pop"
      BY <2>2, <3>1 DEF CPop, GoC
    <3> HIDE DEF s
    <3>3. /\ Users' = Users \cup {c} /\ c \notin Users /\ conn'[c] = s
          /\ \A d \in Users : conn'[d] = conn[d]
      BY <1>2, <3>2 DEF Users
    <3>4. Holding' = Holding \cup {s}
      BY <3>3 DEF Holding
    <3> QED BY <1>2, <2>0, <3>1, <3>2, <3>3, <3>4
  <2>3. CASE CRelease(c)
    <3> DEFINE s == conn[c]
    <3>1. c \in Users /\ cpc' = [cpc EXCEPT ![c] = "idle"] /\ conn' = [conn EXCEPT ![c] = NoConn]
      BY <2>3 DEF CRelease, GoC, Users
    <3>2. s \in Conn /\ s \notin QueuedConns
      BY <3>1, <1>2 DEF IInv, TypeOK, OneUser
    <3>3. QueuedConns' = QueuedConns \cup {s}
      BY <2>3, <3>2, PushStep DEF CRelease
    <3>4. Users' = Users \ {c} /\ \A d \in Users' : conn'[d] = conn[d]
      BY <1>2, <3>1 DEF Users
    <3>5. \A d \in Users' : conn[d] # s
      BY <3>1, <3>4 DEF IInv, OneUser
    <3>6. Holding' = Holding \ {s} /\ s \in Holding
      BY <3>1, <3>4, <3>5 DEF Holding
    <3> QED BY <1>2, <2>0, <3>1, <3>3, <3>4, <3>6
  <2> QED BY <2>1, <2>2, <2>3 DEF Handler
<1> QED BY <1>1, <1>3, SizesStay DEF JInv, CInv, Holding

\* A step of the monitor that moves only its program counter and idle.
LEMMA MonitorMoves ==
    ASSUME JInv, UNCHANGED << setVars, size, open, clientVars, mconn, dpc, terminated >>,
           ~terminated,
           mpc \notin {"drop", "add", "sizeUp"}, mpc' \notin {"drop", "add", "sizeUp"},
           mpc' = "connect" => size < MaxConn,
           mpc' \in {"wait", "pop"} => size > MinConn
    PROVE  JInv'
BY DEF JInv, CInv, SizeExact, AbortExplained, setVars, clientVars, Users, QueuedConns

LEMMA MonitorKeeps ==
    ASSUME IInv, JInv, Monitor
    PROVE  JInv'
<1>0. /\ IsFiniteSet(open) /\ Cardinality(open) \in Nat /\ size \in Nat /\ open \subseteq Conn
      /\ MinConn \in Nat /\ MaxConn \in Nat
  <2>1. IsFiniteSet(open) /\ open \subseteq Conn
    BY ConnAssumption, FS_Subset DEF IInv, TypeOK
  <2> QED BY <2>1, FS_CardinalityType, NumbersAssumption DEF JInv, CInv
<1>1. ~terminated
  BY DEF Monitor, MLoop, MCheck, MTake, MPop, MDrop, MConnect, MAdd, MSizeUp, MSleep, GoM
<1>2. CASE MLoop
  BY <1>1, <1>2, MonitorMoves DEF MLoop, GoM, closerVars
<1>3. CASE MCheck
  BY <1>0, <1>1, <1>3, MonitorMoves DEF MCheck, GoM, closerVars, MayShrink, MayGrow
<1>4. CASE MTake
  <2>1. /\ mpc = "wait" /\ mpc' = "pop" /\ mconn' = mconn
        /\ UNCHANGED << sql_queue, size, open, cpc, conn, dpc, terminated >>
    BY <1>4 DEF MTake, GoM, TakeToken, clientVars, closerVars
  <2> QED BY <1>1, <2>1 DEF JInv, CInv, SizeExact, AbortExplained, Users, QueuedConns
<1>5. CASE MPop
  <2>1. /\ mpc = "pop" /\ mpc' = "drop" /\ UNCHANGED << size, open, cpc, conn, dpc >>
    BY <1>5 DEF MPop, GoM, clientVars, closerVars
  <2>2. /\ QueuedConns' = QueuedConns \ {Head(sql_queue)} /\ Head(sql_queue) \in QueuedConns
        /\ terminated' = terminated /\ mconn' = Head(sql_queue)
        /\ Head(sql_queue) \in Conn
    BY <1>5, Pops DEF MPop
  <2>3. Users' = Users /\ mconn = NoConn /\ mconn' # NoConn
    BY <2>1, <2>2, ConnAssumption DEF Users, JInv, CInv
  <2> QED BY <1>1, <2>1, <2>2, <2>3 DEF JInv, CInv, SizeExact, AbortExplained
<1>6. CASE MDrop
  <2>1. /\ mpc = "drop" /\ mpc' = "sleep" /\ open' = open \ {mconn} /\ size' = size - 1
        /\ mconn' = NoConn /\ UNCHANGED << sql_queue, cpc, conn, dpc, terminated >>
    BY <1>6 DEF MDrop, GoM, setVars, clientVars, closerVars
  <2>2. mconn # NoConn /\ mconn \in open /\ size > MinConn
    BY <2>1 DEF JInv, CInv, SizeExact
  <2>3. Cardinality(open') = Cardinality(open) - 1
    BY <1>0, <2>1, <2>2, FS_RemoveElement
  <2>4. Users' = Users /\ QueuedConns' = QueuedConns
    BY <2>1 DEF Users, QueuedConns
  <2>5. mconn \notin QueuedConns /\ \A c \in Users : conn[c] # mconn
    BY DEF IInv, OneUser
  <2>6. open' = QueuedConns' \cup Holding' \cup ({mconn'} \ {NoConn})
    BY <2>1, <2>4, <2>5 DEF JInv, CInv, Holding
  <2>7. size' \in Nat /\ size' <= MaxConn /\ Cardinality(open') <= size'
    BY <1>0, <2>1, <2>2, <2>3 DEF JInv, CInv
  <2>8. SizeExact' /\ AbortExplained'
    BY <1>0, <1>1, <2>1, <2>3 DEF JInv, SizeExact, AbortExplained
  <2>9. CInv'
    BY <2>1, <2>4, <2>6, <2>7 DEF JInv, CInv, Holding
  <2> QED BY <2>8, <2>9 DEF JInv
<1>7. CASE MConnect
  <2>1. /\ mpc = "connect" /\ UNCHANGED << sql_queue, size, cpc, conn, dpc >>
    BY <1>7 DEF MConnect, setVars, clientVars, closerVars
  <2>2. Users' = Users /\ QueuedConns' = QueuedConns
    BY <2>1 DEF Users, QueuedConns
  <2>3. CASE UNCHANGED << mpc, open, mconn >>
    BY <1>1, <2>1, <2>2, <2>3 DEF JInv, CInv, SizeExact, AbortExplained
  <2>4. ASSUME NEW s \in Conn \ open, mpc' = "add", open' = open \cup {s}, mconn' = s, UNCHANGED terminated
        PROVE  JInv'
    <3>1. Cardinality(open') = Cardinality(open) + 1
      BY <1>0, <2>4, FS_AddElement
    <3>2. mconn = NoConn /\ s # NoConn /\ size < MaxConn
      BY <2>1, ConnAssumption DEF JInv, CInv
    <3>3. open' = QueuedConns' \cup Holding' \cup ({mconn'} \ {NoConn})
      BY <2>1, <2>2, <2>4, <3>2 DEF JInv, CInv, Holding
    <3>4. Cardinality(open) <= size /\ Cardinality(open') <= size + 1
      BY <1>0, <2>1, <3>1 DEF JInv, CInv
    <3>5. SizeExact' /\ AbortExplained'
      BY <1>0, <1>1, <2>1, <2>4, <3>1, <3>2, <3>4 DEF JInv, SizeExact, AbortExplained
    <3>6. CInv'
      BY <2>1, <2>2, <2>4, <3>2, <3>3, <3>4 DEF JInv, CInv, Holding
    <3> QED BY <3>5, <3>6 DEF JInv
  <2> QED BY <1>7, <2>3, <2>4 DEF MConnect
<1>8. CASE MAdd
  <2>1. /\ mpc = "add" /\ mpc' = "sizeUp" /\ mconn' = NoConn
        /\ UNCHANGED << size, open, cpc, conn, dpc >>
    BY <1>8 DEF MAdd, GoM, clientVars, closerVars
  <2>2. mconn \in Conn /\ mconn \notin QueuedConns
    BY <2>1 DEF IInv, TypeOK, OneUser, JInv, CInv
  <2>3. QueuedConns' = QueuedConns \cup {mconn}
    BY <1>8, <2>2, PushStep DEF MAdd
  <2>4. Users' = Users
    BY <2>1 DEF Users
  <2>5. open' = QueuedConns' \cup Holding' \cup ({mconn'} \ {NoConn})
    BY <2>1, <2>2, <2>3, <2>4, ConnAssumption DEF JInv, CInv, Holding
  <2> QED BY <2>1, <2>4, <2>5 DEF JInv, CInv, SizeExact, AbortExplained, Holding
<1>9. CASE MSizeUp
  <2>1. /\ mpc = "sizeUp" /\ mpc' = "sleep" /\ size' = size + 1
        /\ UNCHANGED << sql_queue, open, cpc, conn, mconn, dpc, terminated >>
    BY <1>9 DEF MSizeUp, GoM, setVars, clientVars, closerVars
  <2>2. Users' = Users /\ QueuedConns' = QueuedConns
    BY <2>1 DEF Users, QueuedConns
  <2> QED BY <1>0, <1>1, <2>1, <2>2 DEF JInv, CInv, SizeExact, AbortExplained
<1>10. CASE MSleep
  BY <1>1, <1>10, MonitorMoves DEF MSleep, GoM, closerVars
<1> QED BY <1>2, <1>3, <1>4, <1>5, <1>6, <1>7, <1>8, <1>9, <1>10 DEF Monitor

LEMMA CloserKeeps ==
    ASSUME IInv, JInv, GiveUp \/ Closer
    PROVE  JInv'
<1>1. /\ UNCHANGED << size, cpc, conn, mpc, mconn >> /\ dpc' # "none"
      /\ \A c \in Client : cpc[c] = "idle"
  BY DEF GiveUp, Closer, DLoop, DTake, DPop, DJoin, GoD, clientVars, monitorVars, JInv, CInv
<1>2. Users' = Users
  BY <1>1 DEF Users
<1>3. CASE DPop
  <2> DEFINE s == Head(sql_queue)
  <2>1. /\ QueuedConns' = QueuedConns \ {s} /\ s \in QueuedConns /\ s \in open /\ s # mconn
        /\ sql_queue # << >> /\ UNCHANGED terminated /\ \A c \in Users : conn[c] # s
    BY <1>3, Pops
  <2>2. open' = open \ {s}
    BY <1>3, <2>1 DEF DPop
  <2>3. IsFiniteSet(open)
    BY ConnAssumption, FS_Subset DEF IInv, TypeOK
  <2>4. Cardinality(open') = Cardinality(open) - 1 /\ Cardinality(open) \in Nat
    BY <2>1, <2>2, <2>3, FS_RemoveElement, FS_CardinalityType
  <2> HIDE DEF s
  <2>5. open' = QueuedConns' \cup Holding' \cup ({mconn'} \ {NoConn})
    BY <1>1, <1>2, <2>1, <2>2 DEF JInv, CInv, Holding
  <2>6. SizeExact' /\ AbortExplained'
    BY <1>1, <2>1 DEF JInv, SizeExact, AbortExplained
  <2>7. size \in Nat
    BY DEF JInv, CInv
  <2>8. Cardinality(open') <= size' + (IF mpc' \in {"add", "sizeUp"} THEN 1 ELSE 0)
    BY <1>1, <2>4, <2>7 DEF JInv, CInv
  <2> QED BY <1>1, <1>2, <2>5, <2>6, <2>8 DEF JInv, CInv, Holding
<1>4. CASE ~DPop
  <2>1. UNCHANGED << sql_queue, open, terminated >>
    BY <1>4 DEF GiveUp, Closer, DLoop, DTake, DJoin, TakeToken, setVars
  <2>2. QueuedConns' = QueuedConns
    BY <2>1 DEF QueuedConns
  <2> QED BY <1>1, <1>2, <2>1, <2>2, SizesStay DEF JInv, CInv
<1> QED BY <1>3, <1>4

LEMMA JInvStep == IInv /\ JInv /\ [Next]_vars => JInv'
<1> SUFFICES ASSUME IInv, JInv, [Next]_vars PROVE JInv'
  OBVIOUS
<1>1. CASE UNCHANGED vars
  BY <1>1 DEF vars, JInv, CInv, SizeExact, AbortExplained, Users, QueuedConns
<1> QED BY <1>1, ClientKeeps, MonitorKeeps, CloserKeeps DEF Next, Ended

THEOREM SizeInvariance == Spec => []JInv
BY InitJInv, JInvStep, Invariance, PTL DEF Spec

\* Until the pool is given up, size is the number of open connections but for the
\* one being added, and the pool stays between its limits, whatever the clients
\* do between the monitor's test and its disconnect (monitorFunc).
THEOREM WithinLimits == Spec => []SizeExact
<1>1. JInv => SizeExact
  BY DEF JInv
<1> QED BY <1>1, SizeInvariance, PTL

\* No acquire meets an empty queue: the process ends only where the monitor adds
\* a connection (SqlConnSet::acquire, monitorFunc).
THEOREM OnlyTheMonitorAborts == Spec => []AbortExplained
<1>1. JInv => AbortExplained
  BY DEF JInv
<1> QED BY <1>1, SizeInvariance, PTL

-------------------------------------------------------------------------------
(* The pool implements the service                                         *)

\* What is in the pool as its users see it: all that is open but for what the
\* monitor has in hand.
LEMMA PooledIs ==
    ASSUME IInv, JInv
    PROVE  /\ CS!Pooled = open \ {mconn}
           /\ IsFiniteSet(open) /\ Cardinality(open) \in Nat
           /\ Cardinality(open \ {mconn}) = CS!Cardinality(CS!Pooled)
           /\ mconn \in open => Cardinality(open \ {mconn}) = Cardinality(open) - 1
           /\ mconn \notin open => Cardinality(open \ {mconn}) = Cardinality(open)
<1>1. IsFiniteSet(open) /\ NoConn \notin open
  BY ConnAssumption, FS_Subset DEF IInv, TypeOK
<1>2. CS!Pooled = QueuedConns \cup Holding
  <2>1. \A c \in Client : c \in Users <=> conn[c] # NoConn
    <3>1. \A c \in Users : conn[c] \in open
      BY DEF IInv, OneUser
    <3> QED BY <1>1, <3>1 DEF JInv, CInv, Users
  <2> QED BY <2>1 DEF CS!Pooled, Holding, Users
<1>3. mconn \notin QueuedConns \cup Holding
  BY DEF IInv, OneUser, Holding
<1>4. open = QueuedConns \cup Holding \cup ({mconn} \ {NoConn})
  BY DEF JInv, CInv, Holding
<1>5. CS!Pooled = open \ {mconn}
  BY <1>1, <1>2, <1>3, <1>4
<1>6. Cardinality(open \ {mconn}) = CS!Cardinality(CS!Pooled)
  BY <1>5 DEF Cardinality, CS!Cardinality
<1>7. mconn \notin open => open \ {mconn} = open
  OBVIOUS
<1> QED BY <1>1, <1>5, <1>6, <1>7, FS_RemoveElement, FS_CardinalityType

Mode == IF terminated THEN "aborted" ELSE IF dpc = "none" THEN "open" ELSE "closing"

\* A handler's step.
LEMMA ClientImplements ==
    ASSUME IInv, JInv, NEW c \in Client, Request(c) \/ Handler(c)
    PROVE  CS!Next \/ UNCHANGED CS!vars
<1>1. ~terminated /\ UNCHANGED << dpc, terminated >> /\ dpc = "none"
  <2>1. CASE CPop(c)
    <3>1. UNCHANGED terminated
      BY <2>1, Pops
    <3> QED BY <2>1, <3>1 DEF CPop, GoC, closerVars, JInv, CInv
  <2> QED BY <2>1 DEF Request, Handler, CTake, CRelease, GoC, closerVars, JInv, CInv
<1>2. Mode = "open" /\ Mode' = Mode
  BY <1>1 DEF Mode
<1>3. CASE Request(c) \/ CTake(c)
  <2>1. UNCHANGED << sql_queue, conn >>
    BY <1>3 DEF Request, CTake, TakeToken, setVars
  <2> QED BY <1>2, <2>1 DEF CS!vars, Mode, QueuedConns
<1>4. CASE CPop(c)
  <2>1. Head(sql_queue) \in QueuedConns /\ QueuedConns' = QueuedConns \ {Head(sql_queue)} /\ sql_queue # << >>
    BY <1>4, Pops
  <2>2. conn' = [conn EXCEPT ![c] = Head(sql_queue)] /\ c \notin Users
    BY <1>4, <2>1 DEF CPop, GoC, Users
  <2>3. conn[c] = NoConn
    BY <2>2 DEF JInv, CInv
  <2>4. CS!Acquire(c)
    BY <1>2, <2>1, <2>2, <2>3 DEF CS!Acquire, Mode
  <2> QED BY <2>4 DEF CS!Next
<1>5. CASE CRelease(c)
  <2>1. c \in Users /\ conn' = [conn EXCEPT ![c] = NoConn]
    BY <1>5 DEF CRelease, GoC, Users
  <2>2. conn[c] \in Conn /\ conn[c] \notin QueuedConns
    BY <2>1 DEF IInv, TypeOK, OneUser
  <2>3. QueuedConns' = QueuedConns \cup {conn[c]} /\ conn[c] # NoConn
    BY <1>5, <2>2, PushStep, ConnAssumption DEF CRelease
  <2>4. CS!Release(c)
    BY <1>2, <2>1, <2>3 DEF CS!Release, Mode
  <2> QED BY <2>4 DEF CS!Next
<1> QED BY <1>3, <1>4, <1>5 DEF Handler

\* A step of the monitor.
LEMMA MonitorImplements ==
    ASSUME IInv, JInv, Monitor
    PROVE  CS!Next \/ UNCHANGED CS!vars
<1>1. ~terminated /\ UNCHANGED << conn, dpc >>
  BY DEF Monitor, MLoop, MCheck, MTake, MPop, MDrop, MConnect, MAdd, MSizeUp, MSleep, GoM,
         clientVars, closerVars
<1>2. CASE MPop
  <2>1. Head(sql_queue) \in QueuedConns /\ QueuedConns' = QueuedConns \ {Head(sql_queue)}
    BY <1>2, Pops
  <2>2. UNCHANGED terminated
    BY <1>2, Pops
  <2>3. mpc = "pop" /\ mconn = NoConn
    BY <1>2 DEF MPop, GoM, JInv, CInv
  <2>4. dpc = "none" => CS!Cardinality(CS!Pooled) > MinConn
    <3>1. Cardinality(open) = CS!Cardinality(CS!Pooled)
      BY <2>3, PooledIs, ConnAssumption DEF IInv, TypeOK
    <3>2. dpc = "none" => Cardinality(open) = size /\ size > MinConn
      BY <2>3 DEF JInv, CInv, SizeExact
    <3> QED BY <3>1, <3>2
  <2>5. Mode' = Mode /\ Mode # "aborted" /\ (Mode = "open" => dpc = "none")
    BY <1>1, <2>2 DEF Mode
  <2>6. CS!Drop
    BY <1>1, <2>1, <2>4, <2>5 DEF CS!Drop, Mode
  <2> QED BY <2>6 DEF CS!Next
<1>3. CASE MAdd
  <2>1. mpc = "add" /\ mconn # NoConn
    BY <1>3 DEF MAdd, GoM, JInv, CInv
  <2>2. mconn \in open /\ mconn \in Conn /\ mconn \notin QueuedConns
    BY <2>1 DEF IInv, TypeOK, OneUser, QueuedOpen
  <2>3. QueuedConns' = QueuedConns \cup {mconn}
    BY <1>3, <2>2, PushStep DEF MAdd
  <2>4. mconn \notin CS!Pooled /\ CS!Cardinality(CS!Pooled) < MaxConn
    <3>1. CS!Pooled = open \ {mconn}
      BY PooledIs
    <3>2. CS!Cardinality(CS!Pooled) = Cardinality(open) - 1 /\ Cardinality(open) \in Nat
      BY <2>2, PooledIs
    <3>3. Cardinality(open) <= size + 1 /\ size < MaxConn /\ size \in Nat
      BY <2>1 DEF JInv, CInv
    <3> QED BY <3>1, <3>2, <3>3, NumbersAssumption
  <2>5. CASE terminated'
    <3>1. Mode # "aborted" /\ Mode' = "aborted"
      BY <1>1, <2>5 DEF Mode
    <3>2. CS!Abort
      BY <1>1, <2>2, <2>3, <2>4, <3>1 DEF CS!Abort, Mode
    <3> QED BY <3>2 DEF CS!Next
  <2>6. CASE ~terminated'
    <3>1. Mode # "aborted" /\ Mode' = Mode
      BY <1>1, <2>6 DEF Mode
    <3>2. CS!Add
      BY <1>1, <2>2, <2>3, <2>4, <3>1 DEF CS!Add, Mode
    <3> QED BY <3>2 DEF CS!Next
  <2> QED BY <2>5, <2>6
<1>4. CASE MConnect
  <2>1. QueuedConns' = QueuedConns
    BY <1>4 DEF MConnect, setVars, QueuedConns
  <2>2. CASE terminated'
    <3>1. Mode # "aborted" /\ Mode' = "aborted"
      BY <1>1, <2>2 DEF Mode
    <3>2. CS!Abort
      BY <1>1, <2>1, <3>1 DEF CS!Abort, Mode
    <3> QED BY <3>2 DEF CS!Next
  <2>3. CASE ~terminated'
    <3>1. Mode' = Mode
      BY <1>1, <2>3 DEF Mode
    <3> QED BY <1>1, <2>1, <3>1 DEF CS!vars, Mode
  <2> QED BY <2>2, <2>3
<1>5. CASE MLoop \/ MCheck \/ MTake \/ MDrop \/ MSizeUp \/ MSleep
  <2>1. UNCHANGED << sql_queue, terminated >>
    BY <1>5 DEF MLoop, MCheck, MTake, MDrop, MSizeUp, MSleep, TakeToken, setVars
  <2>2. Mode' = Mode /\ QueuedConns' = QueuedConns
    BY <1>1, <2>1 DEF Mode, QueuedConns
  <2> QED BY <1>1, <2>2 DEF CS!vars, Mode
<1> QED BY <1>2, <1>3, <1>4, <1>5 DEF Monitor

\* A step of the thread that gives the pool up.
LEMMA CloserImplements ==
    ASSUME IInv, JInv, GiveUp \/ Closer
    PROVE  CS!Next \/ UNCHANGED CS!vars
<1>1. ~terminated /\ conn' = conn
  BY DEF GiveUp, Closer, DLoop, DTake, DPop, DJoin, GoD, clientVars
<1>2. CASE GiveUp
  <2>1. UNCHANGED << sql_queue, terminated >> /\ dpc = "none" /\ dpc' = "loop"
    BY <1>2 DEF GiveUp, GoD, setVars
  <2>2. \A c \in Client : conn[c] = NoConn
    BY <1>2 DEF GiveUp, JInv, CInv, Users
  <2>3. Mode = "open" /\ Mode' = "closing" /\ QueuedConns' = QueuedConns
    BY <1>1, <2>1 DEF Mode, QueuedConns
  <2>4. CS!Close
    BY <1>1, <2>2, <2>3 DEF CS!Close, Mode
  <2> QED BY <2>4 DEF CS!Next
<1>3. CASE DPop
  <2>1. Head(sql_queue) \in QueuedConns /\ QueuedConns' = QueuedConns \ {Head(sql_queue)}
    BY <1>3, Pops
  <2>2. UNCHANGED terminated
    BY <1>3, Pops
  <2>3. Mode = "closing" /\ Mode' = Mode
    BY <1>1, <1>3, <2>2 DEF DPop, GoD, Mode
  <2>4. CS!Drop
    BY <1>1, <2>1, <2>3 DEF CS!Drop, Mode
  <2> QED BY <2>4 DEF CS!Next
<1>4. CASE DLoop \/ DTake \/ DJoin
  <2>1. UNCHANGED << sql_queue, terminated >> /\ dpc # "none" /\ dpc' # "none"
    BY <1>4 DEF DLoop, DTake, DJoin, GoD, TakeToken, setVars
  <2>2. Mode' = Mode /\ QueuedConns' = QueuedConns
    BY <2>1 DEF Mode, QueuedConns
  <2> QED BY <1>1, <2>2 DEF CS!vars, Mode
<1> QED BY <1>2, <1>3, <1>4 DEF Closer

\* The pool implements the promise to its handlers: a connection to itself for
\* each, closed only while nobody has it, within the limits, and none forgotten.
THEOREM Implements == Spec => Service
<1>1. Init => CS!Init
  BY DEF Init, CS!Init, QueuedConns, Members
<1>2. IInv /\ JInv /\ [Next]_vars => [CS!Next]_(CS!vars)
  <2> SUFFICES ASSUME IInv, JInv, [Next]_vars PROVE CS!Next \/ UNCHANGED CS!vars
    OBVIOUS
  <2>1. CASE UNCHANGED vars
    BY <2>1 DEF vars, CS!vars, QueuedConns
  <2> QED BY <2>1, ClientImplements, MonitorImplements, CloserImplements DEF Next, Ended
<1> QED BY <1>1, <1>2, Invariance, SizeInvariance, PTL DEF Spec, Service, CS!Spec
===============================================================================
