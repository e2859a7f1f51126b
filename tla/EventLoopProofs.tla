--------------------------- MODULE EventLoopProofs ---------------------------
(***************************************************************************)
(* For any number of clients, connections, keys and workers: keys stay      *)
(* apart, an answer reaches the client that asked, and a request sent after *)
(* its id was presented is answered with its key or dropped for a reason.   *)
(***************************************************************************)
EXTENDS EventLoop, TLAPS

-------------------------------------------------------------------------------
(* Sequences                                                               *)

LEMMA TailFacts ==
    ASSUME NEW S, NEW q \in Seq(S), q # << >>
    PROVE  /\ Head(q) \in S /\ Head(q) = q[1] /\ Tail(q) \in Seq(S)
           /\ Len(q) \in Nat /\ Len(q) > 0
           /\ DOMAIN q = 1 .. Len(q) /\ DOMAIN Tail(q) = 1 .. Len(q) - 1
           /\ \A i \in 1 .. Len(q) - 1 : Tail(q)[i] = q[i + 1]
OBVIOUS

LEMMA AppendFacts ==
    ASSUME NEW S, NEW q \in Seq(S), NEW e \in S
    PROVE  /\ Append(q, e) \in Seq(S) /\ Append(q, e) # << >>
           /\ Len(q) \in Nat
           /\ DOMAIN q = 1 .. Len(q) /\ DOMAIN Append(q, e) = 1 .. Len(q) + 1
           /\ \A i \in 1 .. Len(q) : Append(q, e)[i] = q[i]
           /\ Append(q, e)[Len(q) + 1] = e
OBVIOUS

-------------------------------------------------------------------------------
(* Types                                                                   *)

\* Where the loop is with a socket, that socket is one and not the listener.
LEMMA Reading ==
    ASSUME TypeOK, FdsApart, lpc \notin {"wait", "next"}
    PROVE  curfd \in Sock
BY DEF TypeOK, FdsApart

\* A client's step.
LEMMA ClientType ==
    ASSUME TypeOK, ClientStep
    PROVE  TypeOK'
<1> USE SocketsAssumption
<1>1. ASSUME NEW s \in Sock, Connect(s) PROVE TypeOK'
  <2>1. backlog' \in Seq(Sock)
    BY <1>1, AppendFacts DEF Connect, TypeOK
  <2> QED BY <1>1, <2>1 DEF Connect, TypeOK, loopVars, watchVars, keyVars, workerVars, Numbers
<1>2. ASSUME NEW s \in Sock, NEW item \in Item, Sends(s, item),
             id' \in [Sock -> Key \cup {NoKey}], shown' \in [Key -> 0 .. 2]
      PROVE  TypeOK'
  <2>1. /\ inbox' \in [Sock -> Seq(Item)] /\ sent' \in [Sock -> Nat]
        /\ \A r \in Sock : inbox[r] # << >> => inbox'[r] # << >>
    <3>1. Append(inbox[s], item) \in Seq(Item) /\ Append(inbox[s], item) # << >>
      <4>1. inbox[s] \in Seq(Item)
        BY DEF TypeOK
      <4> QED BY <4>1, AppendFacts
    <3>2. inbox' = [inbox EXCEPT ![s] = Append(inbox[s], item)] /\ sent' = [sent EXCEPT ![s] = sent[s] + 1]
      BY <1>2 DEF Sends
    <3>3. sent' \in [Sock -> Nat]
      <4>1. sent \in [Sock -> Nat]
        BY DEF TypeOK
      <4> QED BY <3>2, <4>1
    <3> QED BY <3>1, <3>2, <3>3 DEF TypeOK
  <2> QED BY <1>2, <2>1 DEF Sends, TypeOK, loopVars, watchVars, keyVars, workerVars, Numbers
<1>3. ASSUME NEW s \in Sock, AskTLS(s) PROVE TypeOK'
  BY <1>2, <1>3 DEF AskTLS, Plain, Item, TypeOK
<1>4. ASSUME NEW s \in Sock, PresentId(s) PROVE TypeOK'
  <2>1. PICK k \in sess[Owner[s]] : /\ Sends(s, Plain("auth", k))
                                    /\ id' = [id EXCEPT ![s] = k]
                                    /\ shown' = [shown EXCEPT ![k] = IF @ = 0 THEN 1 ELSE 2]
    BY <1>4 DEF PresentId
  <2>2. k \in Key
    BY DEF TypeOK
  <2>3. id' \in [Sock -> Key \cup {NoKey}] /\ shown' \in [Key -> 0 .. 2]
    BY <2>1, <2>2 DEF TypeOK
  <2> QED BY <1>2, <1>4, <2>1, <2>2, <2>3 DEF Plain, Item
<1>5. ASSUME NEW s \in Sock, SendMore(s) PROVE TypeOK'
  <2>1. PICK item \in Item : Sends(s, item)
    <3>1. ASSUME NEW k \in sess[Owner[s]] \cup {NoKey}, NEW l \in BOOLEAN
          PROVE  [kind |-> "msg", key |-> k, led |-> l] \in Item
      BY <3>1 DEF Item, TypeOK
    <3>2. ASSUME NEW kind \in {"part", "bye", "odd"} PROVE Plain(kind, NoKey) \in Item
      BY DEF Plain, Item
    <3> QED BY <1>5, <3>1, <3>2 DEF SendMore
  <2> QED BY <1>2, <1>5, <2>1 DEF SendMore, TypeOK
<1>6. ASSUME NEW s \in Sock, Disconnect(s) \/ Reset(s) PROVE TypeOK'
  BY <1>6 DEF Disconnect, Reset, Leaves, TypeOK, loopVars, watchVars, keyVars, workerVars, Numbers
<1> QED BY <1>1, <1>3, <1>4, <1>5, <1>6 DEF ClientStep

\* Reading one thing from the socket.
LEMMA ConsumeType ==
    ASSUME TypeOK, FdsApart, lpc \in {"recv", "auth"}
    PROVE  /\ curfd \in Sock /\ First \in Item
           /\ inbox[curfd] \in Seq(Item) /\ inbox[curfd] # << >>
           /\ Consume => inbox' \in [Sock -> Seq(Item)] /\ inbox'[curfd] = Tail(inbox[curfd])
                           /\ \A s \in Sock \ {curfd} : inbox'[s] = inbox[s]
<1>1. curfd \in Sock
  BY Reading
<1>2. inbox[curfd] \in Seq(Item) /\ inbox[curfd] # << >>
  BY <1>1 DEF TypeOK
<1>3. First \in Item /\ Tail(inbox[curfd]) \in Seq(Item)
  BY <1>2, TailFacts DEF First
<1> QED BY <1>1, <1>2, <1>3 DEF Consume, TypeOK

\* A step of the loop.
LEMMA LoopType ==
    ASSUME TypeOK, FdsApart, LoopStep
    PROVE  TypeOK'
<1> USE SocketsAssumption DEF Loop, Numbers
<1>1. CASE Wait \/ Done
  BY <1>1 DEF Wait, Reported, Done, TypeOK, clientVars, kernelVars, watchVars, keyVars, workerVars
<1>2. CASE Accept
  <2>1. backlog # << >> /\ backlog \in Seq(Sock)
    BY <1>2 DEF Accept, FdsApart, TypeOK
  <2>2. Head(backlog) \in Sock /\ Tail(backlog) \in Seq(Sock)
    BY <2>1, TailFacts
  <2>3. fd' \in [Sock -> {0} \cup Numbers]
    BY <1>2, <2>2 DEF Accept, Free, TypeOK
  <2> QED BY <1>2, <2>2, <2>3 DEF Accept, Watch, EdgeAtAdd, TypeOK, keyVars, workerVars
<1>3. CASE AcceptFails \/ Peek \/ Gone
  BY <1>3, Reading DEF AcceptFails, Peek, Gone, Unwatch, TypeOK, clientVars, kernelVars, watchVars, keyVars, workerVars
<1>4. CASE RecvTls \/ RecvAuth \/ RecvPart \/ RecvBye
  BY <1>4, ConsumeType
  DEF RecvTls, RecvAuth, RecvPart, RecvBye, TypeOK, clientVars, kernelVars, watchVars, keyVars, workerVars
<1>5. CASE RecvOdd
  <2>1. terminated' \in BOOLEAN
    BY <1>5 DEF RecvOdd
  <2> QED BY <1>5, <2>1 DEF RecvOdd, TypeOK, clientVars, kernelVars, watchVars, keyVars, workerVars
<1>6. CASE RecvMessage
  <2>1. /\ curfd \in Sock /\ First \in Item /\ inbox' \in [Sock -> Seq(Item)]
    BY <1>6, ConsumeType DEF RecvMessage
  <2>2. [sock |-> curfd, fd |-> fd[curfd], key |-> First.key, led |-> First.led] \in Message
    BY <2>1 DEF Message, Item, TypeOK
  <2>3. tasks' \in Seq(Message)
    BY <1>6, <2>2, AppendFacts DEF RecvMessage, NewClientMsg, TypeOK
  <2> QED BY <1>6, <2>1, <2>3 DEF RecvMessage, TypeOK, clientVars, watchVars, keyVars
<1>7. CASE HandleTls
  <2>1. sess' \in [Client -> SUBSET Key] /\ sessionid_key' \subseteq Key
    <3>1. curfd \in Sock /\ Owner[curfd] \in Client
      BY <1>7, Reading DEF HandleTls
    <3>2. CASE UNCHANGED << sess, sessionid_key >>
      BY <3>2 DEF TypeOK
    <3>3. ASSUME NEW k \in Key, sess' = [sess EXCEPT ![Owner[curfd]] = @ \cup {k}],
                 sessionid_key' = sessionid_key \cup {k}
          PROVE  sess' \in [Client -> SUBSET Key] /\ sessionid_key' \subseteq Key
      <4>1. sess[Owner[curfd]] \cup {k} \in SUBSET Key
        BY <3>1 DEF TypeOK
      <4> QED BY <3>1, <3>3, <4>1 DEF TypeOK
    <3> QED BY <1>7, <3>2, <3>3 DEF HandleTls
  <2> QED BY <1>7, <2>1 DEF HandleTls, TypeOK, kernelVars, watchVars, workerVars
<1>8. CASE HandleAuth
  <2>1. /\ curfd \in Sock /\ First \in Item /\ inbox' \in [Sock -> Seq(Item)]
    BY <1>8, ConsumeType DEF HandleAuth
  <2>2. socket_aeskey' \in [Sock -> Key \cup {NoKey}] /\ sessionid_key' \subseteq Key
    <3>1. CASE UNCHANGED << sessionid_key, socket_aeskey >>
      BY <3>1 DEF TypeOK
    <3>2. CASE First.key \in sessionid_key /\ Authenticate(First.key)
      BY <2>1, <3>2 DEF Authenticate, TypeOK
    <3> QED BY <1>8, <3>1, <3>2 DEF HandleAuth
  <2> QED BY <1>8, <2>1, <2>2 DEF HandleAuth, TypeOK, clientVars, watchVars, workerVars
<1>9. CASE Drain
  <2>1. inbox' \in [Sock -> Seq(Item)]
    <3>1. << >> \in Seq(Item) /\ curfd \in Sock
      BY <1>9, Reading DEF Drain
    <3> QED BY <1>9, <3>1 DEF Drain, TypeOK
  <2> QED BY <1>9, <2>1 DEF Drain, TypeOK, clientVars, watchVars, keyVars, workerVars
<1> QED BY <1>1, <1>2, <1>3, <1>4, <1>5, <1>6, <1>7, <1>8, <1>9 DEF LoopStep, Receive

\* A worker's step.
LEMMA WorkerType ==
    ASSUME TypeOK, NEW w \in Worker, WorkerStep(w)
    PROVE  TypeOK'
<1>1. terminated' \in BOOLEAN
  <2>1. CASE Start(w)
    BY <2>1 DEF Start
  <2>2. CASE Check(w)
    BY <2>2 DEF Check
  <2>3. CASE Answer(w)
    BY <2>3, Zenon DEF Answer, TypeOK
  <2> QED BY <2>1, <2>2, <2>3 DEF WorkerStep
<1>2. tasks' \in Seq(Message) /\ task' \in [Worker -> Message \cup {NoKey}]
  <2>1. CASE Start(w)
    <3>1. tasks # << >> /\ tasks \in Seq(Message)
      BY <2>1 DEF Start, TypeOK
    <3>2. Head(tasks) \in Message /\ Tail(tasks) \in Seq(Message)
      BY <3>1, TailFacts
    <3> QED BY <2>1, <3>2 DEF Start, TypeOK
  <2> QED BY <2>1 DEF WorkerStep, Check, Rests, Answer, TypeOK
<1>3. key' \in [Worker -> Key \cup {NoKey}]
  <2>1. CASE Start(w)
    <3>1. tasks # << >> /\ tasks \in Seq(Message)
      BY <2>1 DEF Start, TypeOK
    <3>2. Head(tasks) \in Message
      BY <3>1, TailFacts
    <3>3. socket_aeskey[Head(tasks).sock] \in Key \cup {NoKey}
      BY <3>2 DEF Message, TypeOK
    <3> QED BY <2>1, <3>3 DEF Start, TypeOK
  <2> QED BY <2>1 DEF WorkerStep, Check, Rests, Answer, TypeOK
<1>4. wpc' \in [Worker -> {"idle", "check", "reply"}]
  BY DEF WorkerStep, Start, Check, Rests, Answer, TypeOK
<1> QED
  BY <1>1, <1>2, <1>3, <1>4
  DEF WorkerStep, Start, Check, Rests, Answer, TypeOK, clientVars, kernelVars, loopVars, watchVars, keyVars, Numbers

LEMMA TypeStep == TypeOK /\ FdsApart /\ [Next]_vars => TypeOK'
<1> SUFFICES ASSUME TypeOK, FdsApart, [Next]_vars PROVE TypeOK'
  OBVIOUS
<1>1. CASE UNCHANGED vars
  BY <1>1 DEF vars, TypeOK, Numbers
<1> QED BY <1>1, ClientType, LoopType, WorkerType DEF Next

-------------------------------------------------------------------------------
(* Descriptors                                                             *)

\* Connecting and accepting move a socket from one side to the other.
LEMMA FdsStep ==
    ASSUME TypeOK, FdsApart, [Next]_vars
    PROVE  FdsApart'
<1> USE SocketsAssumption DEF Loop
<1>0. /\ fd \in [Sock -> {0} \cup Numbers] /\ conn \in [Sock -> {"new", "pending", "open", "fin", "rst"}]
      /\ backlog \in Seq(Sock) /\ my_epoll \subseteq Sock /\ evs \subseteq Sock \cup {Listener}
  BY DEF TypeOK
<1>1. ASSUME UNCHANGED << fd, my_epoll, backlog >>,
             \A s \in Sock : (conn[s] = "new") <=> (conn'[s] = "new"),
             evs' \subseteq evs \/ evs' \subseteq { f \in my_epoll \cup {Listener} : Readable(f) },
             lpc' \notin {"wait", "next"} =>
                 \/ lpc \notin {"wait", "next"} /\ curfd' = curfd
                 \/ curfd' \in evs \ {Listener}
      PROVE  FdsApart'
  <2>1. \A s \in my_epoll' \cup (evs' \ {Listener}) : fd'[s] # 0
    BY <1>1 DEF FdsApart
  <2>2. Listener \in evs' => backlog' # << >>
    BY <1>1 DEF FdsApart, Readable
  <2>3. lpc' \notin {"wait", "next"} => curfd' # Listener /\ fd'[curfd'] # 0
    BY <1>1 DEF FdsApart
  <2>4. \A i \in DOMAIN backlog : backlog[i] \in Sock
    BY <1>0
  <2> QED BY <1>1, <2>1, <2>2, <2>3, <2>4 DEF FdsApart
<1>2. ASSUME NEW s \in Sock, Connect(s) PROVE FdsApart'
  <2>1. /\ conn[s] = "new" /\ conn' = [conn EXCEPT ![s] = "pending"] /\ backlog' = Append(backlog, s)
        /\ UNCHANGED << fd, my_epoll, evs, lpc, curfd >>
    BY <1>2 DEF Connect, loopVars, watchVars
  <2>2. /\ Len(backlog) \in Nat /\ DOMAIN backlog = 1 .. Len(backlog)
        /\ DOMAIN backlog' = 1 .. Len(backlog) + 1
        /\ \A i \in 1 .. Len(backlog) : backlog'[i] = backlog[i] /\ backlog[i] \in Sock
        /\ backlog'[Len(backlog) + 1] = s
        /\ backlog' # << >>
    BY <1>0, <2>1, AppendFacts
  <2>3. \A i \in DOMAIN backlog' :
           \/ i \in DOMAIN backlog /\ backlog'[i] = backlog[i] /\ backlog[i] \in Sock \ {s}
           \/ i = Len(backlog) + 1 /\ backlog'[i] = s
    BY <2>1, <2>2 DEF FdsApart
  <2>4. /\ \A i \in DOMAIN backlog' : fd'[backlog'[i]] = 0 /\ conn'[backlog'[i]] # "new"
        /\ \A i, j \in DOMAIN backlog' : backlog'[i] = backlog'[j] => i = j
    BY <1>0, <2>1, <2>3 DEF FdsApart
  <2>5. \A r \in Sock : conn'[r] = "new" => fd'[r] = 0
    BY <1>0, <2>1 DEF FdsApart
  <2> QED BY <2>1, <2>2, <2>4, <2>5 DEF FdsApart
<1>3. CASE Accept
  <2> DEFINE s == Head(backlog)
  <2>1. backlog # << >>
    BY <1>3 DEF Accept, FdsApart
  <2>2. /\ s \in Sock /\ s = backlog[1] /\ Len(backlog) \in Nat /\ Len(backlog) > 0
        /\ DOMAIN backlog = 1 .. Len(backlog) /\ DOMAIN backlog' = 1 .. Len(backlog) - 1
        /\ \A i \in 1 .. Len(backlog) - 1 : backlog'[i] = backlog[i + 1]
    BY <1>0, <1>3, <2>1, TailFacts DEF Accept
  <2>3. /\ evs' = evs \ {Listener} /\ my_epoll' = my_epoll \cup {s} /\ lpc' = "next"
        /\ \A r \in Sock : (conn[r] = "new") <=> (conn'[r] = "new")
    BY <1>0, <1>3 DEF Accept, Watch
  <2>4. PICK n \in Free : fd' = [fd EXCEPT ![s] = n]
    BY <1>3 DEF Accept
  <2> HIDE DEF s
  <2>5. fd'[s] = n /\ n # 0 /\ \A r \in Sock : fd[r] # n /\ (r # s => fd'[r] = fd[r])
    <3>1. limit \in Nat
      BY DEF TypeOK
    <3> QED BY <1>0, <2>2, <2>4, <3>1 DEF Free, Numbers
  <2>6. \A i \in DOMAIN backlog' :
           /\ i + 1 \in DOMAIN backlog /\ backlog'[i] = backlog[i + 1] /\ backlog[i + 1] \in Sock \ {s}
    <3>1. \A i \in DOMAIN backlog' :
           /\ i + 1 \in DOMAIN backlog /\ 1 \in DOMAIN backlog /\ i + 1 # 1 /\ backlog'[i] = backlog[i + 1]
      BY <2>2
    <3> QED BY <1>0, <2>2, <3>1 DEF FdsApart
  <2>7. /\ \A i \in DOMAIN backlog' : fd'[backlog'[i]] = 0 /\ conn'[backlog'[i]] # "new"
        /\ \A i, j \in DOMAIN backlog' : backlog'[i] = backlog'[j] => i = j
    <3>1. \A i, j \in DOMAIN backlog' : i \in Int /\ j \in Int
      BY <2>2
    <3> QED BY <2>3, <2>5, <2>6, <3>1 DEF FdsApart
  <2>8. \A r \in Sock : conn'[r] = "new" => fd'[r] = 0
    <3>1. conn[s] # "new"
      BY <2>2 DEF FdsApart
    <3> QED BY <2>3, <2>5, <3>1 DEF FdsApart
  <2>9. \A r, t \in Sock : fd'[r] # 0 /\ fd'[r] = fd'[t] => r = t
    BY <2>2, <2>5 DEF FdsApart
  <2>10. \A r \in my_epoll' \cup (evs' \ {Listener}) : fd'[r] # 0
    BY <1>0, <2>3, <2>5 DEF FdsApart
  <2> QED BY <2>3, <2>7, <2>8, <2>9, <2>10 DEF FdsApart
<1>4. CASE Gone
  <2>1. /\ my_epoll' \subseteq my_epoll /\ lpc' = "next"
        /\ UNCHANGED << fd, conn, backlog, evs >>
    BY <1>4 DEF Gone, Unwatch, clientVars, kernelVars
  <2> QED BY <2>1 DEF FdsApart
<1>5. CASE ClientStep
  <2>1. ASSUME NEW s \in Sock, AskTLS(s) \/ PresentId(s) \/ SendMore(s) \/ Disconnect(s) \/ Reset(s) PROVE FdsApart'
    <3>1. UNCHANGED << fd, my_epoll, backlog, evs, lpc, curfd >>
      BY <2>1 DEF AskTLS, PresentId, SendMore, Sends, Disconnect, Reset, Leaves, loopVars, watchVars
    <3>2. \A r \in Sock : (conn[r] = "new") <=> (conn'[r] = "new")
      BY <1>0, <2>1 DEF AskTLS, PresentId, SendMore, Sends, Disconnect, Reset, Leaves
    <3> QED BY <1>1, <3>1, <3>2
  <2> QED BY <1>2, <1>5, <2>1 DEF ClientStep
<1>6. CASE LoopStep
  <2>1. CASE Wait
    <3>1. evs' \subseteq { f \in my_epoll \cup {Listener} : Readable(f) }
      BY <2>1 DEF Wait, Reported
    <3> QED BY <1>1, <2>1, <3>1 DEF Wait, clientVars, watchVars
  <2>2. CASE Done \/ AcceptFails \/ Peek
    BY <1>1, <2>2 DEF Done, AcceptFails, Peek, clientVars, kernelVars, watchVars
  <2>3. CASE Receive
    BY <1>1, <2>3
    DEF Receive, RecvTls, RecvAuth, RecvMessage, RecvPart, RecvBye, RecvOdd, clientVars, kernelVars, watchVars
  <2>4. CASE HandleTls \/ HandleAuth \/ Drain
    BY <1>1, <2>4 DEF HandleTls, HandleAuth, Drain, clientVars, kernelVars, watchVars
  <2> QED BY <1>3, <1>4, <1>6, <2>1, <2>2, <2>3, <2>4 DEF LoopStep
<1>7. ASSUME NEW w \in Worker, WorkerStep(w) PROVE FdsApart'
  BY <1>1, <1>7 DEF WorkerStep, Start, Check, Answer, clientVars, kernelVars, loopVars, watchVars
<1>8. CASE UNCHANGED vars
  BY <1>1, <1>8 DEF vars
<1> QED BY <1>5, <1>6, <1>7, <1>8 DEF Next

-------------------------------------------------------------------------------
(* Keys                                                                    *)

\* What a step may do to the keys: a new one is issued, one moves to a socket, or
\* a socket loses its own.
LEMMA KeyMoves ==
    ASSUME TypeOK, FdsApart, [Next]_vars
    PROVE  \/ UNCHANGED << sess, sessionid_key, socket_aeskey >>
           \/ /\ HandleTls /\ UNCHANGED socket_aeskey
              /\ \E k \in Key \ Issued : Issued' = Issued \cup {k} /\ sessionid_key' = sessionid_key \cup {k}
           \/ /\ HandleAuth /\ UNCHANGED sess /\ curfd \in Sock /\ First.key \in sessionid_key
              /\ socket_aeskey' = [socket_aeskey EXCEPT ![curfd] = First.key]
              /\ sessionid_key' = sessionid_key \ {First.key}
           \/ /\ Gone /\ UNCHANGED << sess, sessionid_key >> /\ curfd \in Sock
              /\ socket_aeskey' = [socket_aeskey EXCEPT ![curfd] = NoKey]
<1>1. CASE HandleTls
  <2>1. curfd \in Sock /\ Owner[curfd] \in Client /\ sess \in [Client -> SUBSET Key]
    BY <1>1, Reading, SocketsAssumption DEF HandleTls, Loop, TypeOK
  <2>2. ASSUME NEW k \in Key \ Issued, sess' = [sess EXCEPT ![Owner[curfd]] = @ \cup {k}]
        PROVE  Issued' = Issued \cup {k}
    <3>1. \A c \in Client : sess'[c] = IF c = Owner[curfd] THEN sess[c] \cup {k} ELSE sess[c]
      BY <2>1, <2>2
    <3>2. \A x : x \in Issued <=> \E c \in Client : x \in sess[c]
      BY DEF Issued
    <3>3. \A x : x \in Issued' <=> \E c \in Client : x \in sess'[c]
      BY DEF Issued
    <3>4. \A x : x \in Issued' <=> x \in Issued \cup {k}
      BY <2>1, <3>1, <3>2, <3>3
    <3> QED BY <3>4
  <2>3. /\ UNCHANGED socket_aeskey
        /\ \/ UNCHANGED << sess, sessionid_key >>
           \/ \E k \in Key \ Issued : sess' = [sess EXCEPT ![Owner[curfd]] = @ \cup {k}]
                                        /\ sessionid_key' = sessionid_key \cup {k}
    BY <1>1 DEF HandleTls, Issued
  <2> QED BY <1>1, <2>2, <2>3
<1>2. CASE HandleAuth
  BY <1>2, Reading DEF HandleAuth, Authenticate, Loop, clientVars
<1>3. CASE Gone
  BY <1>3, Reading DEF Gone, Loop, clientVars
<1>4. CASE ClientStep
  BY <1>4 DEF ClientStep, Connect, AskTLS, PresentId, SendMore, Sends, Disconnect, Reset, Leaves, keyVars
<1>5. CASE LoopStep /\ ~HandleTls /\ ~HandleAuth /\ ~Gone
  BY <1>5
  DEF LoopStep, Wait, Done, Accept, AcceptFails, Peek, Receive, RecvTls, RecvAuth, RecvMessage, RecvPart,
      RecvBye, RecvOdd, Drain, clientVars, keyVars
<1>6. ASSUME NEW w \in Worker, WorkerStep(w) PROVE UNCHANGED << sess, sessionid_key, socket_aeskey >>
  BY <1>6 DEF WorkerStep, Start, Check, Answer, clientVars, keyVars
<1>7. CASE UNCHANGED vars
  BY <1>7 DEF vars
<1> QED BY <1>1, <1>2, <1>3, <1>4, <1>5, <1>6, <1>7 DEF Next

LEMMA KeysStep ==
    ASSUME TypeOK, FdsApart, KeysApart, KeysIssued, [Next]_vars
    PROVE  KeysApart' /\ KeysIssued'
<1>0. /\ socket_aeskey \in [Sock -> Key \cup {NoKey}] /\ NoKey \notin Key /\ sessionid_key \subseteq Key
  BY SocketsAssumption DEF TypeOK
<1>1. CASE UNCHANGED << sess, sessionid_key, socket_aeskey >>
  BY <1>1 DEF KeysApart, KeysIssued, Issued
<1>2. CASE UNCHANGED socket_aeskey
           /\ \E k \in Key \ Issued : Issued' = Issued \cup {k} /\ sessionid_key' = sessionid_key \cup {k}
  BY <1>0, <1>2 DEF KeysApart, KeysIssued
<1>3. CASE /\ UNCHANGED sess /\ curfd \in Sock /\ First.key \in sessionid_key
           /\ socket_aeskey' = [socket_aeskey EXCEPT ![curfd] = First.key]
           /\ sessionid_key' = sessionid_key \ {First.key}
  <2>1. Issued' = Issued
    BY <1>3 DEF Issued
  <2> QED BY <1>0, <1>3, <2>1 DEF KeysApart, KeysIssued
<1>4. CASE /\ UNCHANGED << sess, sessionid_key >> /\ curfd \in Sock
           /\ socket_aeskey' = [socket_aeskey EXCEPT ![curfd] = NoKey]
  <2>1. Issued' = Issued
    BY <1>4 DEF Issued
  <2> QED BY <1>0, <1>4, <2>1 DEF KeysApart, KeysIssued
<1> QED BY <1>1, <1>2, <1>3, <1>4, KeyMoves

-------------------------------------------------------------------------------
(* What is in an inbox                                                     *)

\* At the back: a led message has its presentation before it.
LEMMA AppendOrder ==
    ASSUME NEW q \in Seq(Item), NEW e \in Item, NEW S, NEW I, Led(q, S), MsgsOf(q, I)
    PROVE  /\ (e.led /\ e.key \in S => Shows(q, e.key)) => Led(Append(q, e), S)
           /\ (e.led => e.key \in I) => MsgsOf(Append(q, e), I)
           /\ \A k : Shows(q, k) => Shows(Append(q, e), k)
           /\ e.kind = "auth" => Shows(Append(q, e), e.key)
<1> DEFINE p == Append(q, e)
<1>1. /\ Len(q) \in Nat /\ DOMAIN q = 1 .. Len(q) /\ DOMAIN p = 1 .. Len(q) + 1
      /\ \A i \in 1 .. Len(q) : p[i] = q[i]
      /\ p[Len(q) + 1] = e
  BY AppendFacts
<1> HIDE DEF p
<1>2. Auths(q) \subseteq Auths(p) /\ \A i \in Auths(q) : p[i] = q[i] /\ i < Len(q) + 1
  BY <1>1 DEF Auths
<1>3. e.kind = "auth" => Len(q) + 1 \in Auths(p)
  BY <1>1 DEF Auths
<1>4. \A k : Shows(q, k) => Shows(p, k)
  BY <1>2 DEF Shows
<1>5. e.kind = "auth" => Shows(p, e.key)
  BY <1>1, <1>3 DEF Shows
<1>6. ASSUME e.led /\ e.key \in S => Shows(q, e.key) PROVE Led(p, S)
  <2> SUFFICES ASSUME NEW n \in DOMAIN p, p[n].led, p[n].key \in S
               PROVE  \E i \in Auths(p) : i < n /\ p[i].key = p[n].key
    BY DEF Led
  <2>1. CASE n = Len(q) + 1
    BY <1>1, <1>2, <1>6, <2>1 DEF Shows
  <2>2. CASE n # Len(q) + 1
    <3>1. n \in DOMAIN q /\ p[n] = q[n]
      BY <1>1, <2>2
    <3> QED BY <1>2, <3>1 DEF Led
  <2> QED BY <2>1, <2>2
<1>7. ASSUME e.led => e.key \in I PROVE MsgsOf(p, I)
  <2> SUFFICES ASSUME NEW n \in DOMAIN p, p[n].led PROVE p[n].key \in I
    BY DEF MsgsOf
  <2>1. (n \in DOMAIN q /\ p[n] = q[n]) \/ p[n] = e
    BY <1>1
  <2> QED BY <1>7, <2>1 DEF MsgsOf
<1> QED BY <1>4, <1>5, <1>6, <1>7 DEF p

\* At the front: what led a message is still there unless its key left S.
LEMMA TailOrder ==
    ASSUME NEW q \in Seq(Item), q # << >>, NEW S, NEW I, NEW T,
           Led(q, S), MsgsOf(q, I), T \cap I \subseteq S,
           Head(q).kind = "auth" => Head(q).key \notin T
    PROVE  /\ Led(Tail(q), T) /\ MsgsOf(Tail(q), I)
           /\ \A k \in T : Shows(q, k) => Shows(Tail(q), k)
<1> DEFINE p == Tail(q)
<1>1. /\ Len(q) \in Nat /\ Len(q) > 0 /\ Head(q) = q[1]
      /\ DOMAIN q = 1 .. Len(q) /\ DOMAIN p = 1 .. Len(q) - 1
      /\ \A i \in 1 .. Len(q) - 1 : p[i] = q[i + 1]
  BY TailFacts
<1> HIDE DEF p
<1>2. \A i \in Auths(q) : i # 1 => i - 1 \in Auths(p) /\ p[i - 1] = q[i]
  BY <1>1 DEF Auths
<1>3. \A i \in Auths(q) : i \in Nat /\ (q[i].key \in T => i # 1)
  BY <1>1 DEF Auths
<1>4. MsgsOf(p, I)
  <2> SUFFICES ASSUME NEW n \in DOMAIN p, p[n].led PROVE p[n].key \in I
    BY DEF MsgsOf
  <2>1. n + 1 \in DOMAIN q /\ p[n] = q[n + 1]
    BY <1>1
  <2> QED BY <2>1 DEF MsgsOf
<1>5. Led(p, T)
  <2> SUFFICES ASSUME NEW n \in DOMAIN p, p[n].led, p[n].key \in T
               PROVE  \E i \in Auths(p) : i < n /\ p[i].key = p[n].key
    BY DEF Led
  <2>1. n + 1 \in DOMAIN q /\ p[n] = q[n + 1] /\ n \in Nat
    BY <1>1
  <2>2. q[n + 1].key \in S
    BY <1>4, <2>1 DEF MsgsOf
  <2>3. PICK i \in Auths(q) : i < n + 1 /\ q[i].key = q[n + 1].key
    BY <2>1, <2>2 DEF Led
  <2>4. i - 1 \in Auths(p) /\ p[i - 1] = q[i] /\ i - 1 < n
    BY <1>2, <1>3, <2>1, <2>3
  <2> QED BY <2>1, <2>3, <2>4
<1>6. ASSUME NEW k \in T, Shows(q, k) PROVE Shows(p, k)
  BY <1>2, <1>3, <1>6 DEF Shows
<1> QED BY <1>4, <1>5, <1>6 DEF p

\* A led message at the head has no key that waits.
LEMMA HeadOrder ==
    ASSUME NEW q \in Seq(Item), q # << >>, NEW S, NEW I, Led(q, S), MsgsOf(q, I), Head(q).led
    PROVE  Head(q).key \in I /\ Head(q).key \notin S
<1>1. Head(q) = q[1] /\ 1 \in DOMAIN q /\ DOMAIN q \subseteq Nat \ {0}
  BY TailFacts
<1>2. \A i \in Auths(q) : ~(i < 1)
  BY <1>1 DEF Auths
<1> QED BY <1>1, <1>2 DEF Led, MsgsOf

\* A socket that is deaf stays so.
LEMMA DeafStays ==
    ASSUME TypeOK, FdsApart, [Next]_vars, NEW s \in Sock, Deaf(s)
    PROVE  Deaf(s)'
<1> USE DEF Loop
<1>0. /\ conn \in [Sock -> {"new", "pending", "open", "fin", "rst"}] /\ inbox \in [Sock -> Seq(Item)]
  BY DEF TypeOK
<1>1. ASSUME UNCHANGED << lpc, curfd >>, Closed(s) => Closed(s)',
             Closed(s) => inbox'[s] = inbox[s]
      PROVE  Deaf(s)'
  BY <1>1 DEF Deaf, Closed
<1>2. CASE ClientStep
  <2>1. UNCHANGED << lpc, curfd >>
    BY <1>2 DEF ClientStep, Connect, AskTLS, PresentId, SendMore, Sends, Disconnect, Reset, Leaves, loopVars
  <2>2. Closed(s) => Closed(s)'
    BY <1>0, <1>2 DEF Closed, ClientStep, Connect, AskTLS, PresentId, SendMore, Sends, Disconnect, Reset, Leaves
  <2>3. ASSUME Closed(s) PROVE inbox'[s] = inbox[s]
    <3>1. ASSUME NEW r \in Sock, NEW e, Sends(r, e), MaySend(r) PROVE inbox'[s] = inbox[s]
      BY <1>0, <2>3, <3>1 DEF Sends, MaySend, Closed
    <3> QED BY <1>2, <3>1 DEF ClientStep, Connect, AskTLS, PresentId, SendMore, Disconnect, Reset, Leaves
  <2> QED BY <1>1, <2>1, <2>2, <2>3
<1>3. CASE lpc = "drain" /\ curfd = s /\ LoopStep
  <2>1. Drain
    BY <1>3
    DEF LoopStep, Wait, Done, Accept, AcceptFails, Peek, Gone, Receive, RecvTls, RecvAuth, RecvMessage, RecvPart,
        RecvBye, RecvOdd, HandleTls, HandleAuth
  <2> QED BY <1>3, <2>1 DEF Drain, Deaf, Closed, clientVars
<1>4. CASE ~(lpc = "drain" /\ curfd = s) /\ LoopStep
  <2>0. Closed(s) /\ inbox[s] = << >>
    BY <1>4 DEF Deaf
  <2>1. Closed(s)'
    <3>1. CASE Accept
      <4>1. backlog # << >> /\ backlog \in Seq(Sock)
        BY <3>1 DEF Accept, FdsApart, TypeOK
      <4> QED BY <1>0, <2>0, <3>1, <4>1, TailFacts DEF Accept, Closed
    <3> QED
      BY <1>4, <2>0, <3>1
      DEF LoopStep, Wait, Done, AcceptFails, Peek, Gone, Receive, RecvTls, RecvAuth, RecvMessage, RecvPart,
          RecvBye, RecvOdd, HandleTls, HandleAuth, Drain, Closed, clientVars
  <2>2. inbox'[s] = << >>
    <3>1. ASSUME lpc \in {"recv", "auth"}, Consume PROVE inbox'[s] = << >>
      BY <1>0, <2>0, <3>1 DEF Consume, TypeOK
    <3>2. CASE Drain
      BY <1>0, <1>4, <2>0, <3>2 DEF Drain
    <3> QED
      BY <1>4, <2>0, <3>1, <3>2
      DEF LoopStep, Wait, Done, Accept, AcceptFails, Peek, Gone, Receive, RecvTls, RecvAuth, RecvMessage, RecvPart,
          RecvBye, RecvOdd, HandleTls, HandleAuth, kernelVars
  <2> QED BY <2>1, <2>2 DEF Deaf
<1>5. ASSUME NEW w \in Worker, WorkerStep(w) PROVE Deaf(s)'
  BY <1>1, <1>5 DEF WorkerStep, Start, Check, Answer, clientVars, kernelVars, loopVars, Closed
<1>6. CASE UNCHANGED vars
  BY <1>1, <1>6 DEF vars, Closed
<1> QED BY <1>2, <1>3, <1>4, <1>5, <1>6 DEF Next

\* What a step may do to the inboxes.
Pushed(s, e) ==
    /\ MaySend(s)
    /\ inbox' = [inbox EXCEPT ![s] = Append(inbox[s], e)]
    /\ UNCHANGED << conn, sess, sessionid_key, socket_aeskey, fd, my_epoll, lpc, curfd, tasks, wpc, task >>
    /\ \/ /\ e.kind = "auth" /\ ~e.led /\ e.key \in sess[Owner[s]] /\ e.key \in Key
          /\ id' = [id EXCEPT ![s] = e.key]
          /\ shown' = [shown EXCEPT ![e.key] = IF @ = 0 THEN 1 ELSE 2]
       \/ e.kind # "auth" /\ UNCHANGED << id, shown >> /\ (e.led => e.key = id[s] /\ id[s] # NoKey)
Popped ==
    /\ curfd \in Sock /\ inbox[curfd] \in Seq(Item) /\ inbox[curfd] # << >>
    /\ lpc \in {"recv", "auth"} /\ lpc' # "auth" /\ curfd' = curfd
    /\ inbox' = [inbox EXCEPT ![curfd] = Tail(inbox[curfd])]
    /\ UNCHANGED << conn, sess, id, shown, fd, my_epoll >>
    /\ \/ HandleAuth
       \/ First.kind # "auth" /\ UNCHANGED << sessionid_key, socket_aeskey >>
Drained ==
    /\ curfd \in Sock
    /\ inbox' = [inbox EXCEPT ![curfd] = << >>]
    /\ lpc = "drain" /\ lpc' = "drain"
    /\ UNCHANGED << sess, id, shown, sessionid_key, socket_aeskey, fd, my_epoll, curfd, tasks, wpc, task >>

LEMMA InboxMoves ==
    ASSUME TypeOK, FdsApart, [Next]_vars
    PROVE  \/ UNCHANGED << inbox, id, shown >> /\ (lpc' = "auth" => (UNCHANGED << lpc, curfd >>) \/ RecvAuth)
           \/ \E s \in Sock, e \in Item : Pushed(s, e)
           \/ Popped
           \/ Drained
<1> USE DEF Loop
<1>1. CASE ClientStep
  <2>1. ASSUME NEW s \in Sock, Connect(s) \/ Disconnect(s) \/ Reset(s)
        PROVE  UNCHANGED << inbox, id, shown, lpc, curfd >>
    BY <2>1 DEF Connect, Disconnect, Reset, Leaves, loopVars
  <2>2. ASSUME NEW s \in Sock, NEW e \in Item, Sends(s, e)
        PROVE  /\ inbox' = [inbox EXCEPT ![s] = Append(inbox[s], e)]
               /\ UNCHANGED << conn, sess, sessionid_key, socket_aeskey, fd, my_epoll, lpc, curfd, tasks, wpc, task >>
    BY <2>2 DEF Sends, loopVars, watchVars, keyVars, workerVars
  <2>3. ASSUME NEW s \in Sock, AskTLS(s) PROVE \E e \in Item : Pushed(s, e)
    <3>1. Plain("tls", NoKey) \in Item
      BY DEF Plain, Item
    <3> QED BY <2>2, <2>3, <3>1 DEF AskTLS, Plain, Pushed
  <2>4. ASSUME NEW s \in Sock, PresentId(s) PROVE \E e \in Item : Pushed(s, e)
    <3>1. PICK k \in sess[Owner[s]] : /\ Sends(s, Plain("auth", k))
                                      /\ id' = [id EXCEPT ![s] = k]
                                      /\ shown' = [shown EXCEPT ![k] = IF @ = 0 THEN 1 ELSE 2]
      BY <2>4 DEF PresentId
    <3>2. k \in Key
      BY SocketsAssumption DEF TypeOK
    <3>3. Plain("auth", k) \in Item
      BY <3>2 DEF Plain, Item
    <3> QED BY <2>2, <2>4, <3>1, <3>2, <3>3 DEF PresentId, Plain, Pushed
  <2>5. ASSUME NEW s \in Sock, SendMore(s) PROVE \E e \in Item : Pushed(s, e)
    <3>1. ASSUME NEW k \in sess[Owner[s]] \cup {NoKey},
                 Sends(s, [kind |-> "msg", key |-> k, led |-> (k # NoKey /\ id[s] = k)])
          PROVE  \E e \in Item : Pushed(s, e)
      <4> DEFINE e == [kind |-> "msg", key |-> k, led |-> (k # NoKey /\ id[s] = k)]
      <4>1. e \in Item
        BY SocketsAssumption DEF Item, TypeOK
      <4>2. e.kind = "msg" /\ (e.led => e.key = id[s] /\ id[s] # NoKey)
        OBVIOUS
      <4> HIDE DEF e
      <4> QED BY <2>2, <2>5, <3>1, <4>1, <4>2 DEF SendMore, Pushed, e
    <3>2. ASSUME NEW kind \in {"part", "bye", "odd"}, Sends(s, Plain(kind, NoKey))
          PROVE  \E e \in Item : Pushed(s, e)
      <4>1. Plain(kind, NoKey) \in Item
        BY DEF Plain, Item
      <4> QED BY <2>2, <2>5, <3>2, <4>1 DEF SendMore, Plain, Pushed
    <3> QED BY <2>5, <3>1, <3>2 DEF SendMore
  <2> QED BY <1>1, <2>1, <2>3, <2>4, <2>5 DEF ClientStep
<1>2. CASE LoopStep
  <2>1. CASE RecvTls \/ RecvMessage \/ RecvPart \/ RecvBye
    <3>1. lpc = "recv" /\ lpc' # "auth" /\ Consume /\ First.kind # "auth" /\ curfd' = curfd
      BY <2>1 DEF RecvTls, RecvMessage, RecvPart, RecvBye
    <3>2. UNCHANGED << conn, sess, id, shown, fd, my_epoll, sessionid_key, socket_aeskey >>
      BY <2>1 DEF RecvTls, RecvMessage, RecvPart, RecvBye, clientVars, watchVars, keyVars
    <3> QED BY <3>1, <3>2, ConsumeType DEF Popped, Consume
  <2>2. CASE HandleAuth
    BY <2>2, ConsumeType DEF HandleAuth, Popped, Consume, clientVars, watchVars
  <2>3. CASE Drain
    BY <2>3, Reading DEF Drain, Drained, clientVars, watchVars, keyVars, workerVars
  <2>4. CASE RecvAuth \/ RecvOdd \/ HandleTls
    BY <2>4 DEF RecvAuth, RecvOdd, HandleTls, clientVars, kernelVars
  <2>5. CASE Wait \/ Done \/ Accept \/ AcceptFails \/ Peek \/ Gone
    BY <2>5 DEF Wait, Done, Accept, AcceptFails, Peek, Gone, clientVars, kernelVars
  <2> QED BY <1>2, <2>1, <2>2, <2>3, <2>4, <2>5 DEF LoopStep, Receive
<1>3. ASSUME NEW w \in Worker, WorkerStep(w) PROVE UNCHANGED << inbox, id, shown, lpc, curfd >>
  BY <1>3 DEF WorkerStep, Start, Check, Answer, clientVars, kernelVars, loopVars
<1>4. CASE UNCHANGED vars
  BY <1>4 DEF vars
<1> QED BY <1>1, <1>2, <1>3, <1>4 DEF Next

\* Keys that exist go on existing, and those that were used stay used.
LEMMA KeysGrow ==
    ASSUME TypeOK, FdsApart, [Next]_vars
    PROVE  Issued \subseteq Issued' /\ sessionid_key' \cap Issued \subseteq sessionid_key
<1>1. UNCHANGED sess => Issued' = Issued
  BY DEF Issued
<1> QED BY <1>1, KeyMoves

LEMMA AuthFirstStep ==
    ASSUME TypeOK, FdsApart, KeysIssued, AuthFirst, [Next]_vars
    PROVE  AuthFirst'
<1>0. /\ inbox \in [Sock -> Seq(Item)] /\ id \in [Sock -> Key \cup {NoKey}]
      /\ Issued \subseteq Issued' /\ sessionid_key' \cap Issued \subseteq sessionid_key
      /\ NoKey \notin Key /\ sessionid_key' \subseteq Key
  BY KeysGrow, TypeStep, SocketsAssumption DEF TypeOK
<1>1. lpc' = "auth" => First'.kind = "auth"
  <2> SUFFICES ASSUME lpc' = "auth" PROVE First'.kind = "auth"
    OBVIOUS
  <2>1. CASE UNCHANGED << inbox, lpc, curfd >>
    BY <2>1 DEF AuthFirst, First
  <2>2. CASE RecvAuth
    BY <2>2 DEF RecvAuth, First, kernelVars
  <2>3. ASSUME NEW s \in Sock, NEW e \in Item, Pushed(s, e) PROVE First'.kind = "auth"
    <3>1. UNCHANGED << lpc, curfd >>
      BY <2>3 DEF Pushed
    <3>2. curfd \in Sock /\ inbox[curfd] \in Seq(Item) /\ inbox[curfd] # << >>
      BY <3>1, ConsumeType
    <3>3. First' = First
      <4>1. Head(Append(inbox[curfd], e)) = Head(inbox[curfd])
        <5>1. Append(inbox[curfd], e) \in Seq(Item) /\ Append(inbox[curfd], e) # << >>
          BY <3>2, AppendFacts
        <5>2. 1 \in 1 .. Len(inbox[curfd]) /\ Head(inbox[curfd]) = inbox[curfd][1]
          BY <3>2, TailFacts
        <5>3. Append(inbox[curfd], e)[1] = inbox[curfd][1]
          BY <3>2, <5>2, AppendFacts
        <5> QED BY <5>1, <5>2, <5>3, TailFacts
      <4>2. inbox'[curfd] = inbox[curfd] \/ inbox'[curfd] = Append(inbox[curfd], e)
        BY <1>0, <2>3 DEF Pushed
      <4> QED BY <3>1, <4>1, <4>2 DEF First
    <3> QED BY <3>1, <3>3 DEF AuthFirst
  <2>4. lpc' # "auth" \/ (~Popped /\ ~Drained)
    BY DEF Popped, Drained
  <2> QED BY <2>1, <2>2, <2>3, <2>4, InboxMoves
<1>2. ASSUME NEW s \in Sock, ~Deaf(s)'
      PROVE  /\ id'[s] \in Issued' \cup {NoKey} /\ MsgsOf(inbox'[s], Issued')
             /\ id'[s] \in sessionid_key' => Shows(inbox'[s], id'[s])
             /\ Led(inbox'[s], sessionid_key')
  <2>0. /\ ~Deaf(s)
        /\ id[s] \in Issued \cup {NoKey} /\ MsgsOf(inbox[s], Issued)
        /\ id[s] \in sessionid_key => Shows(inbox[s], id[s])
        /\ Led(inbox[s], sessionid_key)
        /\ inbox[s] \in Seq(Item)
    BY <1>0, <1>2, DeafStays DEF AuthFirst
  <2>1. CASE inbox'[s] = inbox[s] /\ id'[s] = id[s]
    <3>1. MsgsOf(inbox[s], Issued') /\ Led(inbox[s], sessionid_key')
      BY <1>0, <2>0 DEF MsgsOf, Led
    <3> QED BY <1>0, <2>0, <2>1, <3>1
  <2>2. ASSUME NEW e \in Item, Pushed(s, e)
        PROVE  /\ id'[s] \in Issued' \cup {NoKey} /\ MsgsOf(inbox'[s], Issued')
               /\ id'[s] \in sessionid_key' => Shows(inbox'[s], id'[s])
               /\ Led(inbox'[s], sessionid_key')
    <3>1. inbox'[s] = Append(inbox[s], e) /\ UNCHANGED << sessionid_key, sess >> /\ Issued' = Issued
      BY <1>0, <2>2 DEF Pushed, Issued
    <3>2. e.led => e.key = id[s] /\ id[s] # NoKey
      BY <2>2 DEF Pushed
    <3>3. /\ MsgsOf(inbox'[s], Issued) /\ Led(inbox'[s], sessionid_key)
          /\ \A k : Shows(inbox[s], k) => Shows(inbox'[s], k)
          /\ e.kind = "auth" => Shows(inbox'[s], e.key)
      BY <2>0, <3>1, <3>2, AppendOrder
    <3>4. id'[s] = id[s] \/ (e.kind = "auth" /\ id'[s] = e.key /\ e.key \in Issued)
      <4>1. e.key \in sess[Owner[s]] => e.key \in Issued
        BY SocketsAssumption DEF Issued
      <4> QED BY <1>0, <2>2, <4>1 DEF Pushed
    <3> QED BY <2>0, <3>1, <3>3, <3>4
  <2>3. ASSUME Popped, s = curfd
        PROVE  /\ id'[s] \in Issued' \cup {NoKey} /\ MsgsOf(inbox'[s], Issued')
               /\ id'[s] \in sessionid_key' => Shows(inbox'[s], id'[s])
               /\ Led(inbox'[s], sessionid_key')
    <3>1. inbox'[s] = Tail(inbox[s]) /\ inbox[s] # << >> /\ id' = id /\ Issued' = Issued
      BY <1>0, <2>3 DEF Popped, Issued
    <3>2. Head(inbox[s]).kind = "auth" => Head(inbox[s]).key \notin sessionid_key'
      <4>1. CASE HandleAuth
        BY <2>3, <4>1 DEF HandleAuth, Authenticate, First
      <4>2. CASE First.kind # "auth"
        BY <2>3, <4>2 DEF First
      <4> QED BY <2>3, <4>1, <4>2 DEF Popped
    <3>3. /\ Led(inbox'[s], sessionid_key') /\ MsgsOf(inbox'[s], Issued)
          /\ \A k \in sessionid_key' : Shows(inbox[s], k) => Shows(inbox'[s], k)
      <4> DEFINE q == inbox[s]  T == sessionid_key'  S == sessionid_key  I == Issued
      <4>1. /\ q \in Seq(Item) /\ q # << >> /\ Led(q, S) /\ MsgsOf(q, I) /\ T \cap I \subseteq S
            /\ Head(q).kind = "auth" => Head(q).key \notin T
        BY <1>0, <2>0, <3>1, <3>2
      <4>2. inbox'[s] = Tail(q)
        BY <3>1
      <4> HIDE DEF q, T, S, I
      <4>3. /\ Led(Tail(q), T) /\ MsgsOf(Tail(q), I)
            /\ \A k \in T : Shows(q, k) => Shows(Tail(q), k)
        BY <4>1, TailOrder
      <4> QED BY <4>2, <4>3 DEF q, T, I
    <3> QED BY <1>0, <2>0, <3>1, <3>3
  <2>4. ASSUME Drained PROVE inbox'[s] = inbox[s] /\ id'[s] = id[s]
    <3>1. s # curfd
      BY <1>2, <2>4 DEF Drained, Deaf
    <3> QED BY <1>0, <2>4, <3>1 DEF Drained
  <2>5. ASSUME NEW r \in Sock, NEW e \in Item, Pushed(r, e), r # s PROVE inbox'[s] = inbox[s] /\ id'[s] = id[s]
    BY <1>0, <2>5 DEF Pushed
  <2>6. ASSUME Popped, s # curfd PROVE inbox'[s] = inbox[s] /\ id'[s] = id[s]
    BY <1>0, <2>6 DEF Popped
  <2> QED BY <2>1, <2>2, <2>3, <2>4, <2>5, <2>6, InboxMoves
<1> QED BY <1>1, <1>2 DEF AuthFirst

-------------------------------------------------------------------------------
(* Messages that were read                                                 *)

LEMMA FdsStay ==
    ASSUME TypeOK, FdsApart, [Next]_vars, NEW s \in Sock, fd[s] # 0
    PROVE  fd'[s] = fd[s]
<1>1. CASE Accept
  <2>1. backlog # << >> /\ backlog \in Seq(Sock)
    BY <1>1 DEF Accept, FdsApart, TypeOK
  <2>2. Head(backlog) \in Sock /\ fd[Head(backlog)] = 0
    <3>1. 1 \in DOMAIN backlog /\ Head(backlog) = backlog[1] /\ Head(backlog) \in Sock
      BY <2>1, TailFacts
    <3> QED BY <3>1 DEF FdsApart
  <2> QED BY <1>1, <2>2 DEF Accept, TypeOK
<1>2. CASE ClientStep
  BY <1>2 DEF ClientStep, Connect, AskTLS, PresentId, SendMore, Sends, Disconnect, Reset, Leaves, loopVars, watchVars
<1>3. CASE LoopStep /\ ~Accept
  BY <1>3
  DEF LoopStep, Wait, Done, AcceptFails, Peek, Gone, Receive, RecvTls, RecvAuth, RecvMessage, RecvPart,
      RecvBye, RecvOdd, HandleTls, HandleAuth, Drain, watchVars
<1>4. ASSUME NEW w \in Worker, WorkerStep(w) PROVE UNCHANGED fd
  BY <1>4 DEF WorkerStep, Start, Check, Answer, loopVars, watchVars
<1>5. CASE UNCHANGED vars
  BY <1>5 DEF vars
<1> QED BY <1>1, <1>2, <1>3, <1>4, <1>5 DEF Next

\* What was true of a message when it was read stays true of it.
LEMMA ReadStays ==
    ASSUME TypeOK, FdsApart, [Next]_vars, NEW m, Read(m)
    PROVE  Read(m)'
<1>1. m \in Message /\ m.sock \in Sock /\ fd'[m.sock] = fd[m.sock]
  BY FdsStay DEF Read, Message
<1> QED BY <1>1, KeysGrow DEF Read

\* What a step may do to the messages.
LEMMA TaskMoves ==
    ASSUME TypeOK, FdsApart, [Next]_vars
    PROVE  \/ UNCHANGED << tasks, wpc, task, key >>
           \/ RecvMessage
           \/ \E w \in Worker : WorkerStep(w)
<1>1. CASE ClientStep
  BY <1>1 DEF ClientStep, Connect, AskTLS, PresentId, SendMore, Sends, Disconnect, Reset, Leaves, workerVars
<1>2. CASE LoopStep
  BY <1>2
  DEF LoopStep, Wait, Done, Accept, AcceptFails, Peek, Gone, Receive, RecvTls, RecvAuth, RecvPart,
      RecvBye, RecvOdd, HandleTls, HandleAuth, Drain, workerVars
<1>3. CASE UNCHANGED vars
  BY <1>3 DEF vars
<1> QED BY <1>1, <1>2, <1>3 DEF Next

\* The message that is read was led by a presentation which was read before it.
LEMMA MessageRead ==
    ASSUME TypeOK, FdsApart, AuthFirst, RecvMessage
    PROVE  Read([sock |-> curfd, fd |-> fd[curfd], key |-> First.key, led |-> First.led])
<1>1. /\ lpc = "recv" /\ curfd \in Sock /\ First \in Item /\ First.kind = "msg"
      /\ inbox[curfd] \in Seq(Item) /\ inbox[curfd] # << >>
  BY ConsumeType DEF RecvMessage, Loop
<1>2. fd[curfd] # 0 /\ fd[curfd] \in Nat
  BY <1>1 DEF FdsApart, TypeOK, Numbers
<1>3. MsgsOf(inbox[curfd], Issued) /\ Led(inbox[curfd], sessionid_key)
  BY <1>1 DEF AuthFirst, Deaf
<1>4. First.led => First.key \in Issued /\ First.key \notin sessionid_key
  <2> SUFFICES ASSUME First.led PROVE First.key \in Issued /\ First.key \notin sessionid_key
    OBVIOUS
  <2> DEFINE q == inbox[curfd]  S == sessionid_key  I == Issued
  <2>1. q \in Seq(Item) /\ q # << >> /\ Led(q, S) /\ MsgsOf(q, I) /\ Head(q).led
    BY <1>1, <1>3 DEF First
  <2> HIDE DEF q, S, I
  <2>2. Head(q).key \in I /\ Head(q).key \notin S
    BY <2>1, HeadOrder
  <2> QED BY <2>2 DEF q, S, I, First
<1> QED BY <1>1, <1>2, <1>4 DEF Read, Message, Item

LEMMA TasksStep ==
    ASSUME TypeOK, FdsApart, AuthFirst, TasksRead, [Next]_vars
    PROVE  TasksRead'
<1>0. tasks \in Seq(Message) /\ task \in [Worker -> Message \cup {NoKey}] /\ wpc \in [Worker -> {"idle", "check", "reply"}]
  BY DEF TypeOK
<1>1. \A m : Read(m) => Read(m)'
  BY ReadStays
<1>2. CASE UNCHANGED << tasks, wpc, task, key >>
  <2>1. \A i \in DOMAIN tasks : Read(tasks[i])'
    BY <1>1, <1>2 DEF TasksRead
  <2>2. ASSUME NEW w \in Worker, wpc'[w] # "idle" PROVE Read(task[w])'
    BY <1>1, <1>2, <2>2 DEF TasksRead
  <2> QED BY <1>2, <2>1, <2>2 DEF TasksRead
<1>3. CASE RecvMessage
  <2> DEFINE m == [sock |-> curfd, fd |-> fd[curfd], key |-> First.key, led |-> First.led]
  <2>1. Read(m) /\ m \in Message
    BY <1>3, MessageRead DEF Read
  <2>2. tasks' = Append(tasks, m) /\ UNCHANGED << wpc, task >>
    BY <1>3 DEF RecvMessage, NewClientMsg
  <2> HIDE DEF m
  <2>3. \A i \in DOMAIN tasks' : (i \in DOMAIN tasks /\ tasks'[i] = tasks[i]) \/ tasks'[i] = m
    BY <1>0, <2>1, <2>2, AppendFacts
  <2>4. \A i \in DOMAIN tasks' : Read(tasks'[i])
    BY <2>1, <2>3 DEF TasksRead
  <2>5. \A i \in DOMAIN tasks' : Read(tasks[i])'
    BY <1>1, <2>4
  <2>6. ASSUME NEW w \in Worker, wpc'[w] # "idle" PROVE Read(task[w])'
    BY <1>1, <2>2, <2>6 DEF TasksRead
  <2> QED BY <2>5, <2>6 DEF TasksRead
<1>4. ASSUME NEW w \in Worker, WorkerStep(w) PROVE TasksRead'
  <2>1. CASE Start(w)
    <3>1. tasks # << >> /\ tasks' = Tail(tasks)
      BY <2>1 DEF Start
    <3>2. \A i \in DOMAIN tasks' : i + 1 \in DOMAIN tasks /\ tasks'[i] = tasks[i + 1]
      BY <1>0, <3>1, TailFacts
    <3>3. Head(tasks) = tasks[1] /\ 1 \in DOMAIN tasks
      BY <1>0, <3>1, TailFacts
    <3>4. \A i \in DOMAIN tasks' : Read(tasks'[i])
      BY <3>2 DEF TasksRead
    <3>5. \A i \in DOMAIN tasks' : Read(tasks[i])'
      BY <1>1, <3>4
    <3>6. ASSUME NEW v \in Worker, wpc'[v] # "idle" PROVE Read(task'[v])
      <4>1. CASE v = w
        BY <1>0, <2>1, <3>3, <4>1 DEF Start, TasksRead
      <4>2. CASE v # w
        BY <1>0, <2>1, <3>6, <4>2 DEF Start, TasksRead
      <4> QED BY <4>1, <4>2
    <3>7. ASSUME NEW v \in Worker, wpc'[v] # "idle" PROVE Read(task[v])'
      BY <1>1, <3>6, <3>7
    <3> QED BY <3>5, <3>7 DEF TasksRead
  <2>2. CASE Check(w) \/ Answer(w)
    <3>1. UNCHANGED tasks
      BY <2>2 DEF Check, Answer
    <3>2. \A i \in DOMAIN tasks' : Read(tasks[i])'
      BY <1>1, <3>1 DEF TasksRead
    <3>3. ASSUME NEW v \in Worker, wpc'[v] # "idle" PROVE Read(task'[v])
      <4>1. wpc[v] # "idle" /\ task'[v] = task[v]
        BY <1>0, <2>2, <3>3 DEF Check, Rests, Answer
      <4> QED BY <4>1 DEF TasksRead
    <3>4. ASSUME NEW v \in Worker, wpc'[v] # "idle" PROVE Read(task[v])'
      BY <1>1, <3>3, <3>4
    <3> QED BY <3>2, <3>4 DEF TasksRead
  <2> QED BY <1>4, <2>1, <2>2 DEF WorkerStep
<1> QED BY <1>2, <1>3, <1>4, TaskMoves

\* The two reads of a worker agree when the second one succeeds: a key that leaves a
\* socket in between does not come back, and none that comes is the message's.
LEMMA ReadsStep ==
    ASSUME TypeOK, FdsApart, TasksRead, ReadsAgree, AnswerReadable, [Next]_vars
    PROVE  ReadsAgree' /\ AnswerReadable'
<1>0. /\ tasks \in Seq(Message) /\ task \in [Worker -> Message \cup {NoKey}]
      /\ key \in [Worker -> Key \cup {NoKey}] /\ wpc \in [Worker -> {"idle", "check", "reply"}]
      /\ socket_aeskey \in [Sock -> Key \cup {NoKey}] /\ NoKey \notin Key
  BY SocketsAssumption DEF TypeOK
<1>1. ASSUME NEW w \in Worker, wpc[w] = "check", task[w].led, task'[w] = task[w], key'[w] = key[w],
             socket_aeskey'[task[w].sock] = task[w].key
      PROVE  socket_aeskey[task[w].sock] = task[w].key /\ key'[w] = task'[w].key
  <2>1. task[w].sock \in Sock /\ task[w].key \in Key \ sessionid_key
    BY <1>0, <1>1 DEF TasksRead, Read, Message, Issued, TypeOK
  <2>2. socket_aeskey'[task[w].sock] \in sessionid_key \cup {socket_aeskey[task[w].sock], NoKey}
    BY <1>0, <2>1, KeyMoves
  <2>3. socket_aeskey[task[w].sock] = task[w].key
    BY <1>0, <1>1, <2>1, <2>2
  <2> QED BY <1>1, <2>3 DEF ReadsAgree
<1>2. CASE UNCHANGED << tasks, wpc, task, key >> \/ RecvMessage
  <2>1. UNCHANGED << wpc, task, key >>
    BY <1>2 DEF RecvMessage
  <2> QED BY <1>1, <2>1 DEF ReadsAgree, AnswerReadable
<1>3. ASSUME NEW w \in Worker, Start(w) PROVE ReadsAgree' /\ AnswerReadable'
  <2>1. /\ task' = [task EXCEPT ![w] = Head(tasks)] /\ key' = [key EXCEPT ![w] = socket_aeskey[Head(tasks).sock]]
        /\ wpc' = [wpc EXCEPT ![w] = "check"] /\ socket_aeskey' = socket_aeskey
    BY <1>3 DEF Start, keyVars
  <2> QED BY <1>0, <2>1 DEF ReadsAgree, AnswerReadable
<1>4. ASSUME NEW w \in Worker, Check(w) PROVE ReadsAgree' /\ AnswerReadable'
  <2>1. UNCHANGED socket_aeskey /\ wpc[w] = "check"
    BY <1>4 DEF Check, keyVars
  <2>2. ASSUME NEW v \in Worker, wpc'[v] # "idle"
        PROVE  /\ task'[v] = task[v] /\ key'[v] = key[v]
               /\ wpc'[v] = wpc[v] \/ (v = w /\ socket_aeskey[task[v].sock] = task[v].key /\ wpc'[v] = "reply")
    BY <1>0, <1>4, <2>2 DEF Check, Rests, Decrypts
  <2> QED BY <2>1, <2>2 DEF ReadsAgree, AnswerReadable
<1>5. ASSUME NEW w \in Worker, Answer(w) PROVE ReadsAgree' /\ AnswerReadable'
  <2>1. /\ UNCHANGED socket_aeskey
        /\ \A v \in Worker : wpc'[v] # "idle" => wpc'[v] = wpc[v] /\ task'[v] = task[v] /\ key'[v] = key[v]
    BY <1>0, <1>5 DEF Answer, Rests, keyVars
  <2> QED BY <2>1 DEF ReadsAgree, AnswerReadable
<1> QED BY <1>2, <1>3, <1>4, <1>5, TaskMoves DEF WorkerStep

-------------------------------------------------------------------------------
(* What was presented once                                                 *)

LEMMA AppendAuths ==
    ASSUME NEW q \in Seq(Item), NEW e \in Item
    PROVE  /\ \A i \in Auths(q) : i \in Auths(Append(q, e)) /\ Append(q, e)[i] = q[i]
           /\ \A i \in Auths(Append(q, e)) : i \in Auths(q) \/ (e.kind = "auth" /\ Append(q, e)[i] = e /\ i = Len(q) + 1)
           /\ e.kind = "auth" => ShownLast(Append(q, e), e.key)
<1> DEFINE p == Append(q, e)
<1>1. /\ Len(q) \in Nat /\ DOMAIN q = 1 .. Len(q) /\ DOMAIN p = 1 .. Len(q) + 1
      /\ \A i \in 1 .. Len(q) : p[i] = q[i]
      /\ p[Len(q) + 1] = e
  BY AppendFacts
<1> HIDE DEF p
<1>2. /\ \A i \in Auths(q) : i \in Auths(p) /\ p[i] = q[i]
      /\ \A i \in Auths(p) : i \in Auths(q) \/ (e.kind = "auth" /\ p[i] = e /\ i = Len(q) + 1)
  BY <1>1 DEF Auths
<1>3. ASSUME e.kind = "auth" PROVE ShownLast(p, e.key)
  <2>1. Len(q) + 1 \in Auths(p) /\ \A j \in Auths(p) : j <= Len(q) + 1
    BY <1>1, <1>3 DEF Auths
  <2> QED BY <1>1, <2>1 DEF ShownLast
<1> QED BY <1>2, <1>3 DEF p

LEMMA TailAuths ==
    ASSUME NEW q \in Seq(Item), q # << >>
    PROVE  /\ \A i \in Auths(Tail(q)) : i + 1 \in Auths(q) /\ Tail(q)[i] = q[i + 1] /\ i \in Nat \ {0}
           /\ \A i \in Auths(q) : i \in Nat /\ (i # 1 => i - 1 \in Auths(Tail(q)) /\ Tail(q)[i - 1] = q[i])
           /\ Head(q) = q[1] /\ (Head(q).kind = "auth" <=> 1 \in Auths(q))
<1> DEFINE p == Tail(q)
<1>1. /\ Len(q) \in Nat /\ Len(q) > 0 /\ Head(q) = q[1]
      /\ DOMAIN q = 1 .. Len(q) /\ DOMAIN p = 1 .. Len(q) - 1
      /\ \A i \in 1 .. Len(q) - 1 : p[i] = q[i + 1]
  BY TailFacts
<1> HIDE DEF p
<1>2. /\ \A i \in Auths(p) : i + 1 \in Auths(q) /\ p[i] = q[i + 1] /\ i \in Nat \ {0}
      /\ \A i \in Auths(q) : i \in Nat /\ (i # 1 => i - 1 \in Auths(p) /\ p[i - 1] = q[i])
  BY <1>1 DEF Auths
<1>3. Head(q).kind = "auth" <=> 1 \in Auths(q)
  BY <1>1 DEF Auths
<1> QED BY <1>1, <1>2, <1>3 DEF p

\* Only the first thing in an inbox is read: what is presented later is presented later.
LEMMA TailLast ==
    ASSUME NEW q \in Seq(Item), q # << >>, NEW k
    PROVE  /\ Shows(Tail(q), k) => Shows(q, k)
           /\ Head(q).kind # "auth" /\ ShownLast(q, k) => ShownLast(Tail(q), k)
           /\ ShownLast(q, k) => ShownLast(Tail(q), k) \/ (Auths(Tail(q)) = {} /\ Head(q).key = k)
           /\ ShownLast(q, k) => Shows(q, k)
           /\ Auths(q) = {} => Auths(Tail(q)) = {} /\ Head(q).kind # "auth"
<1> DEFINE p == Tail(q)
<1>1. /\ \A i \in Auths(p) : i + 1 \in Auths(q) /\ p[i] = q[i + 1] /\ i \in Nat \ {0}
      /\ \A i \in Auths(q) : i \in Nat /\ (i # 1 => i - 1 \in Auths(p) /\ p[i - 1] = q[i])
      /\ Head(q) = q[1] /\ (Head(q).kind = "auth" <=> 1 \in Auths(q))
  BY TailAuths
<1> HIDE DEF p
<1>2. Shows(p, k) => Shows(q, k)
  BY <1>1 DEF Shows
<1>3. ShownLast(q, k) => Shows(q, k)
  BY DEF ShownLast, Shows
<1>4. Auths(q) = {} => Auths(p) = {} /\ Head(q).kind # "auth"
  BY <1>1
<1>5. ASSUME ShownLast(q, k) PROVE ShownLast(p, k) \/ (Auths(p) = {} /\ 1 \in Auths(q) /\ Head(q).key = k)
  <2>1. PICK i \in Auths(q) : q[i].key = k /\ \A j \in Auths(q) : j <= i
    BY <1>5 DEF ShownLast
  <2>2. CASE i = 1
    <3>1. ASSUME NEW j \in Auths(p) PROVE FALSE
      <4>1. j + 1 \in Auths(q) /\ j \in Nat \ {0}
        BY <1>1
      <4> QED BY <2>1, <2>2, <4>1
    <3> QED BY <1>1, <2>1, <2>2, <3>1
  <2>3. CASE i # 1
    <3>1. i - 1 \in Auths(p) /\ p[i - 1].key = k /\ i \in Nat
      BY <1>1, <2>1, <2>3
    <3>2. \A j \in Auths(p) : j <= i - 1
      BY <1>1, <2>1
    <3> QED BY <3>1, <3>2 DEF ShownLast
  <2> QED BY <2>2, <2>3
<1> QED BY <1>1, <1>2, <1>3, <1>4, <1>5 DEF p

\* A connection that is gone stays so.
LEMMA LostStays ==
    ASSUME TypeOK, FdsApart, [Next]_vars, NEW s \in Sock, Lost(s)
    PROVE  Lost(s)'
<1>1. fd'[s] # 0
  BY FdsStay DEF Lost
<1>2. s \notin my_epoll'
  <2>1. CASE Accept
    <3>1. backlog # << >> /\ backlog \in Seq(Sock)
      BY <2>1 DEF Accept, FdsApart, TypeOK
    <3>2. fd[Head(backlog)] = 0
      <4>1. 1 \in DOMAIN backlog /\ Head(backlog) = backlog[1]
        BY <3>1, TailFacts
      <4> QED BY <4>1 DEF FdsApart
    <3> QED BY <2>1, <3>2 DEF Accept, Watch, Lost
  <2>2. CASE ClientStep
    BY <2>2 DEF ClientStep, Connect, AskTLS, PresentId, SendMore, Sends, Disconnect, Reset, Leaves, loopVars, watchVars, Lost
  <2>3. CASE LoopStep /\ ~Accept
    BY <2>3
    DEF LoopStep, Wait, Done, AcceptFails, Peek, Gone, Unwatch, Receive, RecvTls, RecvAuth, RecvMessage, RecvPart,
        RecvBye, RecvOdd, HandleTls, HandleAuth, Drain, watchVars, Lost
  <2>4. ASSUME NEW w \in Worker, WorkerStep(w) PROVE UNCHANGED my_epoll
    BY <2>4 DEF WorkerStep, Start, Check, Answer, loopVars, watchVars
  <2>5. CASE UNCHANGED vars
    BY <2>5 DEF vars, Lost
  <2> QED BY <2>1, <2>2, <2>3, <2>4, <2>5 DEF Next, Lost
<1> QED BY <1>1, <1>2 DEF Lost

\* A client's step presents a key, or sends something else.
LEMMA PushedOnce ==
    ASSUME TypeOK, FdsApart, KeysIssued, OnceShown, [Next]_vars, NEW s \in Sock, NEW e \in Item, Pushed(s, e)
    PROVE  OnceShown'
<1>0. /\ inbox \in [Sock -> Seq(Item)] /\ id \in [Sock -> Key \cup {NoKey}] /\ shown \in [Key -> 0 .. 2]
      /\ NoKey \notin Key /\ sessionid_key \subseteq Key /\ inbox[s] \in Seq(Item)
  BY SocketsAssumption DEF TypeOK
<1>1. /\ inbox' = [inbox EXCEPT ![s] = Append(inbox[s], e)]
      /\ UNCHANGED << sess, sessionid_key, socket_aeskey, fd, my_epoll >>
      /\ Issued' = Issued
  BY DEF Pushed, Issued
<1>2. /\ inbox'[s] = Append(inbox[s], e)
      /\ \A r \in Sock \ {s} : inbox'[r] = inbox[r]
  BY <1>0, <1>1
<1>3. \A r \in Sock : \A i \in Auths(inbox'[r]) :
         \/ i \in Auths(inbox[r]) /\ inbox'[r][i] = inbox[r][i]
         \/ r = s /\ e.kind = "auth" /\ inbox'[r][i] = e /\ i = Len(inbox[s]) + 1
  <2> SUFFICES ASSUME NEW r \in Sock, NEW i \in Auths(inbox'[r])
               PROVE  \/ i \in Auths(inbox[r]) /\ inbox'[r][i] = inbox[r][i]
                      \/ r = s /\ e.kind = "auth" /\ inbox'[r][i] = e /\ i = Len(inbox[s]) + 1
    OBVIOUS
  <2> DEFINE q == inbox[s]
  <2>1. q \in Seq(Item)
    BY <1>0
  <2> HIDE DEF q
  <2>2. /\ \A n \in Auths(q) : n \in Auths(Append(q, e)) /\ Append(q, e)[n] = q[n]
        /\ \A n \in Auths(Append(q, e)) :
              n \in Auths(q) \/ (e.kind = "auth" /\ Append(q, e)[n] = e /\ n = Len(q) + 1)
    BY <2>1, AppendAuths
  <2>3. CASE r = s
    <3>1. i \in Auths(Append(q, e)) /\ inbox'[r] = Append(q, e) /\ inbox[r] = q
      BY <1>2, <2>3 DEF q
    <3> QED BY <2>2, <2>3, <3>1 DEF q
  <2>4. CASE r # s
    BY <1>2, <2>4
  <2> QED BY <2>3, <2>4
<1>4. \A r \in Sock : \A i \in Auths(inbox[r]) : i \in Auths(inbox'[r]) /\ inbox'[r][i] = inbox[r][i]
  <2> SUFFICES ASSUME NEW r \in Sock, NEW i \in Auths(inbox[r])
               PROVE  i \in Auths(inbox'[r]) /\ inbox'[r][i] = inbox[r][i]
    OBVIOUS
  <2> DEFINE q == inbox[s]
  <2>1. q \in Seq(Item)
    BY <1>0
  <2> HIDE DEF q
  <2>2. \A n \in Auths(q) : n \in Auths(Append(q, e)) /\ Append(q, e)[n] = q[n]
    BY <2>1, AppendAuths
  <2> QED BY <1>2, <2>2 DEF q
<1>5. /\ e.kind = "auth" => /\ e.key \in Key /\ e.key \in Issued
                            /\ id' = [id EXCEPT ![s] = e.key]
                            /\ \A k \in Key : shown'[k] = IF k = e.key THEN (IF shown[k] = 0 THEN 1 ELSE 2) ELSE shown[k]
      /\ e.kind # "auth" => UNCHANGED << id, shown >>
  <2>1. e.key \in sess[Owner[s]] => e.key \in Issued
    BY SocketsAssumption DEF Issued
  <2> QED BY <1>0, <2>1 DEF Pushed
<1>6. \A k \in Key : /\ shown[k] > 0 => shown'[k] > 0
                     /\ shown'[k] = 1 => (shown[k] = 1 /\ ~(e.kind = "auth" /\ e.key = k))
                                       \/ (shown[k] = 0 /\ e.kind = "auth" /\ e.key = k)
                     /\ shown'[k] = 0 => shown[k] = 0
  BY <1>0, <1>5
<1>7. NeverShown'
  <2>1. Issued \subseteq Key
    BY DEF TypeOK, Issued
  <2> QED BY <1>1, <1>6, <2>1 DEF OnceShown, NeverShown
<1>8. ShownWaits'
  <2> SUFFICES ASSUME NEW r \in Sock, NEW k \in Key, NEW i \in Auths(inbox'[r]), inbox'[r][i].key = k
               PROVE  shown'[k] > 0 /\ (shown'[k] = 1 => k \in sessionid_key)
    BY <1>1 DEF ShownWaits, Shows
  <2>1. CASE i \in Auths(inbox[r]) /\ inbox'[r][i] = inbox[r][i]
    <3>1. shown[k] > 0 /\ (shown[k] = 1 => k \in sessionid_key)
      BY <2>1 DEF OnceShown, ShownWaits, Shows
    <3> QED BY <1>0, <1>6, <3>1
  <2>2. CASE e.kind = "auth" /\ e.key = k
    <3>1. shown[k] = 0 => k \in sessionid_key
      BY <1>5, <2>2 DEF OnceShown, NeverShown
    <3> QED BY <1>0, <1>5, <1>6, <2>2, <3>1
  <2> QED BY <1>3, <2>1, <2>2
<1>9. ShownOnce'
  <2> SUFFICES ASSUME NEW k \in Key, NEW r \in Sock, NEW t \in Sock,
                      NEW i \in Auths(inbox'[r]), NEW j \in Auths(inbox'[t]),
                      shown'[k] = 1, inbox'[r][i].key = k, inbox'[t][j].key = k
               PROVE  r = t /\ i = j
    BY DEF ShownOnce
  <2>1. CASE e.kind = "auth" /\ e.key = k
    <3>1. shown[k] = 0
      BY <1>6, <2>1
    <3>2. ~Shows(inbox[r], k) /\ ~Shows(inbox[t], k)
      BY <1>0, <3>1 DEF OnceShown, ShownWaits
    <3> QED BY <1>3, <3>2 DEF Shows
  <2>2. CASE ~(e.kind = "auth" /\ e.key = k)
    <3>1. shown[k] = 1
      BY <1>6, <2>2
    <3> QED BY <1>3, <2>2, <3>1 DEF OnceShown, ShownOnce
  <2> QED BY <2>1, <2>2
<1>10. IdShown'
  <2> SUFFICES ASSUME NEW r \in Sock, id'[r] # NoKey PROVE shown'[id'[r]] > 0
    BY DEF IdShown
  <2>1. CASE id'[r] = id[r]
    BY <1>0, <1>6, <2>1 DEF OnceShown, IdShown
  <2>2. CASE id'[r] # id[r]
    BY <1>0, <1>5, <2>2
  <2> QED BY <2>1, <2>2
<1>11. Arrives'
  <2> SUFFICES ASSUME NEW r \in Sock, ~Deaf(r)', id'[r] # NoKey, shown'[id'[r]] = 1
               PROVE  \/ ShownLast(inbox'[r], id'[r])
                      \/ Auths(inbox'[r]) = {} /\ (socket_aeskey[r] = id'[r] \/ Lost(r))
    BY <1>1 DEF Arrives, Lost
  <2>1. CASE r = s /\ e.kind = "auth"
    <3>1. id'[r] = e.key
      BY <1>0, <1>5, <2>1
    <3> QED BY <1>0, <1>2, <2>1, <3>1, AppendAuths
  <2>2. CASE ~(r = s /\ e.kind = "auth")
    <3>1. id'[r] = id[r] /\ id[r] \in Key
      BY <1>0, <1>5, <2>2
    <3>2. shown[id[r]] = 1
      BY <1>0, <1>6, <3>1 DEF OnceShown, IdShown
    <3>3. \/ ShownLast(inbox[r], id[r])
          \/ Auths(inbox[r]) = {} /\ (socket_aeskey[r] = id[r] \/ Lost(r))
      BY <2>2, <3>1, <3>2, DeafStays DEF OnceShown, Arrives
    <3>4. Auths(inbox'[r]) = Auths(inbox[r]) /\ \A i \in Auths(inbox[r]) : inbox'[r][i] = inbox[r][i]
      <4>1. \A i \in Auths(inbox'[r]) : i \in Auths(inbox[r])
        BY <1>3, <2>2
      <4>2. \A i \in Auths(inbox[r]) : i \in Auths(inbox'[r]) /\ inbox'[r][i] = inbox[r][i]
        BY <1>4
      <4> QED BY <4>1, <4>2
    <3> QED BY <3>1, <3>3, <3>4 DEF ShownLast
  <2> QED BY <2>1, <2>2
<1> QED BY <1>7, <1>8, <1>9, <1>10, <1>11 DEF OnceShown

\* The loop reads one thing: a key that was presented leaves those that wait only there.
LEMMA PoppedOnce ==
    ASSUME TypeOK, FdsApart, AuthFirst, OnceShown, [Next]_vars, Popped
    PROVE  OnceShown'
<1> DEFINE q == inbox[curfd]
<1>0. /\ inbox \in [Sock -> Seq(Item)] /\ id \in [Sock -> Key \cup {NoKey}] /\ shown \in [Key -> 0 .. 2]
      /\ socket_aeskey \in [Sock -> Key \cup {NoKey}] /\ NoKey \notin Key /\ sessionid_key \subseteq Key
      /\ Issued \subseteq Key
  BY SocketsAssumption DEF TypeOK, Issued
<1>1. /\ curfd \in Sock /\ q \in Seq(Item) /\ q # << >> /\ lpc \in {"recv", "auth"}
      /\ inbox'[curfd] = Tail(q) /\ \A r \in Sock \ {curfd} : inbox'[r] = inbox[r]
      /\ UNCHANGED << sess, id, shown, fd, my_epoll >> /\ Issued' = Issued
  BY <1>0 DEF Popped, Issued
<1>2. First = Head(q)
  BY DEF First
<1> HIDE DEF q
<1>3. \/ UNCHANGED << sessionid_key, socket_aeskey >>
      \/ /\ First.kind = "auth" /\ First.key \in sessionid_key
         /\ sessionid_key' = sessionid_key \ {First.key}
         /\ \A r \in Sock \ {curfd} : socket_aeskey'[r] = socket_aeskey[r]
  BY <1>0 DEF Popped, HandleAuth, Authenticate, Loop, AuthFirst
<1>4. /\ First.kind # "auth" => UNCHANGED socket_aeskey
      /\ First.kind = "auth" /\ First.key \in sessionid_key => socket_aeskey'[curfd] = First.key
  BY <1>0, <1>1 DEF Popped, HandleAuth, Authenticate, Loop, AuthFirst
<1>5. /\ \A i \in Auths(Tail(q)) : i + 1 \in Auths(q) /\ Tail(q)[i] = q[i + 1] /\ i \in Nat \ {0}
      /\ Head(q) = q[1] /\ (Head(q).kind = "auth" => 1 \in Auths(q))
  BY <1>1, TailAuths
<1>6. ASSUME NEW r \in Sock, NEW i \in Auths(inbox'[r])
      PROVE  \/ r # curfd /\ i \in Auths(inbox[r]) /\ inbox'[r][i] = inbox[r][i]
             \/ r = curfd /\ i + 1 \in Auths(inbox[r]) /\ inbox'[r][i] = inbox[r][i + 1] /\ i \in Nat \ {0}
  BY <1>1, <1>5, <1>6 DEF q
<1>7. ASSUME NEW r \in Sock, NEW k, Shows(inbox'[r], k) PROVE Shows(inbox[r], k)
  BY <1>6, <1>7 DEF Shows
<1>8. First.kind = "auth" => Shows(inbox[curfd], First.key)
  BY <1>1, <1>2, <1>5 DEF Shows, q
<1>9. NeverShown'
  <2> SUFFICES ASSUME NEW k \in Issued, shown[k] = 0 PROVE k \in sessionid_key'
    BY <1>1 DEF NeverShown
  <2>1. k \in sessionid_key
    BY DEF OnceShown, NeverShown
  <2>2. ~Shows(inbox[curfd], k)
    BY <1>0, <1>1 DEF OnceShown, ShownWaits
  <2> QED BY <1>3, <1>8, <2>1, <2>2
<1>10. ShownWaits'
  <2> SUFFICES ASSUME NEW r \in Sock, NEW k \in Key, Shows(inbox'[r], k)
               PROVE  shown[k] > 0 /\ (shown[k] = 1 => k \in sessionid_key')
    BY <1>1 DEF ShownWaits
  <2>1. shown[k] > 0 /\ (shown[k] = 1 => k \in sessionid_key)
    BY <1>7 DEF OnceShown, ShownWaits
  <2>2. ASSUME shown[k] = 1, First.kind = "auth", First.key = k PROVE FALSE
    <3>1. PICK i \in Auths(inbox'[r]) : inbox'[r][i].key = k
      BY DEF Shows
    <3>2. 1 \in Auths(inbox[curfd]) /\ inbox[curfd][1].key = k
      BY <1>2, <1>5, <2>2 DEF q
    <3>3. \A j \in Auths(inbox[r]) : inbox[r][j].key = k => r = curfd /\ j = 1
      BY <1>1, <2>2, <3>2 DEF OnceShown, ShownOnce
    <3> QED BY <1>6, <3>1, <3>3
  <2> QED BY <1>3, <2>1, <2>2
<1>11. ShownOnce'
  <2> SUFFICES ASSUME NEW k \in Key, NEW r \in Sock, NEW t \in Sock,
                      NEW i \in Auths(inbox'[r]), NEW j \in Auths(inbox'[t]),
                      shown[k] = 1, inbox'[r][i].key = k, inbox'[t][j].key = k
               PROVE  r = t /\ i = j
    BY <1>1 DEF ShownOnce
  <2>1. \A m \in Auths(inbox[r]), n \in Auths(inbox[t]) :
           inbox[r][m].key = k /\ inbox[t][n].key = k => r = t /\ m = n
    BY DEF OnceShown, ShownOnce
  <2>2. r = t
    BY <1>6, <2>1
  <2>3. CASE r # curfd
    BY <1>6, <2>1, <2>2, <2>3
  <2>4. CASE r = curfd
    <3>1. i \in Nat /\ j \in Nat /\ i + 1 = j + 1
      BY <1>6, <2>1, <2>2, <2>4
    <3> QED BY <2>2, <3>1
  <2> QED BY <2>3, <2>4
<1>12. IdShown'
  BY <1>1 DEF OnceShown, IdShown
<1>13. Arrives'
  <2> SUFFICES ASSUME NEW r \in Sock, ~Deaf(r)', id[r] # NoKey, shown[id[r]] = 1
               PROVE  \/ ShownLast(inbox'[r], id[r])
                      \/ Auths(inbox'[r]) = {} /\ (socket_aeskey'[r] = id[r] \/ Lost(r))
    BY <1>1 DEF Arrives, Lost
  <2>1. \/ ShownLast(inbox[r], id[r])
        \/ Auths(inbox[r]) = {} /\ (socket_aeskey[r] = id[r] \/ Lost(r))
    BY DeafStays DEF OnceShown, Arrives
  <2>2. CASE r # curfd
    BY <1>1, <1>3, <2>1, <2>2
  <2>3. CASE r = curfd /\ ShownLast(inbox[r], id[r])
    <3>1. ShownLast(Tail(q), id[r]) \/ (Auths(Tail(q)) = {} /\ Head(q).key = id[r] /\ Head(q).kind = "auth")
      BY <1>1, <2>3, TailLast DEF q
    <3>2. id[r] \in sessionid_key
      <4>1. Shows(inbox[r], id[r])
        BY <2>3 DEF ShownLast, Shows
      <4> QED BY <1>0, <4>1 DEF OnceShown, ShownWaits
    <3> QED BY <1>1, <1>2, <1>4, <2>3, <3>1, <3>2
  <2>4. CASE r = curfd /\ Auths(inbox[r]) = {}
    <3>1. Auths(Tail(q)) = {} /\ Head(q).kind # "auth"
      BY <1>1, <2>4, TailLast DEF q
    <3>2. ~ShownLast(inbox[r], id[r])
      BY <2>4 DEF ShownLast
    <3> QED BY <1>1, <1>2, <1>4, <2>1, <2>4, <3>1, <3>2
  <2> QED BY <2>1, <2>2, <2>3, <2>4
<1> QED BY <1>9, <1>10, <1>11, <1>12, <1>13 DEF OnceShown

LEMMA OnceStep ==
    ASSUME TypeOK, FdsApart, KeysIssued, AuthFirst, OnceShown, [Next]_vars
    PROVE  OnceShown'
<1>0. /\ inbox \in [Sock -> Seq(Item)] /\ id \in [Sock -> Key \cup {NoKey}] /\ shown \in [Key -> 0 .. 2]
      /\ socket_aeskey \in [Sock -> Key \cup {NoKey}]
  BY DEF TypeOK
<1>1. HandleAuth => Popped
  BY ConsumeType DEF HandleAuth, Popped, Consume, Loop, clientVars, watchVars
<1>2. ASSUME \A r \in Sock : inbox'[r] = inbox[r] \/ (Auths(inbox'[r]) = {} /\ Deaf(r)'),
             UNCHANGED << id, shown >>, ~HandleAuth
      PROVE  OnceShown'
  <2>1. \A r \in Sock : \A i \in Auths(inbox'[r]) : i \in Auths(inbox[r]) /\ inbox'[r][i] = inbox[r][i]
    BY <1>2
  <2>2. sessionid_key \subseteq sessionid_key' /\ \A k \in Issued' : k \in Issued \/ k \in sessionid_key'
    <3>1. UNCHANGED sess => Issued' = Issued
      BY DEF Issued
    <3> QED BY <1>2, <3>1, KeyMoves
  <2>3. NeverShown' /\ IdShown'
    BY <1>2, <2>2 DEF OnceShown, NeverShown, IdShown
  <2>4. ShownWaits'
    BY <1>2, <2>1, <2>2 DEF OnceShown, ShownWaits, Shows
  <2>5. ShownOnce'
    BY <1>2, <2>1 DEF OnceShown, ShownOnce
  <2>6. Arrives'
    <3> SUFFICES ASSUME NEW r \in Sock, ~Deaf(r)', id[r] # NoKey, shown[id[r]] = 1
                 PROVE  \/ ShownLast(inbox'[r], id[r])
                        \/ Auths(inbox'[r]) = {} /\ (socket_aeskey'[r] = id[r] \/ Lost(r)')
      BY <1>2 DEF Arrives
    <3>1. inbox'[r] = inbox[r]
      BY <1>2
    <3>2. \/ ShownLast(inbox[r], id[r])
          \/ Auths(inbox[r]) = {} /\ (socket_aeskey[r] = id[r] \/ Lost(r))
      BY DeafStays DEF OnceShown, Arrives
    <3>3. Lost(r) => Lost(r)'
      BY LostStays
    <3>4. socket_aeskey'[r] = socket_aeskey[r] \/ Lost(r)'
      <4>1. ASSUME Gone, r = curfd PROVE Lost(r)'
        <5>1. fd[r] # 0
          BY <4>1 DEF FdsApart, Gone, Loop
        <5> QED BY <4>1, <5>1 DEF Gone, Unwatch, Lost
      <4> QED BY <1>0, <1>2, <4>1, KeyMoves
    <3> QED BY <3>1, <3>2, <3>3, <3>4
  <2> QED BY <2>3, <2>4, <2>5, <2>6 DEF OnceShown
<1>3. CASE Drained
  <2>1. ~HandleAuth
    BY <1>3 DEF Drained, HandleAuth, Loop
  <2>2. Deaf(curfd)'
    BY <1>3 DEF Drained, Deaf
  <2>3. inbox'[curfd] = << >> /\ \A r \in Sock \ {curfd} : inbox'[r] = inbox[r]
    BY <1>0, <1>3 DEF Drained
  <2>4. Auths(<< >>) = {}
    BY DEF Auths
  <2> QED BY <1>2, <1>3, <2>1, <2>2, <2>3, <2>4 DEF Drained
<1>4. CASE UNCHANGED << inbox, id, shown >> /\ ~Popped
  BY <1>1, <1>2, <1>4
<1>5. ASSUME NEW s \in Sock, NEW e \in Item, Pushed(s, e) PROVE OnceShown'
  BY <1>5, PushedOnce
<1>6. CASE Popped
  BY <1>6, PoppedOnce
<1> QED BY <1>3, <1>4, <1>5, <1>6, InboxMoves

-------------------------------------------------------------------------------
(* Messages that are dropped                                               *)

\* A socket that is read and got a key presented once and last of all holds it.
LEMMA HoldsKey ==
    ASSUME TypeOK, OnceShown, NEW s \in Sock, ~Deaf(s), NEW k \in Key \ sessionid_key, id[s] = k, shown[k] < 2
    PROVE  Auths(inbox[s]) = {} /\ (socket_aeskey[s] = k \/ Lost(s))
<1>1. k # NoKey /\ shown[k] = 1
  <2>1. k # NoKey /\ shown[k] \in 0 .. 2
    BY SocketsAssumption DEF TypeOK
  <2>2. shown[k] > 0
    BY <2>1 DEF OnceShown, IdShown
  <2> QED BY <2>1, <2>2
<1>2. ~ShownLast(inbox[s], k)
  <2>1. ~Shows(inbox[s], k)
    BY <1>1 DEF OnceShown, ShownWaits
  <2> QED BY <2>1 DEF ShownLast, Shows
<1> QED BY <1>1, <1>2 DEF OnceShown, Arrives

LEMMA ExplainedStays ==
    ASSUME TypeOK, FdsApart, AuthFirst, OnceShown, [Next]_vars, NEW m, m.led, Read(m), ReadExplained(m)
    PROVE  ReadExplained(m)'
<1>0. /\ m.sock \in Sock /\ m.key \in Key \ sessionid_key /\ m.key \in Issued
      /\ id \in [Sock -> Key \cup {NoKey}] /\ shown \in [Key -> 0 .. 2]
      /\ socket_aeskey \in [Sock -> Key \cup {NoKey}] /\ inbox \in [Sock -> Seq(Item)]
  BY DEF Read, Message, Issued, TypeOK
<1> SUFFICES ASSUME id'[m.sock] = m.key, shown'[m.key] < 2
             PROVE  socket_aeskey'[m.sock] = m.key \/ Lost(m.sock)'
  BY DEF ReadExplained
<1>1. id[m.sock] = m.key /\ shown[m.key] < 2
  <2>1. ASSUME NEW s \in Sock, NEW e \in Item, Pushed(s, e) PROVE id[m.sock] = m.key /\ shown[m.key] < 2
    <3>1. shown[m.key] # 0
      BY <1>0 DEF OnceShown, NeverShown
    <3>2. CASE e.kind = "auth" /\ e.key = m.key
      BY <1>0, <2>1, <3>1, <3>2 DEF Pushed
    <3>3. CASE ~(e.kind = "auth" /\ e.key = m.key)
      BY <1>0, <2>1, <3>3 DEF Pushed
    <3> QED BY <3>2, <3>3
  <2> QED BY <2>1, InboxMoves DEF Popped, Drained
<1>2. socket_aeskey[m.sock] = m.key \/ Lost(m.sock)
  BY <1>1 DEF ReadExplained
<1>3. socket_aeskey'[m.sock] = socket_aeskey[m.sock] \/ Lost(m.sock)'
  <2>1. ASSUME HandleAuth, curfd = m.sock PROVE FALSE
    <3>1. /\ lpc = "auth" /\ First.kind = "auth" /\ inbox[curfd] \in Seq(Item) /\ inbox[curfd] # << >>
      BY <2>1, ConsumeType DEF HandleAuth, Loop, AuthFirst
    <3>2. Auths(inbox[m.sock]) # {}
      BY <2>1, <3>1, TailLast DEF First
    <3>3. ~Deaf(m.sock)
      BY <2>1, <3>1 DEF Deaf
    <3> QED BY <1>0, <1>1, <3>2, <3>3, HoldsKey
  <2>2. ASSUME Gone, curfd = m.sock PROVE Lost(m.sock)'
    <3>1. fd[m.sock] # 0
      BY <2>2 DEF FdsApart, Gone, Loop
    <3> QED BY <2>2, <3>1 DEF Gone, Unwatch, Lost
  <2> QED BY <1>0, <2>1, <2>2, KeyMoves
<1> QED BY <1>0, <1>2, <1>3, LostStays

LEMMA DropStep ==
    ASSUME TypeOK, FdsApart, AuthFirst, TasksRead, OnceShown, DropInv, [Next]_vars
    PROVE  DropInv'
<1>0. tasks \in Seq(Message) /\ task \in [Worker -> Message \cup {NoKey}]
      /\ wpc \in [Worker -> {"idle", "check", "reply"}]
  BY DEF TypeOK
<1>1. \A m : Read(m) /\ ReadExplained(m) => ReadExplained(m)'
  BY ExplainedStays DEF ReadExplained
<1>2. /\ \A i \in DOMAIN tasks : Read(tasks[i]) /\ ReadExplained(tasks[i])
      /\ \A w \in Worker : wpc[w] = "check" => Read(task[w]) /\ ReadExplained(task[w])
  BY DEF TasksRead, DropInv
<1>3. SUFFICES /\ \A i \in DOMAIN tasks' : Read(tasks'[i]) /\ ReadExplained(tasks'[i])
               /\ \A w \in Worker : wpc'[w] = "check" => Read(task'[w]) /\ ReadExplained(task'[w])
  <2>1. \A i \in DOMAIN tasks' : ReadExplained(tasks[i])'
    BY <1>1, <1>3
  <2>2. ASSUME NEW w \in Worker, wpc'[w] = "check" PROVE ReadExplained(task[w])'
    BY <1>1, <1>3, <2>2
  <2> QED BY <2>1, <2>2 DEF DropInv
<1>4. CASE UNCHANGED << tasks, wpc, task, key >>
  BY <1>2, <1>4
<1>5. CASE RecvMessage
  <2> DEFINE m == [sock |-> curfd, fd |-> fd[curfd], key |-> First.key, led |-> First.led]
  <2>1. Read(m) /\ m \in Message /\ m.sock = curfd /\ (m.led => m.key \in Key \ sessionid_key)
    <3>1. Read(m)
      BY <1>5, MessageRead
    <3> QED BY <3>1 DEF Read, Issued, TypeOK
  <2>2. tasks' = Append(tasks, m) /\ UNCHANGED << wpc, task >>
    BY <1>5 DEF RecvMessage, NewClientMsg
  <2> HIDE DEF m
  <2>3. curfd \in Sock /\ ~Deaf(curfd)
    BY <1>5, ConsumeType DEF RecvMessage, Loop, Deaf
  <2>4. ReadExplained(m)
    BY <2>1, <2>3, HoldsKey DEF ReadExplained
  <2>5. \A i \in DOMAIN tasks' : (i \in DOMAIN tasks /\ tasks'[i] = tasks[i]) \/ tasks'[i] = m
    BY <1>0, <2>1, <2>2, AppendFacts
  <2> QED BY <1>2, <2>1, <2>2, <2>4, <2>5
<1>6. ASSUME NEW w \in Worker, Start(w)
      PROVE  /\ \A i \in DOMAIN tasks' : Read(tasks'[i]) /\ ReadExplained(tasks'[i])
             /\ \A v \in Worker : wpc'[v] = "check" => Read(task'[v]) /\ ReadExplained(task'[v])
  <2>1. tasks # << >> /\ tasks' = Tail(tasks)
    BY <1>6 DEF Start
  <2>2. /\ \A i \in DOMAIN tasks' : i + 1 \in DOMAIN tasks /\ tasks'[i] = tasks[i + 1]
        /\ Head(tasks) = tasks[1] /\ 1 \in DOMAIN tasks
    BY <1>0, <2>1, TailFacts
  <2>3. \A v \in Worker : IF v = w THEN task'[v] = tasks[1] ELSE task'[v] = task[v] /\ wpc'[v] = wpc[v]
    BY <1>0, <1>6, <2>2 DEF Start
  <2> QED BY <1>2, <2>2, <2>3
<1>7. ASSUME NEW w \in Worker, Check(w) \/ Answer(w)
      PROVE  /\ \A i \in DOMAIN tasks' : Read(tasks'[i]) /\ ReadExplained(tasks'[i])
             /\ \A v \in Worker : wpc'[v] = "check" => Read(task'[v]) /\ ReadExplained(task'[v])
  <2>1. UNCHANGED tasks /\ \A v \in Worker : wpc'[v] = "check" => wpc[v] = "check" /\ task'[v] = task[v]
    BY <1>0, <1>7 DEF Check, Rests, Answer
  <2> QED BY <1>2, <2>1
<1> QED BY <1>4, <1>5, <1>6, <1>7, TaskMoves DEF WorkerStep

-------------------------------------------------------------------------------
(* The inductive invariant                                                 *)

IInv ==
    /\ TypeOK /\ FdsApart
    /\ KeysApart /\ KeysIssued
    /\ AuthFirst /\ TasksRead
    /\ ReadsAgree /\ AnswerReadable
    /\ OnceShown /\ DropInv

LEMMA InitIInv == Init => IInv
<1> SUFFICES ASSUME Init PROVE IInv
  OBVIOUS
<1> USE SocketsAssumption
<1>1. TypeOK
  <2>1. << >> \in Seq(Item) /\ << >> \in Seq(Sock) /\ << >> \in Seq(Message)
    OBVIOUS
  <2>2. terminated \in BOOLEAN
    BY Zenon DEF Init
  <2>3. 0 \in Nat /\ 0 \in 0 .. 2
    OBVIOUS
  <2>4. /\ inbox \in [Sock -> Seq(Item)] /\ sent \in [Sock -> Nat] /\ shown \in [Key -> 0 .. 2]
    BY <2>1, <2>3 DEF Init
  <2> QED BY <2>1, <2>2, <2>4 DEF Init, TypeOK
<1>2. Issued = {} /\ \A s \in Sock : Auths(inbox[s]) = {}
  BY DEF Init, Issued, Auths
<1>3. FdsApart
  BY DEF Init, FdsApart
<1>4. KeysApart /\ KeysIssued
  BY DEF Init, KeysApart, KeysIssued
<1>5. AuthFirst
  BY DEF Init, AuthFirst, MsgsOf, Led
<1>6. TasksRead /\ ReadsAgree /\ AnswerReadable /\ DropInv
  BY DEF Init, TasksRead, ReadsAgree, AnswerReadable, DropInv
<1>7. OnceShown
  BY <1>2 DEF Init, OnceShown, NeverShown, ShownWaits, Shows, ShownOnce, IdShown, Arrives
<1> QED BY <1>1, <1>3, <1>4, <1>5, <1>6, <1>7 DEF IInv

\* A presentation comes before the messages it is for, keys move and do not multiply,
\* and numbers are not given twice: every step keeps that.
THEOREM Invariance == Spec => []IInv
<1>1. IInv /\ [Next]_vars => IInv'
  BY TypeStep, FdsStep, KeysStep, AuthFirstStep, TasksStep, ReadsStep, OnceStep, DropStep DEF IInv
<1> QED BY <1>1, InitIInv, PTL DEF Spec

\* The state stays one the declarations of src/TcpServer and src/Server.cpp allow.
THEOREM TypeCorrect == Spec => []TypeOK
<1>1. IInv => TypeOK
  BY DEF IInv
<1> QED BY <1>1, Invariance, PTL

\* No two connections get the same key, and none that has it waits to get it
\* (ClientAuthentication, Server.cpp:32-44).
THEOREM KeysStayApart == Spec => []KeysApart
<1>1. IInv => KeysApart
  BY DEF IInv
<1> QED BY <1>1, Invariance, PTL

\* An answer is encrypted with the key its request was, if the client had presented the
\* session id of that key, although the worker reads the key twice and the loop may
\* change it in between (Server.cpp:17-22, 84).
THEOREM AnswersReadable == Spec => []AnswerReadable
<1>1. IInv => AnswerReadable
  BY DEF IInv
<1> QED BY <1>1, Invariance, PTL

\* An answer goes to the connection its request came from and to no other
\* (Server.cpp:84, 91-96): the number of one that is gone is not given again.
THEOREM ReachesAsker == Spec => []AnswerReachesAsker
<1>1. IInv => AnswerReachesAsker
  BY DEF IInv, FdsApart, TasksRead, Read, Message, AnswerReachesAsker
<1> QED BY <1>1, Invariance, PTL

\* A message sent after its session id was presented, once, and no other there since, is
\* dropped only when the connection is gone (Server.cpp:32-44, 63-73, 91-96).
THEOREM DropsExplained == Spec => []DropExplained
<1>1. IInv => DropExplained
  <2> SUFFICES ASSUME IInv, NEW w \in Worker, wpc[w] = "check", task[w].led,
                      id[task[w].sock] = task[w].key, ~(shown[task[w].key] > 1)
               PROVE  socket_aeskey[task[w].sock] = task[w].key \/ task[w].sock \notin my_epoll
    BY DEF DropExplained
  <2>1. ReadExplained(task[w]) /\ Read(task[w])
    BY DEF IInv, DropInv, TasksRead
  <2>2. shown[task[w].key] < 2
    <3>1. shown[task[w].key] \in 0 .. 2
      BY <2>1 DEF Read, Message, Issued, IInv, TypeOK
    <3> QED BY <3>1
  <2> QED BY <2>1, <2>2 DEF ReadExplained, Lost
<1> QED BY <1>1, Invariance, PTL
===============================================================================
