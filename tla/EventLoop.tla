------------------------------ MODULE EventLoop ------------------------------
(***************************************************************************)
(* The thread that listens (src/TcpServer, startListen and recvMsg), the     *)
(* keys of the clients (src/Server.cpp) and the workers that use them.       *)
(*                                                                         *)
(* A client gets a key and a session id over TLS on one connection, closes   *)
(* it, presents the id on another one and sends its messages there.  The     *)
(* sockets block; epoll reports them by edges, and the loop takes one thing  *)
(* from a socket for each report.                                           *)
(***************************************************************************)
EXTENDS Integers, Sequences, FiniteSets

CONSTANTS
    Client, Sock, Key, Worker,
    Owner,      \* the client of each socket
    NoKey,      \* nullptr, and the key of what carries none
    Listener,   \* listen_socket
    SendMax,    \* bound of the model: how much is sent on each socket
    Stalling,   \* clients may stop in the middle and keep the connection
    FdLimits,   \* how many connections the process may have descriptors for
    Faults      \* "race": the unlocked map may end the process when two threads use it.
                \* "odd": clients send what recvMsg does not know.
                \* "keyless": clients send messages encrypted with no key they were given.
                \* "reset": connections are reset.

ASSUME SocketsAssumption ==
    /\ Owner \in [Sock -> Client] /\ Listener \notin Sock /\ NoKey \notin Key
    /\ SendMax \in [Sock -> Nat] /\ FdLimits \subseteq Nat \ {0} /\ Stalling \in BOOLEAN

VARIABLES
    conn,           \* sockets: "new", "pending", "open", "fin" when the peer closed its side,
                    \* "rst" when it reset the connection
    inbox,          \* what the kernel has received and nobody has read
    sent,           \* how much the client has sent on a socket
    edge,           \* descriptors with an event epoll has not reported
    backlog,        \* connections to accept
    sess,           \* keys each client has got
    id,             \* the key whose session id the client presented last on a socket
    shown,          \* history: how often each session id was presented, 2 for more than once
    my_epoll,       \* sockets the loop watches
    fd,             \* the descriptor of each socket, 0 before it is accepted
    limit,          \* the greatest descriptor the process may have
    evs,            \* events reported and not handled
    lpc, curfd,     \* where the loop is, and with which socket
    sessionid_key,  \* keys whose session id was not presented yet
    socket_aeskey,  \* keys of the sockets
    tasks,          \* messages handed to the thread pool
    wpc, task,      \* where each worker is, and its message
    key,            \* the key a worker passes to dealClient for the answer
    terminated

clientVars == << conn, sent, sess, id, shown >>
kernelVars == << inbox, edge, backlog >>
watchVars == << my_epoll, fd, limit >>
loopVars == << watchVars, evs, lpc, curfd >>
keyVars == << sessionid_key, socket_aeskey >>
workerVars == << tasks, wpc, task, key >>
vars == << conn, sent, sess, id, shown, inbox, edge, backlog, my_epoll, fd, limit, evs, lpc, curfd,
           sessionid_key, socket_aeskey, tasks, wpc, task, key, terminated >>

\* What a client sends.  led is history: the session id of the message's key was the
\* last the client had presented on that socket when it sent the message.
Item == [kind : {"tls", "auth", "msg", "part", "bye", "odd"}, key : Key \cup {NoKey}, led : BOOLEAN]
Numbers == 1 .. limit

\* A message is handed on with the number of its socket; sock and led are history.
Message == [sock : Sock, fd : Nat, key : Key \cup {NoKey}, led : BOOLEAN]

TypeOK ==
    /\ conn \in [Sock -> {"new", "pending", "open", "fin", "rst"}]
    /\ inbox \in [Sock -> Seq(Item)] /\ sent \in [Sock -> Nat]
    /\ edge \subseteq Sock \cup {Listener} /\ backlog \in Seq(Sock)
    /\ sess \in [Client -> SUBSET Key] /\ id \in [Sock -> Key \cup {NoKey}] /\ shown \in [Key -> 0 .. 2]
    /\ limit \in FdLimits /\ fd \in [Sock -> {0} \cup Numbers]
    /\ my_epoll \subseteq Sock /\ evs \subseteq Sock \cup {Listener}
    /\ lpc \in {"wait", "next", "recv", "tls", "auth", "drain", "close"}
    /\ curfd \in Sock \cup {Listener}
    /\ sessionid_key \subseteq Key
    /\ socket_aeskey \in [Sock -> Key \cup {NoKey}]
    /\ tasks \in Seq(Message)
    /\ wpc \in [Worker -> {"idle", "check", "reply"}]
    /\ task \in [Worker -> Message \cup {NoKey}]
    /\ key \in [Worker -> Key \cup {NoKey}]
    /\ terminated \in BOOLEAN
    /\ lpc \in {"recv", "auth"} => curfd # Listener /\ inbox[curfd] # << >>

Init ==
    /\ conn = [s \in Sock |-> "new"]
    /\ inbox = [s \in Sock |-> << >>] /\ sent = [s \in Sock |-> 0]
    /\ edge = {} /\ backlog = << >>
    /\ sess = [c \in Client |-> {}] /\ id = [s \in Sock |-> NoKey] /\ shown = [k \in Key |-> 0]
    /\ limit \in FdLimits /\ fd = [s \in Sock |-> 0]
    /\ my_epoll = {} /\ evs = {} /\ lpc = "wait" /\ curfd = Listener
    /\ sessionid_key = {} /\ socket_aeskey = [s \in Sock |-> NoKey]
    /\ tasks = << >>
    /\ wpc = [w \in Worker |-> "idle"]
    /\ task = [w \in Worker |-> NoKey] /\ key = [w \in Worker |-> NoKey]
    /\ terminated = FALSE

-------------------------------------------------------------------------------
(* The clients                                                             *)

Sends(s, item) ==
    /\ inbox' = [inbox EXCEPT ![s] = Append(@, item)]
    /\ sent' = [sent EXCEPT ![s] = @ + 1]
    /\ edge' = edge \cup {s}
    /\ UNCHANGED << conn, sess, backlog, loopVars, keyVars, workerVars, terminated >>

Plain(kind, k) == [kind |-> kind, key |-> k, led |-> FALSE]

\* What follows the request for TLS until it has ended belongs to the handshake, and
\* what follows the beginning of a message to the message.
InTls(s) == (curfd = s /\ lpc = "tls") \/ \E i \in DOMAIN inbox[s] : inbox[s][i].kind = "tls"
MaySend(s) ==
    /\ ~terminated
    /\ conn[s] \in {"pending", "open"} /\ sent[s] < SendMax[s]
    /\ \A i \in DOMAIN inbox[s] : inbox[s][i].kind # "part"
    /\ ~InTls(s)

Connect(s) ==
    /\ ~terminated /\ conn[s] = "new"
    /\ conn' = [conn EXCEPT ![s] = "pending"]
    /\ backlog' = Append(backlog, s)
    /\ edge' = edge \cup {Listener}
    /\ UNCHANGED << sent, sess, id, shown, inbox, loopVars, keyVars, workerVars, terminated >>

\* A client asks for a key,
AskTLS(s) ==
    /\ MaySend(s)
    /\ Sends(s, Plain("tls", NoKey))
    /\ UNCHANGED << id, shown >>

\* presents a session id it got, on any connection and as often as it likes,
PresentId(s) ==
    /\ MaySend(s)
    /\ \E k \in sess[Owner[s]] :
          /\ Sends(s, Plain("auth", k))
          /\ id' = [id EXCEPT ![s] = k]
          /\ shown' = [shown EXCEPT ![k] = IF @ = 0 THEN 1 ELSE 2]

\* sends messages encrypted with any key it has, or with none, whatever it has
\* presented there, and the end of TLS, a message that stays incomplete, or something else.
SendMore(s) ==
    /\ MaySend(s)
    /\ \/ \E k \in sess[Owner[s]] \cup (IF "keyless" \in Faults THEN {NoKey} ELSE {}) :
             Sends(s, [kind |-> "msg", key |-> k, led |-> (k # NoKey /\ id[s] = k)])
       \/ \E kind \in {"part", "bye"} \cup (Faults \cap {"odd"}) : Sends(s, Plain(kind, NoKey))
    /\ UNCHANGED << id, shown >>

Leaves(s, how) ==
    /\ ~terminated
    /\ conn' = [conn EXCEPT ![s] = how]
    /\ edge' = edge \cup {s}
    /\ UNCHANGED << sent, sess, id, shown, inbox, backlog, loopVars, keyVars, workerVars, terminated >>

Disconnect(s) == conn[s] \in {"pending", "open"} /\ Leaves(s, "fin")

\* The connection is reset: by a client that ends without closing it, or because
\* something was sent to one that had.
Reset(s) == "reset" \in Faults /\ conn[s] \in {"pending", "open", "fin"} /\ Leaves(s, "rst")

Closed(s) == conn[s] \in {"fin", "rst"}

ClientStep == \E s \in Sock : Connect(s) \/ AskTLS(s) \/ PresentId(s) \/ SendMore(s) \/ Disconnect(s) \/ Reset(s)

-------------------------------------------------------------------------------
(* The loop: startListen                                                   *)

Loop(from, to) == ~terminated /\ lpc = from /\ lpc' = to

Readable(f) == IF f = Listener THEN backlog # << >> ELSE inbox[f] # << >> \/ Closed(f)

\* What epoll_wait returns: an edge is reported once, if there is still something to
\* read.  Of a connection that was reset it reports EPOLLIN with EPOLLERR and EPOLLHUP,
\* and the loop handles EPOLLIN alone: that report is taken and dropped.
Reported == { f \in edge \cap (my_epoll \cup {Listener}) : Readable(f) }
InOnly(f) == f = Listener \/ conn[f] # "rst"

Wait ==
    /\ Loop("wait", "next")
    /\ Reported # {}
    /\ evs' = { f \in Reported : InOnly(f) }
    /\ edge' = edge \ (my_epoll \cup {Listener})
    /\ UNCHANGED << clientVars, inbox, backlog, watchVars, curfd, keyVars, workerVars, terminated >>

Done ==
    /\ evs = {}
    /\ Loop("next", "wait")
    /\ curfd' = Listener
    /\ UNCHANGED << clientVars, kernelVars, watchVars, evs, keyVars, workerVars, terminated >>

\* EPOLL_CTL_ADD reports what has arrived before.
EdgeAtAdd(s) == IF Readable(s) THEN {s} ELSE {}

\* addToEpoll, for a descriptor that exists
Watch(s) ==
    /\ my_epoll' = my_epoll \cup {s}
    /\ edge' = (edge \ {s}) \cup EdgeAtAdd(s)

\* deleteFromEpoll
Unwatch(s) == my_epoll' = my_epoll \ {s}

\* The numbers that no socket has.  Those of connections that ended are never free again.
Free == Numbers \ { fd[s] : s \in Sock }

\* Mutant: the connection is accepted and never watched.
AcceptUnwatched ==
    /\ Listener \in evs /\ Free # {}
    /\ Loop("next", "next")
    /\ evs' = evs \ {Listener}
    /\ backlog' = Tail(backlog)
    /\ UNCHANGED << clientVars, inbox, edge, watchVars, curfd, keyVars, workerVars, terminated >>
\* One accept for a report, which gives the lowest number, and haveNewConnection
Accept ==
    /\ Listener \in evs /\ Free # {}
    /\ Loop("next", "next")
    /\ evs' = evs \ {Listener}
    /\ backlog' = Tail(backlog)
    /\ LET s == Head(backlog) IN
          /\ conn' = IF conn[s] = "pending" THEN [conn EXCEPT ![s] = "open"] ELSE conn
          /\ \E n \in Free : (\A m \in Free : n <= m) /\ fd' = [fd EXCEPT ![s] = n]
          /\ Watch(s)
    /\ UNCHANGED << sent, sess, id, shown, inbox, limit, curfd, keyVars, workerVars, terminated >>

\* accept returns -1 and leaves the connection in the backlog; addToEpoll refuses the -1.
AcceptFails ==
    /\ Listener \in evs /\ Free = {}
    /\ Loop("next", "next")
    /\ evs' = evs \ {Listener}
    /\ UNCHANGED << clientVars, kernelVars, watchVars, curfd, keyVars, workerVars, terminated >>

\* Mutant: the loop over the events ends with the first client.
PeekOne ==
    /\ \E s \in evs \ {Listener} :
          /\ \/ inbox[s] # << >> /\ Loop("next", "recv")
             \/ inbox[s] = << >> /\ Closed(s) /\ Loop("next", "close")
             \/ inbox[s] = << >> /\ conn[s] = "rst" /\ Loop("next", "next")
          /\ evs' = {}
          /\ curfd' = s
    /\ UNCHANGED << clientVars, kernelVars, watchVars, keyVars, workerVars, terminated >>
\* recv with MSG_PEEK tells a message from the end of the connection; of one that was
\* reset since it was reported, recv may return either the end or an error, which is
\* only logged.
Peek ==
    /\ \E s \in evs \ {Listener} :
          /\ \/ inbox[s] # << >> /\ Loop("next", "recv")
             \/ inbox[s] = << >> /\ Closed(s) /\ Loop("next", "close")
             \/ inbox[s] = << >> /\ conn[s] = "rst" /\ Loop("next", "next")
          /\ evs' = evs \ {s}
          /\ curfd' = s
    /\ UNCHANGED << clientVars, kernelVars, watchVars, keyVars, workerVars, terminated >>

\* Mutant: the descriptor is closed, as TcpServer::clientDisconnect would.
GoneCloses ==
    /\ Loop("close", "next")
    /\ socket_aeskey' = [socket_aeskey EXCEPT ![curfd] = NoKey]
    /\ Unwatch(curfd)
    /\ fd' = [fd EXCEPT ![curfd] = 0]
    /\ UNCHANGED << clientVars, kernelVars, limit, evs, curfd, sessionid_key, workerVars, terminated >>
\* Server::clientDisconnect: the socket stays open, so that its number is not
\* used again; its key stays too, and only leaves the map.
Gone ==
    /\ Loop("close", "next")
    /\ socket_aeskey' = [socket_aeskey EXCEPT ![curfd] = NoKey]
    /\ Unwatch(curfd)
    /\ UNCHANGED << clientVars, kernelVars, fd, limit, evs, curfd, sessionid_key, workerVars, terminated >>

-------------------------------------------------------------------------------
(* One message: recvMsg                                                    *)

First == Head(inbox[curfd])
Consume == inbox' = [inbox EXCEPT ![curfd] = Tail(@)]

RecvTls ==
    /\ Loop("recv", "tls") /\ First.kind = "tls"
    /\ Consume
    /\ UNCHANGED << clientVars, edge, backlog, watchVars, evs, curfd, keyVars, workerVars, terminated >>

\* dealTls runs the handshake on the loop's thread: it succeeds with a fresh key
\* and session id, or the client gives up.
HandleTls ==
    /\ Loop("tls", "next")
    /\ \/ \E k \in Key \ (UNION { sess[c] : c \in Client }) :
             /\ ~Closed(curfd)
             /\ sess' = [sess EXCEPT ![Owner[curfd]] = @ \cup {k}]
             /\ sessionid_key' = sessionid_key \cup {k}
       \/ UNCHANGED << sess, sessionid_key >>
    /\ UNCHANGED << conn, sent, id, shown, kernelVars, watchVars, evs, curfd, socket_aeskey,
                    workerVars, terminated >>

RecvAuth ==
    /\ Loop("recv", "auth") /\ First.kind = "auth"
    /\ UNCHANGED << clientVars, kernelVars, watchVars, evs, curfd, keyVars, workerVars, terminated >>

\* Mutant: the session id stays valid.
AuthKeeps(k) ==
    /\ socket_aeskey' = [socket_aeskey EXCEPT ![curfd] = k]
    /\ UNCHANGED sessionid_key
\* Mutant: the entry is erased before its key is read.
AuthErasesFirst(k) ==
    /\ sessionid_key' = sessionid_key \ {k}
    /\ UNCHANGED socket_aeskey
\* The key moves from one map to the other.
Authenticate(k) ==
    /\ socket_aeskey' = [socket_aeskey EXCEPT ![curfd] = k]
    /\ sessionid_key' = sessionid_key \ {k}

\* ClientAuthentication: nothing is answered, whether the id is known or not
HandleAuth ==
    /\ Loop("auth", "next")
    /\ Consume
    /\ LET k == First.key IN
          \/ k \in sessionid_key /\ Authenticate(k)
          \/ k \notin sessionid_key /\ UNCHANGED << sessionid_key, socket_aeskey >>
    /\ UNCHANGED << clientVars, edge, backlog, watchVars, evs, curfd, workerVars, terminated >>

\* haveNewClientMsg: the message goes to the thread pool.
NewClientMsg(m) == tasks' = Append(tasks, m)

\* A message is read to its end.
RecvMessage ==
    /\ Loop("recv", "next") /\ First.kind = "msg"
    /\ Consume
    /\ NewClientMsg([sock |-> curfd, fd |-> fd[curfd], key |-> First.key, led |-> First.led])
    /\ UNCHANGED << clientVars, edge, backlog, watchVars, evs, curfd, keyVars, wpc, task, key, terminated >>

\* Mutant: only an error of recv ends the wait, not the end of the connection.
RecvPartOn ==
    /\ Loop("recv", "recv") /\ First.kind = "part"
    /\ Closed(curfd)
    /\ UNCHANGED << clientVars, kernelVars, watchVars, evs, curfd, keyVars, workerVars, terminated >>
\* The rest of an incomplete message never comes: recv waits for the end of the
\* connection, and that throws.
RecvPart ==
    /\ Loop("recv", "drain") /\ First.kind = "part"
    /\ Closed(curfd)
    /\ Consume
    /\ UNCHANGED << clientVars, edge, backlog, watchVars, evs, curfd, keyVars, workerVars, terminated >>

\* "Tls close msg" throws.
RecvBye ==
    /\ Loop("recv", "drain") /\ First.kind = "bye"
    /\ Consume
    /\ UNCHANGED << clientVars, edge, backlog, watchVars, evs, curfd, keyVars, workerVars, terminated >>

\* recvMsg does not know the first bytes, or has not got them all: it reads nothing and
\* comes to its end without a return, which may end the process or do nothing.
RecvOdd ==
    /\ Loop("recv", "next") /\ First.kind = "odd"
    /\ terminated' \in BOOLEAN
    /\ UNCHANGED << clientVars, kernelVars, watchVars, evs, curfd, keyVars, workerVars >>

\* The handler of the exception reads on until there is nothing: on a socket that
\* blocks, until the connection ends.
Drain ==
    /\ \/ /\ Loop("drain", "drain")
          /\ inbox[curfd] # << >>
          /\ inbox' = [inbox EXCEPT ![curfd] = << >>]
       \/ /\ Loop("drain", "next")
          /\ inbox[curfd] = << >> /\ Closed(curfd)
          /\ UNCHANGED inbox
    /\ UNCHANGED << clientVars, edge, backlog, watchVars, evs, curfd, keyVars, workerVars, terminated >>

Receive == RecvTls \/ RecvAuth \/ RecvMessage \/ RecvPart \/ RecvBye \/ RecvOdd

LoopStep ==
    \/ Wait \/ Done \/ Accept \/ AcceptFails \/ Peek \/ Gone
    \/ Receive \/ HandleTls \/ HandleAuth \/ Drain

-------------------------------------------------------------------------------
(* The workers: the task of haveNewClientMsg and dealClient                *)

\* socket_aeskey has no lock, and operator[] inserts what it does not find: an
\* access while the loop changes the map, or while another worker uses it and one
\* of the two inserts, is a data race, which may do nothing or end the process.
Racing(w, s) ==
    /\ "race" \in Faults
    /\ \/ lpc \in {"auth", "close"}
       \/ \E v \in Worker \ {w} :
             wpc[v] = "check" /\ NoKey \in {socket_aeskey[s], socket_aeskey[task[v].sock]}

\* The task reads the key it passes on for the answer.
Start(w) ==
    /\ ~terminated /\ wpc[w] = "idle" /\ tasks # << >>
    /\ tasks' = Tail(tasks)
    /\ task' = [task EXCEPT ![w] = Head(tasks)]
    /\ key' = [key EXCEPT ![w] = socket_aeskey[Head(tasks).sock]]
    /\ wpc' = [wpc EXCEPT ![w] = "check"]
    /\ terminated' \in IF Racing(w, Head(tasks).sock) THEN BOOLEAN ELSE {FALSE}
    /\ UNCHANGED << clientVars, kernelVars, loopVars, keyVars >>

\* Mutant: the result of verifyAndDecrypt is not looked at.
DecryptsAlways(k, m) == TRUE
\* verifyAndDecrypt refuses a null key, and padding that comes out wrong.
Decrypts(k, m) == k # NoKey /\ k = m.key

Rests(w) ==
    /\ wpc' = [wpc EXCEPT ![w] = "idle"]
    /\ task' = [task EXCEPT ![w] = NoKey]
    /\ key' = [key EXCEPT ![w] = NoKey]

\* dealClient reads the key again, to decrypt.
Check(w) ==
    /\ ~terminated /\ wpc[w] = "check"
    /\ IF Decrypts(socket_aeskey[task[w].sock], task[w])
       THEN /\ wpc' = [wpc EXCEPT ![w] = "reply"]
            /\ UNCHANGED << task, key >>
       ELSE Rests(w)
    /\ terminated' \in IF Racing(w, task[w].sock) THEN BOOLEAN ELSE {FALSE}
    /\ UNCHANGED << clientVars, kernelVars, loopVars, keyVars, tasks >>

\* The handler answers, encrypting with the key that was passed.
Answer(w) ==
    /\ ~terminated /\ wpc[w] = "reply"
    /\ Rests(w)
    /\ UNCHANGED << clientVars, kernelVars, loopVars, keyVars, tasks, terminated >>

WorkerStep(w) == Start(w) \/ Check(w) \/ Answer(w)

-------------------------------------------------------------------------------

Next == ClientStep \/ LoopStep \/ \E w \in Worker : WorkerStep(w)

Spec == Init /\ [][Next]_vars

\* The threads run.  A client that does not stall closes the connection on which
\* it ended TLS or broke off a message.
BrokenOff(s) == curfd = s /\ (lpc = "drain" \/ (lpc = "recv" /\ First.kind = "part"))
Fairness ==
    /\ WF_vars(LoopStep)
    /\ \A w \in Worker : WF_vars(WorkerStep(w))
    /\ Stalling \/ \A s \in Sock : WF_vars(BrokenOff(s) /\ Disconnect(s))

FairSpec == Spec /\ Fairness

-------------------------------------------------------------------------------
(* Properties                                                              *)

\* Every key has one place: it waits for its session id, or it belongs to one
\* socket.  No two connections share a key, and ~Server frees each once
\* (ClientAuthentication, Server.cpp:32-44).
KeysApart ==
    \A s \in Sock : socket_aeskey[s] # NoKey =>
        /\ socket_aeskey[s] \notin sessionid_key
        /\ \A r \in Sock : socket_aeskey[r] = socket_aeskey[s] => r = s

\* An answer is encrypted with the key its request was, if the client had presented
\* that key's session id first: the two reads of socket_aeskey agree whenever such a
\* request is accepted, although the loop may change the map between them
\* (Server.cpp:17-22, 84).
AnswerReadable == \A w \in Worker : wpc[w] = "reply" /\ task[w].led => key[w] = task[w].key

\* The same of every request, also of one sent before its session id was presented.  It
\* does not hold: the loop presents the key between the two reads, and the answer is
\* encrypted with the one before.
AnswersMatch == \A w \in Worker : wpc[w] = "reply" => key[w] = task[w].key

\* A message of a client that presented its session id is dropped only when the
\* connection is gone, the client presented another id there since, or it presented
\* the same one more than once (Server.cpp:32-44, 63-73, 91-96).
DropExplained ==
    \A w \in Worker : wpc[w] = "check" /\ task[w].led /\ ~terminated =>
        \/ socket_aeskey[task[w].sock] = task[w].key
        \/ task[w].sock \notin my_epoll
        \/ id[task[w].sock] # task[w].key
        \/ shown[task[w].key] > 1

\* An answer goes to the client that asked: it is sent to the number its request came
\* from, which no other connection gets, although workers answer when the connection may
\* be long gone (Server.cpp:84, 91-96, where nothing is closed).
AnswerReachesAsker ==
    \A w \in Worker : wpc[w] = "reply" => \A s \in Sock : fd[s] = task[w].fd => s = task[w].sock

\* What makes them inductive.  The keys that exist:
Issued == UNION { sess[c] : c \in Client }

\* A socket of which no message is read any more.
Deaf(s) == (lpc = "drain" /\ curfd = s) \/ (Closed(s) /\ inbox[s] = << >>)

\* What is in an inbox: the presentations, which keys they are of, whether each
\* led message with a key of S has one before it, and whether that of k is the last.
Auths(q) == { i \in DOMAIN q : q[i].kind = "auth" }
Shows(q, k) == \E i \in Auths(q) : q[i].key = k
Led(q, S) ==
    \A n \in DOMAIN q : q[n].led /\ q[n].key \in S => \E i \in Auths(q) : i < n /\ q[i].key = q[n].key
MsgsOf(q, S) == \A n \in DOMAIN q : q[n].led => q[n].key \in S
ShownLast(q, k) == \E i \in Auths(q) : q[i].key = k /\ \A j \in Auths(q) : j <= i

\* A key in use is no new one.
KeysIssued == sessionid_key \subseteq Issued /\ \A s \in Sock : socket_aeskey[s] \in Issued \cup {NoKey}

\* On each socket the presentation of a key comes before the led messages.
AuthFirst ==
    /\ lpc = "auth" => First.kind = "auth"
    /\ \A s \in Sock : ~Deaf(s) =>
          /\ id[s] \in Issued \cup {NoKey} /\ MsgsOf(inbox[s], Issued)
          /\ id[s] \in sessionid_key => Shows(inbox[s], id[s])
          /\ Led(inbox[s], sessionid_key)

\* A message that was read has the number of its socket, and if it was led, a key
\* that nobody can present with success any more.
Read(m) ==
    /\ m \in Message
    /\ m.led => m.key \in Issued \ sessionid_key
    /\ m.fd = fd[m.sock] /\ m.fd # 0
TasksRead == (\A i \in DOMAIN tasks : Read(tasks[i])) /\ \A w \in Worker : wpc[w] # "idle" => Read(task[w])

\* What the first read of socket_aeskey found, if the second will succeed.
ReadsAgree ==
    \A w \in Worker :
        wpc[w] = "check" /\ task[w].led /\ socket_aeskey[task[w].sock] = task[w].key
            => key[w] = task[w].key

\* Sockets that are watched, reported or being read have been accepted, those that
\* wait have not, and no two have the same number.
FdsApart ==
    /\ \A r, s \in Sock : fd[r] # 0 /\ fd[r] = fd[s] => r = s
    /\ \A s \in my_epoll \cup (evs \ {Listener}) : fd[s] # 0
    /\ lpc \notin {"wait", "next"} => curfd # Listener /\ fd[curfd] # 0
    /\ \A i \in DOMAIN backlog : fd[backlog[i]] = 0 /\ conn[backlog[i]] # "new"
    /\ \A i, j \in DOMAIN backlog : backlog[i] = backlog[j] => i = j
    /\ \A s \in Sock : conn[s] = "new" => fd[s] = 0
    /\ Listener \in evs => backlog # << >>

\* A key nobody presented waits; so does one that was presented once, from then until
\* the loop gets there, and it stands in one place.
NeverShown == \A k \in Issued : shown[k] = 0 => k \in sessionid_key
ShownWaits ==
    \A s \in Sock, k \in Key : Shows(inbox[s], k) => shown[k] > 0 /\ (shown[k] = 1 => k \in sessionid_key)
ShownOnce ==
    \A k \in Key, r, s \in Sock : \A i \in Auths(inbox[r]), j \in Auths(inbox[s]) :
        shown[k] = 1 /\ inbox[r][i].key = k /\ inbox[s][j].key = k => r = s /\ i = j
IdShown == \A s \in Sock : id[s] # NoKey => shown[id[s]] > 0

\* Presented last of all on its socket, it is in the socket's map or about to get
\* there, unless the connection is gone.
Lost(s) == fd[s] # 0 /\ s \notin my_epoll
Arrives ==
    \A s \in Sock : ~Deaf(s) /\ id[s] # NoKey /\ shown[id[s]] = 1 =>
        \/ ShownLast(inbox[s], id[s])
        \/ Auths(inbox[s]) = {} /\ (socket_aeskey[s] = id[s] \/ Lost(s))

OnceShown == NeverShown /\ ShownWaits /\ ShownOnce /\ IdShown /\ Arrives
ReadExplained(m) ==
    m.led /\ id[m.sock] = m.key /\ shown[m.key] < 2 => socket_aeskey[m.sock] = m.key \/ Lost(m.sock)
DropInv ==
    /\ \A i \in DOMAIN tasks : ReadExplained(tasks[i])
    /\ \A w \in Worker : wpc[w] = "check" => ReadExplained(task[w])

\* How much of what a client sent was read.
NRead(s) == sent[s] - Len(inbox[s])
Unknown(s) == inbox[s] # << >> /\ Head(inbox[s]).kind = "odd"

\* Each report of a socket takes at least one thing from it, whatever else was reported
\* with it and whatever the other clients do, unless recvMsg does not know it or the
\* connection is reset (TcpServer.cpp:76-103).
ReportReads ==
    \A s \in Sock : \A n \in 0 .. SendMax[s] - 1 :
        (s \in edge \cap my_epoll /\ inbox[s] # << >> /\ NRead(s) = n)
            ~> (NRead(s) > n \/ Unknown(s) \/ conn[s] = "rst" \/ terminated)

\* Each report of the listener takes the connection that has waited longest, as long as
\* there are descriptors: it is watched, and what it sent before is reported
\* (TcpServer.cpp:83-90, 140-152).
ReportAccepts ==
    \A s \in Sock :
        (Listener \in edge /\ backlog # << >> /\ Head(backlog) = s) ~> (s \in my_epoll \/ Free = {} \/ terminated)

\* A connection for which no descriptor was left waits, and will not get one.
LeftOut(s) == Free = {} /\ fd[s] = 0

\* Three things the loop is for and does not do.  What a client sent is read: not when it
\* arrived together with something else, for one report takes one thing.
AllRead ==
    \A s \in Sock : (inbox[s] # << >>) ~> (inbox[s] = << >> \/ conn[s] = "rst" \/ terminated \/ LeftOut(s))

\* Every connection is accepted, as long as there are descriptors: not the second of two
\* that came under one report.
AllAccepted == \A s \in Sock : (conn[s] = "pending") ~> (s \in my_epoll \/ Closed(s) \/ LeftOut(s))

\* The key of a connection that ended leaves the map: not when it was reset.
GoneNoticed == \A s \in Sock : (s \in my_epoll /\ conn[s] = "rst") ~> (s \notin my_epoll)

\* The loop comes back to epoll_wait for the other clients.
LoopReturns == []<>(lpc = "wait" \/ terminated)
===============================================================================
