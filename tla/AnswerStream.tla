---------------------------- MODULE AnswerStream ----------------------------
(***************************************************************************)
(* What the workers send on one socket: short answers, those that are as long *)
(* as the database has them, the picture and answer of a login, and the       *)
(* package of GetVersionPackageStrategy, in chunks.                          *)
(*                                                                         *)
(* TcpServer::sendMsg cuts a message into blocks and sends them one by one,   *)
(* without a lock, on a socket other workers may be answering on.            *)
(***************************************************************************)
EXTENDS Integers, Sequences

CONSTANTS
    Worker,
    ChunkSize,      \* chunk_size: bytes of a chunk (4096 in the code)
    MaxBlocks,      \* bound of the model: blocks of a message (of 5120 bytes in the code)
    MaxFile,        \* bound of the model: bytes of the package
    MaxAsked,       \* bound of the model: requests
    Wrap,           \* what a uint32_t counts up to: 2^32 in the code
    Patient,        \* the client asks when it has the answer to what it asked before
    Faults          \* "rewrite": the package is written over.  "leave": the client goes
                    \* away.  "open": there is no package.  "short": send() takes less
                    \* than it was given, as when a signal interrupts it.

ASSUME SizesAssumption ==
    /\ {ChunkSize, MaxBlocks, Wrap} \subseteq Nat \ {0} /\ {MaxFile, MaxAsked} \subseteq Nat
    /\ Patient \in BOOLEAN /\ Worker # {}

VARIABLES
    file,           \* the package: its bytes
    asked, waiting, \* requests so far, and those no worker has taken
    pc,             \* what each worker does, or sends
    left,           \* blocks of its message it has to send yet, 0 before the first
    total_size, pos, buffer,    \* of its download: what it announces, how far it
                                \* has read, and the chunk
    last,           \* the last block on the socket: by whom, and how many follow
    mixed,          \* history: a message was not sent in one piece
    download,       \* what the client has: total, data, whether it is complete, and
                    \* whether the package was written over meanwhile
    lost,           \* history: bytes given to send() did not go out
    gone,           \* how the client went away: it closed, it was reset, or it was
                    \* reset after it had shut down its side
    pipe,           \* of the socket: "open", "error" before it was told, "broken"
    terminated      \* what was being sent when SIGPIPE ended the process, or "no"

vars == << file, asked, waiting, pc, left, total_size, pos, buffer, last, mixed, download, lost,
           gone, pipe, terminated >>
readVars == << total_size, pos, buffer >>
netVars == << left, last, mixed, lost, gone, pipe, terminated >>
clientVars == << asked, waiting >>

Bytes(stamp, n) == [i \in 1 .. n |-> << stamp, i >>]
Blank == << 2, 0 >>
Sending == {"answer", "list", "picture", "login", "header", "payload", "end"}
MinOf(a, b) == IF a < b THEN a ELSE b

TypeOK ==
    /\ \E stamp \in 0 .. 1, n \in 0 .. MaxFile : file = Bytes(stamp, n)
    /\ asked \in 0 .. MaxAsked /\ waiting \in 0 .. MaxAsked
    /\ pc \in [Worker -> {"idle", "open", "read"} \cup Sending]
    /\ left \in [Worker -> 0 .. MaxBlocks]
    /\ total_size \in [Worker -> 0 .. Wrap - 1]
    /\ pos \in [Worker -> 0 .. MaxFile]
    /\ \A w \in Worker : Len(buffer[w]) = ChunkSize
    /\ last.w \in Worker /\ last.left \in 0 .. MaxBlocks - 1
    /\ {mixed, lost, download.complete, download.stale} \subseteq BOOLEAN
    /\ gone \in {"no", "closed", "reset", "halved"} /\ pipe \in {"open", "error", "broken"}
    /\ terminated \in Sending \cup {"no"}

Init ==
    /\ \E n \in 0 .. MaxFile : file = Bytes(0, n)
    /\ asked = 0 /\ waiting = 0
    /\ pc = [w \in Worker |-> "idle"] /\ left = [w \in Worker |-> 0]
    /\ total_size = [w \in Worker |-> 0] /\ pos = [w \in Worker |-> 0]
    /\ buffer = [w \in Worker |-> [i \in 1 .. ChunkSize |-> Blank]]
    /\ last = [w |-> CHOOSE w \in Worker : TRUE, left |-> 0] /\ mixed = FALSE
    /\ download = [total |-> 0, data |-> << >>, complete |-> FALSE, stale |-> FALSE]
    /\ lost = FALSE /\ gone = "no" /\ pipe = "open" /\ terminated = "no"

-------------------------------------------------------------------------------
(* The client, and whoever puts packages in their place                    *)

Ask ==
    /\ terminated = "no" /\ gone = "no" /\ asked < MaxAsked
    /\ Patient => waiting = 0 /\ \A w \in Worker : pc[w] = "idle"
    /\ asked' = asked + 1 /\ waiting' = waiting + 1
    /\ UNCHANGED << file, pc, readVars, netVars, download >>

\* The kernel does not tell a close from the end of what a client says; it learns of it by
\* what comes back for the next block.  A reset it notes at once: as an error it reports to
\* one send(), or, when the client had said that it is through, as a broken pipe.
Leave ==
    /\ "leave" \in Faults /\ terminated = "no" /\ gone = "no"
    /\ \/ gone' = "closed" /\ pipe' = pipe
       \/ gone' = "reset" /\ pipe' = "error"
       \/ gone' = "halved" /\ pipe' = "broken"
    /\ UNCHANGED << file, clientVars, pc, left, readVars, last, mixed, download, lost, terminated >>

Rewrite ==
    /\ "rewrite" \in Faults /\ terminated = "no"
    /\ \E n \in 0 .. MaxFile : file' = Bytes(1, n)
    /\ download' = [download EXCEPT !.stale = TRUE]
    /\ UNCHANGED << clientVars, pc, readVars, netVars >>

-------------------------------------------------------------------------------
(* Sending                                                                 *)

\* Mutant: the loop goes on while send_done <= total.
BlocksAndOne(n) == n + 1
\* Blocks of a message of n blocks
Blocks(n) == n

\* Mutant: send_done is advanced twice.
NextBlocksFull(w, n) == IF left[w] = 0 THEN Blocks(n) ELSE left[w] - 1
\* How many blocks are to be sent, of a message of n
NextBlocks(w, n) == IF left[w] = 0 THEN Blocks(n) ELSE left[w]

\* One send() of sendMsg, which does not look at what it returns: what did not go out is
\* lost, and the next block follows.  The first one after the client closed succeeds, and
\* may bring a reset; one on a broken pipe raises SIGPIPE, which nobody ignores.
Send(w, what, n, next, arrives) ==
    /\ terminated = "no" /\ pc[w] = what
    /\ arrives => pipe = "open"
    /\ ~arrives => pipe # "open" \/ "short" \in Faults
    /\ LET rest == NextBlocks(w, n) - 1 IN
          /\ left' = [left EXCEPT ![w] = rest]
          /\ last' = [w |-> w, left |-> rest]
          /\ mixed' = (mixed \/ (last.left > 0 /\ last' # [w |-> last.w, left |-> last.left - 1]))
          /\ pc' = IF rest = 0 THEN [pc EXCEPT ![w] = next] ELSE pc
    /\ lost' = (lost \/ ~arrives)
    /\ pipe' \in IF pipe # "open" THEN {"broken"}
                 ELSE IF gone = "closed" THEN {"open", "broken"} ELSE {"open"}
    /\ terminated' = IF pipe = "broken" THEN what ELSE "no"
    /\ UNCHANGED << file, clientVars, gone >>

\* What goes out in one send(), or in up to MaxBlocks
Whole(w, what, next) == \E arrives \in BOOLEAN : Send(w, what, 1, next, arrives)
InBlocks(w, what, from, next) ==
    \E n \in from .. MaxBlocks, arrives \in BOOLEAN : Send(w, what, n, next, arrives)

Answer(w) == Whole(w, "answer", "idle") /\ UNCHANGED << readVars, download >>

\* The list of a user's devices, and the description of a version, beyond one block
List(w) == InBlocks(w, "list", 2, "idle") /\ UNCHANGED << readVars, download >>

\* LoginStrategy: the message of buildFile, and then the answer
Picture(w) == InBlocks(w, "picture", 1, "login") /\ UNCHANGED << readVars, download >>
Login(w) == Whole(w, "login", "idle") /\ UNCHANGED << readVars, download >>

\* buildHeader, buildPayload and buildEnd, as the client understands them
Header(w) ==
    /\ \E arrives \in BOOLEAN :
          /\ Send(w, "header", 1, "read", arrives)
          /\ download' = IF arrives THEN [download EXCEPT !.total = total_size[w]] ELSE download
    /\ UNCHANGED readVars

\* The whole buffer, also when the chunk is shorter; a short chunk is the last.
Payload(w) ==
    /\ \E arrives \in BOOLEAN :
          /\ Send(w, "payload", 1, IF pos[w] % ChunkSize = 0 THEN "read" ELSE "end", arrives)
          /\ download' = IF arrives THEN [download EXCEPT !.data = @ \o buffer[w]] ELSE download
    /\ UNCHANGED readVars

End(w) ==
    /\ \E arrives \in BOOLEAN :
          /\ Send(w, "end", 1, "idle", arrives)
          /\ download' = IF arrives THEN [download EXCEPT !.complete = TRUE] ELSE download
    /\ UNCHANGED readVars

-------------------------------------------------------------------------------
(* The handlers                                                            *)

Go(w, from, to) == terminated = "no" /\ pc[w] = from /\ pc' = [pc EXCEPT ![w] = to]

\* GetLastestVersionStrategy answers at once, and so do the other handlers; what they found
\* may fit a block or not.
Begin(w) ==
    /\ waiting > 0
    /\ \E to \in {"answer", "list", "picture", "open"} : Go(w, "idle", to)
    /\ waiting' = waiting - 1
    /\ UNCHANGED << file, asked, readVars, netVars, download >>

\* buildHeader takes the size as a uint32_t.
Cut(n) == n % Wrap

\* The package of the latest version: its size is taken when it is opened.
Open(w) ==
    /\ \/ /\ Go(w, "open", "header")
          /\ total_size' = [total_size EXCEPT ![w] = Cut(Len(file))]
          /\ pos' = [pos EXCEPT ![w] = 0]
          /\ buffer' = [buffer EXCEPT ![w] = [i \in 1 .. ChunkSize |-> Blank]]
          /\ download' = [total |-> 0, data |-> << >>, complete |-> FALSE, stale |-> FALSE]
       \/ /\ "open" \in Faults
          /\ Go(w, "open", "answer")
          /\ UNCHANGED << readVars, download >>
    /\ UNCHANGED << file, clientVars, netVars >>

\* Mutant: only whole chunks count, as in while (stream.read(...)).
ChunkWhole(w) == IF Len(file) - pos[w] >= ChunkSize THEN ChunkSize ELSE 0
\* gcount()
Chunk(w) == MinOf(ChunkSize, Len(file) - pos[w])

\* A chunk overwrites the beginning of the buffer.
Read(w) ==
    /\ LET n == Chunk(w) IN
          \/ /\ n <= 0 /\ Go(w, "read", "end")
             /\ UNCHANGED << pos, buffer >>
          \/ /\ n > 0 /\ Go(w, "read", "payload")
             /\ pos' = [pos EXCEPT ![w] = @ + n]
             /\ buffer' = [buffer EXCEPT ![w] =
                             [i \in 1 .. ChunkSize |-> IF i <= n THEN file[pos[w] + i] ELSE @[i]]]
    /\ UNCHANGED << file, clientVars, netVars, total_size, download >>

WorkerStep(w) ==
    \/ Begin(w) \/ Answer(w) \/ List(w) \/ Picture(w) \/ Login(w)
    \/ Open(w) \/ Header(w) \/ Read(w) \/ Payload(w) \/ End(w)

Next == Ask \/ Leave \/ Rewrite \/ \E w \in Worker : WorkerStep(w)

Spec == Init /\ [][Next]_vars

-------------------------------------------------------------------------------
(* Properties                                                              *)

\* A complete download is the package, once the client has cut it at the size
\* that was announced: the chunks came in order, none is missing, and only the
\* last one is filled up.  That takes a package below 2^32 bytes which nobody
\* writes over meanwhile, and a socket on which every send() took what it was given
\* (JsonStrategy.cpp:463-485, MsgBuilder.cpp:139-171).
Reassembles ==
    download.complete /\ ~download.stale /\ ~lost /\ Len(file) < Wrap =>
        /\ download.total <= Len(download.data)
        /\ Len(download.data) < download.total + ChunkSize
        /\ SubSeq(download.data, 1, download.total) = file

\* A client that asks for one thing at a time and goes away can end the process only in
\* the middle of what takes several sends: a picture with the answer after it, a package,
\* a list of devices or a description beyond one block.  An answer of one block and the
\* header of a package are the first send() of their request, and the first one fails
\* quietly or succeeds, unless the client shut down its side before it was reset
\* (TcpServer.cpp:181, JsonStrategy.cpp:166-172, 252-263).
ShortAnswersHarmless ==
    terminated \in {"answer", "header"} => gone = "halved"

\* A message reaches the socket in one piece: it is a frame of a size and as many
\* bytes (MsgBuilder.cpp:137-138).  It does not when two workers answer one client at once:
\* nobody locks the socket (TcpServer.cpp:175-184).
FramesWhole == ~mixed
===============================================================================
