-------------------------- MODULE AnswerStreamProofs --------------------------
(***************************************************************************)
(* For any number of workers, sizes of chunks, pictures and packages: to a    *)
(* client that asks for one thing at a time, a complete download is the        *)
(* package, and the first send() of a request ends the process only when the   *)
(* client had shut down its side before it was reset.                        *)
(***************************************************************************)
EXTENDS AnswerStream, SequenceTheorems, TLAPS

-------------------------------------------------------------------------------
(* The invariant                                                           *)

Byte == (0 .. 2) \X Nat

\* What TypeOK leaves open: the bytes.
BytesType ==
    /\ file \in Seq(Byte)
    /\ buffer \in [Worker -> [1 .. ChunkSize -> Byte]]
    /\ download \in [total : Nat, data : Seq(Byte), complete : BOOLEAN, stale : BOOLEAN]
    /\ last \in [w : Worker, left : 0 .. MaxBlocks - 1]

\* A patient client has one request in the pool or with a worker.
OneAtATime ==
    /\ waiting <= 1
    /\ waiting = 1 => \A w \in Worker : pc[w] = "idle"
    /\ \A v, w \in Worker : pc[v] # "idle" /\ pc[w] # "idle" => v = w

\* Only some messages take several blocks, whoever asks for what.
Long == {"list", "picture"}
Halfway == \A w \in Worker : left[w] > 0 => pc[w] \in Long

\* Once the pipe is broken without the client having shut down its side, one send() was
\* made since, and all that is still to be sent is the rest of what takes several.
Resting ==
    /\ gone = "no" => pipe = "open"
    /\ pipe = "error" => gone = "reset"
    /\ pipe = "broken" /\ gone # "halved" =>
          waiting = 0 /\ \A w \in Worker : pc[w] \notin {"answer", "header", "open"}
    /\ terminated \in {"answer", "header"} => gone = "halved"

\* What the client has so far is the beginning of the package.
Prefix == \A i \in 1 .. MinOf(Len(download.data), Len(file)) : download.data[i] = file[i]

\* All of it, and less than a chunk more.
AllSent ==
    /\ download.total = Cut(Len(file))
    /\ Len(file) <= Len(download.data) /\ Len(download.data) < Len(file) + ChunkSize

\* How far a download is, by the place of its worker.
Downloading(w) ==
    /\ pc[w] \in {"header", "read", "payload", "end"} => ~download.complete
    /\ pc[w] = "header" =>
          download.data = << >> /\ pos[w] = 0 /\ total_size[w] = Cut(Len(file))
    /\ pc[w] \in {"read", "payload"} =>
          /\ download.total = Cut(Len(file))
          /\ Len(download.data) % ChunkSize = 0
          /\ pos[w] <= Len(file)
    /\ pc[w] = "read" => pos[w] = Len(download.data)
    /\ pc[w] = "payload" =>
          LET n == pos[w] - Len(download.data) IN
              /\ n \in 1 .. ChunkSize /\ (n < ChunkSize => pos[w] = Len(file))
              /\ \A i \in 1 .. n : buffer[w][i] = file[Len(download.data) + i]
    /\ pc[w] = "end" => AllSent

Faithful ==
    ~download.stale /\ ~lost =>
        /\ Prefix
        /\ \A w \in Worker : Downloading(w)
        /\ download.complete => AllSent

\* Whatever the client does ...
TypesInv == TypeOK /\ BytesType /\ Halfway /\ waiting <= asked
\* ... and when it asks for one thing at a time
IInv == TypesInv /\ OneAtATime /\ Resting /\ Faithful

-------------------------------------------------------------------------------
(* Whole chunks                                                            *)

\* Division leaves the remainder it is made with.
LEMMA Remainder ==
    ASSUME NEW c \in Nat \ {0}, NEW q \in Int, NEW r \in 0 .. c - 1
    PROVE  (c * q + r) % c = r
OBVIOUS

\* After whole chunks, n more bytes are whole chunks again only if they are one.
LEMMA WholeChunks ==
    ASSUME NEW a \in Nat, NEW c \in Nat \ {0}, NEW n \in 1 .. c, a % c = 0
    PROVE  (a + n) % c = 0 <=> n = c
<1> DEFINE q == a \div c
<1>1. q \in Int /\ a = c * q
  OBVIOUS
<1> HIDE DEF q
<1>2. CASE n = c
  <2>1. a + n = c * (q + 1) + 0 /\ 0 \in 0 .. c - 1 /\ q + 1 \in Int
    BY <1>1, <1>2
  <2> QED BY <1>2, <2>1, Remainder
<1>3. CASE n < c
  <2>1. n \in 0 .. c - 1 /\ a + n = c * q + n /\ n # 0
    BY <1>1, <1>3
  <2> QED BY <1>1, <1>3, <2>1, Remainder
<1> QED BY <1>2, <1>3

\* A position at most a chunk after whole chunks is one of whole chunks only if it is a chunk away.
LEMMA Filled ==
    ASSUME NEW d \in Nat, NEW c \in Nat \ {0}, NEW p \in Nat, d % c = 0, p - d \in 1 .. c
    PROVE  /\ p % c = 0 => p = d + c
           /\ p % c # 0 => p - d < c
           /\ (d + c) % c = 0
<1> DEFINE n == p - d
<1>1. n \in 1 .. c /\ p = d + n /\ c \in 1 .. c
  OBVIOUS
<1> HIDE DEF n
<1>2. d % c = 0
  OBVIOUS
<1>3. (d + n) % c = 0 <=> n = c
  BY <1>1, <1>2, WholeChunks, Zenon
<1>4. (d + c) % c = 0
  BY <1>1, <1>2, WholeChunks, Zenon
<1>5. n = p - d
  BY DEF n
<1> QED BY <1>1, <1>3, <1>4, <1>5

-------------------------------------------------------------------------------
(* One block                                                               *)

\* What a send() does: it leaves rest blocks, and either the block goes out or it is lost.
Sends(w, what, next) ==
    /\ terminated = "no" /\ pc[w] = what
    /\ \E rest \in 0 .. MaxBlocks - 1 :
          /\ left' = [left EXCEPT ![w] = rest]
          /\ last' = [w |-> w, left |-> rest]
          /\ mixed' = (mixed \/ (last.left > 0 /\ last' # [w |-> last.w, left |-> last.left - 1]))
          /\ pc' = IF rest = 0 THEN [pc EXCEPT ![w] = next] ELSE pc
          /\ what \notin Long => rest = 0
    /\ lost' \in BOOLEAN /\ (lost => lost')
    /\ pipe' \in {"open", "broken"}
    /\ pipe' = "broken" => pipe # "open" \/ gone = "closed"
    /\ terminated' \in {what, "no"} /\ (terminated' = what => pipe = "broken")
    /\ UNCHANGED << file, asked, waiting, gone >>

LEMMA SendSends ==
    ASSUME TypeOK, Halfway, NEW w \in Worker, NEW what \in Sending, NEW next, NEW arrives \in BOOLEAN,
           NEW n \in 1 .. MaxBlocks, what \notin Long => n = 1, Send(w, what, n, next, arrives)
    PROVE  Sends(w, what, next) /\ (~lost' => arrives)
<1> DEFINE rest == NextBlocks(w, n) - 1
<1>1. rest \in 0 .. MaxBlocks - 1 /\ (what \notin Long => rest = 0)
  <2>1. /\ left[w] \in 0 .. MaxBlocks /\ (left[w] > 0 => what \in Long)
        /\ MaxBlocks \in Nat \ {0}
    BY SizesAssumption, Zenon DEF TypeOK, Halfway, Send
  <2>2. rest = (IF left[w] = 0 THEN n ELSE left[w]) - 1
    BY DEF NextBlocks, Blocks
  <2> HIDE DEF rest
  <2> QED BY <2>1, <2>2
<1>2. /\ left' = [left EXCEPT ![w] = rest]
      /\ last' = [w |-> w, left |-> rest]
      /\ mixed' = (mixed \/ (last.left > 0 /\ last' # [w |-> last.w, left |-> last.left - 1]))
      /\ pc' = IF rest = 0 THEN [pc EXCEPT ![w] = next] ELSE pc
  BY Zenon DEF Send
<1>3. /\ terminated = "no" /\ pc[w] = what /\ UNCHANGED << file, asked, waiting, gone >>
      /\ terminated' \in {what, "no"} /\ (terminated' = what => pipe = "broken")
  BY DEF Send, clientVars, Sending
<1>4. lost' \in BOOLEAN /\ (lost => lost') /\ (~lost' => arrives)
  BY DEF Send, TypeOK
<1>5. pipe' \in {"open", "broken"} /\ (pipe' = "broken" => pipe # "open" \/ gone = "closed")
  BY DEF Send
<1> HIDE DEF rest
<1> QED BY <1>1, <1>2, <1>3, <1>4, <1>5, Zenon DEF Sends

\* The steps of a worker that are a send(), and where they lead
SendingStep(w) ==
    \/ Sends(w, "answer", "idle") \/ Sends(w, "list", "idle")
    \/ Sends(w, "picture", "login") \/ Sends(w, "login", "idle")
    \/ Sends(w, "header", "read") \/ Sends(w, "end", "idle")
    \/ Sends(w, "payload", IF pos[w] % ChunkSize = 0 THEN "read" ELSE "end")

\* What the client has after a block: nothing of it when it was lost.
Got(new) == download' \in {new, download} /\ (~lost' => download' = new)

LEMMA ShortSends ==
    ASSUME TypeOK, Halfway, NEW w \in Worker, NEW what \in Sending \ Long, NEW next,
           Whole(w, what, next)
    PROVE  Sends(w, what, next)
<1>1. 1 \in 1 .. MaxBlocks
  BY SizesAssumption
<1> QED BY <1>1, SendSends, Zenon DEF Whole

LEMMA LongSends ==
    ASSUME TypeOK, Halfway, NEW w \in Worker, NEW what \in Long, NEW next, NEW from \in 1 .. 2,
           InBlocks(w, what, from, next)
    PROVE  Sends(w, what, next)
<1>1. PICK n \in from .. MaxBlocks, arrives \in BOOLEAN : Send(w, what, n, next, arrives)
  BY DEF InBlocks
<1>2. n \in 1 .. MaxBlocks /\ what \in Sending
  BY SizesAssumption DEF Long, Sending
<1> QED BY <1>1, <1>2, SendSends, Zenon

LEMMA Senders ==
    ASSUME TypeOK, Halfway, NEW w \in Worker, WorkerStep(w)
    PROVE  \/ Begin(w) \/ Open(w) \/ Read(w)
           \/ UNCHANGED << total_size, pos, buffer, download >> /\
                 \/ Sends(w, "answer", "idle") \/ Sends(w, "list", "idle")
                 \/ Sends(w, "picture", "login") \/ Sends(w, "login", "idle")
           \/ UNCHANGED << total_size, pos, buffer >> /\
                 \/ Sends(w, "header", "read") /\ Got([download EXCEPT !.total = total_size[w]])
                 \/ /\ Sends(w, "payload", IF pos[w] % ChunkSize = 0 THEN "read" ELSE "end")
                    /\ Got([download EXCEPT !.data = download.data \o buffer[w]])
                 \/ Sends(w, "end", "idle") /\ Got([download EXCEPT !.complete = TRUE])
<1>1. CASE Answer(w)
  BY <1>1, ShortSends DEF Answer, Sending, Long, readVars
<1>2. CASE List(w)
  BY <1>2, LongSends DEF List, Long, readVars
<1>3. CASE Picture(w)
  BY <1>3, LongSends DEF Picture, Long, readVars
<1>4. CASE Login(w)
  BY <1>4, ShortSends DEF Login, Sending, Long, readVars
<1>s. 1 \in 1 .. MaxBlocks /\ {"header", "payload", "end"} \subseteq Sending \ Long
  BY SizesAssumption DEF Sending, Long
<1>5. CASE Header(w)
  <2>1. PICK arrives \in BOOLEAN :
          /\ Send(w, "header", 1, "read", arrives)
          /\ download' = IF arrives THEN [download EXCEPT !.total = total_size[w]] ELSE download
    BY <1>5 DEF Header
  <2>2. Sends(w, "header", "read") /\ (~lost' => arrives)
    BY <1>s, <2>1, SendSends
  <2> QED BY <1>5, <2>1, <2>2 DEF Header, Got, readVars
<1>6. CASE Payload(w)
  <2> DEFINE next == IF pos[w] % ChunkSize = 0 THEN "read" ELSE "end"
  <2>1. PICK arrives \in BOOLEAN :
          /\ Send(w, "payload", 1, next, arrives)
          /\ download' = IF arrives THEN [download EXCEPT !.data = download.data \o buffer[w]] ELSE download
    BY <1>6 DEF Payload
  <2> HIDE DEF next
  <2>2. Sends(w, "payload", next) /\ (~lost' => arrives)
    BY <1>s, <2>1, SendSends
  <2>3. Got([download EXCEPT !.data = download.data \o buffer[w]])
    BY <2>1, <2>2, Zenon DEF Got
  <2> QED BY <1>6, <2>2, <2>3 DEF Payload, readVars, next
<1>7. CASE End(w)
  <2>1. PICK arrives \in BOOLEAN :
          /\ Send(w, "end", 1, "idle", arrives)
          /\ download' = IF arrives THEN [download EXCEPT !.complete = TRUE] ELSE download
    BY <1>7 DEF End
  <2>2. Sends(w, "end", "idle") /\ (~lost' => arrives)
    BY <1>s, <2>1, SendSends
  <2> QED BY <1>7, <2>1, <2>2 DEF End, Got, readVars
<1> QED BY <1>1, <1>2, <1>3, <1>4, <1>5, <1>6, <1>7, Zenon DEF WorkerStep

LEMMA SendingSteps ==
    ASSUME TypeOK, Halfway, NEW w \in Worker, WorkerStep(w)
    PROVE  \/ Begin(w) \/ Open(w) \/ Read(w)
           \/ SendingStep(w) /\ UNCHANGED << total_size, pos, buffer >>
BY Senders, Zenon DEF SendingStep

-------------------------------------------------------------------------------
(* Each part of the invariant is kept                                      *)

\* The package is a sequence of bytes.
LEMMA FileFacts ==
    ASSUME NEW stamp \in 0 .. 1, NEW n \in 0 .. MaxFile
    PROVE  Bytes(stamp, n) \in Seq(Byte) /\ Len(Bytes(stamp, n)) = n
BY SizesAssumption DEF Bytes, Byte

LEMMA FileLength ==
    ASSUME TypeOK
    PROVE  Len(file) \in 0 .. MaxFile /\ file \in Seq(Byte)
BY FileFacts DEF TypeOK

\* gcount() is less than a chunk only at the end.
LEMMA ChunkFacts ==
    ASSUME TypeOK, NEW w \in Worker
    PROVE  /\ Chunk(w) \in Int /\ Chunk(w) <= ChunkSize /\ Chunk(w) <= Len(file) - pos[w]
           /\ Chunk(w) < ChunkSize => Chunk(w) = Len(file) - pos[w]
<1>1. Len(file) \in Nat /\ pos[w] \in Nat /\ ChunkSize \in Nat
  BY FileLength, SizesAssumption DEF TypeOK
<1> QED BY <1>1 DEF Chunk, MinOf

\* The variables of a download keep their types, ...
ReadType ==
    /\ total_size \in [Worker -> 0 .. Wrap - 1]
    /\ pos \in [Worker -> 0 .. MaxFile]
    /\ buffer \in [Worker -> [1 .. ChunkSize -> Byte]]
    /\ download \in [total : Nat, data : Seq(Byte), complete : BOOLEAN, stale : BOOLEAN]

LEMMA ReadTypeStep ==
    ASSUME TypeOK, BytesType, Halfway, NEW w \in Worker, WorkerStep(w)
    PROVE  ReadType'
<1>0. ReadType
  BY DEF TypeOK, BytesType, ReadType
<1>s. /\ ChunkSize \in Nat \ {0} /\ Wrap \in Nat \ {0} /\ MaxFile \in Nat
      /\ pos[w] \in 0 .. MaxFile /\ Len(file) \in 0 .. MaxFile /\ file \in Seq(Byte)
  BY <1>0, FileLength, SizesAssumption DEF ReadType
<1>b. buffer[w] \in [1 .. ChunkSize -> Byte]
  BY <1>0 DEF ReadType
<1>1. CASE Open(w)
  <2>1. Cut(Len(file)) \in 0 .. Wrap - 1
    BY <1>s DEF Cut
  <2>2. [i \in 1 .. ChunkSize |-> Blank] \in [1 .. ChunkSize -> Byte] /\ << >> \in Seq(Byte)
    BY DEF Blank, Byte
  <2>3. CASE UNCHANGED << readVars, download >>
    BY <1>0, <2>3 DEF ReadType, readVars
  <2>4. CASE /\ total_size' = [total_size EXCEPT ![w] = Cut(Len(file))]
             /\ pos' = [pos EXCEPT ![w] = 0]
             /\ buffer' = [buffer EXCEPT ![w] = [i \in 1 .. ChunkSize |-> Blank]]
             /\ download' = [total |-> 0, data |-> << >>, complete |-> FALSE, stale |-> FALSE]
    <3>1. 0 \in 0 .. MaxFile
      BY <1>s
    <3> QED BY <1>0, <2>1, <2>2, <2>4, <3>1 DEF ReadType
  <2> QED BY <1>1, <2>3, <2>4, Zenon DEF Open
<1>2. CASE Read(w)
  <2> DEFINE n == Chunk(w)
             new == [i \in 1 .. ChunkSize |-> IF i <= n THEN file[pos[w] + i] ELSE buffer[w][i]]
  <2>1. n \in Int /\ n <= ChunkSize /\ n <= Len(file) - pos[w]
    BY ChunkFacts
  <2>2. \/ n <= 0 /\ UNCHANGED << total_size, pos, buffer, download >>
        \/ /\ n > 0 /\ UNCHANGED << total_size, download >>
           /\ pos' = [pos EXCEPT ![w] = pos[w] + n] /\ buffer' = [buffer EXCEPT ![w] = new]
    BY <1>2, Zenon DEF Read
  <2>3. ASSUME n > 0
        PROVE  pos[w] + n \in 0 .. MaxFile /\ new \in [1 .. ChunkSize -> Byte]
    <3> HIDE DEF n
    <3>1. pos[w] + n \in 0 .. MaxFile
      BY <1>s, <2>1, <2>3
    <3>2. \A i \in 1 .. n : pos[w] + i \in 1 .. Len(file)
      BY <1>s, <2>1, <2>3
    <3>3. \A i \in 1 .. ChunkSize : (IF i <= n THEN file[pos[w] + i] ELSE buffer[w][i]) \in Byte
      <4> SUFFICES ASSUME NEW i \in 1 .. ChunkSize
                   PROVE  (IF i <= n THEN file[pos[w] + i] ELSE buffer[w][i]) \in Byte
        OBVIOUS
      <4>1. CASE i <= n
        <5>1. pos[w] + i \in 1 .. Len(file)
          BY <1>s, <2>1, <3>2, <4>1
        <5> QED BY <1>s, <4>1, <5>1, ElementOfSeq
      <4>2. CASE ~(i <= n)
        BY <1>b, <4>2
      <4> QED BY <4>1, <4>2
    <3> QED BY <3>1, <3>3
  <2> HIDE DEF n, new
  <2> QED BY <1>0, <2>2, <2>3 DEF ReadType
<1>3. CASE /\ UNCHANGED << total_size, pos, buffer >>
           /\ Got([download EXCEPT !.data = download.data \o buffer[w]])
  <2>1. buffer[w] \in Seq(Byte)
    BY <1>s, <1>b
  <2>2. download.data \in Seq(Byte)
    BY <1>0 DEF ReadType
  <2>3. download.data \o buffer[w] \in Seq(Byte)
    BY <2>1, <2>2, ConcatProperties
  <2> QED BY <1>0, <1>3, <2>3 DEF ReadType, Got
<1>4. CASE UNCHANGED << total_size, pos, buffer >> /\ Got([download EXCEPT !.total = total_size[w]])
  <2>1. total_size[w] \in Nat
    BY <1>0, <1>s DEF ReadType
  <2> QED BY <1>0, <1>4, <2>1 DEF ReadType, Got
<1>5. CASE UNCHANGED << total_size, pos, buffer >> /\ Got([download EXCEPT !.complete = TRUE])
  BY <1>0, <1>5 DEF ReadType, Got
<1>6. CASE UNCHANGED << total_size, pos, buffer, download >>
  BY <1>0, <1>6 DEF ReadType
<1>7. CASE Begin(w)
  BY <1>6, <1>7 DEF Begin, readVars
<1> QED BY <1>1, <1>2, <1>3, <1>4, <1>5, <1>6, <1>7, Senders, Zenon

\* ... and so do those of the workers and the network.
NetType ==
    /\ asked \in 0 .. MaxAsked /\ waiting \in 0 .. MaxAsked
    /\ pc \in [Worker -> {"idle", "open", "read"} \cup Sending]
    /\ left \in [Worker -> 0 .. MaxBlocks]
    /\ last \in [w : Worker, left : 0 .. MaxBlocks - 1]
    /\ mixed \in BOOLEAN /\ lost \in BOOLEAN
    /\ gone \in {"no", "closed", "reset", "halved"} /\ pipe \in {"open", "error", "broken"}
    /\ terminated \in Sending \cup {"no"}

LEMMA NetTypeStep ==
    ASSUME TypeOK, BytesType, Halfway, NEW w \in Worker, WorkerStep(w)
    PROVE  NetType'
<1>0. NetType
  BY DEF TypeOK, BytesType, NetType
<1>1. CASE Begin(w)
  <2>1. UNCHANGED << asked, left, last, mixed, lost, gone, pipe, terminated >>
    BY <1>1 DEF Begin, netVars
  <2>2. waiting' \in 0 .. MaxAsked
    <3>1. waiting \in 0 .. MaxAsked /\ waiting > 0 /\ waiting' = waiting - 1
      BY <1>0, <1>1 DEF Begin, NetType
    <3> QED BY <3>1, SizesAssumption
  <2>3. pc' \in [Worker -> {"idle", "open", "read"} \cup Sending]
    BY <1>0, <1>1 DEF Begin, Go, NetType, Sending
  <2> QED BY <1>0, <2>1, <2>2, <2>3 DEF NetType
<1>2. CASE Open(w) \/ Read(w)
  <2>1. UNCHANGED << asked, waiting, left, last, mixed, lost, gone, pipe, terminated >>
    BY <1>2 DEF Open, Read, netVars, clientVars
  <2>2. \E to \in {"header", "answer", "end", "payload"} : pc' = [pc EXCEPT ![w] = to]
    BY <1>2, Zenon DEF Open, Read, Go
  <2> QED BY <1>0, <2>1, <2>2 DEF NetType, Sending
<1>3. ASSUME NEW what \in Sending, NEW next \in {"idle", "login", "read", "end"},
             Sends(w, what, next)
      PROVE  NetType'
  <2>1. PICK rest \in 0 .. MaxBlocks - 1 :
          /\ left' = [left EXCEPT ![w] = rest]
          /\ last' = [w |-> w, left |-> rest]
          /\ mixed' = (mixed \/ (last.left > 0 /\ last' # [w |-> last.w, left |-> last.left - 1]))
          /\ pc' = IF rest = 0 THEN [pc EXCEPT ![w] = next] ELSE pc
    BY <1>3, Zenon DEF Sends
  <2>2. rest \in 0 .. MaxBlocks
    BY SizesAssumption
  <2>3. mixed' \in BOOLEAN
    BY <2>1, Zenon
  <2>4. pc' \in [Worker -> {"idle", "open", "read"} \cup Sending]
    BY <1>0, <2>1 DEF NetType, Sending
  <2>5. lost' \in BOOLEAN /\ pipe' \in {"open", "broken"} /\ terminated' \in Sending \cup {"no"}
        /\ UNCHANGED << asked, waiting, gone >>
    BY <1>3 DEF Sends
  <2>6. left' \in [Worker -> 0 .. MaxBlocks] /\ last' \in [w : Worker, left : 0 .. MaxBlocks - 1]
    BY <1>0, <2>1, <2>2 DEF NetType
  <2> QED BY <1>0, <2>3, <2>4, <2>5, <2>6 DEF NetType
<1>4. CASE SendingStep(w)
  BY <1>3, <1>4 DEF SendingStep, Sending
<1> QED BY <1>1, <1>2, <1>4, SendingSteps

LEMMA HalfwayStep ==
    ASSUME TypeOK, BytesType, Halfway, NEW w \in Worker, WorkerStep(w)
    PROVE  Halfway'
<1>0. /\ pc \in [Worker -> {"idle", "open", "read"} \cup Sending]
      /\ left \in [Worker -> 0 .. MaxBlocks]
  BY DEF TypeOK
<1>1. CASE Begin(w) \/ Open(w) \/ Read(w)
  <2>1. left' = left /\ pc[w] \notin Long /\ \E to : pc' = [pc EXCEPT ![w] = to]
    BY <1>1 DEF Begin, Open, Read, Go, netVars, Long
  <2> QED BY <1>0, <2>1 DEF Halfway
<1>2. ASSUME NEW what \in Sending, NEW next, Sends(w, what, next)
      PROVE  Halfway'
  <2>1. PICK rest \in 0 .. MaxBlocks - 1 :
          /\ left' = [left EXCEPT ![w] = rest]
          /\ pc' = IF rest = 0 THEN [pc EXCEPT ![w] = next] ELSE pc
          /\ what \notin Long => rest = 0
    BY <1>2, Zenon DEF Sends
  <2>2. pc[w] = what
    BY <1>2 DEF Sends
  <2> QED BY <1>0, <2>1, <2>2 DEF Halfway
<1>3. CASE SendingStep(w)
  BY <1>2, <1>3 DEF SendingStep, Sending
<1> QED BY <1>1, <1>3, SendingSteps

\* A worker that moves is the only one that has a request, and none waits.
LEMMA OnlyOne ==
    ASSUME TypeOK, BytesType, Halfway, OneAtATime, NEW w \in Worker, WorkerStep(w)
    PROVE  waiting' = 0 /\ \A v \in Worker \ {w} : pc[v] = "idle" /\ pc'[v] = "idle"
<1>0. pc \in [Worker -> {"idle", "open", "read"} \cup Sending] /\ waiting \in 0 .. MaxAsked
  BY DEF TypeOK
<1>1. CASE Begin(w)
  <2>1. waiting = 1 /\ waiting' = waiting - 1 /\ \E to \in {"answer", "list", "picture", "open"} :
                                               Go(w, "idle", to)
    BY <1>0, <1>1, SizesAssumption DEF Begin, OneAtATime
  <2>2. \A v \in Worker : pc[v] = "idle"
    BY <2>1 DEF OneAtATime
  <2> QED BY <1>0, <2>1, <2>2 DEF Go
<1>2. CASE pc[w] # "idle" /\ waiting' = waiting /\ \E to : pc' = [pc EXCEPT ![w] = to]
  BY <1>0, <1>2, SizesAssumption DEF OneAtATime
<1>3. CASE Open(w) \/ Read(w)
  BY <1>2, <1>3, Zenon DEF Open, Read, Go, clientVars
<1>4. CASE SendingStep(w)
  <2>1. ASSUME NEW what \in Sending, NEW next, Sends(w, what, next)
        PROVE  pc[w] # "idle" /\ waiting' = waiting /\ \E to : pc' = [pc EXCEPT ![w] = to]
    <3>1. pc' = [pc EXCEPT ![w] = next] \/ pc' = pc
      BY <2>1, Zenon DEF Sends
    <3>2. pc = [pc EXCEPT ![w] = pc[w]]
      BY <1>0
    <3> QED BY <2>1, <3>1, <3>2 DEF Sends, Sending
  <2> QED BY <1>2, <1>4, <2>1 DEF SendingStep, Sending
<1> QED BY <1>1, <1>3, <1>4, SendingSteps

LEMMA OneAtATimeStep ==
    ASSUME TypeOK, BytesType, Halfway, OneAtATime, NEW w \in Worker, WorkerStep(w)
    PROVE  OneAtATime'
BY OnlyOne DEF OneAtATime

\* The client asks no more once it has left, and what begins an answer takes one block
\* or is the first of several.
LEMMA RestingStep ==
    ASSUME TypeOK, BytesType, Halfway, OneAtATime, Resting, NEW w \in Worker, WorkerStep(w)
    PROVE  Resting'
<1>0. pc \in [Worker -> {"idle", "open", "read"} \cup Sending] /\ waiting \in 0 .. MaxAsked
  BY DEF TypeOK
<1>1. waiting' = 0 /\ \A v \in Worker \ {w} : pc'[v] = "idle"
  BY OnlyOne
<1>2. CASE Begin(w)
  BY <1>0, <1>2, SizesAssumption DEF Begin, Resting, netVars
<1>3. CASE Open(w)
  BY <1>3 DEF Open, Go, Resting, netVars
<1>4. CASE Read(w)
  <2>1. \E to \in {"end", "payload"} : pc' = [pc EXCEPT ![w] = to]
    BY <1>4, Zenon DEF Read, Go
  <2> QED BY <1>0, <1>1, <1>4, <2>1 DEF Read, Resting, netVars
<1>5. ASSUME NEW what \in Sending, NEW next \in {"idle", "login", "read", "end"},
             Sends(w, what, next)
      PROVE  Resting'
  <2>1. PICK rest : /\ pc' = IF rest = 0 THEN [pc EXCEPT ![w] = next] ELSE pc
                    /\ what \notin Long => rest = 0
    BY <1>5, Zenon DEF Sends
  <2>2. pc[w] = what /\ pc'[w] \notin {"answer", "header", "open"}
    BY <1>0, <1>5, <2>1 DEF Sends, Sending, Long
  <2>3. /\ pipe' \in {"open", "broken"} /\ (pipe' = "broken" => pipe # "open" \/ gone = "closed")
        /\ gone' = gone /\ terminated' \in {what, "no"} /\ (terminated' = what => pipe = "broken")
    BY <1>5 DEF Sends
  <2>4. terminated' \in {"answer", "header"} => gone = "halved"
    BY <2>2, <2>3 DEF Resting
  <2>5. gone' = "no" => pipe' = "open"
    BY <2>3 DEF Resting
  <2> QED BY <1>1, <2>2, <2>3, <2>4, <2>5 DEF Resting
<1>6. CASE SendingStep(w)
  BY <1>5, <1>6 DEF SendingStep, Sending
<1> QED BY <1>2, <1>3, <1>4, <1>6, SendingSteps

\* The types of what a worker's download is made of
LEMMA Facts ==
    ASSUME TypeOK, BytesType, NEW w \in Worker
    PROVE  /\ ChunkSize \in Nat \ {0} /\ Len(file) \in Nat /\ pos[w] \in Nat
           /\ download.data \in Seq(Byte) /\ Len(download.data) \in Nat /\ download.total \in Nat
           /\ buffer[w] \in Seq(Byte) /\ Len(buffer[w]) = ChunkSize
<1>1. ChunkSize \in Nat \ {0} /\ MaxFile \in Nat
  BY SizesAssumption
<1>2. Len(file) \in Nat
  BY <1>1, FileLength
<1>3. pos \in [Worker -> 0 .. MaxFile]
  BY DEF TypeOK
<1>4. download.data \in Seq(Byte) /\ download.total \in Nat
  BY DEF BytesType
<1>5. buffer[w] \in [1 .. ChunkSize -> Byte]
  BY DEF BytesType
<1> QED BY <1>1, <1>2, <1>3, <1>4, <1>5

\* A chunk that is sent continues what the client has.
LEMMA PayloadAppends ==
    ASSUME TypeOK, BytesType, Prefix, NEW w \in Worker, pc[w] = "payload", Downloading(w),
           file' = file, download'.total = download.total,
           download'.data = download.data \o buffer[w]
    PROVE  /\ Prefix'
           /\ Len(download'.data) = Len(download.data) + ChunkSize
           /\ pos[w] % ChunkSize = 0 =>
                 pos[w] = Len(download'.data) /\ Len(download'.data) % ChunkSize = 0
           /\ pos[w] % ChunkSize # 0 => AllSent'
<1> DEFINE d == Len(download.data)
           n == pos[w] - d
<1>1. /\ ChunkSize \in Nat \ {0} /\ pos[w] \in Nat /\ Len(file) \in Nat
      /\ download.data \in Seq(Byte)
  BY Facts
<1>2. d \in Nat /\ buffer[w] \in Seq(Byte) /\ Len(buffer[w]) = ChunkSize
  BY Facts
<1>4. /\ Len(download'.data) = d + ChunkSize
      /\ \A i \in 1 .. d + ChunkSize :
            download'.data[i] = IF i <= d THEN download.data[i] ELSE buffer[w][i - d]
  <2> DEFINE s == download.data
             b == buffer[w]
  <2>1. /\ Len(s \o b) = Len(s) + Len(b)
        /\ \A i \in 1 .. Len(s) + Len(b) : (s \o b)[i] = IF i <= Len(s) THEN s[i] ELSE b[i - Len(s)]
    BY <1>1, <1>2, ConcatProperties
  <2> QED BY <1>2, <2>1, Zenon
<1>5. /\ d % ChunkSize = 0 /\ pos[w] <= Len(file) /\ download.total = Cut(Len(file))
      /\ n \in 1 .. ChunkSize /\ (n < ChunkSize => pos[w] = Len(file))
      /\ \A i \in 1 .. n : buffer[w][i] = file[d + i]
  BY Zenon DEF Downloading
<1>6. \A i \in 1 .. MinOf(d, Len(file)) : download.data[i] = file[i]
  BY DEF Prefix
<1> HIDE DEF d
<1>7. /\ pos[w] % ChunkSize = 0 => pos[w] = d + ChunkSize
      /\ pos[w] % ChunkSize # 0 => n < ChunkSize
      /\ (d + ChunkSize) % ChunkSize = 0
  BY <1>1, <1>2, <1>5, Filled
<1>8. Prefix'
  <2> SUFFICES ASSUME NEW i \in 1 .. MinOf(d + ChunkSize, Len(file))
               PROVE  download'.data[i] = file[i]
    BY <1>4 DEF Prefix
  <2>1. i \in 1 .. d + ChunkSize /\ i \in 1 .. Len(file)
    BY <1>1, <1>2 DEF MinOf
  <2>2. CASE i <= d
    <3>1. i \in 1 .. MinOf(d, Len(file))
      BY <1>1, <1>2, <2>1, <2>2 DEF MinOf
    <3> QED BY <1>4, <1>6, <2>1, <2>2, <3>1
  <2>3. CASE ~(i <= d)
    <3>1. i - d \in 1 .. n /\ d + (i - d) = i
      BY <1>1, <1>2, <1>5, <2>1, <2>3
    <3>2. buffer[w][i - d] = file[i]
      BY <1>5, <3>1
    <3> QED BY <1>4, <2>1, <2>3, <3>2
  <2> QED BY <2>2, <2>3
<1>9. pos[w] % ChunkSize = 0 =>
          pos[w] = Len(download'.data) /\ Len(download'.data) % ChunkSize = 0
  BY <1>4, <1>7
<1>10. pos[w] % ChunkSize # 0 => AllSent'
  <2> SUFFICES ASSUME pos[w] % ChunkSize # 0
               PROVE  /\ Len(file) <= Len(download'.data)
                      /\ Len(download'.data) < Len(file) + ChunkSize
    BY <1>5 DEF AllSent, Cut
  <2>1. n \in 1 .. ChunkSize - 1 /\ pos[w] = Len(file)
    BY <1>1, <1>5, <1>7
  <2>2. Len(download'.data) = d + ChunkSize /\ pos[w] - d \in 1 .. ChunkSize - 1
    BY <1>4, <2>1
  <2> QED BY <1>1, <1>2, <2>1, <2>2
<1> QED BY <1>4, <1>8, <1>9, <1>10 DEF d

\* What has to be shown of a step of a worker, the others being idle
LEMMA FaithfulOf ==
    ASSUME TypeOK, BytesType, Halfway, OneAtATime, NEW w \in Worker, WorkerStep(w),
           Prefix', Downloading(w)', download'.complete => AllSent'
    PROVE  Faithful'
<1>1. \A v \in Worker \ {w} : pc'[v] = "idle"
  BY OnlyOne
<1>2. \A v \in Worker \ {w} : Downloading(v)'
  BY <1>1 DEF Downloading
<1> QED BY <1>2, Zenon DEF Faithful

\* A worker that is not at a download leaves it.
LEMMA Elsewhere ==
    ASSUME TypeOK, BytesType, Halfway, OneAtATime, Faithful, NEW w \in Worker, WorkerStep(w),
           UNCHANGED << file, download >>, lost => lost',
           pc'[w] \in {"idle", "answer", "list", "picture", "login", "open"}
    PROVE  Faithful'
<1>1. CASE download.stale \/ lost'
  BY <1>1, Zenon DEF Faithful
<1>2. CASE ~download.stale /\ ~lost'
  <2>1. Prefix' /\ (download'.complete => AllSent')
    BY <1>2, Zenon DEF Faithful, Prefix, AllSent
  <2>2. Downloading(w)'
    BY DEF Downloading
  <2> QED BY <2>1, <2>2, FaithfulOf
<1> QED BY <1>1, <1>2

\* A block of a message of one block takes its worker on.
LEMMA SentWhole ==
    ASSUME TypeOK, NEW w \in Worker, NEW what \in Sending \ Long, NEW next,
           Sends(w, what, next)
    PROVE  pc[w] = what /\ pc'[w] = next /\ file' = file /\ (lost => lost')
<1>1. pc' = [pc EXCEPT ![w] = next]
  BY Zenon DEF Sends
<1>2. pc \in [Worker -> {"idle", "open", "read"} \cup Sending]
  BY DEF TypeOK
<1> QED BY <1>1, <1>2 DEF Sends

\* What was announced and read is what the package is.
LEMMA FaithfulStep ==
    ASSUME TypeOK, BytesType, Halfway, OneAtATime, Faithful, NEW w \in Worker, WorkerStep(w)
    PROVE  Faithful'
<1>0. pc \in [Worker -> {"idle", "open", "read"} \cup Sending]
  BY DEF TypeOK
<1>f. /\ ChunkSize \in Nat \ {0} /\ Len(file) \in Nat /\ pos[w] \in Nat
      /\ download.data \in Seq(Byte) /\ Len(download.data) \in Nat
  BY Facts
<1>t. /\ total_size \in [Worker -> 0 .. Wrap - 1] /\ pos \in [Worker -> 0 .. MaxFile]
      /\ buffer \in [Worker -> [1 .. ChunkSize -> Byte]]
      /\ download \in [total : Nat, data : Seq(Byte), complete : BOOLEAN, stale : BOOLEAN]
  BY DEF TypeOK, BytesType
<1>1. CASE Begin(w)
  <2>1. /\ UNCHANGED << file, download, lost >>
        /\ \E to \in {"answer", "list", "picture", "open"} : pc' = [pc EXCEPT ![w] = to]
    BY <1>1 DEF Begin, Go, netVars
  <2>2. pc'[w] \in {"idle", "answer", "list", "picture", "login", "open"}
    BY <1>0, <2>1
  <2> QED BY <2>1, <2>2, Elsewhere
<1>2. CASE Open(w)
  <2>1. CASE Go(w, "open", "answer") /\ UNCHANGED << readVars, download >>
    <3>1. UNCHANGED << file, download, lost >> /\ pc'[w] = "answer"
      BY <1>0, <1>2, <2>1 DEF Open, Go, netVars
    <3> QED BY <3>1, Elsewhere
  <2>2. CASE /\ Go(w, "open", "header")
             /\ total_size' = [total_size EXCEPT ![w] = Cut(Len(file))]
             /\ pos' = [pos EXCEPT ![w] = 0]
             /\ download' = [total |-> 0, data |-> << >>, complete |-> FALSE, stale |-> FALSE]
    <3>1. pc'[w] = "header" /\ total_size'[w] = Cut(Len(file)) /\ pos'[w] = 0 /\ file' = file
      BY <1>0, <1>2, <1>t, <2>2 DEF Open, Go
    <3>2. download'.data = << >> /\ ~download'.complete
      BY <2>2
    <3>3. Prefix'
      <4>1. Len(download'.data) = 0 /\ Len(file') \in Nat
        BY <1>f, <3>1, <3>2
      <4>2. \A i \in 1 .. MinOf(Len(download'.data), Len(file')) : FALSE
        BY <4>1 DEF MinOf
      <4> QED BY <4>2 DEF Prefix
    <3>4. Downloading(w)'
      BY <3>1, <3>2 DEF Downloading
    <3> QED BY <3>2, <3>3, <3>4, FaithfulOf
  <2> QED BY <1>2, <2>1, <2>2, Zenon DEF Open
<1>3. CASE Read(w)
  <2> DEFINE n == Chunk(w)
  <2>1. n \in Int /\ n <= ChunkSize /\ n <= Len(file) - pos[w] /\ (n < ChunkSize => n = Len(file) - pos[w])
    BY ChunkFacts
  <2>2. UNCHANGED << file, download, lost >>
    BY <1>3 DEF Read, clientVars, netVars
  <2>3. CASE download.stale \/ lost
    BY <2>2, <2>3, Zenon DEF Faithful
  <2>4. CASE ~download.stale /\ ~lost
    <3>1. Prefix' /\ (download'.complete => AllSent')
      BY <2>2, <2>4, Zenon DEF Faithful, Prefix, AllSent
    <3>2. Downloading(w) /\ pc[w] = "read"
      BY <1>3, <2>4 DEF Faithful, Read, Go
    <3>3. /\ ~download.complete /\ download.total = Cut(Len(file))
          /\ Len(download.data) % ChunkSize = 0 /\ pos[w] <= Len(file) /\ pos[w] = Len(download.data)
      BY <3>2 DEF Downloading
    <3>4. CASE n <= 0 /\ Go(w, "read", "end")
      <4>1. pc'[w] = "end"
        BY <1>0, <3>4 DEF Go
      <4>2. AllSent
        <5> HIDE DEF n
        <5>1. pos[w] = Len(file)
          BY <1>f, <2>1, <3>3, <3>4
        <5> QED BY <1>f, <3>3, <5>1 DEF AllSent
      <4>3. AllSent'
        BY <2>2, <4>2 DEF AllSent
      <4>4. Downloading(w)'
        BY <2>2, <3>3, <4>1, <4>3 DEF Downloading
      <4> QED BY <3>1, <4>4, FaithfulOf
    <3>5. CASE /\ n > 0 /\ Go(w, "read", "payload") /\ pos' = [pos EXCEPT ![w] = pos[w] + n]
               /\ buffer' = [buffer EXCEPT ![w] =
                     [i \in 1 .. ChunkSize |-> IF i <= n THEN file[pos[w] + i] ELSE buffer[w][i]]]
      <4> HIDE DEF n
      <4>1. pc'[w] = "payload" /\ pos'[w] = pos[w] + n
        BY <1>0, <1>t, <3>5 DEF Go
      <4>2. \A i \in 1 .. n : buffer'[w][i] = file[Len(download.data) + i]
        <5>1. buffer'[w] = [i \in 1 .. ChunkSize |-> IF i <= n THEN file[pos[w] + i] ELSE buffer[w][i]]
          BY <1>t, <3>5
        <5>2. \A i \in 1 .. n : i \in 1 .. ChunkSize /\ i <= n
          BY <1>f, <2>1
        <5> QED BY <3>3, <5>1, <5>2
      <4>3. /\ pos'[w] - Len(download.data) = n /\ n \in 1 .. ChunkSize
            /\ pos'[w] <= Len(file) /\ (n < ChunkSize => pos'[w] = Len(file))
        BY <1>f, <2>1, <3>3, <3>5, <4>1
      <4>4. Downloading(w)'
        BY <2>2, <3>3, <4>1, <4>2, <4>3 DEF Downloading
      <4> QED BY <3>1, <4>4, FaithfulOf
    <3> QED BY <1>3, <3>4, <3>5, Zenon DEF Read
  <2> QED BY <2>3, <2>4
<1>4. CASE Sends(w, "answer", "idle") /\ UNCHANGED download
  <2>1. pc'[w] = "idle" /\ file' = file /\ (lost => lost')
    BY <1>4, SentWhole, SMT DEF Sending, Long
  <2> QED BY <1>4, <2>1, Elsewhere
<1>11. CASE Sends(w, "list", "idle") /\ UNCHANGED download
  <2>1. file' = file /\ (lost => lost') /\ (pc' = [pc EXCEPT ![w] = "idle"] \/ pc' = pc) /\ pc[w] = "list"
    BY <1>11, Zenon DEF Sends
  <2>2. pc'[w] \in {"list", "idle"}
    BY <1>0, <2>1
  <2> QED BY <1>11, <2>1, <2>2, Elsewhere
<1>5. CASE Sends(w, "login", "idle") /\ UNCHANGED download
  <2>1. pc'[w] = "idle" /\ file' = file /\ (lost => lost')
    BY <1>5, SentWhole, SMT DEF Sending, Long
  <2> QED BY <1>5, <2>1, Elsewhere
<1>6. CASE Sends(w, "picture", "login") /\ UNCHANGED download
  <2>1. pc[w] = "picture" /\ file' = file /\ (lost => lost') /\ (pc' = [pc EXCEPT ![w] = "login"] \/ pc' = pc)
    BY <1>6, Zenon DEF Sends
  <2>2. pc'[w] \in {"picture", "login"}
    BY <1>0, <2>1
  <2> QED BY <1>6, <2>1, <2>2, Elsewhere
<1>l. ASSUME NEW what, NEW next, Sends(w, what, next), download.stale \/ lost',
             download'.stale = download.stale
      PROVE  Faithful'
  BY <1>l, Zenon DEF Faithful
<1>m. ASSUME NEW what, NEW next, Sends(w, what, next), ~lost' PROVE ~lost
  BY <1>m DEF Sends
<1>7. CASE /\ Sends(w, "header", "read") /\ UNCHANGED << total_size, pos, buffer >>
           /\ Got([download EXCEPT !.total = total_size[w]])
  <2>1. pc[w] = "header" /\ pc'[w] = "read" /\ file' = file
    BY <1>7, SentWhole, SMT DEF Sending, Long
  <2>3. CASE download.stale \/ lost'
    <3>1. download'.stale = download.stale
      BY <1>7, <1>t DEF Got
    <3> QED BY <1>7, <1>l, <2>3, <3>1
  <2>4. CASE ~download.stale /\ ~lost'
    <3>1. /\ download'.data = download.data /\ download'.total = total_size[w] /\ ~lost
          /\ download'.stale = download.stale /\ download'.complete = download.complete
      BY <1>7, <1>m, <1>t, <2>4 DEF Got
    <3>2. Prefix'
      BY <2>1, <2>4, <3>1, Zenon DEF Faithful, Prefix
    <3>3. ~download.complete /\ download.data = << >> /\ pos[w] = 0 /\ total_size[w] = Cut(Len(file))
      BY <2>1, <2>4, <3>1 DEF Faithful, Downloading
    <3>4. Len(download.data) = 0 /\ 0 % ChunkSize = 0 /\ 0 <= Len(file) /\ pos' = pos
      BY <1>7, <1>f, <3>3
    <3>5. Downloading(w)'
      BY <2>1, <3>1, <3>3, <3>4 DEF Downloading, Cut
    <3> QED BY <3>1, <3>2, <3>3, <3>5, FaithfulOf
  <2> QED BY <2>3, <2>4
<1>8. CASE /\ Sends(w, "payload", IF pos[w] % ChunkSize = 0 THEN "read" ELSE "end")
           /\ UNCHANGED << total_size, pos, buffer >>
           /\ Got([download EXCEPT !.data = download.data \o buffer[w]])
  <2>1. /\ pc[w] = "payload" /\ pc'[w] = IF pos[w] % ChunkSize = 0 THEN "read" ELSE "end"
        /\ file' = file
    BY <1>8, SentWhole, SMT DEF Sending, Long
  <2>3. CASE download.stale \/ lost'
    <3>1. download'.stale = download.stale
      BY <1>8, <1>t DEF Got
    <3> QED BY <1>8, <1>l, <2>3, <3>1
  <2>4. CASE ~download.stale /\ ~lost'
    <3>1. /\ download'.data = download.data \o buffer[w] /\ download'.total = download.total /\ ~lost
          /\ download'.stale = download.stale /\ download'.complete = download.complete
      BY <1>8, <1>m, <1>t, <2>4 DEF Got
    <3>2. Prefix /\ Downloading(w)
      BY <2>4, <3>1 DEF Faithful
    <3>3. /\ Prefix'
          /\ pos[w] % ChunkSize = 0 =>
                pos[w] = Len(download'.data) /\ Len(download'.data) % ChunkSize = 0
          /\ pos[w] % ChunkSize # 0 => AllSent'
      BY <2>1, <3>1, <3>2, PayloadAppends
    <3>4. ~download.complete /\ download.total = Cut(Len(file)) /\ pos[w] <= Len(file)
      BY <2>1, <3>2 DEF Downloading
    <3>5. Downloading(w)'
      BY <1>8, <2>1, <3>1, <3>3, <3>4 DEF Downloading
    <3> QED BY <3>1, <3>3, <3>4, <3>5, FaithfulOf
  <2> QED BY <2>3, <2>4
<1>9. CASE /\ Sends(w, "end", "idle") /\ UNCHANGED << total_size, pos, buffer >>
           /\ Got([download EXCEPT !.complete = TRUE])
  <2>1. pc[w] = "end" /\ pc'[w] = "idle" /\ file' = file
    BY <1>9, SentWhole, SMT DEF Sending, Long
  <2>3. CASE download.stale \/ lost'
    <3>1. download'.stale = download.stale
      BY <1>9, <1>t DEF Got
    <3> QED BY <1>9, <1>l, <2>3, <3>1
  <2>4. CASE ~download.stale /\ ~lost'
    <3>1. /\ download'.data = download.data /\ download'.total = download.total
          /\ download'.stale = download.stale /\ ~lost
      BY <1>9, <1>m, <1>t, <2>4 DEF Got
    <3>2. Prefix /\ AllSent
      BY <2>1, <2>4, <3>1 DEF Faithful, Downloading
    <3>3. Prefix' /\ AllSent'
      BY <2>1, <3>1, <3>2, Zenon DEF Prefix, AllSent
    <3>4. Downloading(w)'
      BY <2>1 DEF Downloading
    <3> QED BY <3>3, <3>4, FaithfulOf
  <2> QED BY <2>3, <2>4
<1> QED BY <1>1, <1>2, <1>3, <1>4, <1>5, <1>6, <1>7, <1>8, <1>9, <1>11, Senders, Zenon

-------------------------------------------------------------------------------
(* The invariant holds                                                     *)

LEMMA InitInv == Init => IInv
<1> SUFFICES ASSUME Init PROVE IInv
  OBVIOUS
<1>s. /\ ChunkSize \in Nat \ {0} /\ MaxBlocks \in Nat \ {0} /\ Wrap \in Nat \ {0}
      /\ MaxFile \in Nat /\ MaxAsked \in Nat /\ Worker # {}
  BY SizesAssumption
<1>1. PICK n \in 0 .. MaxFile : file = Bytes(0, n)
  BY DEF Init
<1>2. file \in Seq(Byte) /\ Len(file) \in Nat
  BY <1>1, FileFacts
<1>3. (CHOOSE w \in Worker : TRUE) \in Worker
  BY <1>s
<1>4. last \in [w : Worker, left : 0 .. MaxBlocks - 1] /\ last.left = 0
  BY <1>s, <1>3 DEF Init
<1>5. download = [total |-> 0, data |-> << >>, complete |-> FALSE, stale |-> FALSE]
  BY DEF Init
<1>6. buffer \in [Worker -> [1 .. ChunkSize -> Byte]]
  BY DEF Init, Blank, Byte
<1>7. BytesType
  BY <1>2, <1>4, <1>5, <1>6 DEF BytesType
<1>8. \A w \in Worker : Len(buffer[w]) = ChunkSize
  BY <1>s, <1>6
<1>9. TypeOK
  <2>1. \E stamp \in 0 .. 1, m \in 0 .. MaxFile : file = Bytes(stamp, m)
    BY <1>1
  <2>2. /\ asked \in 0 .. MaxAsked /\ waiting \in 0 .. MaxAsked
        /\ pc \in [Worker -> {"idle", "open", "read"} \cup Sending]
        /\ left \in [Worker -> 0 .. MaxBlocks]
        /\ total_size \in [Worker -> 0 .. Wrap - 1] /\ pos \in [Worker -> 0 .. MaxFile]
        /\ terminated \in Sending \cup {"no"}
    BY <1>s DEF Init
  <2>3. /\ {mixed, lost, download.complete, download.stale} \subseteq BOOLEAN
        /\ gone \in {"no", "closed", "reset", "halved"} /\ pipe \in {"open", "error", "broken"}
    <3>1. mixed = FALSE /\ lost = FALSE /\ gone = "no" /\ pipe = "open"
      BY DEF Init
    <3>2. download.complete = FALSE /\ download.stale = FALSE
      BY <1>5
    <3> QED BY <3>1, <3>2
  <2> QED BY <1>4, <1>8, <2>1, <2>2, <2>3 DEF TypeOK
<1>10. Halfway /\ OneAtATime /\ Resting /\ waiting <= asked
  BY <1>s DEF Init, Halfway, OneAtATime, Resting
<1>11. Faithful
  <2>1. MinOf(Len(download.data), Len(file)) = 0
    BY <1>2, <1>5 DEF MinOf
  <2>2. Prefix
    BY <2>1 DEF Prefix
  <2>3. \A w \in Worker : Downloading(w)
    BY DEF Init, Downloading
  <2> QED BY <1>5, <2>2, <2>3 DEF Faithful
<1> QED BY <1>7, <1>9, <1>10, <1>11 DEF IInv, TypesInv

\* A worker's step changes the package never, and the requests by taking one at most.
LEMMA WorkerTypes ==
    ASSUME TypesInv, NEW w \in Worker, WorkerStep(w)
    PROVE  TypesInv'
<1>1. TypeOK /\ BytesType /\ Halfway /\ waiting <= asked
  BY DEF TypesInv
<1>2. ReadType' /\ NetType' /\ Halfway'
  BY <1>1, ReadTypeStep, NetTypeStep, HalfwayStep
<1>3. file' = file
  BY <1>1, SendingSteps, Zenon DEF SendingStep, Sends, Begin, Open, Read
<1>4. asked' = asked /\ waiting' \in {waiting, waiting - 1}
  <2>1. CASE Begin(w) \/ Open(w) \/ Read(w)
    BY <2>1 DEF Begin, Open, Read, clientVars
  <2>2. CASE SendingStep(w)
    BY <2>2 DEF SendingStep, Sends
  <2> QED BY <1>1, <2>1, <2>2, SendingSteps
<1>5. waiting' <= asked'
  BY <1>1, <1>4, SizesAssumption DEF TypeOK
<1>6. TypeOK'
  <2>1. \A v \in Worker : Len(buffer'[v]) = ChunkSize
    BY <1>2, SizesAssumption DEF ReadType
  <2>2. \E stamp \in 0 .. 1, n \in 0 .. MaxFile : file' = Bytes(stamp, n)
    BY <1>1, <1>3, Zenon DEF TypeOK, Bytes
  <2> QED BY <1>2, <2>1, <2>2 DEF TypeOK, ReadType, NetType
<1>7. BytesType'
  BY <1>1, <1>2, <1>3 DEF BytesType, ReadType, NetType
<1> QED BY <1>2, <1>5, <1>6, <1>7 DEF TypesInv

\* What Ask and Leave change
LEMMA AskTypes ==
    ASSUME TypesInv, Ask
    PROVE  TypesInv'
<1>1. /\ asked' = asked + 1 /\ waiting' = waiting + 1 /\ asked < MaxAsked
      /\ UNCHANGED << file, pc, total_size, pos, buffer, left, last, mixed, lost, gone, pipe, terminated,
                      download >>
  BY DEF Ask, readVars, netVars
<1>2. asked' \in 0 .. MaxAsked /\ waiting' \in 0 .. MaxAsked /\ waiting' <= asked'
  <2>1. asked \in 0 .. MaxAsked /\ waiting \in 0 .. MaxAsked /\ waiting <= asked
    BY Zenon DEF TypesInv, TypeOK
  <2> QED BY <1>1, <2>1, SizesAssumption
<1> QED BY <1>1, <1>2 DEF TypesInv, TypeOK, BytesType, Halfway

LEMMA LeaveTypes ==
    ASSUME TypesInv, Leave
    PROVE  TypesInv'
<1>1. /\ gone' \in {"closed", "reset", "halved"} /\ pipe' \in {pipe, "error", "broken"}
      /\ UNCHANGED << file, asked, waiting, pc, total_size, pos, buffer, left, last, mixed, lost,
                      terminated, download >>
  BY DEF Leave, readVars, clientVars
<1> QED BY <1>1 DEF TypesInv, TypeOK, BytesType, Halfway

LEMMA RewriteTypes ==
    ASSUME TypesInv, Rewrite
    PROVE  TypesInv' /\ download'.stale
<1>1. PICK n \in 0 .. MaxFile : file' = Bytes(1, n)
  BY DEF Rewrite
<1>2. UNCHANGED << asked, waiting, pc, total_size, pos, buffer, left, last, mixed, lost, gone, pipe, terminated >>
  BY DEF Rewrite, clientVars, readVars, netVars
<1>3. /\ download' \in [total : Nat, data : Seq(Byte), complete : BOOLEAN, stale : BOOLEAN]
      /\ download'.stale
  <2>1. /\ download \in [total : Nat, data : Seq(Byte), complete : BOOLEAN, stale : BOOLEAN]
        /\ download' = [download EXCEPT !.stale = TRUE]
    BY DEF TypesInv, BytesType, Rewrite
  <2> QED BY <2>1
<1>4. file' \in Seq(Byte)
  BY <1>1, FileFacts
<1>5. TypeOK'
  <2>1. \E stamp \in 0 .. 1, m \in 0 .. MaxFile : file' = Bytes(stamp, m)
    BY <1>1
  <2>2. {download'.complete, download'.stale} \subseteq BOOLEAN
    BY <1>3
  <2> QED BY <1>2, <2>1, <2>2 DEF TypesInv, TypeOK, Bytes
<1>6. BytesType'
  BY <1>2, <1>3, <1>4 DEF TypesInv, BytesType
<1>7. Halfway' /\ waiting' <= asked'
  BY <1>2 DEF TypesInv, Halfway
<1> QED BY <1>3, <1>5, <1>6, <1>7 DEF TypesInv

LEMMA TypesStep == TypesInv /\ [Next]_vars => TypesInv'
<1> SUFFICES ASSUME TypesInv, [Next]_vars PROVE TypesInv'
  OBVIOUS
<1>1. CASE Ask BY <1>1, AskTypes
<1>2. CASE Leave BY <1>2, LeaveTypes
<1>3. CASE Rewrite BY <1>3, RewriteTypes
<1>4. ASSUME NEW w \in Worker, WorkerStep(w) PROVE TypesInv'
  BY <1>4, WorkerTypes
<1>5. CASE UNCHANGED vars
  BY <1>5 DEF vars, TypesInv, TypeOK, BytesType, Halfway
<1> QED BY <1>1, <1>2, <1>3, <1>4, <1>5, Zenon DEF Next

\* Every variable keeps its type, whatever clients ask for at once and whoever writes the
\* package over: in particular no reader gets past the longest package.
THEOREM TypeCorrect == Spec => []TypeOK
<1>1. Init => TypesInv
  BY InitInv DEF IInv
<1>2. TypesInv => TypeOK
  BY DEF TypesInv
<1> QED BY <1>1, <1>2, TypesStep, PTL DEF Spec

\* A worker's step keeps the rest of it, ...
LEMMA WorkerInv ==
    ASSUME IInv, NEW w \in Worker, WorkerStep(w)
    PROVE  OneAtATime' /\ Resting' /\ Faithful'
<1>1. TypeOK /\ BytesType /\ Halfway /\ OneAtATime /\ Resting /\ Faithful
  BY Zenon DEF IInv, TypesInv
<1> QED BY <1>1, OneAtATimeStep, RestingStep, FaithfulStep, Zenon

\* ... a patient client asks when nothing is under way, ...
LEMMA AskInv ==
    ASSUME Patient, IInv, Ask
    PROVE  OneAtATime' /\ Resting' /\ Faithful'
<1>1. /\ waiting = 0 /\ (\A w \in Worker : pc[w] = "idle") /\ waiting' = 1 /\ gone = "no"
      /\ UNCHANGED << file, pc, total_size, pos, buffer, left, last, mixed, lost, gone, pipe, terminated, download >>
  BY DEF Ask, readVars, netVars
<1>2. OneAtATime' /\ Resting'
  BY <1>1 DEF IInv, OneAtATime, Resting
<1>3. Faithful'
  BY <1>1, Zenon DEF IInv, Faithful, Prefix, Downloading, AllSent
<1> QED BY <1>2, <1>3

\* ... and nothing is claimed of a download whose package was written over.
LEMMA RewriteInv ==
    ASSUME IInv, Rewrite
    PROVE  OneAtATime' /\ Resting' /\ Faithful'
<1>1. UNCHANGED << waiting, pc, left, last, mixed, lost, gone, pipe, terminated >>
  BY DEF Rewrite, clientVars, netVars
<1>2. OneAtATime' /\ Resting'
  BY <1>1 DEF IInv, OneAtATime, Resting
<1>3. Faithful'
  BY RewriteTypes DEF IInv, Faithful
<1> QED BY <1>2, <1>3

\* The inductive invariant, for a client that asks for one thing at a time.
THEOREM Invariance ==
    ASSUME Patient
    PROVE  Spec => []IInv
<1>1. Init => IInv
  BY InitInv
<1>2. IInv /\ [Next]_vars => IInv'
  <2> SUFFICES ASSUME IInv, [Next]_vars PROVE OneAtATime' /\ Resting' /\ Faithful'
    BY TypesStep DEF IInv
  <2>1. CASE Ask
    BY <2>1, AskInv
  <2>2. CASE Rewrite
    BY <2>2, RewriteInv
  <2>3. ASSUME NEW w \in Worker, WorkerStep(w)
        PROVE  OneAtATime' /\ Resting' /\ Faithful'
    BY <2>3, WorkerInv
  <2>4. CASE Leave \/ UNCHANGED vars
    <3>1. UNCHANGED << file, asked, waiting, pc, total_size, pos, buffer, left, last, mixed, lost,
                       terminated, download >>
      BY <2>4 DEF Leave, vars, readVars, clientVars
    <3>2. OneAtATime'
      BY <3>1 DEF IInv, OneAtATime
    <3>3. Resting'
      BY <2>4, <3>1 DEF IInv, Resting, Leave, vars
    <3>4. Faithful'
      BY <3>1, Zenon DEF IInv, Faithful, Prefix, Downloading, AllSent
    <3> QED BY <3>2, <3>3, <3>4
  <2> QED BY <2>1, <2>2, <2>3, <2>4, Zenon DEF Next
<1> QED BY <1>1, <1>2, PTL DEF Spec

\* The first send() of a request never ends the process, for any number of workers and
\* blocks, unless the client had shut down its side before it was reset: who left asks no
\* more, and the first send() after it fails quietly or goes through (TcpServer.cpp:181).
THEOREM AnswersHarmless ==
    ASSUME Patient
    PROVE  Spec => []ShortAnswersHarmless
<1>1. IInv => ShortAnswersHarmless
  BY DEF IInv, Resting, ShortAnswersHarmless
<1> QED BY <1>1, Invariance, PTL

\* A complete download, cut at the size that was announced, is the package, for every size
\* of a package below the wrap of a uint32_t and every size of a chunk
\* (JsonStrategy.cpp:463-485, MsgBuilder.cpp:139-171).
THEOREM DownloadIsPackage ==
    ASSUME Patient
    PROVE  Spec => []Reassembles
<1>1. IInv => Reassembles
  <2> SUFFICES ASSUME IInv, download.complete, ~download.stale, ~lost, Len(file) < Wrap
               PROVE  /\ download.total <= Len(download.data)
                      /\ Len(download.data) < download.total + ChunkSize
                      /\ SubSeq(download.data, 1, download.total) = file
    BY DEF Reassembles
  <2>1. file \in Seq(Byte) /\ download.data \in Seq(Byte) /\ Wrap \in Nat \ {0}
    BY SizesAssumption DEF IInv, TypesInv, BytesType
  <2>2. Prefix /\ AllSent
    BY DEF IInv, Faithful
  <2>3. download.total = Len(file)
    <3>1. Len(file) % Wrap = Len(file)
      BY <2>1
    <3> QED BY <2>2, <3>1 DEF AllSent, Cut
  <2>4. Len(file) <= Len(download.data) /\ Len(download.data) < Len(file) + ChunkSize
    BY <2>2 DEF AllSent
  <2>5. \A i \in 1 .. Len(file) : download.data[i] = file[i]
    <3>1. MinOf(Len(download.data), Len(file)) = Len(file)
      BY <2>1, <2>4 DEF MinOf
    <3> QED BY <2>2, <3>1 DEF Prefix
  <2>6. SubSeq(download.data, 1, Len(file)) = file
    <3> DEFINE s == SubSeq(download.data, 1, Len(file))
    <3>1. Len(file) \in Nat /\ Len(download.data) \in Nat
      BY <2>1
    <3>2. s \in Seq(Byte) /\ Len(s) = Len(file) /\ \A i \in 1 .. Len(file) : s[i] = download.data[i]
      BY <2>1, <2>4, <3>1
    <3> HIDE DEF s
    <3> QED BY <2>1, <2>5, <3>2, SeqEqual DEF s
  <2> QED BY <2>3, <2>4, <2>6
<1> QED BY <1>1, Invariance, PTL

===============================================================================
