# A TLA+ model of Xqqyt_UserServer

Xqqyt_UserServer is a C++ server for accounts and devices: clients connect over
TCP, obtain an AES key through a TLS handshake, and send encrypted JSON or
binary requests that the server executes against MySQL and a directory of avatar
pictures. This directory holds the TLA+ models of its concurrent parts, the TLC
configurations that check them, and proofs that TLAPS checks. The repository has
no tests and its README is a template; the code, its comments, its SQL schema and
its example configuration are the only statements about what it should do.

## 1. Inventory

| Part | Files | State | Operations | Talks to |
|---|---|---|---|---|
| Start and stop | `main.cpp`, constructor and destructors of `TcpServer`, `Server`, the pools | the global `server`, what SIGINT does | constructor, `signalHandler`, `~Server`, `~TcpServer`, the members' destructors | runs in the thread the signal interrupts, while workers run |
| Event loop | `TcpServer/source/TcpServer.cpp` | listening socket, epoll set (edge triggered, blocking sockets), descriptors, `shutdown` | `startListen`, `recvMsg`, `addToEpoll`, `deleteFromEpoll`, `sendMsg` | calls `Server`'s handlers on its own thread |
| Server | `Server.cpp` | `socket_aeskey`, `sessionid_key` (unlocked maps) | `haveTLSRequest`, `ClientAuthentication`, `haveNewClientMsg`, `dealClient`, `clientDisconnect` | submits `dealClient` to the thread pool; workers read `socket_aeskey` while the loop writes it |
| Thread pool | `ThreadPool/ThreadPool.hpp` | `thread_size`, `thread_busy_num`, `need_to_close_num`, `need_to_erase`, `thread_map`, `shutdown` | `addTask`, worker loop, manager loop, `closeThreadPool`, destructor | `ThreadQueue` |
| Task queue | `ThreadPool/ThreadQueue.hpp` | `task_queue`, `size`, `queue_sem` | `addTask`, `getTask`, `acquire`, `release`, `getSize` | - |
| Priority queue | `ThreadPool/PriorityQueue.hpp` | the same with a `std::multiset` | the same | the other kind of queue a pool may have; the server takes the first |
| Connection pool | `MySqlConnPool/source/SqlConnSet.cpp`, `MySqlConnPool.cpp` | `sql_queue`, `available_num`, `av_num`, `size`, `start`, `is_running` | `acquire`, `release`, `monitorFunc`, `clearSqlSet` | handlers, through `MySqlConnGuardPtr` |
| Database driver | `MySqlConnPool/source/MySqlDriver.cpp` | connection, statement, `res` | `connectToSql`, `preExecute`, `freeRes`, `disconnect` | MySQL (external) |
| Request handlers | `MsgHandler/source/JsonStrategy.cpp`, `BinaryStrategy.cpp`, `MsgDecoder.cpp` | none of their own; tables `users`, `devices`, `user_device`, files `User/Avatar/*` | register, login, register_device, rename, change password, comment, delete, version package, avatar upload | database, file system, `sendMsg` |
| Message codec | `MsgHandler/source/MsgBuilder.cpp`, `JsonEncoder.cpp`, `Security/source/OpensslHandler.cpp` | two lazy singletons | build, encrypt, verify, decrypt, hash | OpenSSL, libsodium, zlib (external) |

### What is hard in this code

* The pool's manager, workers and owner read and write the same counters, some
  reads without the lock (`need_to_close_num` at ThreadPool.hpp:191, `need_to_erase`
  at 150-154, the counters of the scaling rule at 160-161). Tokens of one semaphore
  mean three things: a task, a request to retire, and the end.
* The connection pool separates the semaphore from the lock, and its monitor decides
  on values that change before it acts on them.
* A handler is a sequence of database statements and file operations without a
  transaction; handlers of different clients interleave on the worker threads.
* The event loop is edge triggered and reads one message for each event, accepts one
  connection, and handles `EPOLLIN` alone: what it leaves is not reported again.
* The destructor of the server runs in a signal handler, in whatever place of the program
  it interrupts, while workers and the manager are running.
* Nothing closes the descriptor of a client: the process runs out of them, and workers
  answer to numbers of connections that are long gone.

### What makes each part correct

* Thread pool: tasks start in the order they were added, once each, at most
  `thread_capacity` at a time, and with priorities the lowest number first; a wakeup is
  lost only to a worker that retires unasked; `getTask` never meets an empty queue; `thread_size` counts the workers; closing
  wakes the sleepers, and the destructor leaves no thread behind.
* Connection pool: a connection has one user and is not closed under it; a thread that got through the semaphore
  finds a connection; the pool stays between its limits; everyone who asks is served;
  the destructor returns.
* Handlers: a reply says what happened to the tables; device codes are unique; a failed
  rename leaves names and pictures as they were.
* Event loop: each report of a socket reads something from it, each report of the listener
  accepts the connection that waited longest, and no client keeps the loop for ever.
* Server: a reply to a client that presented its id is encrypted with the key of the request, and
  every reply goes to the connection that asked; a session id serves once; a message is dropped
  only for a reason.
* Start and stop: a stop uses nothing that is gone, gives nothing up while a task can use
  it, and ends unless a client, or the moment of the signal, keeps it from that.
* Codec: what the server encrypts, it decrypts to the same text; what was damaged it refuses.
* Sending: a download can be put together to the package, and a client that leaves does no harm
  to others.

## 2. Plan

Order, most important behaviour first. Steps 1 to 16 are done; 17 is what is left.

| Step | Modules | Question |
|---|---|---|
| 1 | `ThreadPool`, `TaskService` | Is every task run once, in order, and are wakeups, counters and the close right under every interleaving? |
| 2 | `SqlConnPool` | Does a connection have one user, does everyone get one, do the limits hold? |
| 3 | `DeviceRegistry`, `DeviceCode` | Are device codes unique although they are made of a stale `MAX(id)`? |
| 4 | `Accounts` | What do the statements of the account handlers do when they interleave and fail? |
| 5 | `EventLoop` | Edges, blocking sockets, session ids, and keys shared without a lock |
| 6 | `PayloadCodec` | Lengths, padding and CRC of a message, there and back |
| 7 | `AnswerStream` | Blocks, chunks and pictures of several workers on one socket |
| 8 | `ThreadPoolProofs`, `SqlConnPoolProofs`, `DeviceRegistryProofs` | The safety of 1 to 3 for all sizes |
| 9 | more in `ThreadPoolProofs` | `FixedPoolSurvives`, and `Spec => Service`: the pool implements `TaskService` for all sizes |
| 10 | `EventLoopProofs` | Keys stay apart, answers reach who asked, a message that follows its id is answered with its key or dropped for a reason: for all sizes |
| 11 | `ConnService`, more in `SqlConnPoolProofs` | What the connection pool promises a handler, and that it keeps it and its limits |
| 12 | the queue of priorities in `ThreadPool` and its proofs | The order of tasks, under the same interleavings |
| 13 | `Lifecycle`, with `TaskService` | A signal at every place of main: in which order do the parts go, who still holds what, does the process end |
| 14 | `LifecycleProofs` | The safety of 13 for any tasks, pool size and number of restarts |
| 15 | `AccountsProofs` | Verified rows, crashes and comments of 4 for any threads, names and requests |
| 16 | `AnswerStreamProofs`, `PayloadCodecProofs` | Downloads and harmless leaving of 7 for any workers, chunks and packages; the round trip of 6 for any text |
| 17 | a composition | `EventLoop` with `AnswerStream`: whose blocks arrive on a descriptor, if one were ever closed |

What composes what: `ThreadPool` instantiates `TaskService` and `SqlConnPool` instantiates
`ConnService`, their abstract specifications, under refinement mappings that are both checked
and proved. `Lifecycle` instantiates `TaskService` too, from the other side: it takes the
pool's submit, start, finish, close and abort as given and puts the server around them. `MCDeviceRegistry`
brings `DeviceRegistry` and `DeviceCode` together, the second giving the first its `Encode`.
The other modules meet at a narrow interface, which each models from its own side: `EventLoop`
hands a message to the pool by appending it to `tasks`, which `TaskService` allows (FIFO start,
several at a time); `Accounts` and `DeviceRegistry` start where `dealClient` has decoded a
message, and take connections as available and their own, which `ConnService` promises;
`AnswerStream` starts where they answer.

Every module declares its parameters as `CONSTANTS` with named assumptions, has one
action per statement or group of statements that no other thread can tell apart, and an
invariant `IInv` made of named parts where it is proved about. None uses a `RECURSIVE`
operator; only `DeviceCode` uses `Bitwise`, and no proof reaches it.

Each module also holds its *mutants*: a definition next to the one it stands for, with
a plausible mistake of the code (a dropped guard, a swapped order, an off-by-one), named
in a comment. For every property of every passing run, `PROJECT.json` names a mutant
under which TLC finds that property violated.

## 3. The modules and the code

### ThreadPool, TaskService

The pool that `TcpServer::TcpServer` makes, elastic and without a custom rule, with either kind
of queue: `Kind` is `"NORMAL"` (`ThreadQueue`, a vector) or `"PRIORITY"`
(`ThreadPriorityQueue`, a multiset), and `Place` says where `addTask` puts a task. `TaskWrapper`
is ordered for a queue that takes its greatest element, but a multiset hands out its
smallest: the lowest number comes first and, of equals, the one added last.
`wpc[w]` is the place of worker `w` in `WorkerWorkFunction`, `mpc` that of the manager
in `managerWorkFunction`, `owner` that of the thread that calls `addTask` and the
destructor. One step is one access to shared state: the test of `shutdown`, the
`acquire` of the semaphore, the second test, the unlocked test of `need_to_close_num`
(`WChkClose`), pushing the id (`WRetire`), changing the counters (`WUncount`), `getTask`
(`WFetch`), and so on. `MReap` ends the process when a retired worker's `std::thread` is
still in `thread_map`, as the destructor of a joinable thread does, and `MClear` is
apart from it because the vector may grow between the two. `WFetch` on an empty queue,
`AddTask` on a full one and a handler that throws (`Throwing`) end the process too: all
three leave a function nobody catches around.

`TaskService` is what a caller of `addTask` may rely on: start in the order of the queue
(its parameter `Place`), at most once, at most `Capacity` at a time, and started tasks finish unless the process aborts. It promises
nothing for tasks still waiting at the close, because the code drops them.

### SqlConnPool, ConnService

`available_num` (the semaphore), `sql_queue`, `av_num` and `size` have the names of the
code. `acquire` is two steps because `sem_wait` comes before the lock; `release` is one
because nothing tells its two halves apart. The monitor's clock test (`idle`) may say
anything: its time stamp is written without the lock and its age wraps. `connectToSql`
may throw in the monitor's thread (`"connect"`), and `release` of a connection whose `res`
was never initialised may end the process (`"freeRes"`), an undefined value taken as a
choice. The closer is the last owner of the `shared_ptr`; a handler holds one of its own,
so `GiveUp` waits until no handler is at work.

`ConnService` is the pool seen from a handler and from the database server: a connection is
free, or with one handler, or closed; none is closed while somebody has it and none is
forgotten; there are never more than `MaxConn`, and none is dropped at `MinConn` or below.
Three variables instead of fifteen: no semaphore, no counters, no monitor.

### DeviceRegistry, DeviceCode

`RegisterDeviceStrategy` as five steps: `SELECT MAX(id)`, the INSERT's id from
`AUTO_INCREMENT`, the rest of the INSERT or its refusal by the unique key, the reply.
A row holds the id it got and the id its code was made of, which differ after a race or
a burnt id. A statement may throw before or after it took effect. `DeviceCode` is
`encode()` and `decode()` on four-byte words, because TLC's integers end at 2^31.

### Accounts

The seven account strategies and the picture upload, statement by statement. Names are
compared with `Fold` in the tables (the collation ignores case) and byte by byte in the
directory. A picture is known by its size (`Picture`: none, empty, small, large); a file that a
handler has open follows a rename, and is lost when replaced (`Follow`). `Exec` is a statement
that changes rows: it works, throws without effect, or throws after it took effect.

`Faults` is what else may fail: statements (`"db"`), hashing (`"memory"`), any operation on a
file (`"disk"`: an upload that does not open answers FAIL, a rename throws, a login ends the
process), and members that are no strings (`"types"`: `Mistyped`, where rapidjson's assertion ends
the process). An upload of fewer than 17 bytes is a request of its own, a `stub`: its name and
picture are read past its end, and its size wraps (`OpenStub`, `WriteStub`). `terminated` says what
ended the process, and `"picture"` is kept for what a login may meet when all of that works: no
file, or one of another size than was measured, smaller or larger (`ReadFile`). Link rows refer to
the account and not to the name, which is what the schema's `ON UPDATE CASCADE` amounts to.

### EventLoop

The kernel is `inbox`, `edge` and `backlog`: an edge is reported once, and only if there
is something to read; `EPOLL_CTL_ADD` reports what came before. The loop looks only at reports that
are `EPOLLIN` and nothing else (`InOnly`): that of a connection which was reset (`"rst"`) is taken
and dropped, so that such a socket stays watched and its key in the map. `lpc`/`curfd` is where the
loop is in `startListen` and `recvMsg`. Clients connect, send and leave when they like. They get a
key on one connection, present its id on any, as often as they like, and send messages under any
key they have (or none: `"keyless"`), before or after its id. `led` is history: the message
followed its id. Accepting takes a descriptor (`fd`, up to `limit`), and
nothing gives one back: `Gone` only stops watching, as `Server::clientDisconnect` does, and
`AcceptFails` leaves a client in the backlog once the table is full. What starts no known
message (`RecvOdd`) stays in the inbox and `recvMsg` comes to its end: the next event meets it
again. Keys move from `sessionid_key` to `socket_aeskey`;
workers read the map twice, for the answer (`Start`) and for decrypting (`Check`).
`Racing` is the data race on the unlocked map, whose outcome is a choice. A handler's
work is one step here (`Answer`): `Accounts` has the inside of it. `shown` is history: how
often an id was presented.

### Lifecycle

`mpc` is where main is, as far as a signal can tell places apart: in the constructor, on its way
from there into `epoll_wait` (`start`), in `epoll_wait`, serving an event, inside `addTask` with the queue locked. `hpc` is the place of
`signalHandler` in the sequence of destructors it runs: the keys (`FreeKeys`), the listening
socket (`CloseServer`), the members in reverse order (`ReleasePool`, then `Shutdown` and `Join`
of the thread pool), the memory. Tasks run meanwhile: `Begin` takes a share of the connection
pool and the key, `Check` and `Work` use them, `Finish` gives the share back (`GivesUp`: the last
owner destroys). A task may also end the process (`TaskAborts`: what it throws nobody catches, and
`send` raises SIGPIPE) or wait in `send` for a client that does not read (`Unblock`, of which nothing
is promised). The pool's manager may end the process before the stop and during it
(`PoolAborts`: it destroys the thread of a worker that retired, or that left at the close, before
the owner has joined it). Using what is gone (`Using`) is undefined: the process goes on or ends. A second
SIGINT comes to another thread and deletes again (`SignalAgain`). After the handler main goes on
where it was: out of `epoll_wait` it returns, anywhere else it strays in a dead object, from `start`
into an `epoll_wait` that no signal ends any more. The
kernel keeps the port of a process that ended with a client connected (`lingering`), and the
next process, which does not look at `bind`, then listens elsewhere. `story` and `cut` are
history, for the properties that say what a bad end is due to.

### PayloadCodec

AES-CBC is an ideal function: the cipher is the record of what it was given, and under
another key, or of bytes that are no encryption, anything of the same length may come out. SHA-256
is injective and has no key. What is computed is lengths, PKCS#7 padding, and who takes which bytes
of the CRC. `fate` is what became of the message: it arrived whole, it was damaged (cut, or a part
changed that the hash covers), only its first byte was changed, which names the decoder and is
outside the hash (`flagged`), or somebody put other bytes of any length under a hash of their own
(`rehashed`). The arithmetic that may go below zero is at three places: the length of the
cipher (`Parse`, on a `uint32_t`), the padding (`Underflows`, when the last byte is larger than
their number), and the second half of the CRC (`DealClient`).

### AnswerStream

A message is a number of blocks; `sendMsg` sends one block per step and does not look at what
`send` returned, so that bytes may be lost (`lost`) and the next block follows. Answers of fixed
members take one block; a list of devices or a description takes as many as the database has for
it (`List`), and so does a picture. The package is read in
chunks into a buffer that keeps what it held (`Read`), which is how the last chunk goes out
filled up. A client leaves by closing, by a reset, or by a reset after it shut down its side
(`gone`); `pipe` is what the socket makes of it: the send after a close works and may break the
pipe, the first one after a reset gets the error, and one on a broken pipe raises SIGPIPE.

## 4. Runs

Times are of two cores. "States" are distinct ones.

| Run | Checks | Bounds | States, time |
|---|---|---|---|
| `pool_elastic` | `TypeOK`, `TokenBalance`, `LostWakeups`, `NoEmptyFetch`, `ThreadSizeExact`, `StrandedAtMostOne`, `NoneOutlives`, `Service`, `LowestFirst` | 1 to 2 workers, 3 thread ids, 3 tasks of 2 priorities, 1 of which throws, queue of 2, 2 pending retirements | 871 thousand, 49 s |
| `pool_fixed` | `FixedPoolSurvives`, `EveryTaskRuns`, `ShutdownCompletes` | 2 workers, 3 tasks, first in first out, fairness | 179 thousand, 52 s |
| `pool_shrink` | `ShrinkingSurvives` is violated | as `pool_elastic`, 2 tasks, none throws, first in first out | seconds |
| `sqlpool` | `TokenPerConn`, `OneUser`, `SizeExact`, `AbortExplained`, `Service`, `EveryRequestServed`, `CloseCompletes` | 3 handlers, limits 3 and 4, 5 connection ids, both faults, fairness | 276 thousand, 66 s |
| `devices` | `CodesDistinct`, `RefusedOnlyInRace`, and the assumptions `CodesFresh` and `DecodeMisses` | 3 workers, 4 ids handed out, statements that fail | 133 thousand, 8 s |
| `accounts` | `CheckStillGood`, `CrashExplained`, `CommentKept` | 2 workers, 3 names (2 alike to the tables), 5 requests out of 10, all faults | 2.7 million, 108 s |
| `accounts_rollback` | `RollbackRestores` is violated | 1 worker, 5 requests, no faults | seconds |
| `loop_safety` | `KeysApart`, `AnswerReadable`, `DropExplained`, `AnswerReachesAsker` | 1 client, 2 sockets, 2 keys, 2 workers, 3 items on one socket and 2 on the other, descriptors for 1 or 2 connections, messages under any key the client has, the race | 2.6 million, 77 s |
| `loop_patient` | `ReportReads`, `ReportAccepts`, `LoopReturns` | 2 sockets, 1 key, 1 worker, 2 items on one socket and 1 on the other, descriptors for 2, resets, items `recvMsg` does not know, fairness | 193 thousand, 51 s |
| `codec` | `RoundTrip`, `ShortExplained` | texts of 0 to 34 bytes, 3 fill bytes, CRC of 4 and 8, both decoders, every cut, every part changed, 0 to 34 bytes of somebody's own | 752 thousand, 11 s |
| `stream` | `Reassembles`, `ShortAnswersHarmless` | 2 workers, chunk of 2, lists and pictures of up to 2 blocks, packages of 0 to 4 bytes, 2 requests, all faults | 1.2 million, 74 s |
| `stop` | `UndefinedExplained`, `NothingGoesEarly`, `ExitIsClean`, `PortExplained`, `StopEnds` | 2 tasks, 2 workers, 2 processes one after the other, a signal at every place, all faults, fairness | 83 thousand, 8 s |

Every module has a `TypeOK`. It is in the list of a run only for `pool_elastic`; the proofs have
it for all the others, as a part of their invariants.

What they show, beyond that nothing was found:

* **`pool_elastic`**: the unlocked test of `need_to_close_num` lets two workers answer one
  request to retire, so the counter goes below zero and the pool below its minimum; yet no
  worker ever meets an empty queue, because the tokens always equal tasks plus requests
  (`TokenBalance`, with a negative number of requests). The price is a wakeup: a task is then
  queued with no token, though workers sleep, until a token comes that was posted for another.
  `LostWakeups` says that this is the only way to lose one and that fewer tasks wait so than workers
  have gone; `pool_lost.cfg` shows that it happens. A close can leave exactly one
  worker asleep, the one started and not yet counted; that worker and the destructor then
  wait for ever, which is why the run does not check for deadlock. Where the destructor does
  return, no thread of the pool is left, although `clear()` may lose the id of one that
  retired (`NoneOutlives`). And the pool keeps the order of its multiset whichever worker
  fetches and whatever was added in between (`LowestFirst`, `Service`).
* **`pool_fixed`**: with `thread_min` equal to `thread_capacity` nobody retires: every
  accepted task runs, nothing but the close ends the process, and the destructor returns.
  The run does check for deadlock.
* **`sqlpool`**: each token stands for one queued connection whatever happens between
  `sem_wait` and the lock; the monitor and the closer may compete for the last one and the
  closer still returns. `size` is exact but for the connection being added, and the limits hold,
  although the monitor decides on counts that handlers change. The process ends only where
  the monitor connects or returns a connection, never in an `acquire`.
* **`devices`**: duplicates are refused by the key on `code` and by nothing else; a
  registration that nobody raced is never refused, even after ids were burnt, because
  the code's id is always above every code in the table.
* **`accounts`**: a verified password still holds at the write unless another handler changed
  a user in between. A request can end the process by a member that is no string, a hash
  without memory, an upload too short for its name, or a file that the system does not open. Over
  the picture itself a login ends it only when it was never uploaded, taken along by a
  rename, or changed while it was read, to less or to more, or if the upload cut the name.
* **`loop_safety`**: a session id serves once, so that a key has one place and the destructor
  frees it once. A client may change the key of a connection with messages under way: the two
  reads of the key agree whenever a request that followed its id is accepted, because the change
  makes the older messages undecodable. Of a message sent ahead of its id they may not:
  the answer is encrypted with the key from before (`loop_early.cfg`). A message that followed an id
  presented once is dropped only if the connection went or another id was presented
  there since. An answer reaches the connection that asked because a descriptor is never
  closed: the leak that costs the server its clients in the end is also what keeps the
  answers of late workers from strangers. The mutant that closes, as the overridden
  function does, is refuted in a few steps.
* **`loop_patient`**: to clients that do as they like, one report of a socket takes one thing from
  it, unless `recvMsg` does not know it or the connection is reset, and one report of the listener the
  connection that waited longest, as long as there are descriptors; a report is not lost, whatever
  else is reported with it. It is not enough to read everything or accept everyone: `loop_sticky.cfg`
  and `loop_backlog.cfg` show the second of two things and the second of two connections left
  lying, and `loop_gone.cfg` a connection that was reset and is never noticed. The loop comes back to
  `epoll_wait` as long as clients close what they break off, which is an assumption.
* **`codec`**: the eight bytes of CRC come off in two halves, by two functions. What the
  hash covers cannot be damaged unnoticed; the byte that names the decoder can, and who hashes
  his own bytes gets as far as the decryption. A message shorter than its frame, a short text of a
  sender with a four-byte CRC, another client's key, and bytes that are no encryption are
  the ways to a negative length.
* **`stream`**: the last chunk is filled with stale bytes that the announced size cuts off. A client
  that leaves can end the process only in an answer of several sends, which a list of many devices is
  as well as a picture or a package, or by shutting down its side before it is reset.
* **`stop`**: a signal that meets main in `epoll_wait` uses nothing that is gone when no task is
  under way, and tasks that are at work are waited for, although they may use freed keys. It
  ends the process, by a return from main with everything freed once and in order, or by an abort:
  closing wakes the workers, and the pool's manager, on its last pass, may destroy the thread of
  one that has left and that the owner has not joined. The order of the members does no harm,
  although the connection pool is given up before the threads that use it are joined, as each
  task has a share. What does harm is a signal that meets main at work or on its way into
  `epoll_wait`, or a second one; a signal before the server is made leaves one that no later SIGINT
  stops; a stop that meets the pool starting a thread may wait for ever, as in `pool_elastic`; and a
  worker in `send` to a client that does not read keeps the join, and with it the stop,
  waiting for as long as the client likes.

### Why the bounds are enough

Three thread ids are a pool that grows, shrinks and grows again; two pending retirements
and two workers are the double answer to one request. `RetireMax`, `Spare` and `QueueMax`
are the only places where the model stops what the code would go on doing; the proofs have no such bound but these
constants, which they leave arbitrary. `MaxConn - MinConn = 1` with five connection ids
shows both limits being overstepped by one. Three registrations are two that race and
one that comes after. Two names alike, one apart, are all the cases of the collation; five
requests suffice to register, upload, log in, and have one more of each of two clients in between. Two sockets are one
for TLS and one for messages, or two that present the same id; one client on both of them
may do whatever two clients may, as keys are bound to sockets. Three items on one socket are an id,
a message under its key, and another id while the message is under way; with the request for TLS on
the other one, they are the changes of key that `AnswerReadable` is about. In `loop_patient` an item
can wait behind another, a connection behind another, and both be reset. Texts up to 34 bytes cross
the block boundary twice, and bytes that are no encryption take every length modulo 16 and every
relation to their last byte. A package of 0 to 4 bytes with chunks of 2 has empty, even and
odd ends, and `Wrap = 4` shows the size being cut; two blocks are a first and a later one.
Descriptors for as many connections as there are sockets let every number be taken, and for one
fewer leave one out. For a stop, one task that has begun and one that waits are the cases,
and two processes are one that leaves the port in a state and one that finds it.

### Fairness

* `ThreadPool`: weak fairness of each worker, of the manager, and of the joins of the
  destructor: the operating system runs a thread that can run. `addTask` and the close
  come when they come. Semaphores get no more than that: a worker that waits may be
  overtaken, and the properties hold nevertheless.
* `SqlConnPool`: the same for handlers (a handler gives its connection back: it is a
  sequence of statements), the monitor and the closer; asking and giving up are free.
* `EventLoop`: the loop and the workers run. In `loop_patient` (`Stalling` FALSE) a client
  that ended TLS or broke a message off closes that connection in the end. Nothing in the
  server makes it do so, and `loop_drain.cfg` shows what happens when it does not. Nothing else is
  assumed of clients: they send, connect, leave and are reset, or not.
* `Lifecycle`: main, the handler, the start of tasks and each task run; signals, clients and
  restarts come when they come. A main that strays in a dead object is promised nothing, and
  neither is a `send` to a client that does not read: `StopEnds` names that wait.

### Deadlock

TLC checks for deadlock in `pool_fixed`, `sqlpool`, `devices`, `accounts` and
`accounts_rollback`, whose modules end in a step that is allowed only when all is done or
the process has ended. It does not in `pool_elastic` and `pool_shrink` (the stranded worker above), in
`EventLoop` (clients may stop and the server then waits), in `PayloadCodec` (a message ends),
in `AnswerStream` (clients stop asking, or the process ends) and in `stop` (a handler may be stuck on
a lock that main holds, and a server that heard its signal too early waits for clients).

## 5. Known disagreements

Two are runs, with what the repository says quoted in `PROJECT.json`:

1. `pool_shrink`: the first time the pool shrinks, the process ends.
   `thread_map.erase` destroys a `std::thread` that was never joined (ThreadPool.hpp:152).
2. `accounts_rollback`: the catch block of a rename undoes both steps whichever failed
   (JsonStrategy.cpp:351-356): renaming a user without a picture to an existing name takes
   that user's picture and then its name.

The modules state fourteen more properties that comments, logs or the schema suggest and the code
does not have. Each has a configuration that shows it with `tlc -config X.cfg M`, kept
for the day the code changes:

| Configuration | Module | Property | What happens |
|---|---|---|---|
| `sqlpool_clear` | `MCSqlConnPool` | `AllCleared` | `clearSqlSet` compares a counter with the queue it shortens and closes half of it (SqlConnSet.cpp:102); "clear mysql conn pool done" |
| `sqlpool_min` | `MCSqlConnPool` | `MinReached` | `min_conn_num` only limits shrinking; an unused pool holds two connections (MySqlConnPool.cpp:84) |
| `accounts_picture` | `MCAccounts` | `LoginSendsPicture` | a login without a picture file ends the process (MsgBuilder.cpp:72; JsonStrategy.cpp:166) |
| `accounts_long` | `MCAccounts` | `UploadFound` | an upload carries 15 bytes of a name that may have 50 (BinaryStrategy.cpp:24; user_db.sql:3) |
| `pool_lost` | `MCThreadPool` | `TasksWoken` | two workers answer one request to retire, and a queued task is left without the wakeup that `release()` posted for it (ThreadPool.hpp:191-197; ThreadQueue.hpp:39-52) |
| `loop_sticky` | `MCEventLoop` | `AllRead` | of two messages that arrive together the second is not read (TcpServer.cpp:103, 311) |
| `loop_backlog` | `MCEventLoop` | `AllAccepted` | of two connections under one edge the second is not accepted until a third comes (TcpServer.cpp:83-90) |
| `loop_gone` | `MCEventLoop` | `GoneNoticed` | a connection that is reset is reported with `EPOLLERR`, which nobody handles: it is never disconnected and its key stays (TcpServer.cpp:93) |
| `loop_drain` | `MCEventLoop` | `LoopReturns` | the loop that is to empty a socket after an exception reads a blocking socket until its peer closes (TcpServer.cpp:311-317); the listening thread stays there |
| `loop_early` | `MCEventLoop` | `AnswersMatch` | a message sent ahead of its id is accepted, and answered with the key from before (Server.cpp:17-22, 84) |
| `stop_port` | `MCLifecycle` | `PortTold` | the log names the port before `bind`, which may fail and is not looked at (TcpServer.cpp:18, 29) |
| `codec_crc` | `PayloadCodec` | `CrcRemoved` | `verifyAndDecrypt` takes off half of the CRC it says it removes (OpensslHandler.cpp:178-183) |
| `codec_binary` | `PayloadCodec` | `DecoderRight` | the byte that names the decoder is outside the hash: a text goes to the decoder of pictures (OpensslHandler.cpp:84, 126-129) |
| `stream_mixed` | `MCAnswerStream` | `FramesWhole` | blocks of two answers alternate on a socket (TcpServer.cpp:181) when a client asks twice |

`decode()` does not invert `encode()` either: `DecodeMisses` in `MCDeviceRegistry`, an
assumption TLC evaluates. Nothing calls it.

## 6. Proofs

TLAPS checks these for every value of the constants that the named assumptions allow.
All but the refinement have the same shape: an inductive invariant that holds initially, is
kept by `[Next]_vars` with one step per action, and holds always by temporal logic; the
properties are conjuncts or consequences of it.

* **`ThreadPoolProofs`** (any finite set of threads, any tasks and sizes): `TypeOK`,
  `TokenBalance`, `LostWakeups`, `NoEmptyFetch`, `ThreadSizeExact`, `StrandedAtMostOne`, `NoneOutlives`; for both
  kinds of queue. The properties
  count workers by their place, so the argument rests on one lemma, that moving a worker
  changes the count of a set of places by `Delta`, and on `WorkerMoves`, which says from
  where to where each step goes. `NoEmptyFetch` is not inductive: a worker goes on to fetch
  when it sees no request, and a request that another worker answers twice takes a token
  away. `CommittedCovered` closes it: the workers past the test of `shutdown` never
  outnumber tasks and requests together. `LostWakeups` adds `Requested`: the requests made are those
  pending and those answered, so that who leaves was preceded by one request, and a worker past the
  test of `need_to_close_num` has seen one; with `TokenBalance` the tasks without a token are then
  fewer than the workers gone. `NoneOutlives` rests on `ThreadsOwned`: every thread
  started is in `thread_map` but for the one being counted, whatever `need_to_erase` has lost,
  and the manager counts it before the owner can join the manager. Assumed: `ThreadsAssumption` (the set of
  threads is finite), `TaskAssumption` (so is the set of tasks), `SizesAssumption`.
  The same module has `FixedPoolSurvives`. Added to `IInv` for it are
  `QueueDistinct`, so that a queue with room for all tasks never overflows (an injection
  into the tasks not yet queued), and `Steady`: while such a pool is open the manager only
  sleeps, nobody retires, and nobody is erased. `NoEmptyFetch` excludes the last way to
  end the process.
  Its last part is `Implements`, that is `Spec => Service`. `MostAreCalm` shows that all
  steps but a fetch, a finish and an `addTask` with room leave queue, held and finished
  tasks alone; those are stutters, `Abort` or `Close` by `ModeSteps`. The three others are
  `Start`, `Finish` and `Submit`. That a task is in one place (`TasksApart`) lets `Finish`
  remove exactly it; that at most `thread_capacity` tasks run follows from `SizeBound`:
  `thread_size` covers the workers that can take a task, also while the pool is being
  closed, when `ThreadSizeExact` no longer holds. `ServiceInv` is the conjunction of these
  with `QueueDistinct`. The simulation does not ask which kind of queue it is: `Placed` has what
  both do to a queue. `LowestFirst` (`Urgent`) adds `Sorted`, that the queue of priorities is in
  order through every insertion.
* **`SqlConnPoolProofs`** (any clients, connections and limits): `TypeOK`, `TokenPerConn`,
  `OneUser`. That nobody shares a connection needs that a queued connection is open
  (`QueuedOpen`), so that a connection the monitor opens is in no queue. Assumed:
  `ConnAssumption`, `NumbersAssumption`.
  Then `SizeExact`, `AbortExplained`, and `Implements`, that
  is `Spec => Service` for `ConnService`. `JInv` adds to `IInv` the conjunction `CInv`: the open
  connections are exactly those queued, with a handler, or with the monitor, so that `size`
  counts them and nothing is forgotten; no handler has one outside its request; no handler is
  left once the pool is given up. The bound below, that a drop leaves `MinConn`, holds
  although `size` was read earlier because only the monitor changes it.
* **`EventLoopProofs`** (any clients, sockets, keys, workers, limits): `TypeOK`, `KeysApart`,
  `AnswerReadable`, `AnswerReachesAsker`, `DropExplained`. `KeysApart` needs only that new keys are
  new (`KeysIssued`). That the two reads of the key agree, for a message that followed its id
  (`led`), needs that such a message, once read,
  has a key nobody can present any more (`TasksRead`), and that needs the order of things in
  an inbox: the presentation of a key is ahead of all that followed it (`AuthFirst`), also
  after half of the inbox was drained, which is what `Deaf` is for. `ReadsAgree` says what the
  first read found if the second will succeed. `FdsApart` with `TasksRead` gives
  `AnswerReachesAsker`, for messages of any kind: numbers are not given twice, and a task carries
  that of its socket.
  `DropExplained` follows a presented id from the client to the map: never presented, it waits;
  presented once, it stands in one inbox, at one place, until it arrives (`OnceShown`), and
  `DropInv` carries that over to the messages behind it. Assumed: `SocketsAssumption`.
* **`LifecycleProofs`** (any tasks, pool size, number of restarts, faults): `TypeOK`,
  `UndefinedExplained`, `NothingGoesEarly`, `ExitIsClean`, `PortExplained`. `Gone` and `Kept` read off
  the handler's place what is gone and what is there, `Staged` that main and the handler take
  turns; `Owned`, that the connection pool exists exactly as long as it has an owner, gives
  the first half of `NothingGoesEarly`. `BusyTold`, `JobsTold` and `SocketTold` tie the history to the state:
  without them a use of what is gone could not be traced to the moment of the signal. That the
  pool's manager and the tasks may end the process at any time until the join is over is part of
  the specification, and `UndefinedExplained` says that nothing else does.
  Assumed: `LifecycleAssumption`.
* **`DeviceRegistryProofs`** (any set of workers, any injective `Encode`): `TypeOK`,
  `CodesDistinct`, `RefusedOnlyInRace`. `Behind` says that the id a code is made of never
  exceeds the id the row gets, and exceeds every code in the table unless the handler was
  raced; `Pending` that the reply under way is the only one for its row. Assumed:
  `IdsAssumption`, and `EncodeAssumption`, that `Encode` keeps ids apart, which
  `CodesFresh` checks on ids that follow each other and which the real `encode()` cannot
  have on all 2^32 of them.

* **`AccountsProofs`** (any finite set of threads, any names, collation, passwords and requests):
  `TypeOK`, `CheckStillGood`, `CrashExplained`, `CommentKept`. `RowsApart` is what
  `AUTO_INCREMENT` and the unique key give, through every insert, rename and change of password; with it a
  verified name selects one row, and `CheckStillGood` needs only that each step which changes a
  user marks the others as raced (`RacedStep`). That the next account has an id needs `Room`: there are
  never more rows and pending inserts than requests. For `CrashExplained`, `Found` says that a picture stays
  where it was put as long as no rename mentions its name, from the moment the file is open,
  before it is acknowledged; `SizeKnown` that a login which was not raced reads a file of the size it
  measured. The proof found a reason that the property had not named: an upload stores under
  15 bytes of the name, so that a longer name has its picture elsewhere. Assumed: `ThreadsAssumption`,
  `NamesAssumption`, `RequestAssumption` (what the requests are made of).
* **`AnswerStreamProofs`** (any workers, sizes of chunks, blocks and packages): `TypeOK` for any
  client; `ShortAnswersHarmless` and `Reassembles` under `Patient`, for the client
  that asks for one thing at a time, as `stream_mixed.cfg` shows what happens to another. `OneAtATime`, that one
  worker at most has a request, is what both rest on. `Resting` says that once the pipe is broken, by a client that had not shut
  down its side, a send was made since it left, so that what is still to be sent is the rest of what
  takes several sends. `Faithful` follows a
  download through header, chunks and end, as long as no `send` lost bytes: what the client has is
  the beginning of the package, whole chunks of it until the end
  (`Downloading`), and `PayloadAppends` that a chunk, with whatever its tail still
  holds, continues it. `WholeChunks` and `Filled` are the arithmetic of `gcount() < chunk_size`.
  Nothing is claimed once the package was written over (`stale`). Assumed: `SizesAssumption`.
* **`PayloadCodecProofs`** (texts of any length over any bytes, any width of the CRC): `TypeOK`, `RoundTrip`,
  `ShortExplained`. The invariant goes by stage and `fate`: a message that is whole, or only flagged,
  carries what was sent (`Untouched`), one that was damaged does not verify (`Touched`), one that
  somebody hashed is as long as its frame and no encryption (`Forged`), and what is
  left of it is the text and CRC less four bytes, then less eight (`Opened`). `PaddingComesOff` is the
  heart: for every sequence of bytes, also one that ends like padding, the padding is found and comes off.
  Assumed: `TextAssumption`; and, in the model, that SHA-256 is injective and AES is inverted by its key.

Every invariant and action property of the passing runs is a theorem. Only model-checked: the
liveness properties `EveryTaskRuns`, `ShutdownCompletes`, `EveryRequestServed`, `CloseCompletes`, `ReportReads`,
`ReportAccepts`, `LoopReturns` and `StopEnds` (fairness is out of the prover's reach). What `encode()`
computes is checked on bounded inputs, as its module needs `Bitwise`.

## 7. Not modelled

* The pool's custom scaling rule, which the server does not give, and the default constructors
  of the pool and its queues. `Queue` has two overloads of `addTask` with empty bodies, and the
  server calls the one its queue overrides. Its destructor is not virtual and `~ThreadPool` deletes
  the queue through it: undefined, on every stop, but after the last thread was joined and just
  before the process ends; `ThreadPool` ends with the join.
* The values `readConf` reads (they are constants; that it throws is in `Lifecycle`), the wording
  of `JsonEncoder` (its status is `Accounts!Answer`) and the unlocked creation of its instance,
  which has no state; logging; rapidjson, which is vendored.
* In `Lifecycle`: a handler that waits for ever inside `malloc` because it interrupted it (its
  place `stuck` is the wait for workers that cannot end: one being started at the close, or one
  that waits for the queue's lock while the interrupted main holds it). `TIME_WAIT` is a minute
  that passes, or does not begin when the client's side had closed first.
* The race on `need_to_erase` as a data race on a vector: the model has its lost entry, not
  a corrupted heap.
* What `recvMsg` does after falling off its end without a value, but for ending the process or
  going on (`RecvOdd`). An item it does not know stands for a header that is cut and for what a
  failed handshake leaves unread.
* A reset that comes in pieces: `Reset` is one step, after which the socket reports `EPOLLERR`. What
  was not reported before it stays unread, as that report is dropped.
* Messages under no key at all (`"keyless"`): the proofs allow them and `loop_sticky.cfg` has them;
  `loop_safety` has messages under a key the socket does not have, which are refused alike.
* A handshake that never ends: `SSL_accept` blocks the listening thread as `recv` does, and
  `EventLoop` lets the client give up instead.
* Decrypting with a wrong key: `EventLoop` takes it as refused; `PayloadCodec` has what else
  may come out.
* JSON that does not parse; and which of the undefined outcomes a larger picture has: a login that
  reads one ends with a throw, or past its buffer, and `ReadFile` has the end of the process and the
  answer for both.
* The order in which two messages of one client are answered: the answers carry no number, and
  nothing says which it must be.
* A database connection that dies: it throws at every statement, which `Accounts` and
  `DeviceRegistry` have, and is never replaced, which nothing promises.
