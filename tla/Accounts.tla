------------------------------- MODULE Accounts -------------------------------
(***************************************************************************)
(* The request handlers of accounts, their devices and their pictures:       *)
(* src/MsgHandler/source/JsonStrategy.cpp and BinaryStrategy.cpp, run by     *)
(* several worker threads on the tables `users` and `user_device` and on the *)
(* directory User/Avatar.                                                   *)
(*                                                                         *)
(* Every SQL statement and every operation on a file is one step; nothing    *)
(* groups them.  A name is looked up in the tables by the collation of the   *)
(* column, which ignores case, and in the directory byte by byte.            *)
(***************************************************************************)
EXTENDS Integers, FiniteSets

CONSTANTS
    Thread,     \* worker threads
    Name,       \* user names
    Fold,       \* what the collation makes of a name
    Short,      \* the file UserAvatarStrategy writes for a name: its first 15 bytes
    Password,
    Device,     \* codes in the table `devices`
    Request,    \* the requests that arrive
    Budget,     \* bound of the model: how many of them
    Faults      \* "db": a statement may throw.  "memory": hashing a password may fail.
                \* "disk": an operation on a file may fail.
                \* "types": a member of a request may be something else than a string.

ASSUME ThreadsAssumption == IsFiniteSet(Thread)

ASSUME NamesAssumption ==
    Fold \in [Name -> Name] /\ Short \in [Name -> Name] /\ Budget \in Nat

\* A request has the members its strategy reads, of a JSON that has them all.  A stub is an
\* upload of less than 17 bytes, where the name should be.
ASSUME RequestAssumption ==
    \A r \in Request :
        /\ r.op \in {"login", "password", "register", "rename", "upload", "stub", "list", "comment",
                    "delete"}
        /\ r.op # "stub" => r.name \in Name
        /\ r.op \in {"login", "password", "register"} => r.password \in Password
        /\ r.op = "password" => r.new \in Password
        /\ r.op = "rename" => r.new \in Name

Account == 1 .. Budget
NoAccount == 0
NoFile == "no file"
NoRequest == [op |-> "none"]
\* What the file of a name holds, by its size: there is none, nothing (yet), or a picture.
Picture == {"none", "empty", "small", "large"}

VARIABLES
    users,      \* rows of `users`; acc tells the rows apart, whatever their names become
    links,      \* rows of `user_device`: the foreign key follows a user through renames
    avatar,     \* the directory: "none" where there is no file
    out,        \* where the file is that the handler of an upload has open
    budget,
    pc, req,    \* where each handler is, and the request it runs
    result,     \* the answer it sends
    acc,        \* history: the account whose password the handler verified
    size,       \* getFileSize of the picture of a login
    raced,      \* history: another handler changed a user, or the login's file, meanwhile
    before,     \* history: tables and directory when a rename began
    acked,      \* history: names whose upload was answered with SUCCESS
    renamed,    \* history: names in a request to rename
    terminated  \* what ended the process: an exception that left the task, or worse

tables == << users, links >>
directory == << avatar, out >>
history == << acked, renamed >>
locals == << req, acc, size, before >>
vars == << users, links, avatar, out, budget, pc, req, result, acc, size, raced, before, acked,
           renamed, terminated >>

TypeOK ==
    /\ users \subseteq [acc : Account, name : Name, password : Password]
    /\ links \subseteq [acc : Account, code : Device, comment : BOOLEAN]
    /\ avatar \in [Name -> Picture] /\ out \in [Thread -> Name \cup {NoFile}]
    /\ budget \in 0 .. Budget
    /\ pc \in [Thread -> {"idle", "verify", "link", "size", "read", "insert", "move", "update",
                          "moveBack", "updateBack", "set", "open", "write", "run", "reply"}]
    /\ req \in [Thread -> Request \cup {NoRequest}]
    /\ \A t \in Thread : req[t] = NoRequest <=> pc[t] = "idle"
    /\ result \in [Thread -> {"none", "SUCCESS", "FAIL"}]
    /\ acc \in [Thread -> Account \cup {NoAccount}]
    /\ size \in [Thread -> Picture]
    /\ raced \in [Thread -> BOOLEAN]
    /\ acked \subseteq Name /\ renamed \subseteq Name
    /\ terminated \in {"no", "hash", "picture", "assert", "stub", "disk"}

NoState == << >>

Init ==
    /\ users = {} /\ links = {}
    /\ avatar = [n \in Name |-> "none"] /\ out = [t \in Thread |-> NoFile]
    /\ budget = Budget
    /\ pc = [t \in Thread |-> "idle"]
    /\ req = [t \in Thread |-> NoRequest]
    /\ result = [t \in Thread |-> "none"]
    /\ acc = [t \in Thread |-> NoAccount]
    /\ size = [t \in Thread |-> "none"]
    /\ raced = [t \in Thread |-> FALSE]
    /\ before = [t \in Thread |-> NoState]
    /\ acked = {} /\ renamed = {}
    /\ terminated = "no"

-------------------------------------------------------------------------------

At(t, ops, where) == terminated = "no" /\ pc[t] = where /\ req[t].op \in ops
Goto(t, to) == pc' = [pc EXCEPT ![t] = to]
Answer(t, r) == Goto(t, "reply") /\ result' = [result EXCEPT ![t] = r]
Continue(t, to) == Goto(t, to) /\ UNCHANGED result

\* WHERE user_name = n
Rows(n) == { u \in users : Fold[u.name] = Fold[n] }

\* UNIQUE KEY on user_name, for a row that is to be called n.
\* Mutant: the key tells upper case from lower case.
TakenExactly(n, own) == \E u \in users \ own : u.name = n
Taken(n, own) == \E u \in users \ own : Fold[u.name] = Fold[n]

\* A statement that changes rows: it works, or it throws; it may have worked
\* although it throws, when its answer is lost.
Exec(t, newUsers, newLinks, ok, catch) ==
    /\ \/ users' = newUsers /\ links' = newLinks /\ ok
       \/ /\ "db" \in Faults
          /\ \/ users' = users /\ links' = links
             \/ users' = newUsers /\ links' = newLinks
          /\ catch
    /\ raced' = [u \in Thread |-> raced[u] \/ (u # t /\ pc[u] \in {"link", "set"} /\ users' # users)]

\* It throws because a key is violated.
Refused(catch) == catch /\ UNCHANGED << tables, raced >>

\* Operations on the directory; a login that is reading the file may notice.
Files(t, files) ==
    /\ avatar' = files
    /\ raced' = [u \in Thread |->
                    raced[u] \/ (u # t /\ pc[u] = "read" /\ files[req[u].name] # avatar[req[u].name])]

\* A file that moves stays open for who writes it, and so does one that is replaced.
Follow(f, from, to) == IF f = to THEN NoFile ELSE IF f = from THEN to ELSE f

\* std::filesystem::rename: replaces what was there, throws when there is no file or the
\* system refuses
RenameFile(t, from, to, next, catch) ==
    \/ /\ avatar[from] # "none"
       /\ IF from = to
          THEN UNCHANGED << directory, raced >>
          ELSE /\ Files(t, [avatar EXCEPT ![to] = avatar[from], ![from] = "none"])
               /\ out' = [u \in Thread |-> Follow(out[u], from, to)]
       /\ next
    \/ /\ avatar[from] = "none" \/ "disk" \in Faults
       /\ catch
       /\ UNCHANGED << directory, raced >>

Terminates(how) ==
    /\ terminated' = how
    /\ UNCHANGED << tables, directory, budget, pc, locals, result, raced, history >>

\* dealPasswordSafe returns nullptr when it gets no memory, and it is dereferenced.
HashFails == "memory" \in Faults /\ Terminates("hash")

-------------------------------------------------------------------------------

First == [login |-> "verify", password |-> "verify", register |-> "insert", rename |-> "move",
          upload |-> "open", stub |-> "open", list |-> "run", comment |-> "run", delete |-> "run"]

\* GetString of a member that is no string: RAPIDJSON_ASSERT is assert, and stays in the build.
Mistyped(t) ==
    /\ "types" \in Faults /\ terminated = "no" /\ pc[t] = "idle" /\ budget > 0
    /\ Terminates("assert")

\* MsgDecoder::decode hands a request to the strategy of its type, which refuses
\* JSON that lacks a member.
Begin(t) ==
    /\ terminated = "no" /\ pc[t] = "idle"
    /\ budget > 0
    /\ budget' = budget - 1
    /\ \E r \in Request :
          /\ req' = [req EXCEPT ![t] = r]
          /\ \/ Continue(t, First[r.op])
             \/ r.op \notin {"upload", "stub"} /\ Answer(t, "FAIL")
          /\ before' = [before EXCEPT ![t] =
                IF r.op = "rename" THEN [users |-> users, avatar |-> avatar] ELSE NoState]
          /\ renamed' = IF r.op = "rename" THEN renamed \cup {r.name, r.new} ELSE renamed
    /\ UNCHANGED << tables, directory, acc, size, raced, acked, terminated >>

\* SELECT password, verifyPassword: no row, a wrong password or an error is a FAIL.
Verify(t) ==
    /\ At(t, {"login", "password"}, "verify")
    /\ \/ \E u \in Rows(req[t].name) :
             /\ u.password = req[t].password
             /\ acc' = [acc EXCEPT ![t] = u.acc]
             /\ Continue(t, IF req[t].op = "login" THEN "link" ELSE "set")
       \/ /\ \/ \A u \in Rows(req[t].name) : u.password # req[t].password
             \/ "db" \in Faults
          /\ Answer(t, "FAIL")
          /\ UNCHANGED acc
    /\ UNCHANGED << tables, directory, budget, req, size, raced, before, history, terminated >>

\* Mutant: the row of a device that logs in again is replaced.
RelinkedAfresh(a, code) ==
    { l \in links : << l.acc, l.code >> # << a, code >> }
        \cup {[acc |-> a, code |-> code, comment |-> FALSE]}

\* INSERT ... ON DUPLICATE KEY UPDATE login_time
Relinked(a, code) ==
    IF \E l \in links : << l.acc, l.code >> = << a, code >>
    THEN links
    ELSE links \cup {[acc |-> a, code |-> code, comment |-> FALSE]}

\* The row's foreign keys want a user of that name and the device.
Link(t) ==
    /\ At(t, {"login"}, "link")
    /\ \/ \E u \in Rows(req[t].name) :
             /\ req[t].code \in Device
             /\ Exec(t, users, Relinked(u.acc, req[t].code), Continue(t, "size"), Answer(t, "FAIL"))
       \/ /\ Rows(req[t].name) = {} \/ req[t].code \notin Device
          /\ Refused(Answer(t, "FAIL"))
    /\ UNCHANGED << directory, budget, locals, history, terminated >>

\* buildFile: getFileSize throws when there is no file or it cannot be opened, and nothing on
\* the way up to the worker's loop catches it.
FileSize(t) ==
    /\ At(t, {"login"}, "size")
    /\ \/ /\ avatar[req[t].name] # "none"
          /\ size' = [size EXCEPT ![t] = avatar[req[t].name]]
          /\ Continue(t, "read")
          /\ UNCHANGED << tables, directory, budget, req, acc, raced, before, history, terminated >>
       \/ avatar[req[t].name] = "none" /\ Terminates("picture")
       \/ "disk" \in Faults /\ Terminates("disk")

\* readFileToBytes opens the file again and throws when it has gone.  When its size is
\* another, it throws if the file shrinks while it reads, and what it has read is copied past
\* the buffer if the file has grown, with what that does.
ReadFile(t) ==
    /\ At(t, {"login"}, "read")
    /\ \/ /\ avatar[req[t].name] # "none"
          /\ Answer(t, "SUCCESS")
          /\ UNCHANGED << tables, directory, budget, locals, raced, history, terminated >>
       \/ avatar[req[t].name] # size[t] /\ Terminates("picture")
       \/ "disk" \in Faults /\ Terminates("disk")

\* AUTO_INCREMENT
NewAccount == Cardinality(users) + 1

Register(t) ==
    /\ At(t, {"register"}, "insert")
    /\ \/ HashFails
       \/ /\ LET row == [acc |-> NewAccount, name |-> req[t].name,
                         password |-> req[t].password]
             IN  \/ /\ ~Taken(req[t].name, {})
                    /\ Exec(t, users \cup {row}, links, Answer(t, "SUCCESS"), Answer(t, "FAIL"))
                 \/ Taken(req[t].name, {}) /\ Refused(Answer(t, "FAIL"))
          /\ UNCHANGED << directory, budget, locals, history, terminated >>

\* UPDATE users SET user_name = to WHERE user_name = from: an update of no row
\* is no error.
Renamed(t, from, to, next, catch) ==
    LET own == Rows(from) IN
    \/ /\ own = {} \/ ~Taken(to, own)
       /\ Exec(t, (users \ own) \cup { [u EXCEPT !.name = to] : u \in own }, links, next, catch)
    \/ /\ own # {} /\ Taken(to, own)
       /\ Refused(catch)

\* The picture goes first ...
Move(t) ==
    /\ At(t, {"rename"}, "move")
    /\ RenameFile(t, req[t].name, req[t].new, Continue(t, "update"), Continue(t, "moveBack"))
    /\ UNCHANGED << tables, budget, locals, history, terminated >>

\* ... the user follows ...
Update(t) ==
    /\ At(t, {"rename"}, "update")
    /\ Renamed(t, req[t].name, req[t].new, Answer(t, "SUCCESS"), Continue(t, "moveBack"))
    /\ UNCHANGED << directory, budget, locals, history, terminated >>

\* ... and the catch block does both the other way round, whichever of them failed.
MoveBack(t) ==
    /\ At(t, {"rename"}, "moveBack")
    /\ RenameFile(t, req[t].new, req[t].name, Continue(t, "updateBack"), Answer(t, "FAIL"))
    /\ UNCHANGED << tables, budget, locals, history, terminated >>

UpdateBack(t) ==
    /\ At(t, {"rename"}, "updateBack")
    /\ Renamed(t, req[t].new, req[t].name, Answer(t, "FAIL"), Answer(t, "FAIL"))
    /\ UNCHANGED << directory, budget, locals, history, terminated >>

SetPassword(t) ==
    /\ At(t, {"password"}, "set")
    /\ \/ HashFails
       \/ /\ LET own == Rows(req[t].name)
             IN  Exec(t, (users \ own) \cup { [u EXCEPT !.password = req[t].new] : u \in own },
                      links, Answer(t, "SUCCESS"), Answer(t, "FAIL"))
          /\ UNCHANGED << directory, budget, locals, history, terminated >>

\* Mutant: the file is taken away while it is written.
OpenPictureFresh(t) ==
    /\ At(t, {"upload"}, "open")
    /\ Files(t, [avatar EXCEPT ![Short[req[t].name]] = "none"])
    /\ out' = [out EXCEPT ![t] = Short[req[t].name]]
    /\ Continue(t, "write")
    /\ UNCHANGED << tables, budget, locals, history, terminated >>

\* UserAvatarStrategy: opening the stream empties the file, then it is written; or it does
\* not open.
OpenPicture(t) ==
    /\ At(t, {"upload"}, "open")
    /\ \/ /\ Files(t, [avatar EXCEPT ![Short[req[t].name]] = "empty"])
          /\ out' = [out EXCEPT ![t] = Short[req[t].name]]
          /\ Continue(t, "write")
       \/ /\ "disk" \in Faults /\ Answer(t, "FAIL")
          /\ UNCHANGED << directory, raced >>
    /\ UNCHANGED << tables, budget, locals, history, terminated >>

\* Nobody looks whether write() has written: the answer is a SUCCESS, and the file may be left
\* with less.
WritePicture(t) ==
    /\ At(t, {"upload"}, "write")
    /\ \E p \in Picture \ {"none"} :
          Files(t, IF out[t] = NoFile THEN avatar ELSE [avatar EXCEPT ![out[t]] = p])
    /\ out' = [out EXCEPT ![t] = NoFile]
    /\ Answer(t, "SUCCESS")
    /\ UNCHANGED << tables, budget, locals, history, terminated >>

\* The name of a stub is read past its end: it may be anybody's, or none a file can have.
OpenStub(t) ==
    /\ At(t, {"stub"}, "open")
    /\ \/ /\ \E n \in Name :
                /\ Files(t, [avatar EXCEPT ![n] = "empty"])
                /\ out' = [out EXCEPT ![t] = n]
          /\ Continue(t, "write")
          /\ UNCHANGED << tables, budget, locals, history, terminated >>
       \/ /\ Answer(t, "FAIL")
          /\ UNCHANGED << tables, directory, raced, budget, locals, history, terminated >>
       \/ Terminates("stub")

\* The size of its picture is below zero: nothing is written, or what is there in memory.
WriteStub(t) ==
    /\ At(t, {"stub"}, "write")
    /\ \/ /\ \E p \in Picture \ {"none"} :
                Files(t, IF out[t] = NoFile THEN avatar ELSE [avatar EXCEPT ![out[t]] = p])
          /\ out' = [out EXCEPT ![t] = NoFile]
          /\ Answer(t, "SUCCESS")
          /\ UNCHANGED << tables, budget, locals, history, terminated >>
       \/ Terminates("stub")

\* get_user_device_list, update_device_comment and delete_device: one statement
Run(t) ==
    /\ At(t, {"list", "comment", "delete"}, "run")
    /\ LET mine == { l \in links : /\ \E u \in Rows(req[t].name) : l.acc = u.acc
                                   /\ l.code = req[t].code }
           new == CASE req[t].op = "list" -> links
                    [] req[t].op = "comment" ->
                          (links \ mine) \cup { [l EXCEPT !.comment = TRUE] : l \in mine }
                    [] req[t].op = "delete" -> links \ mine
       IN  Exec(t, users, new, Answer(t, "SUCCESS"), Answer(t, "FAIL"))
    /\ UNCHANGED << directory, budget, locals, history, terminated >>

\* The answer is sent.
Reply(t) ==
    /\ terminated = "no" /\ pc[t] = "reply"
    /\ Goto(t, "idle")
    /\ acked' = IF req[t].op = "upload" /\ result[t] = "SUCCESS"
                THEN acked \cup {req[t].name} ELSE acked
    /\ req' = [req EXCEPT ![t] = NoRequest]
    /\ result' = [result EXCEPT ![t] = "none"]
    /\ acc' = [acc EXCEPT ![t] = NoAccount]
    /\ size' = [size EXCEPT ![t] = "none"]
    /\ raced' = [raced EXCEPT ![t] = FALSE]
    /\ before' = [before EXCEPT ![t] = NoState]
    /\ UNCHANGED << tables, directory, budget, renamed, terminated >>

Ended ==
    /\ terminated # "no" \/ (budget = 0 /\ \A t \in Thread : pc[t] = "idle")
    /\ UNCHANGED vars

Handle(t) ==
    \/ Verify(t) \/ Link(t) \/ FileSize(t) \/ ReadFile(t)
    \/ Register(t)
    \/ Move(t) \/ Update(t) \/ MoveBack(t) \/ UpdateBack(t)
    \/ SetPassword(t)
    \/ OpenPicture(t) \/ WritePicture(t) \/ OpenStub(t) \/ WriteStub(t)
    \/ Run(t)
    \/ Reply(t)

Next == (\E t \in Thread : Begin(t) \/ Mistyped(t) \/ Handle(t)) \/ Ended

Spec == Init /\ [][Next]_vars

-------------------------------------------------------------------------------
(* Properties                                                              *)

\* What SELECT showed is still so when the handler acts on it, unless another
\* handler changed a user in between: the one row of that name is the account
\* whose password was verified (JsonStrategy.cpp:143-161, 383-395).
CheckStillGood ==
    \A t \in Thread : terminated = "no" /\ pc[t] \in {"link", "set"} /\ ~raced[t] =>
        \E u \in users : /\ Rows(req[t].name) = {u}
                         /\ u.acc = acc[t] /\ u.password = req[t].password

\* A request can end the process by a member that is no string, a hash without memory, an
\* upload without a name or a file that the system does not open: `terminated` tells these.
\* Over the picture itself a login ends it only when the picture was never uploaded, a rename
\* took it along, another handler changed it while it was read (MsgBuilder.cpp:96-109), or the
\* upload cut the name (BinaryStrategy.cpp:24).
CrashExplained ==
    terminated = "picture" =>
        \E t \in Thread :
            /\ pc[t] \in {"size", "read"}
            /\ \/ req[t].name \notin acked \ renamed
               \/ raced[t]
               \/ Short[req[t].name] # req[t].name

\* A comment on a device stays until the device is deleted, whoever logs in and
\* whatever is renamed (JsonStrategy.cpp:157-161, the schema's ON UPDATE CASCADE).
CommentKept ==
    [][\A l \in links : l.comment /\ l \notin links' =>
          \E t \in Thread : pc[t] = "run" /\ req[t].op = "delete" /\ req[t].code = l.code]_vars

\* A picture whose upload was acknowledged is there for the login of that name,
\* if no request to rename mentioned the name.
UploadFound ==
    \A t \in Thread : pc[t] = "size" /\ req[t].name \in acked \ renamed => avatar[req[t].name] # "none"

\* A login that was accepted sends the picture.
LoginSendsPicture == \A t \in Thread : pc[t] = "size" => avatar[req[t].name] # "none"

\* A rename that is answered with FAIL leaves users and pictures as they were,
\* when no other handler runs.
RollbackRestores ==
    \A t \in Thread : pc[t] = "reply" /\ req[t].op = "rename" /\ result[t] = "FAIL" =>
        [users |-> users, avatar |-> avatar] = before[t]
===============================================================================
