---------------------------- MODULE AccountsProofs ----------------------------
(***************************************************************************)
(* For any number of worker threads, names, passwords and requests: what a   *)
(* handler verified holds when it acts on it unless it was raced, a picture  *)
(* ends the process only when it may be missing or was changed, and a         *)
(* comment stays until its device is deleted.                              *)
(***************************************************************************)
EXTENDS Accounts, FiniteSetTheorems, TLAPS

-------------------------------------------------------------------------------
(* The invariant                                                           *)

Row == [acc : Account, name : Name, password : Password]

\* AUTO_INCREMENT and the unique key: neither an account nor a name has two rows, ...
RowsApart ==
    /\ IsFiniteSet(users)
    /\ \A u \in users : u.acc <= Cardinality(users)
    /\ \A u, v \in users : u.acc = v.acc \/ Fold[u.name] = Fold[v.name] => u = v

\* ... and the foreign key: a device is linked to an account that is there.
Referenced == \A l \in links : \E u \in users : u.acc = l.acc

\* There are no more accounts than requests to register.
Inserting == { t \in Thread : pc[t] = "insert" }
Room == Cardinality(users) + Cardinality(Inserting) + budget <= Budget

\* The history has the names of every rename that runs.
RenamesTold ==
    \A t \in Thread : req[t].op = "rename" => {req[t].name, req[t].new} \subseteq renamed

\* A picture that was uploaded stays where it was put, if its name was not cut, until a
\* rename mentions the name.
Uploaded ==
    acked \cup { req[t].name : t \in { u \in Thread :
                                           /\ req[u].op = "upload"
                                           /\ \/ pc[u] = "write"
                                              \/ pc[u] = "reply" /\ result[u] = "SUCCESS" } }
Found == \A n \in Uploaded \ renamed : Short[n] = n => avatar[n] # "none"

\* A login that is not raced knows how big the file is that it reads.
SizeKnown == \A t \in Thread : pc[t] = "read" /\ ~raced[t] => size[t] = avatar[req[t].name]

IInv ==
    /\ TypeOK /\ RowsApart /\ Referenced /\ Room /\ RenamesTold /\ Found /\ SizeKnown
    /\ CheckStillGood /\ CrashExplained

-------------------------------------------------------------------------------
(* Types                                                                   *)

Places == {"idle", "verify", "link", "size", "read", "insert", "move", "update", "moveBack",
           "updateBack", "set", "open", "write", "run", "reply"}
LinkRow == [acc : Account, code : Device, comment : BOOLEAN]

\* The parts of TypeOK: tables, ...
TablesType == users \subseteq Row /\ links \subseteq LinkRow
\* ... directory, ...
DirectoryType == avatar \in [Name -> Picture] /\ out \in [Thread -> Name \cup {NoFile}]
\* ... handlers, ...
HandlersType ==
    /\ budget \in 0 .. Budget
    /\ pc \in [Thread -> Places]
    /\ req \in [Thread -> Request \cup {NoRequest}]
    /\ \A t \in Thread : req[t] = NoRequest <=> pc[t] = "idle"
    /\ result \in [Thread -> {"none", "SUCCESS", "FAIL"}]
    /\ acc \in [Thread -> Account \cup {NoAccount}]
    /\ size \in [Thread -> Picture]
    /\ raced \in [Thread -> BOOLEAN]
\* ... and history.
HistoryType ==
    /\ acked \subseteq Name /\ renamed \subseteq Name
    /\ terminated \in {"no", "hash", "picture", "assert", "stub", "disk"}

LEMMA Parts == TypeOK <=> TablesType /\ DirectoryType /\ HandlersType /\ HistoryType
BY DEF TypeOK, TablesType, DirectoryType, HandlersType, HistoryType, Row, LinkRow, Places

\* A request is typed while its handler is at work.
LEMMA AtWork ==
    ASSUME TypeOK, NEW t \in Thread, pc[t] # "idle"
    PROVE  /\ req[t] \in Request /\ req[t] # NoRequest
           /\ req[t].op \in {"login", "password", "register", "rename", "upload", "stub", "list",
                             "comment", "delete"}
           /\ req[t].op # "stub" => req[t].name \in Name /\ Short[req[t].name] \in Name
           /\ req[t].op \in {"login", "password", "register"} => req[t].password \in Password
           /\ req[t].op = "password" => req[t].new \in Password
           /\ req[t].op = "rename" => req[t].new \in Name
BY RequestAssumption, NamesAssumption DEF TypeOK

\* A thread's step leaves the places, requests and locals of the others alone.
Alone(t) ==
    /\ terminated = "no"
    /\ \A u \in Thread \ {t} :
          /\ pc'[u] = pc[u] /\ req'[u] = req[u] /\ acc'[u] = acc[u] /\ size'[u] = size[u]
          /\ result'[u] = result[u]
          /\ raced[u] => raced'[u]

LEMMA StepAlone ==
    ASSUME TypeOK, NEW t \in Thread, Begin(t) \/ Handle(t)
    PROVE  Alone(t)
<1> USE DEF Alone, TypeOK, Goto, Answer, Continue, At, locals
<1>1. CASE Begin(t) BY <1>1 DEF Begin
<1>2. CASE Verify(t) BY <1>2 DEF Verify
<1>3. CASE Link(t) BY <1>3 DEF Link, Exec, Refused
<1>4. CASE FileSize(t) BY <1>4 DEF FileSize, Terminates
<1>5. CASE ReadFile(t) BY <1>5 DEF ReadFile, Terminates
<1>6. CASE Register(t) BY <1>6 DEF Register, HashFails, Terminates, Exec, Refused
<1>7. CASE Move(t) BY <1>7 DEF Move, RenameFile, Files
<1>8. CASE Update(t) BY <1>8 DEF Update, Renamed, Exec, Refused
<1>9. CASE MoveBack(t) BY <1>9 DEF MoveBack, RenameFile, Files
<1>10. CASE UpdateBack(t) BY <1>10 DEF UpdateBack, Renamed, Exec, Refused
<1>11. CASE SetPassword(t) BY <1>11 DEF SetPassword, HashFails, Terminates, Exec
<1>12. CASE OpenPicture(t) BY <1>12 DEF OpenPicture, Files
<1>13. CASE WritePicture(t) BY <1>13 DEF WritePicture, Files
<1>14. CASE Run(t) BY <1>14 DEF Run, Exec
<1>15. CASE Reply(t) BY <1>15 DEF Reply
<1>16. CASE OpenStub(t) BY <1>16 DEF OpenStub, Files, Terminates
<1>17. CASE WriteStub(t) BY <1>17 DEF WriteStub, Files, Terminates
<1> QED
  BY <1>1, <1>2, <1>3, <1>4, <1>5, <1>6, <1>7, <1>8, <1>9, <1>10, <1>11, <1>12, <1>13, <1>14,
     <1>15, <1>16, <1>17 DEF Handle

-------------------------------------------------------------------------------
(* What a step does to the rows of `users`                                 *)

\* The rows become new: one row is replaced by one of the same account, whose name no
\* other row has.
Replaces(new) ==
    \E u \in users, v \in Row :
        /\ new = (users \ {u}) \cup {v}
        /\ v.acc = u.acc
        /\ \A x \in users \ {u} : Fold[x.name] # Fold[v.name]

\* By the unique key a statement with WHERE user_name = n finds one row, or none.
LEMMA OneRow ==
    ASSUME TypeOK, RowsApart, NEW n \in Name
    PROVE  Rows(n) = {} \/ \E u \in users : Rows(n) = {u} /\ Fold[u.name] = Fold[n]
BY DEF Rows, RowsApart

\* UPDATE users SET user_name = to WHERE user_name = from, where the key allows it
LEMMA RenamesRow ==
    ASSUME TypeOK, RowsApart, NEW from \in Name, NEW to \in Name,
           Rows(from) = {} \/ ~Taken(to, Rows(from))
    PROVE  LET new == (users \ Rows(from)) \cup { [u EXCEPT !.name = to] : u \in Rows(from) }
           IN  new = users \/ Replaces(new)
<1>1. CASE Rows(from) = {}
  BY <1>1
<1>2. ASSUME NEW u \in users, Rows(from) = {u}, ~Taken(to, {u})
      PROVE  Replaces((users \ Rows(from)) \cup { [x EXCEPT !.name = to] : x \in Rows(from) })
  <2> DEFINE v == [u EXCEPT !.name = to]
  <2>1. u \in Row /\ v \in Row /\ v.acc = u.acc /\ v.name = to
    BY DEF TypeOK, Row
  <2>2. (users \ Rows(from)) \cup { [x EXCEPT !.name = to] : x \in Rows(from) }
            = (users \ {u}) \cup {v}
    BY <1>2, Zenon
  <2>3. \A x \in users \ {u} : Fold[x.name] # Fold[v.name]
    BY <1>2, <2>1 DEF Taken
  <2> HIDE DEF v
  <2> QED BY <2>1, <2>2, <2>3 DEF Replaces
<1> QED BY <1>1, <1>2, OneRow

\* UPDATE users SET password = word WHERE user_name = n
LEMMA SetsPassword ==
    ASSUME TypeOK, RowsApart, NEW n \in Name, NEW word \in Password
    PROVE  LET new == (users \ Rows(n)) \cup { [u EXCEPT !.password = word] : u \in Rows(n) }
           IN  new = users \/ Replaces(new)
<1>1. CASE Rows(n) = {}
  BY <1>1
<1>2. ASSUME NEW u \in users, Rows(n) = {u}
      PROVE  Replaces((users \ Rows(n)) \cup { [x EXCEPT !.password = word] : x \in Rows(n) })
  <2> DEFINE v == [u EXCEPT !.password = word]
  <2>1. u \in Row /\ v \in Row /\ v.acc = u.acc /\ v.name = u.name
    BY DEF TypeOK, Row
  <2>2. (users \ Rows(n)) \cup { [x EXCEPT !.password = word] : x \in Rows(n) }
            = (users \ {u}) \cup {v}
    BY <1>2, Zenon
  <2>3. \A x \in users \ {u} : Fold[x.name] # Fold[v.name]
    BY <2>1 DEF RowsApart
  <2> HIDE DEF v
  <2> QED BY <2>1, <2>2, <2>3 DEF Replaces
<1> QED BY <1>1, <1>2, OneRow

\* INSERT INTO users: a new account with a name nobody has
Inserts(t) ==
    /\ pc[t] = "insert"
    /\ \E v \in [acc : {NewAccount}, name : Name, password : Password] :
          /\ users' = users \cup {v}
          /\ \A x \in users : Fold[x.name] # Fold[v.name]

LEMMA UsersStep ==
    ASSUME TypeOK, RowsApart, NEW t \in Thread, Handle(t)
    PROVE  users' = users \/ Inserts(t) \/ (Replaces(users') /\ links' = links)
<1> USE DEF tables, Exec, Refused
<1>1. CASE Register(t)
  <2>1. req[t].name \in Name /\ req[t].password \in Password /\ pc[t] = "insert"
    BY <1>1, AtWork DEF Register, At
  <2>2. CASE HashFails BY <2>2 DEF HashFails, Terminates
  <2>3. CASE ~HashFails
    BY <1>1, <2>1, <2>3 DEF Register, Inserts, Taken
  <2> QED BY <2>2, <2>3
<1>2. ASSUME NEW from \in Name, NEW to \in Name, NEW ACTION next, NEW ACTION catch,
             Renamed(t, from, to, next, catch)
      PROVE  users' = users \/ (Replaces(users') /\ links' = links)
  <2> DEFINE new == (users \ Rows(from)) \cup { [u EXCEPT !.name = to] : u \in Rows(from) }
  <2>1. users' = users \/ ((Rows(from) = {} \/ ~Taken(to,
  Rows(from))) /\ users' = new /\ links' = links)
    BY <1>2, Zenon DEF Renamed
  <2>2. Rows(from) = {} \/ ~Taken(to, Rows(from)) => new = users \/ Replaces(new)
    BY RenamesRow
  <2> HIDE DEF new
  <2> QED BY <2>1, <2>2
<1>3. CASE Update(t)
  <2>1. req[t].name \in Name /\ req[t].new \in Name
    BY <1>3, AtWork DEF Update, At
  <2> QED BY <1>2, <1>3, <2>1, Zenon DEF Update
<1>4. CASE UpdateBack(t)
  <2>1. req[t].name \in Name /\ req[t].new \in Name
    BY <1>4, AtWork DEF UpdateBack, At
  <2> QED BY <1>2, <1>4, <2>1, Zenon DEF UpdateBack
<1>5. CASE SetPassword(t)
  <2>1. req[t].name \in Name /\ req[t].new \in Password
    BY <1>5, AtWork DEF SetPassword, At
  <2> DEFINE new == (users \ Rows(req[t].name))
                        \cup { [u EXCEPT !.password = req[t].new] : u \in Rows(req[t].name) }
  <2>2. users' = users \/ (users' = new /\ links' = links)
    BY <1>5, Zenon DEF SetPassword, HashFails, Terminates
  <2>3. new = users \/ Replaces(new)
    BY <2>1, SetsPassword
  <2> HIDE DEF new
  <2> QED BY <2>2, <2>3
<1>6. CASE Link(t) BY <1>6 DEF Link
<1>7. CASE Run(t) BY <1>7, Zenon DEF Run
<1> QED
  BY <1>1, <1>3, <1>4, <1>5, <1>6, <1>7
  DEF Handle, Verify, FileSize, Terminates, ReadFile, Move, MoveBack, OpenPicture, WritePicture,
      OpenStub, WriteStub, Reply

-------------------------------------------------------------------------------
(* Each part of the invariant is kept                                      *)

LEMMA RowsApartStep ==
    ASSUME IInv, NEW t \in Thread, Begin(t) \/ Handle(t)
    PROVE  RowsApart' /\ (users' # users => (Inserts(t) /\ Cardinality(users') = Cardinality(users) + 1)
                                             \/ Cardinality(users') = Cardinality(users))
<1> USE DEF IInv
<1>0. /\ Cardinality(users) \in Nat
      /\ \A u \in users : u.acc \in 1 .. Budget /\ u.acc <= Cardinality(users)
  BY FS_CardinalityType DEF RowsApart, TypeOK, Account
<1>1. CASE users' = users
  BY <1>1 DEF RowsApart
<1>2. CASE Inserts(t)
  <2>1. PICK v \in [acc : {NewAccount}, name : Name, password : Password] :
            users' = users \cup {v} /\ \A x \in users : Fold[x.name] # Fold[v.name]
    BY <1>2 DEF Inserts
  <2>2. v.acc = Cardinality(users) + 1 /\ v \notin users
    BY <1>0, <2>1 DEF NewAccount
  <2>3. IsFiniteSet(users') /\ Cardinality(users') = Cardinality(users) + 1
    BY <2>1, <2>2, FS_AddElement DEF RowsApart
  <2>4. \A x \in users : x.acc # v.acc
    BY <1>0, <2>2
  <2>5. \A x \in users' : x.acc <= Cardinality(users')
    BY <1>0, <2>1, <2>2, <2>3
  <2>6. \A x, y \in users' : x.acc = y.acc \/ Fold[x.name] = Fold[y.name] => x = y
    <3>1. \A x, y \in users : x.acc = y.acc \/ Fold[x.name] = Fold[y.name] => x = y
      BY DEF RowsApart
    <3> QED BY <2>1, <2>4, <3>1
  <2> QED BY <1>2, <2>3, <2>5, <2>6 DEF RowsApart
<1>3. CASE Replaces(users')
  <2>1. PICK u \in users, v \in Row :
            /\ users' = (users \ {u}) \cup {v}
            /\ v.acc = u.acc
            /\ \A x \in users \ {u} : Fold[x.name] # Fold[v.name]
    BY <1>3 DEF Replaces
  <2>2. \A x \in users \ {u} : x.acc # v.acc
    BY <2>1 DEF RowsApart
  <2>3. v \notin users \ {u}
    BY <2>2
  <2>4. IsFiniteSet(users \ {u}) /\ Cardinality(users \ {u}) = Cardinality(users) - 1
    BY FS_RemoveElement DEF RowsApart
  <2>5. IsFiniteSet(users') /\ Cardinality(users') = Cardinality(users)
    BY <1>0, <2>1, <2>3, <2>4, FS_AddElement
  <2> QED BY <1>0, <2>1, <2>2, <2>5 DEF RowsApart
<1>4. CASE Begin(t)
  BY <1>1, <1>4 DEF Begin, tables
<1> QED BY <1>1, <1>2, <1>3, <1>4, UsersStep

\* Whoever is to insert a row was let in by the budget.
LEMMA InsertingStep ==
    ASSUME TypeOK, NEW t \in Thread, Begin(t) \/ Handle(t)
    PROVE  \/ Begin(t) /\ Inserting' \subseteq Inserting \cup {t} /\ budget' = budget - 1 /\ users' = users
           \/ /\ Inserting' \subseteq Inserting /\ budget' = budget
              /\ Inserts(t) /\ users' # users => Inserting' \subseteq Inserting \ {t}
<1> USE DEF Inserting, TypeOK, Goto, Answer, Continue, At, locals
<1>1. CASE Begin(t) BY <1>1 DEF Begin, tables
<1>2. CASE Verify(t) BY <1>2 DEF Verify, tables
<1>3. CASE Link(t) BY <1>3 DEF Link, Exec, Refused, Inserts
<1>4. CASE FileSize(t) BY <1>4 DEF FileSize, Terminates, tables
<1>5. CASE ReadFile(t) BY <1>5 DEF ReadFile, Terminates, tables
<1>6. CASE Register(t) BY <1>6 DEF Register, HashFails, Terminates, Exec, Refused, tables
<1>7. CASE Move(t) BY <1>7 DEF Move, RenameFile, Files, tables
<1>8. CASE Update(t) BY <1>8, Zenon DEF Update, Renamed, Exec, Refused, Inserts
<1>9. CASE MoveBack(t) BY <1>9 DEF MoveBack, RenameFile, Files, tables
<1>10. CASE UpdateBack(t) BY <1>10 DEF UpdateBack, Renamed, Exec, Refused, Inserts
<1>11. CASE SetPassword(t) BY <1>11 DEF SetPassword, HashFails, Terminates, Exec, Inserts
<1>12. CASE OpenPicture(t) BY <1>12 DEF OpenPicture, Files, tables
<1>13. CASE WritePicture(t) BY <1>13 DEF WritePicture, Files, tables
<1>14. CASE Run(t) BY <1>14 DEF Run, Exec, Inserts
<1>15. CASE Reply(t) BY <1>15 DEF Reply, tables
<1>16. CASE OpenStub(t) BY <1>16 DEF OpenStub, Files, Terminates, tables
<1>17. CASE WriteStub(t) BY <1>17 DEF WriteStub, Files, Terminates, tables
<1> QED
  BY <1>1, <1>2, <1>3, <1>4, <1>5, <1>6, <1>7, <1>8, <1>9, <1>10, <1>11, <1>12, <1>13, <1>14,
     <1>15, <1>16, <1>17 DEF Handle

LEMMA RoomStep ==
    ASSUME IInv, NEW t \in Thread, Begin(t) \/ Handle(t)
    PROVE  Room'
<1>1. IsFiniteSet(Inserting) /\ IsFiniteSet(Inserting')
  BY ThreadsAssumption, FS_Subset DEF Inserting
<1>2. /\ Cardinality(users) \in Nat /\ Cardinality(Inserting) \in Nat /\ budget \in Nat
      /\ Cardinality(users') \in Nat /\ Cardinality(Inserting') \in Nat
  BY <1>1, RowsApartStep, FS_CardinalityType DEF IInv, RowsApart, TypeOK
<1>3. IsFiniteSet(Inserting \cup {t}) /\ Cardinality(Inserting \cup {t}) <= Cardinality(Inserting) + 1
  BY <1>1, <1>2, FS_AddElement
<1>4. CASE /\ Begin(t) /\ Inserting' \subseteq Inserting \cup {t}
           /\ budget' = budget - 1 /\ users' = users
  <2>1. Cardinality(Inserting') <= Cardinality(Inserting \cup {t})
        /\ Cardinality(Inserting \cup {t}) \in Nat
    BY <1>3, <1>4, FS_Subset, FS_CardinalityType
  <2> QED BY <1>2, <1>3, <1>4, <2>1, NamesAssumption DEF IInv, Room
<1>5. CASE /\ Inserting' \subseteq Inserting /\ budget' = budget
           /\ Inserts(t) /\ users' # users => Inserting' \subseteq Inserting \ {t}
  <2>1. Cardinality(Inserting') <= Cardinality(Inserting)
    BY <1>1, <1>5, FS_Subset
  <2>2. CASE Inserts(t) /\ users' # users
    <3>1. IsFiniteSet(Inserting \ {t}) /\ Cardinality(Inserting \ {t}) = Cardinality(Inserting) - 1
      BY <1>1, <2>2, FS_RemoveElement DEF Inserts, Inserting
    <3>2. Cardinality(Inserting') <= Cardinality(Inserting) - 1
      BY <1>5, <2>2, <3>1, FS_Subset
    <3>3. Cardinality(users') <= Cardinality(users) + 1
      BY <1>2, RowsApartStep
    <3> QED BY <1>2, <1>5, <3>2, <3>3, NamesAssumption DEF IInv, Room
  <2>3. CASE ~(Inserts(t) /\ users' # users)
    <3>1. Cardinality(users') = Cardinality(users)
      BY <1>2, <2>3, RowsApartStep
    <3> QED BY <1>2, <1>5, <2>1, <3>1, NamesAssumption DEF IInv, Room
  <2> QED BY <2>2, <2>3
<1> QED BY <1>4, <1>5, InsertingStep DEF IInv

LEMMA TablesTypeStep ==
    ASSUME IInv, NEW t \in Thread, Begin(t) \/ Handle(t)
    PROVE  TablesType'
<1>1. users' \subseteq Row
  <2>1. CASE Inserts(t)
    <3>1. IsFiniteSet(Inserting) /\ t \in Inserting
      BY <2>1, ThreadsAssumption, FS_Subset DEF Inserting, Inserts
    <3>2. Cardinality(users) \in Nat /\ Cardinality(Inserting) \in Nat /\ Cardinality(Inserting) # 0
      BY <3>1, FS_CardinalityType, FS_EmptySet DEF IInv, RowsApart
    <3>3. NewAccount \in Account
      BY <3>2, NamesAssumption DEF IInv, Room, TypeOK, NewAccount, Account
    <3> QED BY <2>1, <3>3 DEF Inserts, IInv, TypeOK, Row
  <2>2. CASE users' = users \/ Replaces(users')
    BY <2>2 DEF Replaces, IInv, TypeOK, Row
  <2> QED BY <2>1, <2>2, UsersStep DEF IInv, Begin, tables
<1>2. links' \subseteq LinkRow
  <2>1. links \subseteq LinkRow
    BY DEF IInv, TypeOK, LinkRow
  <2>2. CASE Link(t)
    <3>1. \A u \in users : req[t].code \in Device => Relinked(u.acc, req[t].code) \subseteq LinkRow
      <4> SUFFICES ASSUME NEW u \in users, req[t].code \in Device
                   PROVE  [acc |-> u.acc, code |-> req[t].code, comment |-> FALSE] \in LinkRow
        BY <2>1 DEF Relinked
      <4>1. u.acc \in Account
        BY DEF IInv, TypeOK
      <4> QED BY <4>1 DEF LinkRow
    <3> QED BY <2>1, <2>2, <3>1 DEF Link, Exec, Refused, tables, Rows
  <2>3. CASE Run(t)
    <3> DEFINE mine == { l \in links : /\ \E u \in Rows(req[t].name) : l.acc = u.acc
                                       /\ l.code = req[t].code }
    <3>1. \A l \in mine : [l EXCEPT !.comment = TRUE] \in LinkRow
      BY <2>1 DEF LinkRow
    <3>2. req[t].op \in {"list", "comment", "delete"}
      BY <2>3 DEF Run, At
    <3>3. \/ links' = links \/ links' = links \ mine
          \/ links' = (links \ mine) \cup { [l EXCEPT !.comment = TRUE] : l \in mine }
      BY <2>3, <3>2, Zenon DEF Run, Exec
    <3> HIDE DEF mine
    <3> QED BY <2>1, <3>1, <3>3
  <2>4. CASE ~Link(t) /\ ~Run(t)
    BY <2>1, <2>4, Zenon
    DEF Begin, Handle, Verify, FileSize, ReadFile, Register, HashFails, Terminates, Move, Update,
        Renamed,
        MoveBack, UpdateBack, SetPassword, OpenPicture, WritePicture, OpenStub, WriteStub, Reply,
        Exec, Refused, tables
  <2> QED BY <2>2, <2>3, <2>4
<1> QED BY <1>1, <1>2 DEF TablesType

LEMMA DirectoryTypeStep ==
    ASSUME TypeOK, NEW t \in Thread, Begin(t) \/ Handle(t)
    PROVE  DirectoryType'
<1> USE DEF TypeOK, DirectoryType, Picture
<1>1. ASSUME NEW from \in Name, NEW to \in Name, NEW ACTION next, NEW ACTION catch,
             RenameFile(t, from, to, next, catch)
      PROVE  DirectoryType'
  BY <1>1 DEF RenameFile, Files, Follow, directory
<1>2. CASE Move(t)
  BY <1>1, <1>2, AtWork, Zenon DEF Move, At
<1>3. CASE MoveBack(t)
  BY <1>1, <1>3, AtWork, Zenon DEF MoveBack, At
<1>4. CASE OpenPicture(t)
  BY <1>4, AtWork DEF OpenPicture, At, Files, directory
<1>5. CASE WritePicture(t)
  BY <1>5 DEF WritePicture, Files
<1>6. CASE UNCHANGED directory
  BY <1>6 DEF directory
<1>7. CASE OpenStub(t)
  BY <1>7 DEF OpenStub, Files, Terminates, directory
<1>8. CASE WriteStub(t)
  BY <1>8 DEF WriteStub, Files, Terminates, directory
<1> QED
  BY <1>2, <1>3, <1>4, <1>5, <1>6, <1>7, <1>8, Zenon
  DEF Begin, Handle, Verify, Link, FileSize, ReadFile, Register, HashFails, Terminates, Update,
      UpdateBack,
      SetPassword, Run, Reply

LEMMA HandlersTypeStep ==
    ASSUME TypeOK, NEW t \in Thread, Begin(t) \/ Handle(t)
    PROVE  HandlersType'
<1> USE DEF TypeOK, HandlersType, Places, Goto, Answer, Continue, At, locals
<1>1. CASE Begin(t)
  <2>1. \A r \in Request : r # NoRequest /\ First[r.op] \in Places \ {"idle"}
    BY RequestAssumption DEF First, NoRequest
  <2> QED BY <1>1, <2>1, NamesAssumption DEF Begin
\* What most steps do to the handlers: one answers or goes on, and some are raced.
<1>0. ASSUME NEW to \in Places \ {"idle"}, pc[t] # "idle", pc' = [pc EXCEPT ![t] = to],
             \/ UNCHANGED result
             \/ \E r \in {"SUCCESS", "FAIL"} : result' = [result EXCEPT ![t] = r],
             raced' \in [Thread -> BOOLEAN],
             UNCHANGED << budget, req, acc, size >>
      PROVE  HandlersType'
  BY <1>0
<1>2. CASE Verify(t) BY <1>2 DEF Verify, Account, Rows
<1>3. CASE Link(t) BY <1>3 DEF Link, Exec, Refused
<1>4. CASE FileSize(t) BY <1>4, AtWork DEF FileSize, Terminates
<1>5. CASE ReadFile(t) BY <1>5 DEF ReadFile, Terminates
<1>6. CASE Register(t)
  <2>1. CASE HashFails
    BY <2>1 DEF HashFails, Terminates
  <2>2. CASE ~HashFails
    <3>1. /\ UNCHANGED << budget, req, acc, size >> /\ pc[t] = "insert"
          /\ \/ Answer(t, "SUCCESS") \/ Answer(t, "FAIL")
          /\ raced' \in [Thread -> BOOLEAN]
      BY <1>6, <2>2 DEF Register, Exec, Refused
    <3> QED BY <1>0, <3>1
  <2> QED BY <2>1, <2>2
<1>7. CASE Move(t)
  <2>1. /\ UNCHANGED << budget, req, acc, size >> /\ pc[t] = "move"
        /\ \/ Continue(t, "update") \/ Continue(t, "moveBack")
        /\ raced' \in [Thread -> BOOLEAN]
    <3>1. UNCHANGED raced \/ \E files : Files(t, files)
      BY <1>7, Zenon DEF Move, RenameFile
    <3>2. raced' \in [Thread -> BOOLEAN]
      BY <3>1 DEF Files
    <3> QED BY <1>7, <3>2, Zenon DEF Move, RenameFile
  <2> QED BY <1>0, <2>1
<1>8. CASE Update(t) BY <1>8 DEF Update, Renamed, Exec, Refused
<1>9. CASE MoveBack(t)
  <2>1. /\ UNCHANGED << budget, req, acc, size >> /\ pc[t] = "moveBack"
        /\ \/ Continue(t, "updateBack") \/ Answer(t, "FAIL")
        /\ raced' \in [Thread -> BOOLEAN]
    <3>1. UNCHANGED raced \/ \E files : Files(t, files)
      BY <1>9, Zenon DEF MoveBack, RenameFile
    <3>2. raced' \in [Thread -> BOOLEAN]
      BY <3>1 DEF Files
    <3> QED BY <1>9, <3>2, Zenon DEF MoveBack, RenameFile
  <2> QED BY <1>0, <2>1
<1>10. CASE UpdateBack(t) BY <1>10 DEF UpdateBack, Renamed, Exec, Refused
<1>11. CASE SetPassword(t)
  <2>1. CASE HashFails
    BY <2>1 DEF HashFails, Terminates
  <2>2. CASE ~HashFails
    <3>1. /\ UNCHANGED << budget, req, acc, size >> /\ pc[t] = "set"
          /\ \/ Answer(t, "SUCCESS") \/ Answer(t, "FAIL")
          /\ raced' \in [Thread -> BOOLEAN]
      BY <1>11, <2>2 DEF SetPassword, Exec
    <3> QED BY <1>0, <3>1
  <2> QED BY <2>1, <2>2
<1>18. ASSUME NEW files, Files(t, files), pc[t] # "idle", UNCHANGED << budget, req, acc, size >>,
              Answer(t, "SUCCESS") \/ Continue(t, "write")
       PROVE  HandlersType'
  <2>1. raced' \in [Thread -> BOOLEAN]
    BY <1>18 DEF Files
  <2> QED BY <1>0, <1>18, <2>1
<1>12. CASE OpenPicture(t)
  <2>1. CASE Answer(t, "FAIL") /\ UNCHANGED raced
    BY <1>0, <1>12, <2>1 DEF OpenPicture
  <2>2. CASE (\E files : Files(t, files)) /\ Continue(t, "write")
    BY <1>12, <1>18, <2>2 DEF OpenPicture
  <2> QED BY <1>12, <2>1, <2>2, Zenon DEF OpenPicture
<1>13. CASE WritePicture(t)
  <2>1. \E files : Files(t, files)
    BY <1>13, Zenon DEF WritePicture
  <2> QED BY <1>13, <1>18, <2>1 DEF WritePicture
<1>14. CASE Run(t) BY <1>14 DEF Run, Exec
<1>15. CASE Reply(t) BY <1>15 DEF Reply, Picture
<1>16. CASE OpenStub(t)
  <2>1. CASE Terminates("stub")
    BY <2>1 DEF Terminates
  <2>2. CASE ~Terminates("stub")
    <3>1. CASE Answer(t, "FAIL")
      BY <1>0, <1>16, <2>2, <3>1 DEF OpenStub
    <3>2. CASE ~Answer(t, "FAIL")
      <4>1. (\E files : Files(t, files)) /\ Continue(t, "write")
        BY <1>16, <2>2, <3>2, Zenon DEF OpenStub
      <4> QED BY <1>16, <1>18, <2>2, <4>1 DEF OpenStub
    <3> QED BY <3>1, <3>2
  <2> QED BY <2>1, <2>2
<1>17. CASE WriteStub(t)
  <2>1. CASE Terminates("stub")
    BY <2>1 DEF Terminates
  <2>2. CASE ~Terminates("stub")
    <3>1. \E files : Files(t, files)
      BY <1>17, <2>2, Zenon DEF WriteStub
    <3> QED BY <1>17, <1>18, <2>2, <3>1 DEF WriteStub
  <2> QED BY <2>1, <2>2
<1> QED
  BY <1>1, <1>2, <1>3, <1>4, <1>5, <1>6, <1>7, <1>8, <1>9, <1>10, <1>11, <1>12, <1>13, <1>14,
     <1>15, <1>16, <1>17 DEF Handle

LEMMA HistoryTypeStep ==
    ASSUME TypeOK, NEW t \in Thread, Begin(t) \/ Handle(t)
    PROVE  HistoryType'
<1> USE DEF TypeOK, HistoryType
<1>1. CASE Begin(t)
  BY <1>1, RequestAssumption DEF Begin
<1>2. CASE Reply(t)
  <2>1. req[t].op = "upload" => req[t].name \in Name
    BY <1>2, AtWork DEF Reply
  <2> QED BY <1>2, <2>1 DEF Reply
<1>3. CASE FileSize(t) BY <1>3 DEF FileSize, Terminates, history
<1>4. CASE ReadFile(t) \/ OpenStub(t) \/ WriteStub(t)
  <2>1. /\ terminated' \in {terminated, "picture", "disk", "stub"}
        /\ UNCHANGED history
    BY <1>4, Zenon DEF ReadFile, OpenStub, WriteStub, Terminates
  <2> QED BY <2>1 DEF history
<1>5. CASE UNCHANGED << history, terminated >>
  BY <1>5 DEF history
<1>6. CASE HashFails
  BY <1>6 DEF HashFails, Terminates, history
<1> QED
  BY <1>1, <1>2, <1>3, <1>4, <1>5, <1>6, Zenon
  DEF Handle, Verify, Link, Register, Move, Update, MoveBack, UpdateBack, SetPassword,
      OpenPicture, WritePicture, OpenStub, WriteStub, Run

\* No row loses its account, and a link is made to one that is there.
LEMMA ReferencedStep ==
    ASSUME IInv, NEW t \in Thread, Begin(t) \/ Handle(t)
    PROVE  Referenced'
<1>1. \A u \in users : \E v \in users' : v.acc = u.acc
  BY UsersStep DEF IInv, Begin, tables, Inserts, Replaces
<1>2. \A l \in links' : \/ \E u \in users : l.acc = u.acc
                        \/ \E k \in links : l.acc = k.acc
  <2>1. CASE Link(t)
    <3>1. \A u \in users : \A l \in Relinked(u.acc, req[t].code) : l.acc = u.acc \/ l \in links
      BY DEF Relinked
    <3> QED BY <2>1, <3>1 DEF Link, Exec, Refused, tables, Rows
  <2>2. CASE Run(t)
    <3> DEFINE mine == { l \in links : /\ \E u \in Rows(req[t].name) : l.acc = u.acc
                                       /\ l.code = req[t].code }
               marked(l) == [l EXCEPT !.comment = TRUE]
    <3>1. \A l \in mine : l \in links /\ marked(l).acc = l.acc
      BY DEF IInv, TypeOK
    <3>2. req[t].op \in {"list", "comment", "delete"}
      BY <2>2 DEF Run, At
    <3>3. \/ links' = links \/ links' = links \ mine
          \/ links' = (links \ mine) \cup { marked(l) : l \in mine }
      BY <2>2, <3>2, Zenon DEF Run, Exec
    <3> HIDE DEF mine, marked
    <3> QED BY <3>1, <3>3
  <2>3. CASE ~Link(t) /\ ~Run(t)
    <3>1. links' = links
      BY <2>3, Zenon
      DEF Begin, Handle, Verify, FileSize, ReadFile, Register, HashFails, Terminates, Move,
          Update, Renamed,
          MoveBack, UpdateBack, SetPassword, OpenPicture, WritePicture, OpenStub, WriteStub,
          Reply, Exec, Refused,
          tables
    <3> QED BY <3>1
  <2> QED BY <2>1, <2>2, <2>3
<1> QED BY <1>1, <1>2 DEF Referenced, IInv

LEMMA RenamesToldStep ==
    ASSUME TypeOK, RenamesTold, NEW t \in Thread, Begin(t) \/ Handle(t)
    PROVE  RenamesTold' /\ renamed \subseteq renamed'
<1> USE DEF TypeOK, RenamesTold
<1>1. CASE Begin(t)
  <2>1. renamed \subseteq renamed'
    BY <1>1, Zenon DEF Begin
  <2>2. ASSUME NEW u \in Thread, req'[u].op = "rename"
        PROVE  {req'[u].name, req'[u].new} \subseteq renamed'
    BY <1>1, <2>1, <2>2 DEF Begin
  <2> QED BY <2>1, <2>2
<1>2. CASE Reply(t)
  BY <1>2 DEF Reply, NoRequest
<1>3. CASE UNCHANGED << req, renamed >>
  BY <1>3
<1> QED
  BY <1>1, <1>2, <1>3, Zenon
  DEF Handle, Verify, Link, FileSize, ReadFile, Register, HashFails, Terminates, Move, Update,
      MoveBack,
      UpdateBack, SetPassword, OpenPicture, WritePicture, OpenStub, WriteStub, Run, locals, history

\* A file goes only because a rename took it.
LEMMA FilesStay ==
    ASSUME IInv, NEW t \in Thread, Begin(t) \/ Handle(t), NEW n \in Name, n \notin renamed,
           avatar[n] # "none"
    PROVE  avatar'[n] # "none"
<1> USE DEF IInv, TypeOK, directory, Files
<1>1. ASSUME NEW from \in Name, NEW to \in Name, from \in renamed, NEW ACTION next,
             NEW ACTION catch, RenameFile(t, from, to, next, catch)
      PROVE  avatar'[n] # "none"
  BY <1>1 DEF RenameFile
<1>2. CASE Move(t)
  <2>1. {req[t].name, req[t].new} \subseteq renamed \cap Name
    BY <1>2, AtWork DEF Move, At, RenamesTold
  <2> QED BY <1>1, <1>2, <2>1, Zenon DEF Move
<1>3. CASE MoveBack(t)
  <2>1. {req[t].name, req[t].new} \subseteq renamed \cap Name
    BY <1>3, AtWork DEF MoveBack, At, RenamesTold
  <2> QED BY <1>1, <1>3, <2>1, Zenon DEF MoveBack
<1>4. CASE OpenPicture(t)
  BY <1>4 DEF OpenPicture
<1>5. CASE WritePicture(t)
  BY <1>5 DEF WritePicture
<1>6. CASE avatar' = avatar
  BY <1>6
<1>7. CASE OpenStub(t)
  BY <1>7 DEF OpenStub, Terminates
<1>8. CASE WriteStub(t)
  BY <1>8 DEF WriteStub, Terminates
<1> QED
  BY <1>2, <1>3, <1>4, <1>5, <1>6, <1>7, <1>8, Zenon
  DEF Begin, Handle, Verify, Link, FileSize, ReadFile, Register, HashFails, Terminates, Update,
      UpdateBack,
      SetPassword, Run, Reply

LEMMA FoundStep ==
    ASSUME IInv, NEW t \in Thread, Begin(t) \/ Handle(t)
    PROVE  Found'
<1> SUFFICES ASSUME NEW n \in Uploaded' \ renamed', Short[n] = n
             PROVE  avatar'[n] # "none"
  BY DEF Found
<1>1. n \notin renamed
  BY RenamesToldStep DEF IInv
<1>2. CASE n \in Uploaded
  <2>1. n \in Name
    BY <1>2, AtWork DEF Uploaded, IInv, TypeOK
  <2> QED BY <1>1, <1>2, <2>1, FilesStay DEF IInv, Found
<1>3. CASE n \notin Uploaded
  <2>1. OpenPicture(t) /\ n = req[t].name /\ ~Answer(t, "FAIL")
    <3>1. Alone(t)
      BY StepAlone DEF IInv
    <3>2. CASE n \in acked'
      <4>1. Reply(t) /\ req[t].op = "upload" /\ n = req[t].name
        BY <1>3, <3>2, Zenon
        DEF Uploaded, Begin, Handle, Verify, Link, FileSize, ReadFile, Register, HashFails,
            Terminates,
            Move, Update, MoveBack, UpdateBack, SetPassword, OpenPicture, WritePicture, OpenStub,
            WriteStub, Run,
            Reply, history
      <4> QED BY <1>3, <3>2, <4>1 DEF Uploaded, Reply
    <3>3. CASE n \notin acked'
      <4>1. PICK u \in Thread : /\ req'[u].op = "upload" /\ n = req'[u].name
                                /\ pc'[u] = "write" \/ (pc'[u] = "reply" /\ result'[u] = "SUCCESS")
        BY <3>3 DEF Uploaded
      <4>2. u = t
        BY <1>3, <3>1, <4>1 DEF Uploaded, Alone
      <4>3. ~Reply(t)
        BY <4>1, <4>2 DEF Reply, Goto, IInv, TypeOK
      <4>4. ~Begin(t)
        <5> SUFFICES ASSUME Begin(t) PROVE FALSE
          OBVIOUS
        <5>1. PICK r \in Request :
                 /\ req' = [req EXCEPT ![t] = r]
                 /\ Continue(t, First[r.op]) \/ (r.op # "upload" /\ Answer(t, "FAIL"))
          BY DEF Begin
        <5>2. req'[t] = r /\ r.op = "upload" /\ pc'[t] = "open"
          BY <4>1, <4>2, <5>1 DEF IInv, TypeOK, Continue, Goto, First
        <5> QED BY <4>1, <4>2, <5>2
      <4>5. req' = req /\ req[t].op = "upload"
        BY <4>1, <4>2, <4>3, <4>4, Zenon
        DEF Handle, Verify, Link, FileSize, ReadFile, Register, HashFails, Terminates, Move,
            Update, MoveBack,
            UpdateBack, SetPassword, OpenPicture, WritePicture, OpenStub, WriteStub, Run, locals
      <4>6. pc[t] # "write" /\ ~(pc[t] = "reply" /\ result[t] = "SUCCESS") /\ n = req[t].name
        BY <1>3, <4>1, <4>2, <4>5 DEF Uploaded
      <4>7. OpenPicture(t) \/ WritePicture(t)
        BY <4>3, <4>4, <4>5
        DEF Handle, Verify, Link, FileSize, ReadFile, Register, Move, Update, MoveBack, UpdateBack,
            SetPassword, OpenStub, WriteStub, Run, At
      <4>8. ~WritePicture(t)
        BY <4>6 DEF WritePicture, At
      <4>9. ~Answer(t, "FAIL")
        BY <4>1, <4>2 DEF Answer, Goto, IInv, TypeOK
      <4> QED BY <4>5, <4>6, <4>7, <4>8, <4>9
    <3> QED BY <3>2, <3>3
  <2>2. req[t].name \in Name
    BY <2>1, AtWork DEF OpenPicture, At, IInv
  <2> QED BY <2>1, <2>2 DEF OpenPicture, Files, IInv, TypeOK
<1> QED BY <1>2, <1>3

\* A handler that relies on a row or a file is told of a change that another makes.
LEMMA RacedStep ==
    ASSUME TypeOK, NEW t \in Thread, Begin(t) \/ Handle(t), NEW u \in Thread, u # t, ~raced'[u]
    PROVE  /\ pc[u] \in {"link", "set"} => users' = users
           /\ pc[u] = "read" => avatar'[req[u].name] = avatar[req[u].name]
<1>1. ASSUME NEW newUsers, NEW newLinks, NEW ACTION ok, NEW ACTION catch,
             Exec(t, newUsers, newLinks, ok, catch)
      PROVE  pc[u] \in {"link", "set"} => users' = users
  BY <1>1, Zenon DEF Exec
<1>2. ASSUME NEW files, Files(t, files)
      PROVE  pc[u] = "read" => avatar'[req[u].name] = avatar[req[u].name]
  BY <1>2, Zenon DEF Files
<1>3. users' = users \/ (pc[u] \in {"link", "set"} => users' = users)
  BY <1>1, Zenon
  DEF Begin, Handle, Verify, Link, FileSize, ReadFile, Register, HashFails, Terminates, Move,
      Update, MoveBack,
      UpdateBack, Renamed, SetPassword, OpenPicture, WritePicture, OpenStub, WriteStub, Run,
      Reply, Refused, tables
<1>4. avatar' = avatar \/ (pc[u] = "read" => avatar'[req[u].name] = avatar[req[u].name])
  BY <1>2, Zenon
  DEF Begin, Handle, Verify, Link, FileSize, ReadFile, Register, HashFails, Terminates, Move,
      Update, MoveBack,
      UpdateBack, RenameFile, SetPassword, OpenPicture, WritePicture, OpenStub, WriteStub, Run,
      Reply, directory
<1> QED BY <1>3, <1>4

\* Only one step leads to the places where a handler relies on what it has seen.
LEMMA Leads ==
    ASSUME TypeOK, NEW t \in Thread, Begin(t) \/ Handle(t)
    PROVE  /\ pc'[t] = "read" =>
                 FileSize(t) \/ (pc[t] = "read" /\ UNCHANGED << avatar, raced, size, req >>)
           /\ pc'[t] \in {"link", "set"} => Verify(t) \/ terminated' # "no"
<1> USE DEF TypeOK, Goto, Answer, Continue
<1>1. CASE Begin(t)
  <2>1. \A r \in Request : First[r.op] \notin {"read", "link", "set"}
    BY RequestAssumption DEF First
  <2> QED BY <1>1, <2>1 DEF Begin
<1>2. CASE Verify(t) BY <1>2 DEF Verify
<1>3. CASE Link(t)
  <2>1. Continue(t, "size") \/ Answer(t, "FAIL")
    BY <1>3, Zenon DEF Link, Exec, Refused
  <2> QED BY <2>1
<1>4. CASE FileSize(t) BY <1>4 DEF FileSize, Terminates, At
<1>5. CASE ReadFile(t)
  <2>1. /\ pc[t] = "read" /\ UNCHANGED << avatar, raced, size, req >>
        /\ Answer(t, "SUCCESS") \/ (terminated' # "no" /\ pc' = pc)
    BY <1>5, Zenon DEF ReadFile, Terminates, At, directory, locals
  <2> QED BY <2>1
<1>6. CASE HashFails /\ pc[t] \in {"insert", "set"} BY <1>6 DEF HashFails, Terminates
<1>7. CASE Answer(t, "SUCCESS") \/ Answer(t, "FAIL") BY <1>7
<1>8. CASE Move(t) \/ MoveBack(t)
  <2>1. Continue(t, "update") \/ Continue(t, "moveBack") \/ Continue(t, "updateBack")
            \/ Answer(t, "FAIL")
    BY <1>8, Zenon DEF Move, MoveBack, RenameFile
  <2> QED BY <2>1
<1>9. CASE Update(t)
  <2>1. Continue(t, "moveBack") \/ Answer(t, "SUCCESS")
    BY <1>9, Zenon DEF Update, Renamed, Exec, Refused
  <2> QED BY <2>1
<1>10. CASE OpenPicture(t) BY <1>10 DEF OpenPicture
<1>11. CASE Reply(t) BY <1>11 DEF Reply
<1>12. CASE OpenStub(t) \/ WriteStub(t)
  <2>1. \/ Continue(t, "write") \/ Answer(t, "FAIL") \/ Answer(t, "SUCCESS")
        \/ terminated' # "no" /\ pc' = pc /\ pc[t] \in {"open", "write"}
    BY <1>12, Zenon DEF OpenStub, WriteStub, Terminates, At
  <2> QED BY <2>1
<1> QED
  BY <1>1, <1>2, <1>3, <1>4, <1>5, <1>6, <1>7, <1>8, <1>9, <1>10, <1>11, <1>12, Zenon
  DEF Handle, Register, UpdateBack, Renamed, SetPassword, WritePicture, OpenStub, WriteStub, Run,
      Exec, Refused, At

LEMMA SizeKnownStep ==
    ASSUME IInv, NEW t \in Thread, Begin(t) \/ Handle(t)
    PROVE  SizeKnown'
<1> SUFFICES ASSUME NEW u \in Thread, pc'[u] = "read", ~raced'[u]
             PROVE  size'[u] = avatar'[req'[u].name]
  BY DEF SizeKnown
<1>1. CASE u # t
  <2>1. Alone(t)
    BY StepAlone DEF IInv
  <2>2. pc[u] = "read" /\ ~raced[u] /\ size'[u] = size[u] /\ req'[u] = req[u]
    BY <1>1, <2>1 DEF Alone
  <2> QED BY <1>1, <2>2, RacedStep DEF IInv, SizeKnown
<1>2. CASE u = t /\ FileSize(t)
  BY <1>2 DEF FileSize, Terminates, At, IInv, TypeOK, Continue, Goto, directory
<1>3. CASE u = t /\ pc[t] = "read" /\ UNCHANGED << avatar, raced, size, req >>
  BY <1>3 DEF IInv, SizeKnown
<1> QED BY <1>1, <1>2, <1>3, Leads DEF IInv

\* What was verified: the one row of the name is the account whose password it was.
Good(t) ==
    \E u \in users : /\ Rows(req[t].name) = {u}
                     /\ u.acc = acc[t] /\ u.password = req[t].password

LEMMA CheckStep ==
    ASSUME IInv, NEW t \in Thread, Begin(t) \/ Handle(t)
    PROVE  CheckStillGood'
<1> SUFFICES ASSUME NEW u \in Thread, terminated' = "no", pc'[u] \in {"link", "set"}, ~raced'[u]
             PROVE  Good(u)'
  BY DEF CheckStillGood, Good
<1>1. CASE u # t
  <2>1. Alone(t)
    BY StepAlone DEF IInv
  <2>2. /\ terminated = "no" /\ pc[u] \in {"link", "set"} /\ ~raced[u]
        /\ req'[u] = req[u] /\ acc'[u] = acc[u]
    BY <1>1, <2>1 DEF Alone, IInv, TypeOK
  <2>3. users' = users
    BY <1>1, <2>2, RacedStep DEF IInv
  <2>4. Good(u)
    BY <2>2 DEF IInv, CheckStillGood, Good
  <2> QED BY <2>2, <2>3, <2>4 DEF Good, Rows
<1>2. CASE u = t
  <2>1. Verify(t)
    BY <1>2, Leads DEF IInv
  <2>2. users' = users /\ req' = req /\ req[t].name \in Name
    BY <2>1, AtWork DEF Verify, At, tables, IInv
  <2>3. PICK v \in Rows(req[t].name) : /\ v.password = req[t].password
                                       /\ acc' = [acc EXCEPT ![t] = v.acc]
    BY <1>2, <2>1 DEF Verify, Answer, Goto, IInv, TypeOK
  <2>4. Rows(req[t].name) = {v} /\ v \in users
    BY <2>2, <2>3, OneRow DEF IInv, Rows
  <2>5. acc'[t] = v.acc
    BY <2>3 DEF IInv, TypeOK
  <2> QED BY <1>2, <2>2, <2>3, <2>4, <2>5 DEF Good, Rows
<1> QED BY <1>1, <1>2

\* The process ends over a picture in one of two steps of a login.
LEMMA CrashStep ==
    ASSUME IInv, NEW t \in Thread, Begin(t) \/ Handle(t)
    PROVE  CrashExplained'
<1> SUFFICES ASSUME terminated' = "picture"
             PROVE  CrashExplained'
  BY DEF CrashExplained
<1>0. terminated = "no"
  BY StepAlone DEF IInv, Alone
<1>1. /\ FileSize(t) \/ ReadFile(t)
      /\ UNCHANGED << avatar, raced, size, req, acked, renamed, pc >>
      /\ pc[t] \in {"size", "read"}
  BY <1>0, Zenon
  DEF Begin, Handle, Verify, Link, FileSize, ReadFile, Register, HashFails, Terminates, Move,
      Update, MoveBack,
      UpdateBack, SetPassword, OpenPicture, WritePicture, OpenStub, WriteStub, Run, Reply, At,
      directory, locals,
      history
<1>2. \/ avatar[req[t].name] = "none"
      \/ pc[t] = "read" /\ size[t] # avatar[req[t].name]
  <2>1. CASE FileSize(t)
    BY <1>0, <2>1 DEF FileSize, Terminates
  <2>2. CASE ReadFile(t)
    <3>1. size[t] # avatar[req[t].name]
      BY <1>0, <2>2 DEF ReadFile, Terminates
    <3> QED BY <2>2, <3>1 DEF ReadFile, At
  <2> QED BY <1>1, <2>1, <2>2
<1>3. CASE avatar[req[t].name] = "none"
  <2>1. \/ req[t].name \notin acked \ renamed
        \/ Short[req[t].name] # req[t].name
    BY <1>3 DEF IInv, Found, Uploaded
  <2> QED BY <1>1, <2>1 DEF CrashExplained
<1>4. CASE pc[t] = "read" /\ size[t] # avatar[req[t].name]
  <2>1. raced[t]
    BY <1>4 DEF IInv, SizeKnown
  <2> QED BY <1>1, <2>1 DEF CrashExplained
<1> QED BY <1>2, <1>3, <1>4

-------------------------------------------------------------------------------
(* The theorems                                                            *)

LEMMA InitIInv == Init => IInv
<1> SUFFICES ASSUME Init PROVE IInv
  OBVIOUS
<1>1. TypeOK
  BY NamesAssumption DEF Init, TypeOK, Picture
<1>2. IsFiniteSet({}) /\ Cardinality({}) = 0
  BY FS_EmptySet
<1>3. RowsApart /\ Referenced
  BY <1>2 DEF Init, RowsApart, Referenced
<1>4. Inserting = {}
  BY DEF Init, Inserting
<1>5. Room
  BY <1>2, <1>4, NamesAssumption DEF Init, Room
<1>6. RenamesTold /\ Found /\ SizeKnown /\ CheckStillGood /\ CrashExplained
  BY DEF Init, RenamesTold, Found, Uploaded, SizeKnown, CheckStillGood, CrashExplained, NoRequest
<1> QED BY <1>1, <1>3, <1>5, <1>6 DEF IInv

LEMMA NextIInv == IInv /\ [Next]_vars => IInv'
<1> SUFFICES ASSUME IInv, [Next]_vars PROVE IInv'
  OBVIOUS
<1>1. ASSUME NEW t \in Thread, Begin(t) \/ Handle(t) PROVE IInv'
  <2>1. TypeOK'
    <3>1. TablesType' /\ DirectoryType' /\ HandlersType' /\ HistoryType'
      BY <1>1, TablesTypeStep, DirectoryTypeStep, HandlersTypeStep, HistoryTypeStep DEF IInv
    <3> QED
      BY <3>1
      DEF TypeOK, TablesType, DirectoryType, HandlersType, HistoryType, Row, LinkRow, Places
  <2> QED
    BY <1>1, <2>1, RowsApartStep, ReferencedStep, RoomStep, RenamesToldStep, FoundStep,
       SizeKnownStep, CheckStep, CrashStep DEF IInv
<1>3. ASSUME NEW t \in Thread, Mistyped(t) PROVE IInv'
  <2>1. terminated' = "assert"
        /\ UNCHANGED << users, links, avatar, out, budget, pc, req, result, acc, size, raced,
        before,
                        acked, renamed >>
    BY <1>3 DEF Mistyped, Terminates, tables, directory, locals, history
  <2> QED
    BY <2>1
    DEF IInv, TypeOK, RowsApart, Referenced, Room, Inserting, RenamesTold, Found, Uploaded,
        SizeKnown, CheckStillGood, CrashExplained
<1>2. CASE UNCHANGED vars
  BY <1>2
  DEF vars, IInv, TypeOK, RowsApart, Referenced, Room, Inserting, RenamesTold, Found, Uploaded,
      SizeKnown, CheckStillGood, CrashExplained, Rows
<1> QED BY <1>1, <1>2, <1>3 DEF Next, Ended

\* The tables, the directory and the handlers fit together in every state.
THEOREM Invariance == Spec => []IInv
BY InitIInv, NextIInv, PTL DEF Spec

\* A handler that was not raced acts on the row whose password it verified
\* (JsonStrategy.cpp:143-161, 383-395).
THEOREM CheckHolds == Spec => []CheckStillGood
<1>1. IInv => CheckStillGood
  BY DEF IInv
<1> QED BY <1>1, Invariance, PTL

\* A login ends the process over its picture only when that may be missing or another handler
\* has changed it meanwhile (MsgBuilder.cpp:96-109).
THEOREM CrashHasReason == Spec => []CrashExplained
<1>1. IInv => CrashExplained
  BY DEF IInv
<1> QED BY <1>1, Invariance, PTL

\* A step that takes a commented link away deletes that device.
LEMMA CommentStep ==
    ASSUME TypeOK, [Next]_vars, NEW l \in links, l.comment, l \notin links'
    PROVE  \E t \in Thread : pc[t] = "run" /\ req[t].op = "delete" /\ req[t].code = l.code
<1>1. PICK t \in Thread : Link(t) \/ Run(t)
  <2>1. PICK t \in Thread : Begin(t) \/ Handle(t)
    BY DEF Next, Ended, Mistyped, Terminates, tables, vars
  <2> QED
    BY <2>1, Zenon
    DEF Begin, Handle, Verify, FileSize, ReadFile, Register, HashFails, Terminates, Move, Update,
        Renamed,
        MoveBack, UpdateBack, SetPassword, OpenPicture, WritePicture, OpenStub, WriteStub, Reply,
        Exec, Refused, tables
<1>2. CASE Link(t)
  <2>1. \A u \in users : links \subseteq Relinked(u.acc, req[t].code)
    BY DEF Relinked
  <2> QED BY <1>2, <2>1 DEF Link, Exec, Refused, tables, Rows
<1>3. CASE Run(t)
  <2> DEFINE mine == { k \in links : /\ \E u \in Rows(req[t].name) : k.acc = u.acc
                                     /\ k.code = req[t].code }
             marked(k) == [k EXCEPT !.comment = TRUE]
  <2>1. pc[t] = "run" /\ req[t].op \in {"list", "comment", "delete"}
    BY <1>3 DEF Run, At
  <2>2. \/ links' = links
        \/ req[t].op = "comment" /\ links' = (links \ mine) \cup { marked(k) : k \in mine }
        \/ req[t].op = "delete" /\ links' = links \ mine
    BY <1>3, <2>1, Zenon DEF Run, Exec
  <2>3. l \in mine => marked(l) = l /\ l.code = req[t].code
    <3>1. l \in LinkRow /\ l.comment = TRUE
      BY DEF TypeOK, LinkRow
    <3> QED BY <3>1 DEF LinkRow
  <2> HIDE DEF mine, marked
  <2> QED BY <2>1, <2>2, <2>3
<1> QED BY <1>1, <1>2, <1>3

\* A comment on a device stays until the device is deleted (JsonStrategy.cpp:157-161).
THEOREM CommentStays == Spec => CommentKept
<1>1. IInv /\ [Next]_vars =>
          [\A l \in links : l.comment /\ l \notin links' =>
              \E t \in Thread : pc[t] = "run" /\ req[t].op = "delete" /\ req[t].code = l.code]_vars
  BY CommentStep DEF IInv
<1> QED BY <1>1, Invariance, PTL DEF Spec, CommentKept

===============================================================================
