------------------------------ MODULE MCAccounts ------------------------------
(* Requests of a few clients, chosen for each question.                     *)
EXTENDS Accounts, TLC

CONSTANTS t1, t2

\* "Ann" and "ann" are one name to the tables and two to the directory.
MCName == {"ann", "Ann", "bob"}
MCFold == [n \in MCName |-> IF n = "Ann" THEN "ann" ELSE n]
MCShort == [n \in MCName |-> n]

OneThread == {t1}
TwoThreads == {t1, t2}
Symmetry == Permutations(TwoThreads)

Login(n, p) == [op |-> "login", name |-> n, password |-> p, code |-> "d"]
Reg(n, p) == [op |-> "register", name |-> n, password |-> p]
Ren(n, m) == [op |-> "rename", name |-> n, new |-> m]
Pass(n, p, q) == [op |-> "password", name |-> n, password |-> p, new |-> q]
Up(n) == [op |-> "upload", name |-> n]
Stub == [op |-> "stub"]
Dev(op, n) == [op |-> op, name |-> n, code |-> "d"]

\* Every kind of request, two passwords, a rename to a free and to a taken name.
Mixed ==
    {Reg("ann", "p"), Reg("Ann", "q"), Login("ann", "p"), Pass("ann", "p", "q"), Up("ann"),
     Stub, Ren("ann", "bob"), Dev("comment", "ann"), Dev("delete", "ann"), Dev("list", "bob")}
\* Clients of one account that know its picture must be there.
Honest == {Reg("ann", "p"), Up("ann"), Login("ann", "p")}
\* Renames among three names, one of them with a picture and no account.
Renames == {Reg("ann", "p"), Reg("bob", "p"), Up("ann"), Up("bob"), Ren("ann", "bob")}
\* A name of more than 15 bytes, which the tables know in full: "Ann" stands for it.
LongShort == [n \in MCName |-> IF n = "Ann" THEN "bob" ELSE n]
Long == {Reg("Ann", "p"), Up("Ann"), Login("Ann", "p")}
===============================================================================
