----------------------------- MODULE DeviceCode -----------------------------
(***************************************************************************)
(* encode() and decode() of src/MsgHandler/source/JsonStrategy.cpp, on       *)
(* uint32_t.                                                               *)
(*                                                                         *)
(* A word is four bytes, the low one first: what TLC computes with must stay *)
(* below 2^31.                                                             *)
(***************************************************************************)
EXTENDS Integers, FiniteSets, Sequences, Bitwise

-------------------------------------------------------------------------------
(* uint32_t                                                                *)

Billion == 1000000000

Word(n) == << n % 256, (n \div 256) % 256, (n \div 65536) % 256, n \div 16777216 >>

\* Column i of the product, with what the column below carries: the top is lost.
Times(a, b) ==
    LET column(i) == IF i = 1 THEN a[1] * b[1]
                     ELSE IF i = 2 THEN a[1] * b[2] + a[2] * b[1]
                     ELSE IF i = 3 THEN a[1] * b[3] + a[2] * b[2] + a[3] * b[1]
                     ELSE a[1] * b[4] + a[2] * b[3] + a[3] * b[2] + a[4] * b[1]
        sum[i \in 1 .. 4] == column(i) + IF i = 1 THEN 0 ELSE sum[i - 1] \div 256
    IN  [i \in 1 .. 4 |-> sum[i] % 256]

\* a % 1000000000.  A remainder times 256 may exceed 2^31: its millions and what
\* is below them are multiplied apart.
Remainder(a) ==
    LET times256(r) == ((256 * (r \div 1000000)) % 1000) * 1000000 + 256 * (r % 1000000)
        r[i \in 1 .. 4] == IF i = 4 THEN a[4] ELSE (times256(r[i + 1]) + a[i]) % Billion
    IN  r[1]

-------------------------------------------------------------------------------
(* The two functions                                                       *)

Key == << 165, 165, 165, 165 >>     \* 0xA5A5A5A5
Prime == Word(49999)
InvPrime == Word(588625789)

\* Mutant: & for ^.
MixAnd(a) == [i \in 1 .. 4 |-> a[i] & Key[i]]
Mix(a) == [i \in 1 .. 4 |-> a[i] ^^ Key[i]]

encode(i) == Remainder(Times(Mix(Word(i)), Prime))

decode(code) == Mix(Word(Remainder(Times(Word(code), InvPrime))))

-------------------------------------------------------------------------------
(* Properties, over a set W of ids                                         *)

\* encode() keeps the ids of W apart, although it wraps at 2^32 and cuts what is
\* left down to nine digits (JsonStrategy.cpp:72-77).
KeepsApart(W) == Cardinality({ encode(n) : n \in W }) = Cardinality(W)

\* decode() finds the id of a code: its constant is said to be the inverse of
\* 49999 modulo 10^9 (JsonStrategy.cpp:79-85).
Inverts(W) == \A n \in W : decode(encode(n)) = Word(n)
===============================================================================
