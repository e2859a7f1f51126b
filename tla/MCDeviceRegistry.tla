--------------------------- MODULE MCDeviceRegistry ---------------------------
(* Three workers register devices in a table that starts empty, its first id 3. *)
EXTENDS DeviceRegistry, DeviceCode, TLC

CONSTANTS t1, t2, t3

MCThread == {t1, t2, t3}
\* The codes of the ids 1 to 7, written out for TLC's sake.
MCEncode ==
    << 263143324, 263293321, 263243322, 262993327,
       262943328, 263093325, 263043326 >>
ASSUME MCEncodeAssumption == \A i \in DOMAIN MCEncode : MCEncode[i] = encode(i)

Symmetry == Permutations(MCThread)

\* Ids that follow each other, where one byte or two bytes carry into the next.
Consecutive == { 1 .. 600, 65300 .. 65800, 16777000 .. 16777500 }

\* Devices whose ids follow each other have different codes: the key on `code`
\* refuses none of them for its code alone (JsonStrategy.cpp:72-77, 105-107).
ASSUME CodesFresh == \A W \in Consecutive : KeepsApart(W)

\* decode() does not find the ids again: its constant is not the inverse of 49999
\* modulo 10^9 that the comment says it is (JsonStrategy.cpp:81).
ASSUME DecodeMisses == \A n \in 1 .. 600 : ~Inverts({n})
===============================================================================
