------------------------- MODULE PayloadCodecProofs -------------------------
(***************************************************************************)
(* For texts of any length, any width of the CRC and any key: what the server *)
(* encrypts it decodes to the same text, and lengths go below zero only where *)
(* ShortExplained says so.                                                  *)
(***************************************************************************)
EXTENDS PayloadCodec, SequenceTheorems, TLAPS

-------------------------------------------------------------------------------
(* The invariant                                                           *)

\* What is encrypted, and the message that is made of it
Signed == text \o Repeat(CrcByte, crc)
Sent ==
    LET cipher == << Iv, "right", Pad(Signed) >>
    IN  [length |-> 1 + IvSize + Len(Pad(Signed)) + HashSize, is_binary |-> kind,
         iv |-> Iv, cipher |-> cipher, sha256 |-> << Iv, cipher >>]

\* What was sent arrived, but perhaps for the first byte.
Intact == fate \in {"whole", "flagged"}
Untouched ==
    Intact /\ stage # "text" =>
        /\ msg.length = Sent.length /\ msg.cipher = Sent.cipher /\ Verified(msg)
        /\ fate = "whole" => msg.is_binary = kind
Binary == stage \notin {"text"} => msg.is_binary \in BOOLEAN

Exact == stage = "built" => msg = Sent

\* What was changed and not hashed again is found out.
Touched ==
    /\ fate = "damaged" => ~Verified(msg) /\ stage \in {"arrived", "parsed", "refused", "terminated"}
    /\ stage \in {"text", "built"} => fate = "whole"

\* A message somebody hashed is no encryption, and as long as its frame.
Forged ==
    fate = "rehashed" => \E n \in Nat : msg.cipher = << Other, "no key", Repeat(0, n) >>

Keyless == key = "none" => stage \notin {"decrypted", "decoded"}

\* What is left of the text and its CRC, by stage
Opened ==
    key = "right" /\ Intact =>
        /\ stage = "decrypted" => out = Shorten(Signed, Crc32Size) /\ Len(Signed) >= Crc32Size
        /\ stage = "decoded" =>
              /\ out = Shorten(Shorten(Signed, Crc32Size), 4) /\ Len(Signed) >= 8
              /\ fate = "whole" => decoder = kind
        /\ stage = "refused" => Len(Signed) < Crc32Size

Ended ==
    stage = "terminated" =>
        \/ fate = "damaged" /\ msg.length < 1 + IvSize + HashSize
        \/ fate = "rehashed"
        \/ key = "right" /\ Len(Signed) < 8
        \/ key = "other"

IInv == TypeOK /\ Exact /\ Untouched /\ Binary /\ Touched /\ Forged /\ Keyless /\ Opened /\ Ended

-------------------------------------------------------------------------------
(* Sequences                                                               *)

Byte == 0 .. 255

LEMMA RepeatFacts ==
    ASSUME NEW S, NEW b \in S, NEW n \in Nat
    PROVE  /\ Repeat(b, n) \in Seq(S) /\ Len(Repeat(b, n)) = n
           /\ \A i \in 1 .. n : Repeat(b, n)[i] = b
BY DEF Repeat

\* What is cut off is the end, and nothing is left of what is shorter.
LEMMA ShortenFacts ==
    ASSUME NEW S, NEW s \in Seq(S), NEW n \in Nat
    PROVE  /\ Shorten(s, n) \in Seq(S)
           /\ Len(Shorten(s, n)) = IF n <= Len(s) THEN Len(s) - n ELSE 0
           /\ \A i \in 1 .. Len(s) - n : Shorten(s, n)[i] = s[i]
<1>1. Len(s) \in Nat /\ \A i \in 1 .. Len(s) : s[i] \in S
  BY ElementOfSeq
<1> DEFINE m == Len(s) - n
<1>2. m \in Int /\ m <= Len(s) /\ \A i \in 1 .. m : s[i] \in S
  BY <1>1
<1>3. /\ SubSeq(s, 1, m) \in Seq(S)
      /\ Len(SubSeq(s, 1, m)) = IF 1 <= m THEN m - 1 + 1 ELSE 0
      /\ \A i \in 1 .. m - 1 + 1 : SubSeq(s, 1, m)[i] = s[1 + i - 1]
  <2> HIDE DEF m
  <2>1. 1 \in Int
    OBVIOUS
  <2> QED BY <1>2, <2>1, SubSeqProperties
<1>4. Len(SubSeq(s, 1, m)) = IF n <= Len(s) THEN Len(s) - n ELSE 0
  BY <1>1, <1>3
<1>5. ASSUME NEW i \in 1 .. m PROVE SubSeq(s, 1, m)[i] = s[i]
  <2>1. i \in 1 .. m - 1 + 1 /\ 1 + i - 1 = i
    BY <1>1
  <2> HIDE DEF m
  <2> QED BY <1>3, <2>1
<1> QED BY <1>3, <1>4, <1>5, Zenon DEF Shorten

\* What was put at the end comes off again.
LEMMA ShortenConcat ==
    ASSUME NEW S, NEW s \in Seq(S), NEW t \in Seq(S), NEW n, n = Len(t)
    PROVE  Shorten(s \o t, n) = s
<1>1. /\ s \o t \in Seq(S) /\ Len(s \o t) = Len(s) + Len(t)
      /\ \A i \in 1 .. Len(s) : (s \o t)[i] = s[i]
  BY ConcatProperties
<1>2. Len(s) \in Nat /\ n \in Nat /\ n <= Len(s \o t) /\ Len(s \o t) - n = Len(s)
  BY <1>1
<1> DEFINE r == Shorten(s \o t, n)
<1>3. r \in Seq(S) /\ Len(r) = Len(s) /\ \A i \in 1 .. Len(s) : r[i] = (s \o t)[i]
  BY <1>1, <1>2, ShortenFacts
<1> HIDE DEF r
<1>4. \A i \in 1 .. Len(r) : r[i] = s[i]
  BY <1>1, <1>3
<1>5. r = s
  BY <1>3, <1>4, SeqEqual
<1> QED BY <1>5 DEF r

\* Cutting twice is cutting once.
LEMMA ShortenTwice ==
    ASSUME NEW S, NEW s \in Seq(S), NEW m \in Nat, NEW n \in Nat, m + n <= Len(s)
    PROVE  Shorten(Shorten(s, m), n) = Shorten(s, m + n)
<1> DEFINE one == Shorten(s, m)
           two == Shorten(one, n)
           both == Shorten(s, m + n)
<1>1. Len(s) \in Nat /\ m + n \in Nat /\ m + n <= Len(s) /\ m <= Len(s)
  OBVIOUS
<1>2. /\ one \in Seq(S) /\ Len(one) = Len(s) - m
      /\ \A i \in 1 .. Len(s) - m : one[i] = s[i]
  BY <1>1, ShortenFacts
<1>3. /\ both \in Seq(S) /\ Len(both) = Len(s) - (m + n)
      /\ \A i \in 1 .. Len(s) - (m + n) : both[i] = s[i]
  BY <1>1, ShortenFacts
<1> HIDE DEF one, both
<1>4. n <= Len(one) /\ Len(one) - n = Len(s) - (m + n) /\ Len(one) \in Nat
  BY <1>1, <1>2
<1>5. /\ two \in Seq(S) /\ Len(two) = Len(s) - (m + n)
      /\ \A i \in 1 .. Len(s) - (m + n) : two[i] = one[i]
  BY <1>2, <1>4, ShortenFacts
<1> HIDE DEF two
<1>6. \A i \in 1 .. Len(two) : two[i] = both[i]
  BY <1>1, <1>2, <1>3, <1>5
<1>7. two = both
  BY <1>3, <1>5, <1>6, SeqEqual
<1> QED BY <1>7 DEF one, two, both

-------------------------------------------------------------------------------
(* The padding                                                             *)

\* There are 1 to 16 bytes of padding, and they fill the last block.
LEMMA PadSize ==
    ASSUME NEW n \in Nat
    PROVE  /\ Padding - (n % Padding) \in 1 .. Padding
           /\ (n + (Padding - (n % Padding))) % Padding = 0
BY DEF Padding

\* The padding of any message, whatever it ends with, is found and comes off exactly
\* (OpensslHandler.cpp:153-170, 214-217).
THEOREM PaddingComesOff ==
    ASSUME NEW s \in Seq(Byte)
    PROVE  /\ Pad(s) \in Seq(Byte) /\ Len(Pad(s)) % Padding = 0 /\ Len(Pad(s)) \in Nat \ {0}
           /\ Unpaddable(Pad(s))
           /\ ~Underflows(Pad(s))
           /\ Shorten(Pad(s), PadValue(Pad(s))) = s
<1> DEFINE p == Padding - (Len(s) % Padding)
           t == Repeat(p, p)
<1>1. Len(s) \in Nat
  OBVIOUS
<1>2. p \in 1 .. Padding /\ (Len(s) + p) % Padding = 0
  BY <1>1, PadSize
<1>3. Pad(s) = s \o t
  BY DEF Pad
<1> HIDE DEF p
<1>4. p \in Byte /\ p \in Nat \ {0}
  BY <1>2 DEF Byte, Padding
<1>5. t \in Seq(Byte) /\ Len(t) = p /\ \A i \in 1 .. p : t[i] = p
  BY <1>4, RepeatFacts
<1> HIDE DEF t
<1>6. /\ Pad(s) \in Seq(Byte) /\ Len(Pad(s)) = Len(s) + p
      /\ \A i \in Len(s) + 1 .. Len(s) + p : Pad(s)[i] = p
  <2>1. /\ s \o t \in Seq(Byte) /\ Len(s \o t) = Len(s) + p
        /\ \A i \in 1 .. Len(s) + p :
              (s \o t)[i] = IF i <= Len(s) THEN s[i] ELSE t[i - Len(s)]
    BY <1>5, ConcatProperties
  <2>2. ASSUME NEW i \in Len(s) + 1 .. Len(s) + p
        PROVE  (s \o t)[i] = p
    <3>1. i \in 1 .. Len(s) + p /\ ~(i <= Len(s)) /\ i - Len(s) \in 1 .. p
      BY <1>1, <1>4
    <3> QED BY <1>5, <2>1, <3>1
  <2> QED BY <1>3, <2>1, <2>2
<1>7. Pad(s)[Len(Pad(s))] = p /\ Len(Pad(s)) - p + 1 = Len(s) + 1
  BY <1>1, <1>4, <1>6
<1>8. Unpaddable(Pad(s)) /\ ~Underflows(Pad(s)) /\ PadValue(Pad(s)) = p
  <2>1. Pad(s) # << >> /\ p <= Len(Pad(s))
    BY <1>1, <1>4, <1>6
  <2>2. PadValue(Pad(s)) = p
    BY <1>7, <2>1 DEF PadValue
  <2>3. Unpaddable(Pad(s))
    BY <1>2, <1>6, <1>7, <2>1, <2>2, Zenon DEF Unpaddable
  <2>4. ~Underflows(Pad(s))
    BY <1>1, <1>4, <1>6, <2>2 DEF Underflows
  <2> QED BY <2>2, <2>3, <2>4
<1>9. Shorten(Pad(s), p) = s
  BY <1>3, <1>5, ShortenConcat
<1>10. Len(Pad(s)) \in Nat \ {0}
  BY <1>1, <1>4, <1>6
<1> QED BY <1>2, <1>6, <1>8, <1>9, <1>10

-------------------------------------------------------------------------------
(* The message                                                             *)

\* What is encrypted is the text with its CRC, which comes off again.
LEMMA SignedFacts ==
    ASSUME TypeOK
    PROVE  /\ Signed \in Seq(Byte) /\ Len(Signed) = Len(text) + crc
           /\ Len(text) \in Nat /\ crc \in Nat \ {0}
           /\ Shorten(Signed, crc) = text
<1>1. text \in Seq(Fill) /\ Fill \subseteq Byte /\ crc \in Nat \ {0}
  BY TextAssumption DEF TypeOK, Byte
<1>2. text \in Seq(Byte)
  BY <1>1
<1>3. CrcByte \in Byte
  BY DEF CrcByte, Byte
<1>4. Repeat(CrcByte, crc) \in Seq(Byte) /\ Len(Repeat(CrcByte, crc)) = crc
  BY <1>1, <1>3, RepeatFacts
<1>5. /\ text \o Repeat(CrcByte, crc) \in Seq(Byte)
      /\ Len(text \o Repeat(CrcByte, crc)) = Len(text) + Len(Repeat(CrcByte, crc))
  BY <1>2, <1>4, ConcatProperties
<1>6. Shorten(text \o Repeat(CrcByte, crc), crc) = text
  BY <1>2, <1>4, ShortenConcat
<1>7. Len(text) \in Nat
  BY <1>2
<1> QED BY <1>1, <1>4, <1>5, <1>6, <1>7, Zenon DEF Signed

\* The fields of the message that is sent
LEMMA SentFacts ==
    ASSUME TypeOK
    PROVE  /\ Sent.length \in Nat /\ Sent.length >= 1 + IvSize + HashSize
           /\ (Sent.length - 1 - IvSize - HashSize) % Padding = 0
           /\ Sent.cipher[3] = Pad(Signed) /\ Verified(Sent)
<1> DEFINE plain == Pad(Signed)
<1>1. Len(plain) \in Nat \ {0} /\ Len(plain) % Padding = 0
  BY SignedFacts, PaddingComesOff
<1> HIDE DEF plain
<1>2. /\ Sent.length = 1 + IvSize + Len(plain) + HashSize
      /\ Sent.cipher = << Iv, "right", plain >> /\ Sent.iv = Iv /\ Sent.sha256 = << Iv, Sent.cipher >>
  BY Zenon DEF Sent, plain
<1>3. /\ Sent.length \in Nat /\ Sent.length >= 1 + IvSize + HashSize
      /\ Sent.length - 1 - IvSize - HashSize = Len(plain)
  BY <1>1, <1>2 DEF IvSize, HashSize
<1>4. Verified(Sent)
  BY <1>2 DEF Verified
<1>5. Sent.cipher[3] = plain
  BY <1>2
<1> QED BY <1>1, <1>3, <1>4, <1>5 DEF plain

\* A changed part is found out: SHA256 stands for its argument.
LEMMA Changed ==
    ASSUME NEW part \in {"iv", "cipher", "sha256"}
    PROVE  ~Verified([Sent EXCEPT ![part] = Other])
<1> DEFINE cipher == << Iv, "right", Pad(Signed) >>
           length == 1 + IvSize + Len(Pad(Signed)) + HashSize
<1>1. Sent = [length |-> length, is_binary |-> kind, iv |-> Iv, cipher |-> cipher, sha256 |-> << Iv, cipher >>]
  BY Zenon DEF Sent
<1>2. Iv # Other /\ cipher # Other /\ << Iv, cipher >> # Other
  BY DEF Iv, Other
<1> HIDE DEF cipher, length
<1>3. CASE part = "iv"
  BY <1>1, <1>2, <1>3 DEF Verified
<1>4. CASE part = "cipher"
  BY <1>1, <1>2, <1>4 DEF Verified
<1>5. CASE part = "sha256"
  BY <1>1, <1>2, <1>5 DEF Verified
<1> QED BY <1>3, <1>4, <1>5

\* So is a cut one.
LEMMA CutOff ==
    ASSUME NEW l
    PROVE  ~Verified([Sent EXCEPT !.length = l, !.cipher = Other, !.sha256 = Other])
<1> DEFINE m == [Sent EXCEPT !.length = l, !.cipher = Other, !.sha256 = Other]
<1>1. m.sha256 = Other
  BY DEF Sent
<1>2. \A x, y : << x, y >> # Other
  BY DEF Other
<1> QED BY <1>1, <1>2 DEF Verified

-------------------------------------------------------------------------------
(* The steps                                                               *)

\* Nothing of the message as it was sent moves after it was built.
LEMMA SentStays ==
    ASSUME UNCHANGED << text, crc, kind >>
    PROVE  Sent' = Sent /\ Signed' = Signed
BY Zenon DEF Sent, Signed, Pad

LEMMA InitInv == Init => IInv
<1> SUFFICES ASSUME Init PROVE IInv
  OBVIOUS
<1>1. text \in Seq(Fill)
  <2>1. PICK n \in 0 .. MaxText, f \in Fill : text = Repeat(f, n)
    BY DEF Init
  <2> QED BY <2>1, RepeatFacts, TextAssumption
<1>2. << >> \in Seq(0 .. 255)
  OBVIOUS
<1>3. /\ stage = "text" /\ crc \in CrcSizes /\ key \in {"none", "right", "other"}
      /\ out = << >> /\ decoder = FALSE /\ fate = "whole" /\ kind \in BOOLEAN
  BY Zenon DEF Init
<1>4. TypeOK
  BY <1>1, <1>2, <1>3 DEF TypeOK
<1> QED
  BY <1>3, <1>4
  DEF IInv, Exact, Untouched, Intact, Binary, Touched, Forged, Keyless, Opened, Ended

LEMMA BuildInv ==
    ASSUME IInv, Build
    PROVE  IInv'
<1>1. /\ stage = "text" /\ stage' = "built" /\ msg' = Sent
      /\ UNCHANGED << text, crc, kind, key, out, decoder, fate >>
  BY Zenon DEF Build, Go, Sent, Signed
<1>2. Sent' = Sent
  BY <1>1, SentStays
<1>3. TypeOK' /\ fate = "whole"
  BY <1>1 DEF IInv, TypeOK, Touched
<1>4. Verified(msg') /\ msg'.is_binary = kind /\ kind \in BOOLEAN
  BY <1>1, SentFacts DEF IInv, Sent, TypeOK
<1> QED
  BY <1>1, <1>2, <1>3, <1>4
  DEF IInv, Exact, Untouched, Intact, Binary, Touched, Forged, Keyless, Opened, Ended, Verified

LEMMA ArriveInv ==
    ASSUME IInv, Arrive
    PROVE  IInv'
<1>1. /\ stage = "built" /\ stage' = "arrived"
      /\ UNCHANGED << text, crc, kind, key, out, decoder >>
  BY DEF Arrive, Go
<1>2. /\ Sent' = Sent /\ fate = "whole" /\ msg.length = Sent.length
      /\ msg.cipher = Sent.cipher /\ Verified(msg) /\ msg.is_binary = kind /\ kind \in BOOLEAN
  BY <1>1, SentStays DEF IInv, Exact, Untouched, Intact, Touched, TypeOK
<1>3. CASE UNCHANGED << msg, fate >>
  <2>1. TypeOK'
    BY <1>1, <1>2, <1>3, SentFacts DEF IInv, TypeOK
  <2> QED
    BY <1>1, <1>2, <1>3, <2>1
    DEF IInv, Exact, Untouched, Intact, Binary, Touched, Forged, Keyless, Opened, Ended, Verified
<1>4. CASE /\ fate' = "damaged"
           /\ \/ \E l : msg' = [msg EXCEPT !.length = l, !.cipher = Other, !.sha256 = Other]
              \/ \E part \in {"iv", "cipher", "sha256"} : msg' = [msg EXCEPT ![part] = Other]
  <2>1. msg = Sent
    BY <1>1, <1>2 DEF IInv, Exact
  <2>2. ~Verified(msg')
    BY <1>4, <2>1, Changed, CutOff, Zenon
  <2>3. msg'.is_binary = kind
    BY <1>4, <2>1 DEF Sent
  <2>4. TypeOK'
    BY <1>1, <1>4 DEF IInv, TypeOK
  <2> QED
    BY <1>1, <1>2, <1>4, <2>2, <2>3, <2>4
    DEF IInv, Exact, Untouched, Intact, Binary, Touched, Forged, Keyless, Opened, Ended, Verified
<1>5. CASE msg' = [msg EXCEPT !.is_binary = ~kind] /\ fate' = "flagged"
  <2>1. msg = Sent
    BY <1>1, <1>2 DEF IInv, Exact
  <2>2. /\ msg'.length = Sent.length /\ msg'.cipher = Sent.cipher /\ Verified(msg')
        /\ msg'.is_binary \in BOOLEAN
    BY <1>2, <1>5, <2>1 DEF Sent, Verified
  <2>3. TypeOK'
    BY <1>1, <1>5 DEF IInv, TypeOK
  <2> QED
    BY <1>1, <1>2, <1>5, <2>2, <2>3
    DEF IInv, Exact, Untouched, Intact, Binary, Touched, Forged, Keyless, Opened, Ended, Verified
<1>6. ASSUME NEW n \in 0 .. MaxText, NEW b \in BOOLEAN, NEW cipher,
             cipher = << Other, "no key", Repeat(0, n) >>,
             msg' = [length |-> 1 + IvSize + n + HashSize, is_binary |-> b,
                     iv |-> Other, cipher |-> cipher, sha256 |-> << Other, cipher >>],
             fate' = "rehashed"
      PROVE  IInv'
  <2>1. n \in Nat
    BY TextAssumption
  <2>2. msg'.cipher = << Other, "no key", Repeat(0, n) >> /\ msg'.is_binary \in BOOLEAN
    BY <1>6
  <2>3. TypeOK'
    BY <1>1, <1>6 DEF IInv, TypeOK
  <2> QED
    BY <1>1, <1>6, <2>1, <2>2, <2>3
    DEF IInv, Exact, Untouched, Intact, Binary, Touched, Forged, Keyless, Opened, Ended, Verified
<1> QED BY <1>3, <1>4, <1>5, <1>6, Zenon DEF Arrive

LEMMA ParseInv ==
    ASSUME IInv, Parse
    PROVE  IInv'
<1>1. /\ stage = "arrived" /\ UNCHANGED << text, crc, kind, msg, key, out, decoder, fate >>
      /\ IF msg.length < 1 + IvSize + HashSize
         THEN stage' \in {"terminated", "refused"}
         ELSE stage' = "parsed"
  BY DEF Parse
<1>2. Sent' = Sent
  BY <1>1, SentStays
<1>3. Intact => msg.length \in Nat /\ msg.length >= 1 + IvSize + HashSize
  BY <1>1, SentFacts DEF IInv, Untouched
<1>4. TypeOK'
  BY <1>1 DEF IInv, TypeOK
<1>5. CASE msg.length < 1 + IvSize + HashSize
  <2>1. fate \in {"damaged", "rehashed"}
    BY <1>3, <1>5 DEF IvSize, HashSize, Intact, IInv, TypeOK
  <2> QED
    BY <1>1, <1>4, <1>5, <2>1
    DEF IInv, Exact, Untouched, Intact, Binary, Touched, Forged, Keyless, Opened, Ended, Verified
<1>6. CASE ~(msg.length < 1 + IvSize + HashSize)
  BY <1>1, <1>2, <1>4, <1>6
  DEF IInv, Exact, Untouched, Intact, Binary, Touched, Forged, Keyless, Opened, Ended, Verified
<1> QED BY <1>5, <1>6

\* The plaintext is the third part of a cipher.
LEMMA Third ==
    ASSUME NEW t, NEW x, NEW y, NEW z, t = << x, y, z >>
    PROVE  t[3] = z
OBVIOUS

\* What comes out of the cipher is bytes, of a length there is.
LEMMA PlainFacts ==
    ASSUME IInv, stage = "parsed", Verified(msg), NEW plain \in Plain(msg.cipher)
    PROVE  /\ plain \in Seq(Byte)
           /\ Intact => (key = "right" => plain = Pad(Signed))
<1> DEFINE c == msg.cipher[3]
<1>1. {0, 1, Padding} \subseteq Byte /\ 0 \in Byte
  BY DEF Byte, Padding
<1>2. CASE Intact
  <2>1. c = Pad(Signed) /\ msg.cipher[2] = "right"
    BY <1>2, SentFacts DEF IInv, Untouched, Sent
  <2>2. c \in Seq(Byte) /\ Len(c) \in Nat
    BY <2>1, SignedFacts, PaddingComesOff DEF IInv
  <2>3. \A b \in {0, 1, Padding} : Repeat(b, Len(c)) \in Seq(Byte)
    BY <1>1, <2>2, RepeatFacts
  <2> QED BY <2>1, <2>2, <2>3, Zenon DEF Plain
<1>3. CASE fate = "rehashed"
  <2>1. PICK n \in Nat : msg.cipher = << Other, "no key", Repeat(0, n) >>
    BY <1>3 DEF IInv, Forged
  <2>2. c = Repeat(0, n)
    BY <2>1, Third
  <2>4. c \in Seq(Byte) /\ Len(c) = n
    BY <1>1, <2>2, RepeatFacts, Zenon
  <2>3. \A b \in {0, 1, Padding} : Repeat(b, Len(c)) \in Seq(Byte)
    BY <1>1, <2>4, RepeatFacts
  <2> QED BY <1>3, <2>4, <2>3 DEF Plain, Intact
<1>4. CASE fate = "damaged"
  BY <1>4 DEF IInv, Touched
<1> QED BY <1>2, <1>3, <1>4 DEF IInv, TypeOK, Intact

\* What aesEncrypt padded is unpadded to what it was given.
LEMMA DecryptInv ==
    ASSUME IInv, Decrypt
    PROVE  IInv'
<1>1. stage = "parsed" /\ UNCHANGED << text, crc, kind, msg, key, decoder, fate >>
  BY DEF Decrypt, VerifyAndDecrypt, Go
<1>2. Sent' = Sent /\ Signed' = Signed
  BY <1>1, SentStays
<1>3. CASE Go("parsed", "refused") /\ (~Verified(msg) \/ key = "none") /\ UNCHANGED out
  <2>1. TypeOK'
    BY <1>1, <1>3 DEF IInv, TypeOK, Go
  <2>2. ~(key = "right" /\ Intact)
    BY <1>1, <1>3 DEF IInv, Untouched
  <2> QED
    BY <1>1, <1>2, <1>3, <2>1, <2>2
    DEF IInv, Exact, Untouched, Intact, Binary, Touched, Forged, Keyless, Opened, Ended, Verified, Go
<1>4. ASSUME Verified(msg), key # "none", NEW plain \in Plain(msg.cipher), NEW rest,
             rest = IF Unpaddable(plain) THEN Shorten(plain, PadValue(plain)) ELSE << >>,
             \/ Underflows(plain) /\ stage' = "terminated" /\ UNCHANGED out
             \/ ~Underflows(plain) /\ Len(rest) < Crc32Size /\ stage' = "refused" /\ UNCHANGED out
             \/ /\ ~Underflows(plain) /\ Len(rest) >= Crc32Size
                /\ stage' = "decrypted" /\ out' = Shorten(rest, Crc32Size)
      PROVE  IInv'
  <2>1. /\ plain \in Seq(Byte) /\ fate # "damaged" /\ key \in {"right", "other"}
        /\ Signed \in Seq(Byte) /\ Len(Signed) \in Nat
    BY <1>1, <1>4, PlainFacts, SignedFacts DEF IInv, Touched, TypeOK
  <2>2. Intact /\ key = "right" => rest = Signed /\ ~Underflows(plain)
    <3>1. Intact /\ key = "right" => plain = Pad(Signed)
      BY <1>1, <1>4, PlainFacts
    <3>2. /\ Unpaddable(Pad(Signed)) /\ Shorten(Pad(Signed), PadValue(Pad(Signed))) = Signed
          /\ ~Underflows(Pad(Signed))
      BY SignedFacts, PaddingComesOff DEF IInv
    <3> QED BY <1>4, <3>1, <3>2
  <2>3. rest \in Seq(Byte)
    <3>1. CASE Unpaddable(plain)
      <4>1. PadValue(plain) \in Nat
        BY <3>1 DEF Unpaddable, Padding
      <4> QED BY <1>4, <2>1, <3>1, <4>1, ShortenFacts
    <3>2. CASE ~Unpaddable(plain)
      BY <1>4, <3>2
    <3> QED BY <3>1, <3>2
  <2>4. Shorten(rest, Crc32Size) \in Seq(Byte)
    BY <2>3, ShortenFacts DEF Crc32Size
  <2>5. TypeOK'
    BY <1>1, <1>4, <2>4 DEF IInv, TypeOK, Byte
  <2>6. Exact' /\ Untouched' /\ Binary' /\ Touched' /\ Forged' /\ Keyless'
    BY <1>1, <1>2, <1>4, <2>1
    DEF IInv, Exact, Untouched, Intact, Binary, Touched, Forged, Keyless, Verified
  <2>7. Ended'
    BY <1>1, <1>2, <1>4, <2>1, <2>2 DEF IInv, TypeOK, Intact, Ended
  <2>8. Opened'
    BY <1>1, <1>2, <1>4, <2>1, <2>2 DEF Opened, Intact, Crc32Size
  <2> QED BY <2>5, <2>6, <2>7, <2>8 DEF IInv
<1> QED BY <1>3, <1>4, Zenon DEF Decrypt, VerifyAndDecrypt

LEMMA DealClientInv ==
    ASSUME IInv, DealClient
    PROVE  IInv'
<1>1. /\ stage = "decrypted" /\ stage' \in {"terminated", "decoded"}
      /\ UNCHANGED << text, crc, kind, msg, key, fate >>
  BY DEF DealClient, Go
<1>2. Sent' = Sent /\ Signed' = Signed
  BY <1>1, SentStays
<1>3. /\ fate # "damaged" /\ key \in {"right", "other"}
      /\ out \in Seq(Byte) /\ Len(Signed) \in Nat /\ Signed \in Seq(Byte)
  BY <1>1, SignedFacts DEF IInv, Touched, Keyless, TypeOK, Byte
<1>4. Intact /\ key = "right" =>
        out = Shorten(Signed, Crc32Size) /\ Len(Signed) >= Crc32Size /\ Len(out) = Len(Signed) - 4
  <2>1. Intact /\ key = "right" => out = Shorten(Signed, Crc32Size) /\ Len(Signed) >= Crc32Size
    BY <1>1 DEF IInv, Opened
  <2>2. Len(Signed) >= 4 => Len(Shorten(Signed, 4)) = Len(Signed) - 4
    BY <1>3, ShortenFacts
  <2> QED BY <2>1, <2>2 DEF Crc32Size
<1>5. Exact' /\ Untouched' /\ Binary' /\ Touched' /\ Forged' /\ Keyless'
  BY <1>1, <1>2, <1>3
  DEF IInv, Exact, Untouched, Intact, Binary, Touched, Forged, Keyless, Verified
<1>6. CASE Len(out) < 4 /\ Go("decrypted", "terminated") /\ UNCHANGED << out, decoder >>
  <2>1. TypeOK'
    BY <1>1, <1>6 DEF IInv, TypeOK, Go
  <2>2. Intact /\ key = "right" => Len(Signed) < 8
    BY <1>3, <1>4, <1>6
  <2> QED BY <1>1, <1>2, <1>3, <1>5, <1>6, <2>1, <2>2 DEF IInv, TypeOK, Intact, Opened, Ended, Go
<1>7. CASE /\ Len(out) >= 4 /\ Go("decrypted", "decoded")
           /\ out' = Shorten(out, 4) /\ decoder' = msg.is_binary
  <2>1. Shorten(out, 4) \in Seq(Byte) /\ msg.is_binary \in BOOLEAN
    BY <1>1, <1>3, ShortenFacts DEF IInv, Binary
  <2>2. TypeOK'
    BY <1>1, <1>7, <2>1 DEF IInv, TypeOK, Go, Byte
  <2>3. Intact /\ key = "right" =>
          Len(Signed) >= 8 /\ out' = Shorten(Shorten(Signed, Crc32Size), 4)
    BY <1>3, <1>4, <1>7
  <2>4. fate = "whole" => msg.is_binary = kind
    BY <1>1 DEF IInv, Exact, Untouched, Intact
  <2> QED BY <1>1, <1>2, <1>5, <1>7, <2>2, <2>3, <2>4 DEF IInv, Intact, Opened, Ended, Go
<1> QED BY <1>6, <1>7, Zenon DEF DealClient

\* The inductive invariant, by stage: what was sent or only flagged verifies and opens to what was
\* signed, what was damaged never verifies, and what somebody hashed is no encryption.
THEOREM Invariance == Spec => []IInv
<1>1. IInv /\ [Next]_vars => IInv'
  <2> SUFFICES ASSUME IInv, [Next]_vars PROVE IInv'
    OBVIOUS
  <2>1. CASE Build BY <2>1, BuildInv
  <2>2. CASE Arrive BY <2>2, ArriveInv
  <2>3. CASE Parse BY <2>3, ParseInv
  <2>4. CASE Decrypt BY <2>4, DecryptInv
  <2>5. CASE DealClient BY <2>5, DealClientInv
  <2>6. CASE UNCHANGED vars
    <3>1. UNCHANGED << stage, text, crc, kind, msg, key, out, decoder, fate >>
      BY <2>6 DEF vars
    <3>2. Sent' = Sent /\ Signed' = Signed
      BY <3>1, SentStays
    <3>3. TypeOK'
      BY <3>1 DEF IInv, TypeOK
    <3> QED
      BY <3>1, <3>2, <3>3
      DEF IInv, Exact, Untouched, Intact, Binary, Touched, Forged, Keyless, Opened, Ended, Verified
  <2> QED BY <2>1, <2>2, <2>3, <2>4, <2>5, <2>6 DEF Next
<1> QED BY <1>1, InitInv, PTL DEF Spec

\* What the server encrypts it decodes to the same text, for texts of every length, and hands it
\* to the decoder it was meant for unless the first byte was changed; what was damaged and not
\* hashed again, or came without a key, it never decodes
\* (OpensslHandler.cpp:84, 102-186, 205-245, Server.cpp:20-22).
THEOREM DecodesWhatWasSent == Spec => []RoundTrip
<1>1. IInv => RoundTrip
  <2> SUFFICES ASSUME IInv PROVE RoundTrip
    OBVIOUS
  <2>1. ASSUME fate \in {"whole", "flagged"}, key = "right", crc = 8
        PROVE  /\ stage \notin {"refused", "terminated"}
               /\ stage = "decoded" => out = text /\ (fate = "whole" => decoder = kind)
    <3>1. /\ Signed \in Seq(Byte) /\ Len(Signed) = Len(text) + 8 /\ Len(text) \in Nat
          /\ Shorten(Signed, 8) = text
      BY <2>1, SignedFacts DEF IInv
    <3>2. Len(Signed) \in Nat /\ Len(Signed) >= 8
      BY <3>1
    <3>3. stage \notin {"refused", "terminated"}
      BY <2>1, <3>2 DEF IInv, Intact, Opened, Ended, Crc32Size
    <3>4. Shorten(Shorten(Signed, 4), 4) = Shorten(Signed, 4 + 4)
      BY <3>1, <3>2, ShortenTwice
    <3> QED BY <2>1, <3>1, <3>3, <3>4 DEF IInv, Intact, Opened, Crc32Size
  <2>2. fate = "damaged" \/ key = "none" => stage \notin {"decrypted", "decoded"}
    BY DEF IInv, Touched, Keyless
  <2> QED BY <2>1, <2>2, Zenon DEF RoundTrip
<1> QED BY <1>1, Invariance, PTL

\* Lengths go below zero only for the messages that are named
\* (OpensslHandler.cpp:92, 162, Server.cpp:20).
THEOREM ShortHasReason == Spec => []ShortExplained
<1>1. IInv => ShortExplained
  <2> SUFFICES ASSUME IInv PROVE ShortExplained
    OBVIOUS
  <2>1. Len(Signed) = Len(text) + crc
    BY SignedFacts DEF IInv
  <2> QED BY <2>1 DEF IInv, Ended, ShortExplained
<1> QED BY <1>1, Invariance, PTL

===============================================================================
