---------------------------- MODULE PayloadCodec ----------------------------
(***************************************************************************)
(* How a message is wrapped (MsgBuilder::buildMsg, OpensslHandler::           *)
(* aesEncrypt) and unwrapped (parseMsgPayload, verifyAndDecrypt, dealClient): *)
(*                                                                         *)
(*     is_binary  iv  AES(text crc padding)  SHA256(iv, cipher)              *)
(*         1      16                             32                         *)
(*                                                                         *)
(* AES-CBC is the record of what it was given; SHA256 is its argument.       *)
(***************************************************************************)
EXTENDS Integers, Sequences

CONSTANTS
    MaxText,    \* bound of the model: bytes of a text
    Fill,       \* the bytes texts are made of
    CrcSizes    \* sizeof(uLong) of those who encrypt: 8 in the server on Linux

ASSUME TextAssumption ==
    MaxText \in Nat /\ Fill \subseteq 0 .. 255 /\ CrcSizes \subseteq Nat \ {0}

VARIABLES
    stage,      \* how far the message has come
    text, crc,  \* what was encrypted, with how many bytes of CRC
    kind,       \* whether the sender means the text for the binary decoder
    msg,        \* the message: its length, and its parts as they arrived
    key,        \* the key the server has for the socket
    out,        \* result_vec
    decoder,    \* the is_binary MsgDecoder::decode was called with
    fate        \* history: what became of the message on its way

vars == << stage, text, crc, kind, msg, key, out, decoder, fate >>

IvSize == 16
HashSize == 32
Padding == 16       \* AES_BLOCK_SIZE
CrcByte == 99
Iv == << "iv" >>
Other == << "other" >>      \* bytes that were not sent

Repeat(b, n) == [i \in 1 .. n |-> b]
Shorten(s, n) == SubSeq(s, 1, Len(s) - n)

TypeOK ==
    /\ stage \in {"text", "built", "arrived", "parsed", "decrypted", "decoded", "refused", "terminated"}
    /\ text \in Seq(Fill) /\ crc \in CrcSizes
    /\ key \in {"none", "right", "other"} /\ kind \in BOOLEAN /\ decoder \in BOOLEAN
    /\ fate \in {"whole", "flagged", "damaged", "rehashed"}
    /\ out \in Seq(0 .. 255)
    /\ stage \in {"arrived", "parsed"} /\ fate = "whole" =>
          (msg.length - 1 - IvSize - HashSize) % Padding = 0

Init ==
    /\ stage = "text"
    /\ \E n \in 0 .. MaxText, f \in Fill : text = Repeat(f, n)
    /\ crc \in CrcSizes
    /\ key \in {"none", "right", "other"}
    /\ kind \in BOOLEAN
    /\ msg = << >> /\ out = << >> /\ decoder = FALSE /\ fate = "whole"

Go(from, to) == stage = from /\ stage' = to

-------------------------------------------------------------------------------

\* Mutant: no padding when the blocks come out even.
PadLessOften(s) == LET p == (Padding - (Len(s) % Padding)) % Padding IN s \o Repeat(p, p)
\* PKCS#7: there is always some.
Pad(s) == LET p == Padding - (Len(s) % Padding) IN s \o Repeat(p, p)

\* aesEncrypt and buildMsg
Build ==
    /\ Go("text", "built")
    /\ LET plain == Pad(text \o Repeat(CrcByte, crc))
           cipher == << Iv, "right", plain >>
       IN  msg' = [length |-> 1 + IvSize + Len(plain) + HashSize, is_binary |-> kind,
                   iv |-> Iv, cipher |-> cipher, sha256 |-> << Iv, cipher >>]
    /\ UNCHANGED << text, crc, kind, key, out, decoder, fate >>

\* The message arrives as it was; it was cut, or a part the hash covers was changed;
\* its first byte was, which the hash does not cover; or somebody wrote a message of
\* any length that is no encryption of anything, and hashed it: no key is in the hash.
Arrive ==
    /\ Go("built", "arrived")
    /\ \/ UNCHANGED << msg, fate >>
       \/ /\ \/ \E l \in 1 .. msg.length - 1 :
                   msg' = [msg EXCEPT !.length = l, !.cipher = Other, !.sha256 = Other]
             \/ \E part \in {"iv", "cipher", "sha256"} : msg' = [msg EXCEPT ![part] = Other]
          /\ fate' = "damaged"
       \/ msg' = [msg EXCEPT !.is_binary = ~kind] /\ fate' = "flagged"
       \/ \E n \in 0 .. MaxText, b \in BOOLEAN :
             LET cipher == << Other, "no key", Repeat(0, n) >>
             IN  /\ msg' = [length |-> 1 + IvSize + n + HashSize, is_binary |-> b,
                            iv |-> Other, cipher |-> cipher, sha256 |-> << Other, cipher >>]
                 /\ fate' = "rehashed"
    /\ UNCHANGED << text, crc, kind, key, out, decoder >>

\* parseMsgPayload: length is a uint32_t, and length - 16 - 32 - 1 of a shorter message
\* is almost 2^32.  That much is copied from behind the message: there is no memory for
\* it, or none to read from, and the process ends; else the hash is another.
Parse ==
    /\ stage = "arrived"
    /\ IF msg.length < 1 + IvSize + HashSize
       THEN stage' \in {"terminated", "refused"}
       ELSE stage' = "parsed"
    /\ UNCHANGED << text, crc, kind, msg, key, out, decoder, fate >>

Verified(m) == m.sha256 = << m.iv, m.cipher >>

\* Under another key anything may come out, of the same length, and so it may of a
\* cipher that is not made of whole blocks.
Plain(c) ==
    IF key = c[2] THEN { c[3] } ELSE { Repeat(b, Len(c[3])) : b \in {0, 1, Padding} }

\* padding_size
PadValue(s) == IF s = << >> THEN 0 ELSE s[Len(s)]

\* size() - padding_size goes below zero: the loop over the padding has nothing to look
\* at, and resize() throws what nobody catches in the task.
Underflows(s) == PadValue(s) \in 1 .. Padding /\ PadValue(s) > Len(s)

Unpaddable(s) ==
    /\ PadValue(s) \in 1 .. Padding /\ PadValue(s) <= Len(s)
    /\ \A i \in Len(s) - PadValue(s) + 1 .. Len(s) : s[i] = PadValue(s)

\* Mutant: the width aesEncrypt uses.
Crc32SizeLong == 8
\* sizeof(uint32_t)
Crc32Size == 4

\* Nothing is left of what has no padding, and that is too short for a CRC as well.
VerifyAndDecrypt ==
    \/ /\ Go("parsed", "refused")
       /\ ~Verified(msg) \/ key = "none"
       /\ UNCHANGED out
    \/ /\ stage = "parsed" /\ Verified(msg) /\ key # "none"
       /\ \E plain \in Plain(msg.cipher) :
             LET rest == IF Unpaddable(plain) THEN Shorten(plain, PadValue(plain)) ELSE << >>
             IN  \/ Underflows(plain) /\ stage' = "terminated" /\ UNCHANGED out
                \/ /\ ~Underflows(plain) /\ Len(rest) < Crc32Size
                   /\ stage' = "refused" /\ UNCHANGED out
                \/ /\ ~Underflows(plain) /\ Len(rest) >= Crc32Size
                   /\ stage' = "decrypted" /\ out' = Shorten(rest, Crc32Size)

Decrypt == VerifyAndDecrypt /\ UNCHANGED << text, crc, kind, msg, key, decoder, fate >>

\* dealClient takes four bytes more: resize() throws when there are fewer.  The rest goes
\* to the decoder the first byte names.
DealClient ==
    /\ \/ Len(out) < 4 /\ Go("decrypted", "terminated") /\ UNCHANGED << out, decoder >>
       \/ /\ Len(out) >= 4 /\ Go("decrypted", "decoded")
          /\ out' = Shorten(out, 4) /\ decoder' = msg.is_binary
    /\ UNCHANGED << text, crc, kind, msg, key, fate >>

Next == Build \/ Arrive \/ Parse \/ Decrypt \/ DealClient

Spec == Init /\ [][Next]_vars

-------------------------------------------------------------------------------
(* Properties                                                              *)

\* What the server encrypts with its eight bytes of CRC, it decodes to the same text:
\* verifyAndDecrypt and dealClient take four of them each, and the padding comes off
\* exactly, whatever the text ends with.  It goes to the decoder it was meant for unless
\* the first byte was changed.  A message that was cut, or whose iv, cipher or hash was
\* changed and not hashed again, is never decoded, and neither is one of a socket without
\* a key (OpensslHandler.cpp:84, 102-114, 126-139, 152-183, 207-217, Server.cpp:20-22).
RoundTrip ==
    /\ fate \in {"whole", "flagged"} /\ key = "right" /\ crc = 8 =>
          /\ stage \notin {"refused", "terminated"}
          /\ stage = "decoded" => out = text /\ (fate = "whole" => decoder = kind)
    /\ fate = "damaged" \/ key = "none" => stage \notin {"decrypted", "decoded"}

\* The arithmetic on lengths goes below zero, and ends the process, only for a message
\* shorter than its frame, for one whose sender counts the CRC in four bytes and sends
\* fewer than four more, under another client's key, or for one that somebody made of
\* other bytes and hashed (OpensslHandler.cpp:92, 162, Server.cpp:20).
ShortExplained ==
    stage = "terminated" =>
        \/ msg.length < 1 + IvSize + HashSize
        \/ Len(text) + crc < 8
        \/ key = "other"
        \/ fate = "rehashed"

\* A text the server can read goes to the decoder its sender meant.  It does not: the byte
\* that names the decoder is outside the hash (OpensslHandler.cpp:84, 126-129).
DecoderRight ==
    stage = "decoded" /\ key = "right" /\ fate # "rehashed" => decoder = kind

\* verifyAndDecrypt takes the CRC off what aesEncrypt made (its comment at
\* OpensslHandler.cpp:178 says so, and how long the CRC is).
CrcRemoved ==
    stage = "decrypted" /\ key = "right" /\ crc = 8 /\ fate = "whole" => out = text
===============================================================================
