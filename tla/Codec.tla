-------------------------------- MODULE Codec --------------------------------
(***************************************************************************)
(* The base64 of openhawk-memory, written out there bit by bit.  A byte is *)
(* a number below 256; a character is its place in the alphabet, Pad for   *)
(* '=' or Other for one that is not base64.                                *)
(***************************************************************************)
EXTENDS Integers, Sequences, FiniteSets, Filters

CONSTANTS
    Bytes, Chars,    \* the bytes and characters of the inputs
    MaxBytes, MaxChars   \* bounds: lengths of the inputs

VARIABLES data, text     \* the input of an encoding, and of a decoding

vars == <<data, text>>

Pad == 64
Other == 65
Error == <<256>>         \* no sequence of bytes

Byte(chunk, i) == IF i <= Len(chunk) THEN chunk[i] ELSE 0

(* Mutant: the second character takes the upper bits of the wrong byte. *)
EncodeChunk_Shift(c) ==
    << Byte(c, 1) \div 4,
       ((Byte(c, 1) % 4) * 16) + (Byte(c, 2) \div 32),
       IF Len(c) > 1 THEN ((Byte(c, 2) % 16) * 4) + (Byte(c, 3) \div 64) ELSE Pad,
       IF Len(c) > 2 THEN Byte(c, 3) % 64 ELSE Pad >>

EncodeChunk(c) ==
    << Byte(c, 1) \div 4,
       ((Byte(c, 1) % 4) * 16) + (Byte(c, 2) \div 16),
       IF Len(c) > 1 THEN ((Byte(c, 2) % 16) * 4) + (Byte(c, 3) \div 64) ELSE Pad,
       IF Len(c) > 2 THEN Byte(c, 3) % 64 ELSE Pad >>

base64_encode(s) == Joined([i \in DOMAIN Chunks(s, 3) |-> EncodeChunk(Chunks(s, 3)[i])])

val(c) == c % 64

(* The shifts drop the bits that do not fit, and padding is looked for only in
   the third and the fourth place, of every group. *)
DecodeChunk(c) ==
    <<((val(c[1]) * 4) % 256) + (val(c[2]) \div 16)>>
    \o (IF c[3] = Pad THEN <<>> ELSE <<((val(c[2]) * 16) % 256) + (val(c[3]) \div 4)>>)
    \o (IF c[4] = Pad THEN <<>> ELSE <<((val(c[3]) * 64) % 256) + val(c[4])>>)

base64_decode(s) ==
    IF Len(s) % 4 # 0 \/ \E i \in DOMAIN s : s[i] = Other THEN Error
    ELSE Joined([i \in DOMAIN Chunks(s, 4) |-> DecodeChunk(Chunks(s, 4)[i])])

--------------------------------------------------------------------------------
Init == data = <<>> /\ text = <<>>

Next ==
    \/ text = <<>> /\ Len(data) < MaxBytes /\ \E b \in Bytes : data' = Append(data, b) /\ UNCHANGED text
    \/ data = <<>> /\ Len(text) < MaxChars /\ \E c \in Chars : text' = Append(text, c) /\ UNCHANGED data
Spec == Init /\ [][Next]_vars

(* Every value comes back from its encoding, which is made of whole groups, and
   what is decoded from any text is bytes, as many as its groups and padding say. *)
RoundTrip ==
    /\ base64_decode(base64_encode(data)) = data
    /\ Len(base64_encode(data)) % 4 = 0
    /\ LET bytes == base64_decode(text)
       IN  bytes # Error =>
              /\ \A i \in DOMAIN bytes : bytes[i] \in 0..255
              /\ Len(bytes) = 3 * (Len(text) \div 4) - Cardinality({i \in DOMAIN text : text[i] = Pad /\ i % 4 \in {0, 3}})
              /\ (\A i \in DOMAIN text : text[i] # Pad) => base64_encode(bytes) = text
================================================================================
