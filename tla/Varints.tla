------------------------------- MODULE Varints -------------------------------
(***************************************************************************)
(* The variable-length integers of src/shared/format.rs: bytes with a      *)
(* continuation bit, as in Protobuf, and the zigzag code of signed ones.   *)
(* They are what the chunks, the pattern table and the batch of the        *)
(* compressor are written in; module ChunkCodec takes an integer as one    *)
(* cell, which rests on the property below.                                *)
(***************************************************************************)
EXTENDS Integers, Sequences, FiniteSetsExt

CONSTANTS
    GroupBits,   \* data bits in a byte of a variable-length integer (7)
    WordBits     \* bits of an integer (64)

ASSUME VarintAssumption == {GroupBits, WordBits} \subseteq Nat \ {0}

CutOff == <<>>

Group == 2 ^ GroupBits
Word == 0..(2 ^ WordBits - 1)
SignedWord == -(2 ^ (WordBits - 1))..(2 ^ (WordBits - 1) - 1)

WriteVaruint[value \in Nat] ==
    IF value < Group THEN <<value>>
    ELSE <<Group + (value % Group)>> \o WriteVaruint[value \div Group]

\* <<value, new offset>>.  Bits that a shift pushes out of the word are lost.
ReadVaruint(data, offset) ==
    LET ends == {k \in 1..(Len(data) - offset + 1) : data[offset + k - 1] < Group}
        n == Min(ends)
        part(k) == ((data[offset + k - 1] % Group) * Group ^ (k - 1)) % 2 ^ WordBits
    IN IF ends = {} \/ (n - 1) * GroupBits >= WordBits THEN CutOff
       ELSE <<MapThenSumSet(part, 1..n), offset + n>>

ZigZag(value) == IF value >= 0 THEN 2 * value ELSE -2 * value - 1

WriteVarint(value) == WriteVaruint[ZigZag(value)]

ReadVarint(data, offset) ==
    LET r == ReadVaruint(data, offset)
    IN IF r = CutOff THEN CutOff
       ELSE <<IF r[1] % 2 = 0 THEN r[1] \div 2 ELSE -(r[1] \div 2) - 1, r[2]>>

VaruintSize(value) ==
    IF value = 0 THEN 1
    ELSE LET bits == Min({b \in 1..WordBits : value < 2 ^ b})
         IN (bits + GroupBits - 1) \div GroupBits

VarintSize(value) == VaruintSize(ZigZag(value))

\* A variable-length integer, signed or not, is read back from the middle of
\* a buffer with the offset of what follows it, takes the bytes that the size
\* functions announce, and is refused when it is cut (format.rs:206-268).
VarintsRoundTrip ==
    /\ \A v \in Word :
          LET code == WriteVaruint[v]
          IN /\ ReadVaruint(<<0>> \o code \o <<1>>, 2) = <<v, 2 + Len(code)>>
             /\ Len(code) = VaruintSize(v)
             /\ \A k \in 0..(Len(code) - 1) : ReadVaruint(SubSeq(code, 1, k), 1) = CutOff
    /\ \A v \in SignedWord :
          /\ ReadVarint(WriteVarint(v), 1) = <<v, 1 + VarintSize(v)>>
          /\ ZigZag(v) \in Word
===============================================================================
