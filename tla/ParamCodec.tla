------------------------------ MODULE ParamCodec ------------------------------
(***************************************************************************)
(* The parameter coding of src/agent/template.rs: TypedParam::from_str,    *)
(* which turns a token into a type and bytes, to_string, which turns them  *)
(* back, and the XOR-P coding of a parameter against a reference row.      *)
(*                                                                         *)
(* A token is a record that keeps of its text what the coding looks at:    *)
(*   [word |-> w], [path |-> w]           plain text, text that begins "/" *)
(*   [punct |-> c], [space |-> c]         a single such character          *)
(*   [neg, zeros, val]                    a decimal number: minus sign,    *)
(*                                        number of leading zeros, value   *)
(*   [hexX, hexUp, zeros, val]            0x or 0X, an upper-case digit    *)
(*   [octets, padded]                     IPv4, an octet with leading zero *)
(*   [octets, padded, port, portPad]      the same with a port             *)
(*   [blk]                                blk_ and a decimal number        *)
(***************************************************************************)
EXTENDS Integers, Sequences, FiniteSets
LOCAL INSTANCE Bitwise

CONSTANTS
    Tokens,      \* the tokens of the messages
    Spelling,    \* the bytes of each token
    IntMax,      \* the largest i64; hexadecimal numbers end at (2 * IntMax) + 1
    LenLimit     \* 2^16: original_len and num_chunks of XOR-P are u16

ASSUME CodecAssumption ==
    /\ DOMAIN Spelling = Tokens
    /\ \A t, u \in Tokens : Spelling[t] = Spelling[u] => t = u
    /\ IntMax \in Nat \ {0}
    /\ LenLimit \in Nat \ {0}

Is(t, field) == field \in DOMAIN t
IsNumber(t) == DOMAIN t = {"neg", "zeros", "val"}

\* Numbers of decimal digits.
DigitCount(v) == IF v = 0 THEN 1 ELSE CHOOSE n \in 1..10 : 10^(n-1) <= v /\ (n = 10 \/ v < 10^n)

-----------------------------------------------------------------------------
(* try_*: does a token have this type?                                     *)

IsOctets(t) == ~t.padded /\ \A k \in DOMAIN t.octets : t.octets[k] <= 255
IsIPv4(t) == Is(t, "octets") /\ ~Is(t, "port") /\ IsOctets(t)
IsIPv4Port(t) == Is(t, "port") /\ IsOctets(t) /\ ~t.portPad /\ t.port <= 65535

\* Six decimal digits, leading zeros allowed.
IsTimestamp(t) == IsNumber(t) /\ ~t.neg /\ t.zeros + DigitCount(t.val) = 6

\* The parsed value fits into an i64.
Fits(t) == IF t.neg THEN t.val <= IntMax + 1 ELSE t.val <= IntMax

\* Faulty variant: leading zeros are accepted.
IsIntegerPadded(t) == IsNumber(t) /\ Fits(t)

\* No leading zero, and no -0.
IsInteger(t) == IsNumber(t) /\ t.zeros = 0 /\ ~(t.neg /\ t.val = 0) /\ Fits(t)

\* The same after blk_, but -0 passes: only longer texts are looked at.
IsBlockId(t) == Is(t, "blk") /\ t.blk.zeros = 0 /\ Fits(t.blk)

\* Lower-case prefix, no leading zero; digits of both cases.
IsHex(t) == Is(t, "hexX") /\ ~t.hexX /\ t.zeros = 0 /\ t.val <= (2 * IntMax) + 1

\* type_char, which asks in the order of from_str.
TypeChar(t) ==
    CASE Is(t, "space") -> "s"
      [] IsIPv4Port(t)  -> "P"
      [] IsIPv4(t)      -> "I"
      [] IsTimestamp(t) -> "T"
      [] IsBlockId(t)   -> "B"
      [] IsHex(t)       -> "H"
      [] IsInteger(t)   -> "N"
      [] Is(t, "path")  -> "h"
      [] Is(t, "punct") -> "C"
      [] OTHER          -> "W"

-----------------------------------------------------------------------------
(* Bytes.                                                                  *)

Zeros(n) == [k \in 1..n |-> 0]

\* n bytes, least significant first; a negative number as its two's complement.
Le(v, n) ==
    LET m == IF v < 0 THEN -v - 1 ELSE v
        byte(k) == IF k > 4 THEN 0 ELSE (m \div 256^(k-1)) % 256
    IN [k \in 1..n |-> IF v < 0 THEN 255 - byte(k) ELSE byte(k)]

\* The unsigned value of bytes that are below 2^31.
FromLe(b) ==
    LET f[k \in 0..Len(b)] == IF k = 0 THEN 0
                              ELSE f[k-1] + (IF b[k] = 0 THEN 0 ELSE b[k] * 256^(k-1))
    IN f[Len(b)]

\* The signed value: the top bit of the last byte is the sign.
FromLeSigned(b) ==
    IF b[Len(b)] >= 128 THEN -FromLe([k \in DOMAIN b |-> 255 - b[k]]) - 1 ELSE FromLe(b)

Signed(t) == IF t.neg THEN -t.val ELSE t.val
Number(v) == [neg |-> v < 0, zeros |-> 0, val |-> IF v < 0 THEN -v ELSE v]
Param(ty, bytes) == [ty |-> ty, bytes |-> bytes]

\* TypedParam::from_str
FromStr(t) ==
    CASE IsIPv4Port(t)  -> Param("IPv4Port", t.octets \o Le(t.port, 2))
      [] IsIPv4(t)      -> Param("IPv4", t.octets)
      [] IsTimestamp(t) -> Param("Timestamp", <<0, t.val \div 10000, (t.val \div 100) % 100,
                                                t.val % 100>>)
      [] IsBlockId(t)   -> Param("BlockId", Append(Le(Signed(t.blk), 8), 98))
      [] IsHex(t)       -> Param("Hex", Le(t.val, 8))
      [] IsInteger(t)   -> Param("Integer", Le(Signed(t), 8))
      [] Is(t, "path")  -> Param("Path", Spelling[t])
      [] OTHER          -> Param("String", Spelling[t])

\* The text with these bytes; bytes that no token has are some other word.
Text(b) == IF \E t \in Tokens : Spelling[t] = b
           THEN CHOOSE t \in Tokens : Spelling[t] = b ELSE [word |-> b]

\* TypedParam::to_string
ToStr(p) ==
    LET b == p.bytes IN
    CASE p.ty = "IPv4Port"  -> [octets |-> SubSeq(b, 1, 4), padded |-> FALSE,
                                port |-> FromLe(SubSeq(b, 5, 6)), portPad |-> FALSE]
      [] p.ty = "IPv4"      -> [octets |-> b, padded |-> FALSE]
      [] p.ty = "Timestamp" -> LET v == (b[2] * 10000) + (b[3] * 100) + b[4] IN
                               [neg |-> FALSE, zeros |-> 6 - DigitCount(v), val |-> v]
      [] p.ty = "BlockId"   -> [blk |-> Number(FromLeSigned(SubSeq(b, 1, 8)))]
      [] p.ty = "Hex"       -> [hexX |-> FALSE, hexUp |-> FALSE, zeros |-> 0, val |-> FromLe(b)]
      [] p.ty = "Integer"   -> Number(FromLeSigned(b))
      [] OTHER              -> Text(b)

\* The tokens that from_str encodes with a loss: hexadecimal numbers with
\* upper-case digits, and blk_-0.
Lossy(t) ==
    \/ IsHex(t) /\ t.hexUp
    \/ IsBlockId(t) /\ t.blk.neg /\ t.blk.val = 0

-----------------------------------------------------------------------------
(* XOR-P.  The stream of one parameter is a record here: its fields follow *)
(* each other in the bytes of the code.                                    *)

BlockBytes == 8

\* Block i of a byte string, padded with zeros (read_u64_le).
Block(b, i) ==
    [k \in 1..BlockBytes |-> LET o == ((i - 1) * BlockBytes) + k IN
                             IF o <= Len(b) THEN b[o] ELSE 0]

XorBlock(a, b) == [k \in 1..BlockBytes |-> a[k] ^^ b[k]]

Ceil8(n) == (n + BlockBytes - 1) \div BlockBytes
LongerLen(a, b) == IF Len(a) > Len(b) THEN Len(a) ELSE Len(b)

\* How many blocks are compared.
Blocks(curr, base) == Ceil8(LongerLen(curr, base))

\* xor_param_bytes: the bitmap says which blocks differ, the literals follow.
XorParam(curr, base) ==
    LET n == Blocks(curr, base)
        x == [i \in 1..n |-> XorBlock(Block(curr, i), Block(base, i))]
    IN [num |-> n % LenLimit, len |-> Len(curr) % LenLimit,
        bitmap |-> {i \in 1..n : x[i] # Zeros(BlockBytes)},
        literals |-> SelectSeq(x, LAMBDA v : v # Zeros(BlockBytes))]

\* decode_xor_param_bytes: block i is the base's, changed by the next literal
\* when its bit is set.
UnxorParam(e, base) ==
    LET block(i) == IF i \in e.bitmap
                    THEN XorBlock(Block(base, i),
                                  e.literals[Cardinality({j \in e.bitmap : j <= i})])
                    ELSE Block(base, i)
    IN [k \in 1..e.len |-> block(1 + ((k - 1) \div BlockBytes))[1 + ((k - 1) % BlockBytes)]]

\* Faulty variant: the number of parameters is not compared.
SameShapePrefix(params, ref) ==
    \A k \in DOMAIN params \cap DOMAIN ref : params[k].ty = ref[k].ty

\* A row can be coded against a reference row: as many parameters, same types.
SameShape(params, ref) ==
    /\ Len(params) = Len(ref)
    /\ \A k \in DOMAIN params : params[k].ty = ref[k].ty

\* The reference row of each row of encode_xor: row i itself every reset rows
\* and when the shape changes, else the one of the row before.
RefRow(rows, reset) ==
    LET ref[i \in 1..Len(rows)] ==
            IF (i - 1) % reset = 0 THEN i
            ELSE IF SameShape(rows[i], rows[ref[i-1]]) THEN ref[i-1] ELSE i
    IN [i \in 1..Len(rows) |-> ref[i]]

\* encode_xor: a reference row has its parameters as they are; the others are
\* paired with those of their reference row, as far as both go.
EncodeXor(rows, reset) ==
    LET ref == RefRow(rows, reset) IN
    [i \in 1..Len(rows) |->
        [ref |-> i - ref[i],
         data |-> [k \in DOMAIN rows[i] \cap DOMAIN rows[ref[i]] |->
            [ty |-> rows[i][k].ty,
             code |-> IF ref[i] = i THEN rows[i][k].bytes
                      ELSE XorParam(rows[i][k].bytes, rows[ref[i]][k].bytes)]]]]

\* decode_xor, with the parameters of the last reference row.
DecodeXor(e, ref) ==
    [k \in 1..Len(e.data) |->
        Param(e.data[k].ty,
              IF e.ref = 0 THEN e.data[k].code
              ELSE UnxorParam(e.data[k].code, IF k <= Len(ref) THEN ref[k].bytes ELSE <<>>))]

\* The rows of a chunk one after the other: decode_one_record keeps the
\* parameters of a row with ref_idx 0 for the next ones.
DecodeRows(enc) ==
    LET row[i \in 0..Len(enc)] ==
            IF i = 0 THEN [out |-> <<>>, ref |-> <<>>]
            ELSE LET p == DecodeXor(enc[i], row[i-1].ref)
                 IN [out |-> Append(row[i-1].out, p),
                     ref |-> IF enc[i].ref = 0 THEN p ELSE row[i-1].ref]
    IN row[Len(enc)].out
===============================================================================
