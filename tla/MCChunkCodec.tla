----------------------------- MODULE MCChunkCodec -----------------------------
(* Model checking of ChunkCodec: tokens of every kind that from_str knows,   *)
(* two of most, and lines that put them where a template can have a hole.    *)
EXTENDS ChunkCodec

N(neg, zeros, val) == [neg |-> neg, zeros |-> zeros, val |-> val]
Hex(x, up, zeros, val) == [hexX |-> x, hexUp |-> up, zeros |-> zeros, val |-> val]
Ip(o) == [octets |-> o, padded |-> FALSE]
IpPort(o, p) == [octets |-> o, padded |-> FALSE, port |-> p, portPad |-> FALSE]
W(w) == [word |-> w]
Sp == [space |-> " "]

\* Two tokens after a fixed one; lines of one type sequence follow each other.
Doubles == <<
    <<N(FALSE, 0, 7),            Hex(FALSE, FALSE, 0, 171)>>,
    <<N(TRUE, 0, 300),           Hex(FALSE, TRUE, 0, 171)>>,
    <<[blk |-> N(TRUE, 0, 0)],   N(FALSE, 1, 81109)>>,
    <<[blk |-> N(TRUE, 0, 5)],   N(FALSE, 0, 203615)>>,
    <<Ip(<<10, 0, 0, 1>>),       IpPort(<<10, 0, 0, 1>>, 80)>>,
    <<Ip(<<10, 0, 0, 255>>),     IpPort(<<10, 9, 0, 1>>, 65535)>>,
    <<[path |-> "/a"],           W("job")>>,
    <<[path |-> "/b"],           W("x")>>,
    <<N(FALSE, 2, 7),            Hex(TRUE, FALSE, 0, 171)>>,
    <<N(TRUE, 0, 0),             Hex(FALSE, FALSE, 1, 5)>>,
    <<W("long"),                 Ip(<<10, 0, 0, 256>>)>> >>

TokenList == FlattenSeq(Doubles) \o <<Star, [punct |-> ","], Nul, Sp, Nl>>
MCTokens == ToSet(TokenList)

\* Any injective spelling will do; two words get one that XOR-P looks at.
MCSpelling ==
    LET no(t) == CHOOSE k \in DOMAIN TokenList :
                     TokenList[k] = t /\ \A j \in 1..(k - 1) : TokenList[j] # t
    IN [t \in MCTokens |->
          CASE t = W("long") -> [k \in 1..17 |-> IF k = 9 THEN 7 ELSE 65]
            [] t = W("job") -> [k \in 1..10 |-> IF k = 9 THEN 7 ELSE 65]
            [] OTHER -> <<66, no(t)>>]

\* Also short messages, blank ones, and one whose group with the last of the
\* doubles is degenerate.
Messages ==
    [k \in DOMAIN Doubles |-> <<W("x"), Sp, Doubles[k][1], Sp, Doubles[k][2]>>] \o
    <<<<>>, <<Sp>>, <<W("x"), Nl, W("x")>>, <<W("x"), Sp, W("long"), Sp, W("job")>>,
      <<W("x"), Sp, Star>>, <<W("x"), Sp, W("x")>>, <<W("x"), Sp, Nul>>,
      <<W("job"), Nl, W("job"), Nl, W("x")>>>>

MCLines ==
    {[ts |-> 100 * k, service |-> <<"a", "b", "c">>[1 + (k % 3)],
      level |-> <<"D", "I", "W", "E", "F">>[1 + (k % 5)], message |-> Messages[k]]
        : k \in DOMAIN Messages}
===============================================================================
