---------------------------- MODULE MCAgentPipeline ----------------------------
(* Instance of AgentPipeline for model checking: the raw lines take every  *)
(* path through the parser.                                                *)
EXTENDS AgentPipeline

Num(n) == [num |-> n]
Digits(n) == [digits |-> n]
Str(s) == [str |-> s]
Json(f) == [kind |-> "json", fields |-> f]

\* The characters of a word: their bytes, and those of their upper case.  Turned a
\* has a longer one, dotless i a shorter one.
Ascii(n) == [k \in 1..n |-> [low |-> 1, up |-> 1]]
TurnedA == [low |-> 2, up |-> 3]
DotlessI == [low |-> 2, up |-> 1]
Acute == [low |-> 2, up |-> 2]

Chars(word) ==
    CASE word = "turned" -> <<TurnedA>>
      [] word = "turned3" -> <<TurnedA, TurnedA, TurnedA>>
      [] word = "dotless info" -> <<DotlessI>> \o Ascii(3)
      [] word = "dotless" -> <<DotlessI>>
      [] word = "acute" -> <<Acute>>
      [] word = "x" -> Ascii(1)
      [] word \in {"info", "warn"} -> Ascii(4)
      [] OTHER -> Ascii(5)

Sum(sizes) == FoldLeft(LAMBDA a, b : a + b, 0, sizes)
Low(chars) == Sum([k \in DOMAIN chars |-> chars[k].low])
Up(chars) == Sum([k \in DOMAIN chars |-> chars[k].up])

Text(words) ==
    LET n == Len(words)
        at == [k \in 1..(n + 1) |-> Sum([j \in 1..(k - 1) |-> Low(Chars(words[j])) + 1])]
        up == [k \in 1..(n + 1) |-> Sum([j \in 1..(k - 1) |-> Up(Chars(words[j])) + 1])]
        inside(k) == LET c == Chars(words[k]) IN
                     {at[k] + Low(SubSeq(c, 1, j)) : j \in 0..Len(c)}
    IN  [kind |-> "text", words |-> words, at |-> at, up |-> up,
         bounds |-> UNION {inside(k) : k \in 1..n}]

JsonLines == {
    Json([timestamp |-> Num(5), service |-> Str(<<"auth">>), level |-> Str(<<"error">>),
          message |-> Str(<<"login">>)]),
    Json([timestamp |-> Digits(12), level |-> Str(<<"debug">>), message |-> Str(<<>>)]),
    Json([timestamp |-> Digits(120), service |-> Num(1), level |-> Str(<<"warning">>),
          message |-> Str(<<"m">>)]),
    Json([time |-> Digits(12), msg |-> [other |-> TRUE], loglevel |-> Num(3)]),
    Json([ts |-> Digits(9), severity |-> Str(<<"panic">>), app |-> Str(<<"pg">>)]),
    Generated(0, <<"app">>, 3), Generated(1, <<"app">>, 3)}

\* The upper case of a line is as long, shorter or longer.  Of the longer ones the
\* message of the first is empty, the second and third panic (a cut in a character,
\* or behind the end), and the others are cut too late.
TextLines ==
    {Text(words) : words \in {
        <<"\"GET", "HTTP/1.1\"", "500">>, <<"GET", "HTTP/1.1", "error">>,
        <<"disk", "error">>, <<"info", "xerror", "disk">>, <<"panic", "info", "x">>,
        <<"warning", "low">>, <<"warn", "fatal", "x">>,
        <<"dotless info", "x">>, <<"dotless", "warn", "acute">>,
        <<"turned", "error", "x">>, <<"turned", "error", "acute">>, <<"turned3", "error", "x">>,
        <<"turned", "error", "disk">>, <<"turned", "error", "x", "disk">>}}

\* Lines that tell the paths of the two threads apart.
Plain == Text(<<"plain">>)
Deadly == Text(<<"turned3", "error", "x">>)
RawLines == JsonLines \cup TextLines \cup {Plain, [kind |-> "blank"]}

MCGarbled == [kind |-> "garbled"]
MCBroken == [kind |-> "broken"]

MCScripts ==
    {<<line, last>> : line \in RawLines \cup {MCGarbled},
                      last \in {Plain, Deadly, Generated(2, <<"app">>, 3), MCGarbled, MCBroken}}
    \cup {<<Plain, MCGarbled, Text(<<"disk", "error">>)>>,
          <<Generated(1, <<"app">>, 3), [kind |-> "blank"], Generated(2, <<"app">>, 3)>>}

MCService == <<"app">>

MCEnds == [error |-> {"error", "xerror"}, fatal |-> {"fatal"}, warn |-> {"warn"},
           info |-> {"info", "dotless info"}]
MCHolds == [error |-> {"error", "xerror"}, fatal |-> {"fatal"}, panic |-> {"panic"},
            critical |-> {}, warn |-> {"warn", "warning"}]
===============================================================================
