---------------------------- MODULE MCSegmentIndex ----------------------------
(* Model checking of SegmentIndex: three kinds of message, one of them with  *)
(* a parameter that is also a word of another, and times out of order.       *)
EXTENDS SegmentIndex

Log(ts, level, words, par) ==
    [ts |-> ts, service |-> "api", level |-> level,
     message |-> [words |-> words, par |-> par]]

MCLines ==
    {Log(3, "I", <<"Disk", "up">>, "sda"), Log(1, "I", <<"Disk", "up">>, "sdb"),
     Log(2, "E", <<"login">>, ""), Log(4, "W", <<"ERROR", "sda">>, "")}

MCLegacyLines == <<Log(1, "I", <<"login">>, ""), Log(2, "I", <<"login">>, "")>>

\* Chunks of one line; and of two, with a dictionary when there is a second.
MCConfigs ==
    {[chunk |-> 1, single |-> 1, dict |-> 99], [chunk |-> 2, single |-> 1, dict |-> 2]}

MCLower ==
    [w \in {"Disk", "up", "login", "ERROR", "sda", "sdb"} |->
        CASE w = "Disk" -> "disk" [] w = "ERROR" -> "error" [] OTHER -> w]

MCWithin ==
    ("" :> {}) @@ ("sda" :> {"sda"}) @@ ("disk" :> {}) @@ ("E" :> {"E", "ERROR"})

MCLevelOf == [k \in DOMAIN MCWithin |-> IF k = "E" THEN "E" ELSE ""]

Texts == << <<"Disk", "up", "sda">>, <<"Disk", "up", "sdb">>, <<"ERROR", "sda">>,
            <<"login">>, <<"">>, <<"sda">>, <<"disk">>, <<"E">> >>
MCHash(text, seed) ==
    ((CHOOSE k \in DOMAIN Texts : Texts[k] = text) * 197 + seed * 131) % 512

MCRanges == {<<0, 9>>, <<2, 2>>}
===============================================================================
