------------------------------ MODULE LineParser -------------------------------
(***************************************************************************)
(* parse_line of src/agent/collector.rs, and the line that cmd_generate of *)
(* src/main.rs writes for it.                                              *)
(*                                                                         *)
(* A raw line is a record with a kind: "blank"; "json", an object whose    *)
(* fields are a function from names to values; "text", anything else.      *)
(* Every string is a sequence of words, parted by one blank each.  A text  *)
(* also says where its words are, in bytes: word k begins at[k] bytes into *)
(* the line and up[k] bytes into its upper-case copy, which is longer or   *)
(* shorter where the upper case of a character is; "bounds" are the bytes  *)
(* of the line before which a character ends.  A JSON value is [num |-> n],*)
(* [str |-> words], [digits |-> n] for a string of digits, or              *)
(* [other |-> TRUE].                                                       *)
(***************************************************************************)
EXTENDS Naturals, Sequences, SequencesExt

CONSTANTS
    Now,         \* the clock when a line is parsed
    SecondsFrom, \* a larger number in a string is a time (10^9 in the code)
    PerSecond,   \* milliseconds of a second
    Ends,        \* Ends[w]: the words that end in w in upper case
    Holds,       \* Holds[w]: the words that contain w in upper case
    Part         \* in a message: what is left of a word that was cut, or of the
                 \* blank behind it

ASSUME ParserAssumption ==
    /\ {Now, SecondsFrom, PerSecond} \subseteq Nat
    /\ {"error", "fatal", "warn", "info"} \subseteq DOMAIN Ends
    /\ {"error", "fatal", "panic", "critical", "warn"} \subseteq DOMAIN Holds
    /\ \A w \in DOMAIN Ends \cap DOMAIN Holds : Ends[w] \subseteq Holds[w]

Nothing == [none |-> TRUE]
IsStr(v) == "str" \in DOMAIN v

Least(S) == CHOOSE k \in S : \A j \in S : k <= j

\* The value of the first of these names that the object has.
FirstOf(fields, names) ==
    LET there == {k \in DOMAIN names : names[k] \in DOMAIN fields}
    IN  IF there = {} THEN Nothing ELSE fields[names[Least(there)]]

\* parse_iso_timestamp: seconds become milliseconds; a date is not understood.
Timestamp(v) ==
    IF "digits" \notin DOMAIN v \/ v.digits <= SecondsFrom THEN Now
    ELSE IF v.digits > SecondsFrom * PerSecond THEN v.digits ELSE v.digits * PerSecond

\* A number is taken as it is; only then strings are looked at, and not "time".
TimeOf(fields) ==
    LET first == FirstOf(fields, <<"timestamp", "ts", "time", "t">>)
    IN  IF "num" \in DOMAIN first THEN first.num
        ELSE Timestamp(FirstOf(fields, <<"timestamp", "ts", "t">>))

\* normalize_level
Normalized(words) ==
    CASE words \in {<<"debug">>, <<"D">>} -> "D"
      [] words \in {<<"warn">>, <<"warning">>, <<"W">>} -> "W"
      [] words \in {<<"error">>, <<"err">>, <<"E">>, <<"fatal">>, <<"critical">>} -> "E"
      [] OTHER -> "I"

LevelNames == <<"level", "severity", "loglevel", "l">>

LevelOf(fields) ==
    LET v == FirstOf(fields, LevelNames) IN IF IsStr(v) THEN Normalized(v.str) ELSE "I"

StringOf(fields, names, default) ==
    LET v == FirstOf(fields, names) IN IF IsStr(v) THEN v.str ELSE default

\* parse_json_value; the message of an object without one is the whole line.
ParseJson(fields, service) ==
    [ts      |-> TimeOf(fields),
     service |-> StringOf(fields, <<"service", "app", "source", "s">>, service),
     level   |-> LevelOf(fields),
     message |-> StringOf(fields, <<"message", "msg", "log", "m">>, <<"{...}">>)]

\* parse_nginx_line: the status follows the quoted request.
ParseNginx(words) ==
    [ts |-> Now, service |-> <<"ngx">>, message |-> words,
     level |-> IF \E k \in 1..(Len(words) - 1) :
                    words[k] = "HTTP/1.1\"" /\ words[k + 1] \in {"500", "404"}
               THEN "E" ELSE "I"]

\* infer_level
Inferred(words) ==
    LET has(S) == \E w \in S : ToSet(words) \cap Holds[w] # {}
    IN  IF has({"error", "fatal", "panic", "critical"}) THEN "E"
        ELSE IF has({"warn"}) THEN "W" ELSE "I"

-----------------------------------------------------------------------------
(* strip_level_prefix: it looks for a level word with a blank behind it in *)
(* the upper-case copy, and cuts the line itself at the byte it found.     *)

\* The bytes of a trimmed line.
Length(line) == line.at[Len(line.words) + 1] - 1

\* What a text is.
IsText(line) ==
    LET n == Len(line.words) IN
    /\ line.words \in Seq(ToSet(line.words)) /\ n > 0
    /\ {line.at, line.up} \subseteq [1..(n + 1) -> Nat]
    /\ line.at[1] = 0 /\ line.up[1] = 0
    /\ \A j, k \in 1..(n + 1) : j < k => line.at[j] < line.at[k] /\ line.up[j] < line.up[k]
    /\ line.at[n] < Length(line)
    /\ {line.at[k] : k \in 1..n} \cup {Length(line)} \subseteq line.bounds
    /\ line.bounds \subseteq 0..Length(line)

\* Where a level word with a blank behind it is: at the end of these words.
PrefixAt(words, w) == {k \in 1..(Len(words) - 1) : words[k] \in Ends[w]}

LevelWords == <<"error", "fatal", "warn", "info">>

HasPrefix(words) == \E n \in DOMAIN LevelWords : PrefixAt(words, LevelWords[n]) # {}

\* The first place of the first prefix that the line has.
PrefixWord(words) ==
    LET found == {n \in DOMAIN LevelWords : PrefixAt(words, LevelWords[n]) # {}}
    IN  Least(PrefixAt(words, LevelWords[Least(found)]))

\* Faulty variant: the blank behind the level word is not counted.
CutShort(line) == line.up[PrefixWord(line.words) + 1] - 1

\* pos + len, a byte of the upper-case copy.
Cut(line) == line.up[PrefixWord(line.words) + 1]

\* line[s..], for a boundary s: the words from there on.
From(line, s) ==
    LET j == Least({i \in DOMAIN line.at : s <= line.at[i]})
    IN  (IF s \in {line.at[j], Length(line)} THEN <<>> ELSE <<Part>>)
            \o SubSeq(line.words, j, Len(line.words))

Stripped(line) == IF HasPrefix(line.words) THEN From(line, Cut(line)) ELSE line.words

-----------------------------------------------------------------------------
(* parse_line                                                              *)

IsNginx(words) ==
    /\ ToSet(words) \cap {"HTTP/1.1\"", "HTTP/1.1"} # {}
    /\ ToSet(words) \cap {"HTTP/1.1\"", "\"GET"} # {}

\* The line comes to strip_level_prefix.
IsPlain(line) == line.kind = "text" /\ ~IsNginx(line.words)

\* A string cannot be cut inside a character or behind its end.
Panics(line) == IsPlain(line) /\ HasPrefix(line.words) /\ Cut(line) \notin line.bounds

\* The empty sequence for None; not for a line that panics.
ParseLine(line, service) ==
    IF line.kind = "blank" THEN <<>>
    ELSE IF line.kind = "json" THEN <<ParseJson(line.fields, service)>>
    ELSE IF IsNginx(line.words) THEN <<ParseNginx(line.words)>>
    ELSE <<[ts |-> Now, service |-> service, level |-> Inferred(line.words),
            message |-> Stripped(line)]>>

-----------------------------------------------------------------------------
(* cmd_generate *)

Messages == <<<<"User", "login">>, <<"error", "null", "pointer">>, <<"warn", "retry">>>>

\* The log line that generate has in mind for its i-th line.
Intended(i, service, base) ==
    LET msg == Messages[(i % Len(Messages)) + 1] IN
    [ts |-> base + i * 100, service |-> service, message |-> Append(msg, "[seq]"),
     level |-> IF "error" \in ToSet(msg) THEN "E"
               ELSE IF "warn" \in ToSet(msg) THEN "W" ELSE "I"]

\* The JSON line it writes.
Generated(i, service, base) ==
    LET log == Intended(i, service, base) IN
    [kind |-> "json",
     fields |-> [t |-> [num |-> log.ts], s |-> [str |-> log.service],
                 l |-> [str |-> <<log.level>>], m |-> [str |-> log.message]]]
===============================================================================
