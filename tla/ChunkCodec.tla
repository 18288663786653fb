------------------------------ MODULE ChunkCodec ------------------------------
(***************************************************************************)
(* What is written for a batch and what is read back: the chunks of a      *)
(* segment (serialize_chunk_text, deserialize_chunk_binary_enhanced and    *)
(* the legacy reader of src/agent/storage.rs), its pattern table           *)
(* (src/agent/template.rs) and the batch of src/agent/compressor.rs.       *)
(*                                                                         *)
(* Bytes are cells: one cell is an integer, a string with its length, or a *)
(* byte of the level bitmap, so that a file can be cut between any two.    *)
(***************************************************************************)
EXTENDS TemplateExtract, Varints

CONSTANTS
    ChunkSize,      \* StorageConfig.chunk_size
    LevelsPerByte,  \* 4 in the code
    ByteLimit,      \* 2^8: service indices are one byte below it
    RefReset        \* rows between two reference rows of XOR-P

ASSUME ChunkAssumption == {ChunkSize, LevelsPerByte, ByteLimit, RefReset} \subseteq Nat \ {0}

VARIABLES
    table,       \* cells of the pattern table
    chunks       \* chunks[c]: [from, to] lines and the cells of the chunk

vars == <<evars, table, chunks>>

Init == EInit /\ table = <<>> /\ chunks = <<>>

Failed == [ok |-> FALSE, lines |-> <<>>]
Ok(lines) == [ok |-> TRUE, lines |-> lines]

-----------------------------------------------------------------------------
(* Pattern table: count; per template the number of parts, then per part    *)
(* the tag 1 and a literal, or the tag 2.                                   *)

PartCells(x) == IF x = Hole THEN <<2>> ELSE <<1, x>>

TableCells(ts) ==
    <<Len(ts)>> \o FlattenSeq([n \in DOMAIN ts |->
        <<Len(ts[n])>> \o FlattenSeq([k \in DOMAIN ts[n] |-> PartCells(ts[n][k])])])

\* Template::deserialize from position at: parts one by one.
ReadTemplate(c, at) ==
    LET part[k \in 0..c[at]] ==
            IF k = 0 THEN [at |-> at + 1, parts |-> <<>>]
            ELSE LET p == part[k-1] IN
                 IF c[p.at] = 1
                 THEN [at |-> p.at + 2, parts |-> Append(p.parts, c[p.at + 1])]
                 ELSE [at |-> p.at + 1, parts |-> Append(p.parts, Hole)]
    IN part[c[at]]

\* deserialize_pattern_table
ReadTable(c) ==
    LET tmpl[n \in 0..c[1]] ==
            IF n = 0 THEN [at |-> 2, out |-> <<>>]
            ELSE LET t == ReadTemplate(c, tmpl[n-1].at)
                 IN [at |-> t.at, out |-> Append(tmpl[n-1].out, t.parts)]
    IN tmpl[c[1]].out

-----------------------------------------------------------------------------
(* serialize_chunk_text                                                    *)

LevelBits(level) ==
    CASE level = "D" -> 0 [] level = "W" -> 2 [] level = "E" -> 3 [] OTHER -> 1
LevelName(bits) == <<"D", "I", "W", "E">>[bits + 1]

\* A level as it is read back: anything unknown has become I.
Shown(level) == LevelName(LevelBits(level))

Bitmap(ls) ==
    [b \in 1..((Len(ls) + LevelsPerByte - 1) \div LevelsPerByte) |->
        [k \in 1..LevelsPerByte |->
            LET i == (b - 1) * LevelsPerByte + k IN
            IF i <= Len(ls) THEN LevelBits(ls[i].level) ELSE 0]]

\* Times: base and one common delta, or base and each delta.
TimeCells(ls) ==
    LET n == Len(ls)
        deltas == [i \in 1..(n - 1) |-> ls[i+1].ts - ls[i].ts]
    IN IF n > 1 /\ \A d \in ToSet(deltas) : d = deltas[1]
       THEN <<1, n, ls[1].ts, deltas[1]>>
       ELSE <<0, n, ls[1].ts>> \o deltas

\* The services in the order of their first line, and the index of each line's.
Services(ls) ==
    LET firsts == SelectSeq([i \in DOMAIN ls |-> i],
                            LAMBDA i : \A j \in 1..(i - 1) : ls[j].service # ls[i].service)
    IN [k \in DOMAIN firsts |-> ls[firsts[k]].service]
ServiceIndex(ls) ==
    [i \in DOMAIN ls |-> CHOOSE k \in DOMAIN Services(ls) : Services(ls)[k] = ls[i].service]

\* One byte per line holds the service index.
ByteIsEnough(n) == n <= ByteLimit - 1

\* Indices are from 0 in the file.
ServiceCells(ls) ==
    LET us == Services(ls)
        limit == IF ByteIsEnough(Len(us)) THEN ByteLimit ELSE ByteLimit * ByteLimit
        idx == [i \in DOMAIN ls |-> (ServiceIndex(ls)[i] - 1) % limit]
    IN IF Len(us) = 1 THEN <<0, us[1]>>
       ELSE <<IF ByteIsEnough(Len(us)) THEN 1 ELSE 2, Len(us)>> \o us \o idx

\* Template ids: the first one, then differences.
PatternCells(rs) ==
    [i \in DOMAIN rs |-> IF i = 1 THEN rs[1].pat ELSE rs[i].pat - rs[i-1].pat]

\* A parameter as text, then by way of from_str and to_string again.
Texts(r) == [k \in DOMAIN r.params |-> ToStr(r.params[k])]

ChunkCells(ls, rs) ==
    TimeCells(ls) \o Bitmap(ls) \o ServiceCells(ls)
        \o <<Len(ls)>> \o PatternCells(rs)
        \o FlattenSeq([i \in DOMAIN rs |-> <<Len(rs[i].params)>> \o Texts(rs[i])])

-----------------------------------------------------------------------------
(* deserialize_chunk_binary_enhanced.  Every read is checked against the end *)
(* of the data; a count says how far the next section goes.                 *)

MessageOf(ts, pat, params, missing) ==
    IF pat \in DOMAIN ts THEN Fill(ts[pat], params, missing)
    ELSE [k \in DOMAIN params |-> ToStr(params[k])]

\* Where the sections end.
Sections(c) ==
    LET n == c[2]
        times == IF c[1] = 1 THEN 4 ELSE 3 + (n - 1)
        levels == times + ((n + LevelsPerByte - 1) \div LevelsPerByte)
        services == IF c[levels + 1] = 0 THEN levels + 2
                    ELSE levels + 2 + c[levels + 2] + n
    IN [times |-> times, levels |-> levels, services |-> services, patterns |-> services + 1 + n]

\* The data end before a section that must be there.
CutShort(c) ==
    \/ Len(c) < 3
    \/ LET levels == IF c[1] = 1 THEN 4 ELSE 3 + (c[2] - 1) IN
       Len(c) < levels + ((c[2] + LevelsPerByte - 1) \div LevelsPerByte) + 2
    \/ Len(c) < Sections(c).patterns

\* The position behind each record's parameters, or the end plus one.
RecordEnds(c) ==
    LET end[i \in 0..c[2]] ==
            IF i = 0 THEN Sections(c).patterns
            ELSE IF end[i-1] >= Len(c) THEN Len(c) + 1
            ELSE end[i-1] + 1 + c[end[i-1] + 1]
    IN end

TimesOf(c) ==
    LET ts[i \in 1..c[2]] == IF i = 1 THEN c[3]
                             ELSE ts[i-1] + (IF c[1] = 1 THEN c[4] ELSE c[2 + i])
    IN ts

PatternsOf(c) ==
    LET at == Sections(c).services + 1
        pat[i \in 1..c[2]] == IF i = 1 THEN c[at + 1] ELSE pat[i-1] + c[at + i]
    IN pat

\* Services stand before the indices; with one service there are none.
ServiceOf(c, i) ==
    LET at == Sections(c).levels + 1 IN
    IF c[at] = 0 THEN c[at + 1]
    ELSE c[at + 2 + (IF c[at + 1] = 1 THEN 0 ELSE c[at + 1 + c[at + 1] + i])]

ReadLines(c, ts) ==
    [i \in 1..c[2] |->
        LET from == RecordEnds(c)[i-1] + 1
            params == [k \in 1..c[from] |-> FromStr(c[from + k])]
            byte == c[Sections(c).times + 1 + ((i - 1) \div LevelsPerByte)]
        IN [ts |-> TimesOf(c)[i], service |-> ServiceOf(c, i),
            level |-> LevelName(byte[1 + ((i - 1) % LevelsPerByte)]),
            message |-> MessageOf(ts, PatternsOf(c)[i], params, <<>>)]]

\* Cut short, the second line count is not the first, or a record goes too far.
Damaged(c) ==
    \/ CutShort(c)
    \/ c[Sections(c).services + 1] # c[2]
    \/ RecordEnds(c)[c[2]] > Len(c)

\* Faulty variant: damage is taken for the end of the chunk.
ReadChunkQuiet(c, ts) == IF Damaged(c) THEN Ok(<<>>) ELSE Ok(ReadLines(c, ts))

ReadChunk(c, ts) == IF Damaged(c) THEN Failed ELSE Ok(ReadLines(c, ts))

-----------------------------------------------------------------------------
(* The legacy chunk, one record after the other: time, service, level byte, *)
(* template, distance of the reference row, XOR-P data.  Only the reader is *)
(* left in the code, so the writer here is the reader's format filled by    *)
(* encode_xor.                                                              *)

LegacyCells(ls, rs) ==
    LET enc == EncodeXor([i \in DOMAIN rs |-> rs[i].params], RefReset) IN
    FlattenSeq([i \in DOMAIN ls |->
        <<ls[i].ts, ls[i].service, ls[i].level, rs[i].pat, enc[i].ref, enc[i].data>>])

\* deserialize_chunk_binary_legacy stops where a record is incomplete.
ReadLegacy(c, ts) ==
    LET n == Len(c) \div 6
        cell(i, k) == c[(i - 1) * 6 + k]
        params == DecodeRows([i \in 1..n |-> [ref |-> cell(i, 5), data |-> cell(i, 6)]])
    IN Ok([i \in 1..n |->
        [ts |-> cell(i, 1), service |-> cell(i, 2), level |-> Shown(cell(i, 3)),
         message |-> MessageOf(ts, cell(i, 4), params[i], <<Star>>)]])

-----------------------------------------------------------------------------
(* The batch of the compressor: the table, the number of records, and the   *)
(* records as text lines whose fields are separated by NUL.  The service is *)
(* not stored.                                                              *)

Nul == [word |-> "NUL"]
Nl == [space |-> "NL"]
Num(v) == [num |-> v]

RecordText(r) ==
    <<Num(r.delta), Nul, Num(0), Nul, [level |-> r.level], Nul, Num(r.pat), Nul,
      Num(Len(r.params))>>
        \o FlattenSeq([k \in DOMAIN r.params |-> <<Nul, ToStr(r.params[k])>>]) \o <<Nl>>

BatchCells(ts, rs) ==
    [table |-> TableCells(ts), count |-> Len(rs),
     text |-> FlattenSeq([i \in DOMAIN rs |-> RecordText(rs[i])])]

\* Position of the first s in c from at on, or behind the end.
Find(c, s, at) ==
    IF \E k \in at..Len(c) : c[k] = s
    THEN CHOOSE k \in at..Len(c) : c[k] = s /\ \A j \in at..(k - 1) : c[j] # s
    ELSE Len(c) + 1

\* Fields between separators; a field is the sequence of its cells.
Fields(c) ==
    LET cuts == <<0>> \o SelectSeq([k \in DOMAIN c |-> k], LAMBDA k : c[k] = Nul) \o <<Len(c) + 1>>
    IN [f \in 1..(Len(cuts) - 1) |-> SubSeq(c, cuts[f] + 1, cuts[f+1] - 1)]

\* What the parser of a parameter field gets; an empty field is the empty text.
FieldParam(f) == IF f = <<>> THEN <<>> ELSE <<ToStr(FromStr(f[1]))>>

\* One record; not ok when fields are missing.
BatchRecord(c, ts) ==
    LET f == Fields(c) IN
    IF Len(f) < 5 \/ Len(f) - 5 < f[5][1].num THEN [ok |-> FALSE]
    ELSE LET parts == ts[f[4][1].num]
             hole(k) == Cardinality({j \in 1..k : parts[j] = Hole})
             piece(k) == IF parts[k] # Hole THEN <<parts[k]>>
                         ELSE IF hole(k) <= f[5][1].num THEN FieldParam(f[5 + hole(k)]) ELSE <<>>
         IN [ok |-> TRUE, delta |-> f[1][1].num, level |-> f[3][1].level,
             message |-> FlattenSeq([k \in DOMAIN parts |-> piece(k)])]

\* deserialize_template_v2.  A record starts behind the end of the one before.
ReadBatch(c) ==
    LET ts == ReadTable(c.table)
        rec[i \in 0..c.count] ==
            IF i = 0 THEN [at |-> 1, ok |-> TRUE, ts |-> 0, lines |-> <<>>]
            ELSE LET p == rec[i-1]
                     end == Find(c.text, Nl, p.at)
                     r == BatchRecord(SubSeq(c.text, p.at, end - 1), ts)
                 IN IF ~p.ok \/ ~r.ok THEN [p EXCEPT !.ok = FALSE]
                    ELSE [at |-> end + 1, ok |-> TRUE, ts |-> p.ts + r.delta,
                          lines |-> Append(p.lines, [ts |-> p.ts + r.delta, service |-> "svc0",
                                                     level |-> r.level, message |-> r.message])]
    IN rec[c.count]

\* decompress_batch: when that fails the data are taken for JSON lines, none of
\* which parses.
Decompressed(c) == IF ReadBatch(c).ok THEN ReadBatch(c).lines ELSE <<>>

-----------------------------------------------------------------------------
(* write_segment_v2: the batch is cut into chunks, one chunk when it is     *)
(* small (by lines or bytes: a free choice).                                *)

\* The records that are written for lines from..to.
ChunkRecords(from, to) == SubSeq(BatchRecords, from, to)

Seal(size) ==
    /\ phase = "done" /\ Len(BatchRecords) = Len(batch)
    /\ phase' = "sealed"
    /\ table' = TableCells(templates)
    /\ chunks' = [c \in 1..((Len(batch) + size - 1) \div size) |->
         LET from == (c - 1) * size + 1
             to == IF c * size < Len(batch) THEN c * size ELSE Len(batch)
         IN [from |-> from, to |-> to,
             cells |-> ChunkCells(SubSeq(batch, from, to), ChunkRecords(from, to))]]
    /\ UNCHANGED <<batch, todo, subs, templates, records>>

\* A line without a record: the slice of the records ends behind their end.
Panic ==
    /\ phase = "done" /\ Len(BatchRecords) < Len(batch)
    /\ phase' = "panic"
    /\ UNCHANGED <<batch, todo, subs, templates, records, table, chunks>>

Next ==
    \/ ENext /\ UNCHANGED <<table, chunks>>
    \/ \E size \in {ChunkSize, Len(batch)} : Seal(size)
    \/ Panic

Spec == Init /\ [][Next]_vars

-----------------------------------------------------------------------------
(* Properties.                                                             *)

\* What line i may look like when it is read back: a token that from_str encodes
\* with a loss can have its normal form.
Same(out, i) ==
    /\ Len(out) = Len(Msg(i))
    /\ \A k \in DOMAIN out : \/ out[k] = Msg(i)[k]
                             \/ Lossy(Msg(i)[k]) /\ out[k] = ToStr(FromStr(Msg(i)[k]))

Templates == ReadTable(table)

\* A sealed batch is read back from its chunks, line by line: time, service, level
\* (an unknown one as I) and message, in whatever order the groups were taken.
\* Exceptions: a token that is Lossy, and a literal star, which can be confused
\* with a hole.
ReadsBack ==
    phase = "sealed" =>
        LET out == FlattenSeq([c \in DOMAIN chunks |-> ReadChunk(chunks[c].cells, Templates).lines])
        IN /\ Len(out) = Len(batch)
           /\ \A i \in DOMAIN out :
                /\ out[i].ts = batch[i].ts /\ out[i].service = batch[i].service
                /\ out[i].level = Shown(batch[i].level)
                /\ StarInBatch \/ Same(out[i].message, i)

\* Writing a segment panics exactly when the batch has one message without tokens.
PanicsOnlyOnBlank ==
    phase \in {"sealed", "panic"} =>
        (phase = "panic" <=> Cardinality({i \in DOMAIN batch : Msg(i) = <<>>}) = 1)

\* A batch comes back as it was: integers do (module Varints), its records fit its lines,
\* it is sealed unless it has one blank message, and what is sealed is read back.
RoundTrip == VarintsRoundTrip /\ RecordsFit /\ PanicsOnlyOnBlank /\ ReadsBack

\* A chunk that is cut anywhere is an error, never a shorter or a wrong result.
CutChunkFails ==
    phase = "sealed" => \A ch \in ToSet(chunks) : \A n \in 0..(Len(ch.cells) - 1) :
        ~ReadChunk(SubSeq(ch.cells, 1, n), Templates).ok

LegacyLines(ch, n) ==
    LET c == LegacyCells(SubSeq(batch, ch.from, ch.to), ChunkRecords(ch.from, ch.to))
    IN ReadLegacy(SubSeq(c, 1, IF n < Len(c) THEN n ELSE Len(c)), Templates).lines

LongParam == \E r \in ToSet(BatchRecords) : \E k \in DOMAIN r.params :
                 Len(r.params[k].bytes) >= LenLimit

\* The legacy coding by reference rows gives the same lines as the text coding, and
\* a legacy chunk that is cut gives a prefix of them.  Exception: a parameter whose
\* length does not fit into u16.
LegacyAgrees ==
    phase = "sealed" /\ ~StarInBatch /\ ~LongParam => \A ch \in ToSet(chunks) :
        LET lines == ReadChunk(ch.cells, Templates).lines IN
        \A n \in 0..(6 * Len(lines)) :
            LegacyLines(ch, n) = SubSeq(lines, 1, n \div 6)

\* A parameter that is itself a separator of the compressor's text records.
Delimited == \E r \in ToSet(BatchRecords) : \E k \in DOMAIN r.params :
                 ToStr(r.params[k]) \in {Nul, Nl}

\* The compressor gives back every line that has a record, with its level and
\* message; the service is not kept.  Exceptions: those of ReadsBack, and a
\* parameter that is a separator.
CompressorRoundTrip ==
    phase = "done" /\ ~StarInBatch /\ ~Delimited =>
        LET out == Decompressed(BatchCells(templates, BatchRecords)) IN
        /\ Len(out) = Len(BatchRecords)
        /\ \A r \in DOMAIN out :
             LET i == BatchRecords[r].line IN
             /\ out[r].ts = batch[i].ts /\ out[r].level = batch[i].level
             /\ Same(out[r].message, i)

\* The codings that the engine does not write (any more) keep what the chunks keep.
OtherCodingsAgree == LegacyAgrees /\ CompressorRoundTrip
===============================================================================
