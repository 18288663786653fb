----------------------------- MODULE SegmentIndex -----------------------------
(***************************************************************************)
(* The index and the query path over real segment files: src/agent/index.rs*)
(* (list, manifest, keyword map, rebuild, may_exist, count_at_least), the  *)
(* part of src/agent/storage.rs that chunks and summarises a batch, and    *)
(* query with its filters.                                                 *)
(*                                                                         *)
(* A message is [words, par]: fixed words and a last token that differs    *)
(* between messages of one kind ("" for none).  What extraction makes of a *)
(* batch (module TemplateExtract) is, for each kind, one template, with a  *)
(* hole when the last tokens differ.  A chunk decodes to its lines (module *)
(* ChunkCodec).  The WAL is in StorageEngine: here the engine is closed    *)
(* only when its buffer is empty, and open finds nothing to replay.        *)
(***************************************************************************)
EXTENDS SegmentFormat

CONSTANTS
    Lines,        \* log lines [ts, service, level, message]
    LegacyLines,  \* the lines of a segment of the first version
    Configs,      \* configurations [chunk, single, dict] (StorageConfig)
    PatternBits,  \* bits in a pattern mask (64)
    Within,       \* Within[k]: the tokens that contain the keyword k
    Lower,        \* a word in lower case, as the keyword map has it
    TooShort,     \* lower-case words of less than three bytes
    LevelOf,      \* LevelOf[k]: the level that the keyword k names, or ""
    Hash(_, _),   \* bloom_hash of a text and a seed, below 512
    Ranges,       \* time ranges of the queries that are looked at
    MaxLines,     \* bound: lines that are appended
    MaxRepairs    \* bound: manifests lost, opens and rebuilds

Keywords == DOMAIN Within
NoText == ""  \* no last token, or no keyword

Missing == [state |-> "missing", list |-> <<>>]
Listed(list) == [state |-> "listed", list |-> list]
MapWords == {Lower[w] : w \in DOMAIN Lower} \ TooShort

ASSUME IndexAssumption ==
    /\ {PatternBits, MaxLines, MaxRepairs} \subseteq Nat
    /\ \A c \in Configs : c.chunk \in Nat \ {0} /\ c.single \in Nat /\ c.dict \in Nat
    /\ \A range \in Ranges : range[1] \in Int /\ range[2] \in Int

\* A line has a time, and Lower has each of its words.
ASSUME LinesAssumption ==
    /\ LegacyLines \in Seq(ToSet(LegacyLines)) /\ LegacyLines # <<>>
    /\ \A l \in Lines \cup ToSet(LegacyLines) :
          /\ l.ts \in Nat
          /\ l.message.words \in Seq(DOMAIN Lower)
          /\ l.message.par \in DOMAIN Lower \cup {NoText}

\* Its level is one that parse_line gives: of another a chunk and its mask keep only
\* the default I (module ChunkCodec has that).
ASSUME LevelsAssumption ==
    \A l \in Lines \cup ToSet(LegacyLines) : l.level \in {"D", "I", "W", "E"}

VARIABLES
    config,    \* the configuration of the engine
    up,        \* an engine is open
    files,     \* the segment files, by id
    segments,  \* Index.segments, by id
    manifest,  \* manifest.midx: [state, list], "missing", "unreadable" or "listed"
    next_id, keywords,  \* Index.next_id, keyword_to_patterns
    buffer,    \* WriteState.buffer
    totals,    \* total_original and total_compressed
    sealed,    \* history: the chunks of lines that were sealed under each id
    scanned,   \* history: the ids whose entry was read from the file
    appended, repairs   \* counters for the bounds

vars == <<config, up, files, segments, manifest, next_id, keywords, buffer, totals,
          sealed, scanned, appended, repairs>>

(***************************************************************************)
(* Sorting and filtering.  The sorts of the code are stable.               *)
(***************************************************************************)
\* The positions in P, those with a smaller key first and equal ones in order.
InFront(q, p, key) == key[q] < key[p] \/ (key[q] = key[p] /\ q < p)
SortedBy(P, key) ==
    [k \in 1..Cardinality(P) |->
        CHOOSE p \in P : Cardinality({q \in P : InFront(q, p, key)}) = k - 1]

\* The elements of seq at the positions in P, sorted by the key of the position.
Arranged(seq, P, key) ==
    LET at == SortedBy(P, key)
    IN [k \in 1..Cardinality(P) |-> seq[at[k]]]

Filtered(seq, P) == Arranged(seq, P, [i \in P |-> i])
ById(list) == Arranged(list, DOMAIN list, [i \in DOMAIN list |-> list[i].id])

(***************************************************************************)
(* Batches, chunks and summaries.                                          *)
(***************************************************************************)
Literals(template) ==
    template.words \o IF template.par \in {NoText, "*"} THEN <<>> ELSE <<template.par>>

\* The template of a line in a batch; "*" is a hole.
TemplateOf(line, logs) ==
    LET kind == {m \in {l.message : l \in ToSet(logs)} : m.words = line.message.words}
    IN [words |-> line.message.words,
        par |-> IF Cardinality(kind) = 1 THEN line.message.par ELSE "*"]

\* The positions of a bloom filter that a text sets, and the fold of the 64
\* bytes of a chunk's filter into the 12 of a segment's.
BloomOf(text) == {Hash(text, seed) : seed \in 0..4}
Fold12(bits) == {((p \div 8) % 12) * 8 + (p % 8) : p \in bits}

TextOf(message) ==
    message.words \o IF message.par = NoText THEN <<>> ELSE <<message.par>>

\* What write_segment_v2 makes of one chunk.  The sizes of chunks and of the
\* pattern table are any function of the number of lines and templates.
ChunkOf(logs, templates, text) ==
    LET ids == {CHOOSE i \in DOMAIN templates : templates[i] = t : t \in ToSet(text)}
    IN [lines |-> logs,
        entry |-> [offset |-> 0, compressed_sz |-> 40 * Len(logs),
                   original_sz |-> 100 * Len(logs), line_count |-> Len(logs),
                   min_ts |-> logs[1].ts, max_ts |-> logs[Len(logs)].ts],
        summary |-> [pattern_mask |-> {i - 1 : i \in ids} \cap 0..(PatternBits - 1),
                     level_mask |-> {l.level : l \in ToSet(logs)},
                     param_bloom |-> UNION {BloomOf(TextOf(l.message)) : l \in ToSet(logs)}]]

ChunksOf(logs, templates) ==
    LET size == IF Len(logs) <= config.single THEN Len(logs) ELSE config.chunk
        part(s, k) == SubSeq(s, (k - 1) * size + 1, Min({k * size, Len(s)}))
        text == [i \in DOMAIN logs |-> TemplateOf(logs[i], logs)]
    IN [k \in 1..((Len(logs) + size - 1) \div size)
            |-> ChunkOf(part(logs, k), templates, part(text, k))]

\* Faulty variant: only the first chunk goes into the summary.
SummaryOfFirst(summaries) ==
    [pattern_mask |-> summaries[1].pattern_mask, level_mask |-> summaries[1].level_mask,
     param_bloom |-> Fold12(summaries[1].param_bloom), has_summary |-> TRUE]

\* The SegmentSummary of chunk summaries; its service filter is never filled.
SummaryOf(summaries) ==
    LET all(f(_)) == UNION {f(summaries[i]) : i \in DOMAIN summaries}
    IN [pattern_mask |-> all(LAMBDA s : s.pattern_mask),
        level_mask |-> all(LAMBDA s : s.level_mask),
        param_bloom |-> Fold12(all(LAMBDA s : s.param_bloom)), has_summary |-> TRUE]

NoSegmentSummary ==
    [pattern_mask |-> {}, level_mask |-> {}, param_bloom |-> {}, has_summary |-> FALSE]

(***************************************************************************)
(* The keyword map: a word of a literal, in lower case, to template ids of *)
(* all segments, one entry for each occurrence.                            *)
(***************************************************************************)
TemplatesIn(file) ==
    IF HeaderOf(file)[1].version = V2 THEN file.at[HeaderSize].v ELSE <<>>

\* The ids of the templates, counted from 0, once for each literal among words.
Occurrences(templates, words) ==
    FlattenSeq([i \in DOMAIN templates |->
        [k \in 1..Cardinality({j \in DOMAIN Literals(templates[i]) :
                                  Literals(templates[i])[j] \in words}) |-> i - 1]])

\* Faulty variant: words go into the map as they are written.
WithKeywordsCased(map, templates) ==
    [w \in MapWords |-> map[w] \o Occurrences(templates, {w})]

WithKeywords(map, templates) ==
    [w \in MapWords |->
        map[w] \o Occurrences(templates, {x \in DOMAIN Lower : Lower[x] = w})]

NoKeywords == [w \in MapWords |-> <<>>]

\* The files one after the other, by id.
KeywordsOfFiles(map, ids) ==
    LET order == SortedBy(ids, [id \in ids |-> id])
        added(k) == WithKeywords(NoKeywords, TemplatesIn(files[order[k]]))
    IN [w \in MapWords |-> map[w] \o FlattenSeq([k \in 1..Cardinality(ids) |-> added(k)[w]])]

(***************************************************************************)
(* The list of segments.                                                   *)
(***************************************************************************)
\* scan_segment_meta.  The chunk table is looked for behind the pattern table
\* even when a dictionary is there, and the range is that of the first chunk.
ScannedMeta(file) ==
    LET header == HeaderOf(file)[1]
        tableStart == HeaderSize + header.pattern_table_len
        first == EntryAt(file, tableStart, 1)
        inside == {i \in 2..header.chunk_count :
                      tableStart + i * EntrySize <= FooterStart(file)}
        summaries == [i \in 1..header.chunk_count |->
                         SummaryAt(file, header.summary_offset, i)]
    IN [id |-> header.segment_id, min_ts |-> first.min_ts, max_ts |-> first.max_ts,
        line_count |-> first.line_count +
            SumFunction([i \in inside |-> EntryAt(file, tableStart, i).line_count]),
        summary |-> IF header.version = V2 /\ header.chunk_count > 0
                    THEN SummaryOf(summaries) ELSE NoSegmentSummary]

\* scan_all_segments: every file whose header can be read.
ScanAll ==
    LET readable == {id \in DOMAIN files : HeaderOf(files[id]) # None}
    IN Arranged([id \in readable |-> ScannedMeta(files[id])], readable,
                [id \in readable |-> ScannedMeta(files[id]).id])

Ids(list) == {list[i].id : i \in DOMAIN list}
\* Faulty variant: the last id is given out again.
NextAfterLast(list) == IF list = <<>> THEN 1 ELSE Max(Ids(list))
NextAfter(list) == IF list = <<>> THEN 1 ELSE Max(Ids(list)) + 1
AllTotals ==
    <<SumFunction([id \in DOMAIN files |-> SizeStats(files[id])[1]]),
      SumFunction([id \in DOMAIN files |-> SizeStats(files[id])[2]])>>

(***************************************************************************)
(* The query path.                                                         *)
(***************************************************************************)
TokenHas(token, keyword) == keyword = NoText \/ token \in Within[keyword]

Matches(line, keyword) ==
    \/ keyword = NoText
    \/ \E t \in {line.service, line.level} \cup ToSet(TextOf(line.message)) :
          TokenHas(t, keyword)

InRange(line, range) == range[1] <= line.ts /\ line.ts <= range[2]
Meets(entry, range) == entry.max_ts >= range[1] /\ entry.min_ts <= range[2]

\* The templates, counted from 0, with a literal part that has the keyword.
KeywordPats(templates, keyword) ==
    {i - 1 : i \in {j \in DOMAIN templates :
        \E k \in DOMAIN Literals(templates[j]) : TokenHas(Literals(templates[j])[k], keyword)}}

\* Faulty variant: an id that has no bit in the mask counts as absent.
MayContainPatternStrict(summary, pat) == pat \in summary.pattern_mask

\* ChunkSummary::may_contain_pattern
MayContainPattern(summary, pat) == pat >= PatternBits \/ pat \in summary.pattern_mask

\* The filters of query_segment_v2.  Its bloom filter is asked only where the
\* pattern filter has skipped the chunk already, so it never decides.
ChunkWanted(entry, summary, templates, range, keyword) ==
    /\ Meets(entry, range)
    /\ LET pats == KeywordPats(templates, keyword)
       IN pats = {} \/ \E p \in pats : MayContainPattern(summary, p)

Hits(lines, range, keyword) ==
    Filtered(lines, {i \in DOMAIN lines : InRange(lines[i], range) /\ Matches(lines[i], keyword)})

Found(lines) == [kind |-> "ok", lines |-> lines]
Failed == [kind |-> "error", lines |-> <<>>]
Panicked == [kind |-> "panic", lines |-> <<>>]

\* query_segment_v1
SearchV1(file, range, keyword) ==
    LET entry == EntryAt(file, HeaderSize, 1)
        lines == LinesAt(file, entry.offset, entry.compressed_sz)
    IN IF ~Meets(entry, range) THEN Found(<<>>)
       ELSE IF ~Verified(file) \/ lines = None
               \/ entry.offset + entry.compressed_sz > FooterStart(file) THEN Failed
       ELSE Found(Hits(lines[1], range, keyword))

\* query_segment_v2, to the end.  The tables are sliced, and a slice behind
\* the end of the file panics, before the CRC is looked at.
SearchV2(file, header, range, keyword) ==
    LET n == header.chunk_count
        tableEnd == HeaderSize + header.pattern_table_len
        parsed == header.pattern_count > 0 /\ header.pattern_table_len > 0
        templates == IF parsed THEN file.at[HeaderSize].v ELSE <<>>
        start == tableEnd + header.dict_len
        entry(i) == EntryAt(file, start, i)
        wanted(i) ==
            /\ ChunkWanted(entry(i), SummaryAt(file, header.summary_offset, i), templates,
                           range, keyword)
            /\ header.data_offset + entry(i).offset + entry(i).compressed_sz
                   <= FooterStart(file)
        chosen == Filtered([i \in 1..n |-> i], {i \in 1..n : wanted(i)})
        lines(i) == LinesAt(file, header.data_offset + entry(i).offset,
                            entry(i).compressed_sz)
    IN IF parsed /\ tableEnd > file.len THEN Panicked
       ELSE IF parsed /\ ~Has(file, HeaderSize, header.pattern_table_len) THEN Failed
       ELSE IF \/ start + n * EntrySize > file.len
               \/ n > 0 /\ header.summary_offset + n * SummarySize > file.len THEN Panicked
       ELSE IF ~Verified(file) THEN Failed
       ELSE IF \E k \in DOMAIN chosen : lines(chosen[k]) = None THEN Failed
       ELSE Found(FlattenSeq([k \in DOMAIN chosen |-> Hits(lines(chosen[k])[1], range, keyword)]))

Search(file, range, keyword) ==
    LET header == HeaderOf(file)
    IN IF file.len < MinSegmentSize \/ header = None THEN Failed
       ELSE IF header[1].version = V1 THEN SearchV1(file, range, keyword)
       ELSE SearchV2(file, header[1], range, keyword)

\* Index::query_range
QueryRange(range) ==
    Arranged(segments, {i \in DOMAIN segments : Meets(segments[i], range)},
             [i \in DOMAIN segments |-> -segments[i].max_ts])

LatestFirst(lines) == Arranged(lines, DOMAIN lines, [i \in DOMAIN lines |-> -lines[i].ts])

Take(seq, n) == SubSeq(seq, 1, Min({n, Len(seq)}))

\* Faulty variant: every segment may add as many lines as the limit.
QueryEachLimit(range, keyword, limit) ==
    LET entries == QueryRange(range)
        inFiles == FlattenSeq([i \in DOMAIN entries |->
                      Take(Search(files[entries[i].id], range, keyword).lines, limit)])
    IN LatestFirst(inFiles \o Take(Hits(buffer, range, keyword),
                                   IF Len(inFiles) > limit THEN 0 ELSE limit - Len(inFiles)))

\* StorageEngine::query: the segments by their latest line until the limit is
\* reached, then the buffer, then a sort by time.
HitsInFiles(range, keyword) ==
    LET entries == QueryRange(range)
    IN FlattenSeq([i \in DOMAIN entries |->
                     Search(files[entries[i].id], range, keyword).lines])

Query(range, keyword, limit) ==
    LET inFiles == Take(HitsInFiles(range, keyword), limit)
    IN LatestFirst(Take(inFiles \o Hits(buffer, range, keyword), limit))

(***************************************************************************)
(* The answers without a file.                                             *)
(***************************************************************************)
SegmentBloomHas(bits, keyword) == \A seed \in 100..102 : Hash(<<keyword>>, seed) % 96 \in bits

MapPats(keyword) == IF keyword \in MapWords THEN keywords[keyword] ELSE <<>>
\* How many entries of the map for the keyword have their bit in the mask.
MaskedPats(entry, keyword) ==
    LET pats == MapPats(keyword)
    IN Cardinality({k \in DOMAIN pats :
                      pats[k] < PatternBits /\ pats[k] \in entry.summary.pattern_mask})
HasLevel(entry, keyword) == LevelOf[keyword] \in entry.summary.level_mask

\* Index::may_exist
MayExist(range, keyword) ==
    \E i \in DOMAIN segments :
        /\ Meets(segments[i], range)
        /\ \/ ~segments[i].summary.has_summary
           \/ HasLevel(segments[i], keyword)
           \/ MaskedPats(segments[i], keyword) > 0
           \/ SegmentBloomHas(segments[i].summary.param_bloom, keyword)

\* Index::count_at_least
CountAtLeast(range, keyword) ==
    LET counted == {i \in DOMAIN segments : /\ Meets(segments[i], range)
                                            /\ segments[i].summary.has_summary}
        share(i) ==
            LET pats == MaskedPats(segments[i], keyword)
            IN IF Cardinality(segments[i].summary.pattern_mask) = 1 /\ pats = 1
               THEN segments[i].line_count
               ELSE IF pats > 0 THEN pats
               ELSE IF HasLevel(segments[i], keyword) THEN 1 ELSE 0
    IN SumFunction([i \in counted |-> share(i)])

(***************************************************************************)
(* Actions.                                                                *)
(***************************************************************************)
\* A new data directory, or one with a segment of the first version.
Init ==
    LET logs == LegacyLines
        old == SegmentFileV1(1, ChunkOf(logs, <<TemplateOf(logs[1], <<logs[1]>>)>>,
                                        <<TemplateOf(logs[1], <<logs[1]>>)>>))
    IN /\ config \in Configs
       /\ \/ files = <<>> /\ sealed = <<>>
          \/ files = [id \in {1} |-> old] /\ sealed = [id \in {1} |-> <<logs>>]
       /\ up = FALSE /\ segments = <<>> /\ manifest = Missing
       /\ next_id = 1 /\ keywords = NoKeywords
       /\ buffer = <<>> /\ totals = <<0, 0>>
       /\ scanned = {} /\ appended = 0 /\ repairs = 0

\* Index::open with a manifest: the list is loaded, the keyword map is read
\* from the files; then StorageEngine::open reads the sizes.
OpenListed ==
    /\ ~up /\ manifest.state = "listed"
    /\ up' = TRUE
    /\ segments' = manifest.list /\ next_id' = NextAfter(manifest.list)
    /\ keywords' = KeywordsOfFiles(NoKeywords,
                      {m.id : m \in {n \in ToSet(manifest.list) : n.summary.has_summary}})
    /\ totals' = AllTotals
    /\ UNCHANGED <<config, files, manifest, buffer, sealed, scanned, appended, repairs>>

\* Index::open without one, or with one that cannot be read: the files are
\* scanned, and only a missing manifest is written again.
OpenScanned ==
    /\ ~up /\ manifest.state # "listed"
    /\ up' = TRUE
    /\ segments' = ScanAll /\ next_id' = NextAfter(segments')
    /\ keywords' = KeywordsOfFiles(NoKeywords, Ids(segments'))
    /\ manifest' = IF manifest = Missing /\ segments' # <<>> THEN Listed(segments')
                 ELSE manifest
    /\ totals' = AllTotals
    /\ scanned' = Ids(segments')
    /\ UNCHANGED <<config, files, buffer, sealed, appended, repairs>>

Close ==
    /\ up /\ buffer = <<>> /\ repairs < MaxRepairs
    /\ up' = FALSE /\ repairs' = repairs + 1
    /\ UNCHANGED <<config, files, segments, manifest, next_id, keywords, buffer, totals,
                   sealed, scanned, appended>>

LoseManifest ==
    /\ ~up /\ manifest.state = "listed"
    /\ manifest' \in {Missing, [Missing EXCEPT !.state = "unreadable"]}
    /\ UNCHANGED <<config, up, files, segments, next_id, keywords, buffer, totals,
                   sealed, scanned, appended, repairs>>

AppendLine(line) ==
    /\ up /\ appended < MaxLines
    /\ buffer' = Append(buffer, line) /\ appended' = appended + 1
    /\ UNCHANGED <<config, up, files, segments, manifest, next_id, keywords, totals,
                   sealed, scanned, repairs>>

\* write_segment_v2 and add_segment_with_summary.  The order of the templates
\* is that of a hash map.
Flush ==
    /\ up /\ buffer # <<>>
    /\ \E templates \in SetToSeqs({TemplateOf(l, buffer) : l \in ToSet(buffer)}) :
          /\ LET chunks == ChunksOf(buffer, templates)
                 dictLen == IF Len(chunks) >= config.dict /\ Len(chunks) >= 2
                            THEN 1024 ELSE 0
                 times == {l.ts : l \in ToSet(buffer)}
                 meta == [id |-> next_id, min_ts |-> Min(times), max_ts |-> Max(times),
                          line_count |-> Len(buffer),
                          summary |-> SummaryOf([i \in DOMAIN chunks |-> chunks[i].summary])]
                 original == [i \in DOMAIN chunks |-> chunks[i].entry.original_sz]
                 compressed == [i \in DOMAIN chunks |-> chunks[i].entry.compressed_sz]
             IN /\ files' = [id \in DOMAIN files \cup {next_id} |->
                               IF id = next_id
                               THEN SegmentFile(id, templates, 16 * Len(templates),
                                                dictLen, chunks)
                               ELSE files[id]]
                /\ sealed' = [id \in DOMAIN files \cup {next_id} |->
                                IF id = next_id
                                THEN [i \in DOMAIN chunks |-> chunks[i].lines]
                                ELSE sealed[id]]
                /\ segments' = ById(Append(segments, meta))
                /\ totals' = <<totals[1] + SumFunction(original),
                               totals[2] + SumFunction(compressed)>>
          /\ keywords' = WithKeywords(keywords, templates)
    /\ manifest' = Listed(segments') /\ next_id' = next_id + 1
    /\ buffer' = <<>> /\ scanned' = scanned \ {next_id}
    /\ UNCHANGED <<config, up, appended, repairs>>

\* Index::rebuild; the keyword map is added to, not cleared.
Rebuild ==
    /\ up /\ repairs < MaxRepairs
    /\ segments' = ScanAll /\ next_id' = NextAfter(segments')
    /\ keywords' = KeywordsOfFiles(keywords, Ids(segments'))
    /\ manifest' = Listed(segments') /\ scanned' = Ids(segments')
    /\ repairs' = repairs + 1
    /\ UNCHANGED <<config, up, files, buffer, totals, sealed, appended>>

Next ==
    \/ OpenListed \/ OpenScanned \/ Close \/ LoseManifest
    \/ \E line \in Lines : AppendLine(line)
    \/ Flush \/ Rebuild

Spec == Init /\ [][Next]_vars

(***************************************************************************)
(* Properties.                                                             *)
(***************************************************************************)
LinesIn(id) == FlattenSeq(sealed[id])

InOrder(lines) == \A i, j \in DOMAIN lines : i < j => lines[i].ts <= lines[j].ts
HasDict(id) == HeaderOf(files[id])[1].dict_len > 0

\* Every id has one file, listed or lost, and the next one is free.
TypeOK ==
    /\ up => \A id \in DOMAIN files : id < next_id
    /\ config \in Configs /\ up \in BOOLEAN
    /\ DOMAIN files \subseteq Nat /\ next_id \in Nat
    /\ \A list \in {segments, manifest.list} : Ids(list) \subseteq DOMAIN files
    /\ manifest.state \in {"missing", "unreadable", "listed"}
    /\ keywords \in [MapWords -> Seq(Nat)]
    /\ buffer \in Seq(Lines) /\ totals \in Nat \X Nat
    /\ scanned \subseteq DOMAIN files /\ DOMAIN sealed = DOMAIN files

\* What is written is found again.  Layouts agree (see their own definition),
\* and what write_segment_v2 seals, with or without a dictionary and with any
\* number of chunks, ParsedSegment reads: the lines, the count and the summary
\* of every chunk.
SealedIsParsed ==
    /\ LayoutsAgree
    /\ \A id \in DOMAIN files :
           LET file == files[id]
               parsed == Parse(file)[1]
           IN /\ Parse(file) # None
              /\ HeaderOf(file)[1].version = V2 =>
                   /\ Len(parsed.summaries) = Len(parsed.chunks)
                   /\ Len(parsed.chunks) = Len(sealed[id])
                   /\ \A i \in DOMAIN parsed.chunks :
                         LET lines == sealed[id][i]
                             summary == parsed.summaries[i]
                         IN /\ ChunkData(file, parsed, i) = <<lines>>
                            /\ parsed.chunks[i].line_count = Len(lines)
                            /\ summary.level_mask = {l.level : l \in ToSet(lines)}
                            /\ \A l \in ToSet(lines) :
                                  BloomOf(TextOf(l.message)) \subseteq summary.param_bloom

\* Bytes that nothing takes for a segment.
Refuses(f) ==
    \/ f.len < MinSegmentSize
    \/ Parse(f) = None /\ \A range \in Ranges : Search(f, range, NoText).kind # "ok"

\* A file with one changed field, or cut in front of a field, is never taken
\* for a good one: the parser refuses it and a query fails (or panics at a
\* slice, which ends that query), except for the offset in the footer that
\* nobody reads.  The header's own CRC leaves the reserved bytes out
\* (format.rs:481), so they rely on the footer.
DamageIsCaught ==
    (buffer = <<>> /\ repairs = 0) =>
    \A id \in {i \in DOMAIN files : HeaderOf(files[i])[1].version = V2} :
        \A o \in DOMAIN files[id].at :
            /\ Refuses(Cut(files[id], o))
            /\ o # FooterStart(files[id]) =>
                  \A g \in {0, 1, 65, 9999} : Refuses(Damaged(files[id], o, g))

\* The list has every segment once, and what it says of a segment is true:
\* the summary and the number of lines always, the time range exactly when
\* the engine computed it itself; read back from the file it is the range of
\* the first chunk, which may be too small (index.rs:638).  A segment with a
\* dictionary is read back at a wrong offset (index.rs:573) and is left out.
EntriesAreTrue ==
    up => /\ Ids(segments) = DOMAIN files /\ Len(segments) = Cardinality(DOMAIN files)
          /\ \A k \in DOMAIN segments :
                LET m == segments[k]
                    lines == LinesIn(m.id)
                    times == {l.ts : l \in ToSet(lines)}
                    legacy == HeaderOf(files[m.id])[1].version = V1
                    narrow == Len(sealed[m.id]) > 1 \/ ~InOrder(lines)
                IN (m.id \in scanned => ~HasDict(m.id)) =>
                   /\ m.line_count = Len(lines)
                   /\ m.summary.has_summary = ~legacy
                   /\ ~legacy => m.summary.level_mask = {l.level : l \in ToSet(lines)}
                   /\ {m.min_ts, m.max_ts} \subseteq times
                   /\ (m.id \notin scanned \/ ~narrow) =>
                        /\ m.min_ts = Min(times) /\ m.max_ts = Max(times)

\* The totals of a reopened engine are those of the engine that wrote the
\* files, as long as no file has a dictionary (storage.rs:323).
TotalsSurvive ==
    (up /\ \A id \in DOMAIN files : ~HasDict(id)) =>
        LET sum == SumFunction([id \in DOMAIN files |-> Len(LinesIn(id))])
        IN totals = <<100 * sum, 40 * sum>>

\* What the engine says of the files, in its list, its next id and its totals, is true.
ListIsTrue == TypeOK /\ EntriesAreTrue /\ TotalsSurvive

\* A query answers with stored lines that match and are in the range, none
\* more often than it was stored, the latest first; with a limit it answers
\* with as many of the unlimited answer as the limit lets it.
Stored == buffer \o FlattenSeq([k \in DOMAIN segments |-> LinesIn(segments[k].id)])
Count(line, lines) == Cardinality({i \in DOMAIN lines : lines[i] = line})

QueryIsSound ==
    up => \A range \in Ranges, keyword \in Keywords :
        LET all == Query(range, keyword, Len(Stored))
            few == Query(range, keyword, 1)
        IN /\ \A l \in ToSet(all) :
                 /\ InRange(l, range) /\ Matches(l, keyword)
                 /\ Count(l, all) <= Count(l, Stored)
           /\ \A i, j \in DOMAIN all : i < j => all[i].ts >= all[j].ts
           /\ Len(few) = Min({1, Len(all)}) /\ ToSet(few) \subseteq ToSet(all)

\* What a query may not miss.  All matching lines of the buffer; and those of
\* a listed segment in time order, if the list's range has the line and the
\* pattern filter cannot mislead: the segment has one chunk, or no literal of
\* it has the keyword, or the literals of the line's own template do
\* (storage.rs:887, :419; index.rs:638).
QueryFinds ==
    up => \A range \in Ranges, keyword \in Keywords :
        LET all == Query(range, keyword, Len(Stored))
            misled(id, l) ==
                LET templates == TemplatesIn(files[id])
                    own == TemplateOf(l, LinesIn(id))
                IN /\ Len(sealed[id]) > 1
                   /\ KeywordPats(templates, keyword) # {}
                   /\ KeywordPats(<<own>>, keyword) = {}
            sure(m) ==
                LET lines == LinesIn(m.id)
                IN IF ~InOrder(lines) THEN {}
                   ELSE {l \in ToSet(lines) :
                           /\ m.min_ts <= l.ts /\ l.ts <= m.max_ts
                           /\ ~misled(m.id, l)}
            due == ToSet(buffer) \cup UNION {sure(segments[k]) : k \in DOMAIN segments}
        IN \A l \in due : InRange(l, range) /\ Matches(l, keyword) => l \in ToSet(all)

\* may_exist never denies a segment of the range that has the keyword as a
\* whole lower-case word of a template with a bit in the mask, or as a level;
\* this holds for a list and a map from any source: written, loaded, scanned.
\* What count_at_least counts, may_exist admits.
MayExistKeepsWords ==
    up => \A range \in Ranges, keyword \in Keywords :
        /\ (\E k \in DOMAIN segments :
               /\ Meets(segments[k], range)
               /\ \/ \E l \in ToSet(LinesIn(segments[k].id)) : l.level = LevelOf[keyword]
                  \/ LET templates == TemplatesIn(files[segments[k].id])
                     IN \E i \in DOMAIN templates :
                          /\ i <= PatternBits /\ keyword \in MapWords
                          /\ keyword \in {Lower[w] : w \in ToSet(Literals(templates[i]))})
              => MayExist(range, keyword)
        /\ CountAtLeast(range, keyword) > 0 => MayExist(range, keyword)

\* What the comment of may_exist promises (index.rs:182): false is certain.
MayExistIsCertain ==
    up => \A range \in Ranges, keyword \in Keywords :
        (\E k \in DOMAIN segments : \E l \in ToSet(LinesIn(segments[k].id)) :
            InRange(l, range) /\ Matches(l, keyword))
        => MayExist(range, keyword)
===============================================================================
