---------------------------- MODULE SegmentFormat ----------------------------
(***************************************************************************)
(* The binary layouts of src/shared/format.rs, the file that               *)
(* write_segment_v2 of src/agent/storage.rs assembles, and ParsedSegment.  *)
(*                                                                         *)
(* A file is [len, at]: at[o] is the field that was written at offset o,   *)
(* with its width w in bytes, its value v and whether it was damaged since;*)
(* crc is, in a CRC field, the content that it was computed from.  A read  *)
(* of the same offset and width gives the value; a read of anything else   *)
(* gives the number Garbage.  Offsets and widths are those of the code.    *)
(***************************************************************************)
EXTENDS Integers, Sequences, FiniteSets, FiniteSetsExt, SequencesExt

CONSTANTS
    Garbage,     \* what a read at a wrong offset gives
    Alignment    \* ALIGNMENT (4096)

ASSUME FormatAssumption == Garbage \in Nat /\ Alignment \in Nat \ {0}

None == <<>>

(***************************************************************************)
(* Sizes and layouts.  A layout gives each field its <<offset, width>>; the*)
(* code has one list of offsets where it writes and another where it reads.*)
(***************************************************************************)
HeaderSize == 64
EntrySize == 32
SummarySize == 80
FooterSize == 8
MinSegmentSize == HeaderSize + EntrySize + FooterSize

AlignUp(size, alignment) == ((size + alignment - 1) \div alignment) * alignment
\* Faulty variant: an aligned size gets a whole block of padding.
PaddingNeededFull(size, alignment) == alignment - (size % alignment)
PaddingNeeded(size, alignment) == AlignUp(size, alignment) - size

HeaderWrites ==
    [magic |-> <<0, 4>>, version |-> <<4, 1>>, flags |-> <<5, 1>>,
     chunk_count |-> <<6, 2>>, created_at |-> <<8, 8>>, segment_id |-> <<16, 4>>]
HeaderReads ==
    [magic |-> <<0, 4>>, version |-> <<4, 1>>, flags |-> <<5, 1>>,
     chunk_count |-> <<6, 2>>, created_at |-> <<8, 8>>, segment_id |-> <<16, 4>>]
HeaderCrc == 20

\* The reserved bytes, from offset 24 on.
MetaWrites ==
    [pattern_count |-> <<24, 2>>, pattern_table_len |-> <<26, 4>>,
     summary_offset |-> <<30, 4>>, data_offset |-> <<34, 4>>,
     dict_offset |-> <<38, 4>>, dict_len |-> <<42, 4>>, feature_flags |-> <<46, 1>>]
MetaReads ==
    [pattern_count |-> <<24, 2>>, pattern_table_len |-> <<26, 4>>,
     summary_offset |-> <<30, 4>>, data_offset |-> <<34, 4>>,
     dict_offset |-> <<38, 4>>, dict_len |-> <<42, 4>>, feature_flags |-> <<46, 1>>]

EntryWrites ==
    [offset |-> <<0, 4>>, compressed_sz |-> <<4, 4>>, original_sz |-> <<8, 4>>,
     line_count |-> <<12, 4>>, min_ts |-> <<16, 8>>, max_ts |-> <<24, 8>>]
EntryReads ==
    [offset |-> <<0, 4>>, compressed_sz |-> <<4, 4>>, original_sz |-> <<8, 4>>,
     line_count |-> <<12, 4>>, min_ts |-> <<16, 8>>, max_ts |-> <<24, 8>>]

SummaryWrites == [pattern_mask |-> <<0, 8>>, level_mask |-> <<8, 1>>, param_bloom |-> <<9, 64>>]
SummaryReads == [pattern_mask |-> <<0, 8>>, level_mask |-> <<8, 1>>, param_bloom |-> <<9, 64>>]

FooterWrites == [chunk_table_offset |-> <<0, 4>>, crc32 |-> <<4, 4>>]
FooterReads == [chunk_table_offset |-> <<0, 4>>, crc32 |-> <<4, 4>>]

\* What the 28 reserved bytes of a manifest entry hold.
SegmentSummaryWrites ==
    [pattern_mask |-> <<0, 8>>, level_mask |-> <<8, 1>>, service_bloom |-> <<9, 6>>,
     param_bloom |-> <<15, 12>>, flags |-> <<27, 1>>]
SegmentSummaryReads ==
    [pattern_mask |-> <<0, 8>>, level_mask |-> <<8, 1>>, service_bloom |-> <<9, 6>>,
     param_bloom |-> <<15, 12>>, flags |-> <<27, 1>>]

ManifestEntryWrites ==
    [segment_id |-> <<0, 4>>, min_ts |-> <<4, 8>>, max_ts |-> <<12, 8>>,
     line_count |-> <<20, 4>>, path_hash |-> <<24, 8>>, flags |-> <<32, 4>>,
     reserved |-> <<36, 28>>]
ManifestEntryReads ==
    [segment_id |-> <<0, 4>>, min_ts |-> <<4, 8>>, max_ts |-> <<12, 8>>,
     line_count |-> <<20, 4>>, path_hash |-> <<24, 8>>, flags |-> <<32, 4>>,
     reserved |-> <<36, 28>>]

ManifestHeaderWrites == [magic |-> <<0, 4>>, version |-> <<4, 1>>, entry_count |-> <<5, 4>>]
ManifestHeaderReads == [magic |-> <<0, 4>>, version |-> <<4, 1>>, entry_count |-> <<5, 4>>]

Layouts ==
    << <<HeaderWrites, HeaderReads, HeaderSize>>, <<MetaWrites, MetaReads, HeaderSize>>,
       <<EntryWrites, EntryReads, EntrySize>>, <<SummaryWrites, SummaryReads, SummarySize>>,
       <<FooterWrites, FooterReads, FooterSize>>,
       <<SegmentSummaryWrites, SegmentSummaryReads, 28>>,
       <<ManifestEntryWrites, ManifestEntryReads, 64>>,
       <<ManifestHeaderWrites, ManifestHeaderReads, 9>> >>

(***************************************************************************)
(* Writing and reading fields.                                             *)
(***************************************************************************)
Cell(width, value) == [w |-> width, v |-> value, crc |-> <<>>, bad |-> FALSE]
CrcCell(content) == [Cell(4, 0) EXCEPT !.crc = content]

\* Functions on sets of offsets that do not meet, put together.
Joined(parts) ==
    [o \in UNION {DOMAIN f : f \in parts} |-> (CHOOSE f \in parts : o \in DOMAIN f)[o]]

At(o, cell) == [p \in {o} |-> cell]

Put(base, layout, record) ==
    [o \in {base + layout[f][1] : f \in DOMAIN layout} |->
        LET f == CHOOSE g \in DOMAIN layout : base + layout[g][1] = o
        IN Cell(layout[f][2], record[f])]

Has(file, o, width) == o \in DOMAIN file.at /\ file.at[o].w = width

Get(file, base, layout) ==
    [f \in DOMAIN layout |->
        IF Has(file, base + layout[f][1], layout[f][2])
        THEN file.at[base + layout[f][1]].v ELSE Garbage]

(***************************************************************************)
(* The writer.  A chunk is [entry, summary, lines]; entry and summary are  *)
(* what write_segment_v2 computed, without the offset.  tableLen and       *)
(* dictLen are the lengths of the pattern table and of the dictionary.     *)
(***************************************************************************)
V1 == 1
V2 == 2
MobsMagic == 1

NewHeader(version, id, count) ==
    [magic |-> MobsMagic, version |-> version, flags |-> 0, chunk_count |-> count,
     created_at |-> 0, segment_id |-> id]

\* The CRC of the header covers its first 20 bytes, not the reserved ones.
PutHeader(header) ==
    LET fields == Put(0, HeaderWrites, header)
    IN Joined({fields, At(HeaderCrc, CrcCell(fields))})

Sealed(content, end) ==
    [len |-> end + FooterSize,
     at |-> Joined({content, At(end + FooterWrites.crc32[1], CrcCell(content)),
                    At(end + FooterWrites.chunk_table_offset[1], Cell(4, HeaderSize))})]

\* The bytes of the chunks in front of chunk i.
DataBefore(chunks, i) == SumFunction([k \in 1..(i - 1) |-> chunks[k].entry.compressed_sz])

SegmentFile(id, templates, tableLen, dictLen, chunks) ==
    LET n == Len(chunks)
        tableStart == HeaderSize + tableLen + dictLen
        summaryStart == tableStart + n * EntrySize
        contentLen == summaryStart + n * SummarySize
        dataStart == contentLen + PaddingNeeded(contentLen, Alignment)
        offset(i) == DataBefore(chunks, i)
        meta == [pattern_count |-> Len(templates), pattern_table_len |-> tableLen,
                 summary_offset |-> summaryStart, data_offset |-> AlignUp(contentLen, Alignment),
                 dict_offset |-> IF dictLen > 0 THEN HeaderSize + tableLen ELSE 0,
                 dict_len |-> dictLen, feature_flags |-> 1]
        entry(i) == [chunks[i].entry EXCEPT !.offset = offset(i)]
        content == Joined(
            {PutHeader(NewHeader(V2, id, n)), Put(0, MetaWrites, meta),
             At(HeaderSize, Cell(tableLen, templates))}
            \cup (IF dictLen > 0 THEN {At(HeaderSize + tableLen, Cell(dictLen, 0))} ELSE {})
            \cup {Put(tableStart + (i - 1) * EntrySize, EntryWrites, entry(i)) : i \in 1..n}
            \cup {Put(summaryStart + (i - 1) * SummarySize, SummaryWrites, chunks[i].summary)
                     : i \in 1..n}
            \cup {At(dataStart + offset(i), Cell(chunks[i].entry.compressed_sz, chunks[i].lines))
                     : i \in 1..n})
    IN Sealed(content, dataStart + offset(n + 1))

\* A file of the first version: one chunk, with an absolute offset.
DataOffsetV1(count) == AlignUp(HeaderSize + count * EntrySize, Alignment)

SegmentFileV1(id, chunk) ==
    LET start == DataOffsetV1(1)
    IN Sealed(Joined(
           {PutHeader(NewHeader(V1, id, 1)),
            Put(0, MetaWrites, [f \in DOMAIN MetaWrites |-> 0]),
            Put(HeaderSize, EntryWrites, [chunk.entry EXCEPT !.offset = start]),
            At(start, Cell(chunk.entry.compressed_sz, chunk.lines))}),
           start + chunk.entry.compressed_sz)

(***************************************************************************)
(* The readers.                                                            *)
(***************************************************************************)
FooterStart(file) == file.len - FooterSize

\* SegmentHeader::from_bytes, or None.
HeaderOf(file) ==
    LET fixed == Get(file, 0, HeaderReads)
        meta == Get(file, 0, MetaReads)
    IN IF /\ fixed.magic = MobsMagic /\ fixed.version \in {V1, V2}
          /\ ~file.at[HeaderCrc].bad
          /\ file.at[HeaderCrc].crc = [o \in {p \in DOMAIN file.at : p < HeaderCrc}
                                         |-> file.at[o]]
       THEN <<[f \in DOMAIN fixed \cup DOMAIN meta |->
                 IF f \in DOMAIN fixed THEN fixed[f] ELSE meta[f]]>>
       ELSE None

\* Faulty variant: the CRC is taken of the tables only.
VerifiedTables(file) ==
    LET o == FooterStart(file) + FooterReads.crc32[1]
    IN /\ Has(file, o, 4) /\ ~file.at[o].bad
       /\ \A p \in {q \in DOMAIN file.at : q < Min({Alignment, FooterStart(file)})} :
             p \in DOMAIN file.at[o].crc /\ file.at[o].crc[p] = file.at[p]

\* SegmentFooter::verify over everything before the footer.
Verified(file) ==
    LET o == FooterStart(file) + FooterReads.crc32[1]
    IN /\ Has(file, o, 4) /\ ~file.at[o].bad
       /\ file.at[o].crc = [p \in {q \in DOMAIN file.at : q < FooterStart(file)}
                                |-> file.at[p]]

EntryAt(file, start, i) == Get(file, start + (i - 1) * EntrySize, EntryReads)

NoSummary == [pattern_mask |-> {}, level_mask |-> {}, param_bloom |-> {}]
SummaryAt(file, start, i) ==
    LET base == start + (i - 1) * SummarySize
    IN IF Has(file, base, 8) THEN Get(file, base, SummaryReads) ELSE NoSummary

\* The lines of a chunk when the bytes start..end are those of one.
LinesAt(file, start, size) == IF Has(file, start, size) THEN <<file.at[start].v>> ELSE None

\* ParsedSegment::parse, or None.  The summaries that fit are the first ones.
Parse(file) ==
    LET found == HeaderOf(file)
        header == found[1]
        tableStart == HeaderSize + header.pattern_table_len + header.dict_len
        fits(i) == header.summary_offset + i * SummarySize <= FooterStart(file)
    IN IF \/ file.len < MinSegmentSize \/ found = None
          \/ file.len < tableStart + header.chunk_count * EntrySize + FooterSize
          \/ ~Verified(file)
       THEN None
       ELSE <<[chunks |-> [i \in 1..header.chunk_count |-> EntryAt(file, tableStart, i)],
               summaries |->
                 IF header.version = V1 THEN <<>>
                 ELSE [i \in 1..Cardinality({k \in 1..header.chunk_count : fits(k)})
                         |-> SummaryAt(file, header.summary_offset, i)],
               data_offset |-> IF header.version = V2 THEN header.data_offset
                               ELSE DataOffsetV1(header.chunk_count)]>>

\* ParsedSegment::chunk_data.  The offset of a chunk of the first version is
\* absolute already, so nothing is found for it.
ChunkData(file, parsed, i) ==
    LET start == parsed.data_offset + parsed.chunks[i].offset
        end == start + parsed.chunks[i].compressed_sz
    IN IF end > file.len THEN None
       ELSE LinesAt(file, start, parsed.chunks[i].compressed_sz)

\* read_segment_size_stats: it looks for the chunk table behind the pattern
\* table, whether or not a dictionary is there.
SizeStats(file) ==
    LET found == HeaderOf(file)
        header == found[1]
        tableStart == HeaderSize + header.pattern_table_len
        inside == {i \in 1..header.chunk_count :
                      tableStart + i * EntrySize <= FooterStart(file)}
        entry(i) == EntryAt(file, tableStart, i)
    IN IF file.len < HeaderSize + FooterSize \/ found = None THEN <<0, 0>>
       ELSE <<SumFunction([i \in inside |-> entry(i).original_sz]),
              SumFunction([i \in inside |-> entry(i).compressed_sz])>>

(***************************************************************************)
(* Faults: one field is changed, or the file is cut in front of a field.   *)
(***************************************************************************)
IsNumber(file, o) ==
    \E layout \in {HeaderReads, MetaReads} : \E f \in DOMAIN layout : layout[f][1] = o
Damaged(file, o, g) ==
    [file EXCEPT !.at[o].bad = TRUE, !.at[o].v = IF IsNumber(file, o) THEN g ELSE @]
Cut(file, o) == [len |-> o, at |-> [p \in {q \in DOMAIN file.at : q < o} |-> file.at[p]]]

(***************************************************************************)
(* A property of the layouts.                                              *)
(***************************************************************************)

\* Every layout is read where it is written, inside its size, and no two of
\* its fields meet; the reserved bytes of a manifest entry hold a summary.
LayoutsAgree ==
    /\ \A k \in DOMAIN Layouts :
          LET writes == Layouts[k][1]
              bytes(f) == writes[f][1]..(writes[f][1] + writes[f][2] - 1)
          IN /\ Layouts[k][2] = writes
             /\ \A f \in DOMAIN writes : bytes(f) \subseteq 0..(Layouts[k][3] - 1)
             /\ \A f, g \in DOMAIN writes : f # g => bytes(f) \cap bytes(g) = {}
    /\ ManifestEntryReads.reserved[2] = 28
===============================================================================
