# A verification project for mini-obs

mini-obs (`src/src`, Rust) is a log store for small devices: an agent tails log
sources and appends lines to a storage engine, which keeps a text write-ahead log
(WAL), compresses batches of lines into immutable segment files, lists them in a
manifest and answers queries by time and keyword.  This directory holds TLA+
models of it, TLC configurations that check them on small instances, and proofs
checked by TLAPS.

Run everything from this directory:

    tlc -workers 2 -config StorageSafety.cfg MCStorageEngine.tla
    for m in StorageEngineProofs WalFileProofs SharedEngineProofs SharedDirectoryProofs \
             SegmentFormatProofs SegmentIndexProofs TailCollectorProofs AgentPipelineProofs
    do tlapm $m.tla; done

`PROJECT.json` is the index: components, runs, mutants (for each property, one
plausible bug in a definition that makes TLC find it violated), the map from
definitions to source lines, findings, hazards and theorems.

## 1. Inventory

| Component | State | Operations | What is hard | What makes it correct |
|---|---|---|---|---|
| Storage engine, `agent/storage.rs` | `WriteState` behind a mutex (buffer, its bytes, the `BufWriter` around `wal/current.wal`), size totals, segment files | `open`, `append`, `flush`, `query`, `stats`, drop | buffered WAL, a flush in two critical sections with file I/O between them, crashes and errors at any point, replay | what was acknowledged is served later; the WAL is truncated only after its lines are sealed; recovery ends |
| Index, `agent/index.rs` | segment list and `next_id` behind `RwLock`s, keyword map, `index/manifest.midx` | `open`, `add_segment_with_summary`, `next_segment_id`, `query_range`, `rebuild`, `may_exist`, `count_at_least` | manifest saved by rename over a shared temporary name; rebuild from files | ids are not reused; the manifest never names a missing segment or forgets one; a rebuilt index answers like the saved one |
| Query path, `storage.rs` and `shared/format.rs` | none of its own | two filters per chunk (time range, pattern mask / bloom), limit | filters computed by other code at another time, damaged files | never skips a chunk with a match, never answers from a damaged file |
| Chunk encoding, `storage.rs` and `agent/template.rs` | none | `serialize_chunk_text`, the enhanced and the legacy reader, pattern table | sections whose sizes depend on others, data cut anywhere | a batch is read back as it was, or refused |
| Template extraction, `agent/template.rs` | per batch | `extract`, `encode_xor`, `decode_xor`, typed parameters | one record per line, in order; types guessed from text; hash map order | what is decoded is what was encoded |
| Compressor, `agent/compressor.rs` | counters | batch encode and decode; not called by the engine | separators in text | round trip |
| MOBS format, `shared/format.rs` | none | header, chunk, summary and footer layout, varints, CRCs | widths, offsets, boundaries | every field is read where it is written; damage is noticed |
| Collector, `agent/collector.rs` | reader, inode, last size; a channel; a stop flag | file tail, stdin, mock, `stop`, `parse_line` | rotation and truncation seen only by polling, partial lines, an unbounded channel, a blocking read | every line once, whole; `stop` ends |
| Agent loop and CLI, `main.rs` | none | `agent`, `query`, `stats`, `generate` | Ctrl+C kills; `query` and `stats` open the data directory of a running agent | one writer per directory |

How they interact: the collector thread sends lines over a channel to the agent
loop, which calls `append`; `append` calls `flush` when the buffer is full; `flush`
calls `TemplateExtractor::extract` and the index; `query` reads the index, the
segment files and the buffer.  The engine is `Sync`: tests share it between threads.
Other processes share the data directory.

The hazards, each at its line and with the properties that watch it, are in
`PROJECT.json`; where a property has to make an exception for one, the note says which.

## 2. Modules

| Module | What it models | Uses |
|---|---|---|
| `LogStore` | the promise: the life of single lines, without files | |
| `StorageEngine` | one writer: `open`, `append`, `flush`, replay, errors, kills, stops | `LogStore` |
| `StorageEngineProofs` | theorems about `StorageEngine`: its invariant and losses, the refinement, copies and totals | `StorageEngine`, TLAPS |
| `WalFile` | a file of slots, written through a descriptor in or out of append mode | |
| `WalFileProofs` | lemmas: what a write to such a file keeps and adds | `WalFile`, TLAPS |
| `SharedEngine`, `SharedEngineProofs` | several threads on one open engine: `append`, `flush`, `query` | `WalFile`; `WalFileProofs` |
| `SharedDirectory`, `SharedDirectoryProofs` | an agent and another process that opens its data directory | `WalFile`; `WalFileProofs` |
| `SegmentFormat` | layouts and whole segment files, written, parsed and damaged | |
| `SegmentFormatProofs` | theorems: the readers find what was written | `SegmentFormat`, TLAPS |
| `SegmentIndex` | list, manifest, keyword map, rebuild, query and its filters, over those files | `SegmentFormat` |
| `SegmentIndexProofs` | theorems about files, damage, list and queries | `SegmentIndex`, `SegmentFormatProofs` |
| `Varints` | variable-length integers | |
| `ParamCodec` | types of parameters, their bytes and texts, XOR-P | |
| `TemplateExtract` | `extract`: groups, templates, records | `ParamCodec` |
| `ChunkCodec` | chunks, pattern table, legacy chunks, the compressor's batches | `TemplateExtract`, `Varints` |
| `TailCollector`, `TailCollectorProofs` | the file tail of the collector, with the application and the log rotation | |
| `LineParser` | `parse_line` and the lines of `generate` | |
| `AgentPipeline`, `AgentPipelineProofs` | file, standard input or mock, channel, agent loop or another owner | `LineParser` |

`MCStorageEngine`, `MCSharedEngine`, `MCSharedDirectory`, `MCSegmentIndex`,
`MCChunkCodec` and `MCAgentPipeline` give their modules a symmetry set or the data of an
instance.

### StorageEngine

One thread (the agent loop) uses the engine.  An action is a piece of the code
between two points where a kill or an error makes a difference:

| Code | Actions |
|---|---|
| `append` under the mutex (`storage.rs:194-208`) | `Append`, `AppendWalError` |
| `flush` first section (`:220-228`) | `Flush` (the call), `Drain`, `DrainError` |
| `write_segment_v2` (`:341-527`) | `WriteTmp`, `WriteTmpError`, `Rename`, `RenameError`, `Panic` |
| `add_segment_with_summary`, `save` (`index.rs:109-141`, `485-507`) | `IndexAdd`, `Save`, `SaveError` |
| `flush` second section (`storage.rs:237-248`) | `Truncate`, `TruncateError` |
| `open` (`storage.rs:128-191`, `index.rs:59-99`) | `OpenIndex`, `Replay`, then the actions of `flush` with `booting` set |
| end of the process | `Shutdown` (the loop ends and the engine is dropped), `Crash` (killed) |
| outside | `LoseManifest` (somebody deletes `manifest.midx`; `Index::open` has a path for it) |

The thread's place is `pc`.  `walFile` is what `read_wal` would parse, `walBuf` what
is still in the `BufWriter`; how much the `BufWriter` pushes out at an append
depends on line lengths, so `WalAfterAppend` allows nothing, the older lines, or
all.  `buffer` and `batch` are the drained and undrained lines, `segs`, `tmp` and
`manifest` are files.  The history variables `appended`, `acked`, `dropped`,
`abandoned` record what the callers were told and the two ways a line can be lost.

Abstractions: a line is appended once, and files are sets of lines (order inside a
segment does not matter to these properties; duplicates show as a line in two
segments).  The byte limit of the buffer is a free choice.  A partial write of a
WAL line that is cut by a kill is not modelled (whole lines only); neither is the
page cache: `Crash` is the death of the process.  The size totals count lines, and
segments carry no compression dictionary (`SegmentIndex` has both).  A damaged manifest
takes the same path as a missing one except that it is not saved again at once.

### SharedEngine

Every step of a thread is what it does under one lock.  The WAL is a sequence of
slots, since two overlapping flushes make offsets matter: `open` opens the WAL in
append mode, but `flush` replaces that descriptor by one that is not in append mode
and starts at 0, and the old `BufWriter`, dropped afterwards, writes its rest through
the old descriptor (`Truncate`).  `Index::save` is three steps (`SaveCreate`,
`SaveWrite`, `SaveRename` or `SaveRenameFails`), under a read lock that several
threads can hold; all of them use the one name `manifest.tmp`, and `holds` says where
the file that a thread has open is by now.  A query takes the segment list and, after
it has read the segments (immutable, so no step), the buffer: `QueryIndex`,
`QueryBuffer`.  Writing the segment file is one step with taking its id, since
nobody else touches a file with that id.

Abstractions: all lines have one length, so an overwritten line is overwritten as a
whole; no I/O errors, kills or recovery (the other module has them).

### TailCollector

`collect_file` polls: `Poll` is the stat and the decision, `Open` (or `OpenError`) the
opening of a new file, `Fill`, `ReadLine`, `EndRead`, `ReadError` the pass over a file
that has grown; the path can change between any two of them.  `ahead` is the read-ahead
of the `BufReader`, whose descriptor is at `pos`.  The application (`Write`), log
rotation (`Rename`, `Create`) and an operator (`Clear`) are external.  The application
keeps writing to the renamed file until there is a new one.  Pieces of a line are
numbered in the order of writing; the sets `Breaks`, `Garbled` and `Fatal` say which end
a line, are not UTF-8, or make `strip_level_prefix` panic.

Abstractions: a piece is one unit long, every line has some text that the parser
accepts, inode numbers are not reused (the reader keeps the old file open, so its
number stays taken), the receiver of the channel outlives the thread.

The application writes no more than `Pieces`, so it comes to rest and every pass over the file
ends.  The code's own pass need not: it reads until nothing is left, and looks at the stop flag
only before the next one.  `StopEnds` therefore has the premise `Rests`, which always holds in
this model; of an application that never rests it says nothing (section 6).

### SharedDirectory

`cmd_query` and `cmd_stats` open an engine on the directory of a running agent, and that
`open` recovers: `Load` (index), `ReadWal`, `Rewrite` (the segment), `Resave` (the manifest),
`CutWal`, then `Answer`.  The agent's steps are `AppendLine`, `Drain`, `WriteSegment`,
`SaveManifest`, `Truncate` and, when its source ends, `Close`.  A step is what a process
does to one file.  Each process has its own list, next id and WAL descriptor; the files are
shared, and nothing locks the directory.  An open after `Close` is also the restart of the
agent.

`exposed` are the lines that a recovery has overtaken: appended after it read the WAL and
before it truncated it, or in a segment that it overwrote or left out of the manifest;
`carried` those that the agent was flushing while a reader opened.  Both come from what the
steps do, not from what the properties need, and the actions say which lines go there.

Abstractions: no kills and no I/O errors (`StorageEngine` has them, for one process); a
save of the manifest is one step (`SharedEngine` takes it apart).

### SegmentFormat and SegmentIndex

A segment file is a function from offsets to fields, with the length of the file.
The layouts (`HeaderWrites`, `HeaderReads`, ...) are the offsets in the code, once from where
it writes and once from where it reads, and every reader looks where its own layout says;
what is not a field there reads as `Garbage`.  `SegmentFile` is the writer's sequence of
header, pattern table, dictionary, chunk table, padding, data, summaries and footer, and
`Parse`, `HeaderOf`, `SizeStats`, `ScannedMeta` and `SearchV2` are the five readers, which
compute the start of the chunk table each in their own way.  A CRC is the content it was
taken of, so it matches exactly when nothing changed.

`SegmentIndex` runs the engine over such files: `AppendLine`, `Flush`, `Close`,
`OpenListed` and `OpenScanned` (by whether the manifest can be read), `LoseManifest`,
`Rebuild`.  Chunks, pattern masks, bloom filters and the fold of a chunk's filter into a
segment's are as in `write_segment_v2`; the query with its filters, limit and sort, and
`may_exist` and `count_at_least` are operators that the invariants evaluate in every state.

Abstractions: a message is a sequence of words and one parameter, extraction turns a kind
of message into one template (`TemplateExtract` has the real rule), a chunk decodes to its
lines (`ChunkCodec`), sizes in bytes are a fixed multiple of the number of lines, and `Hash`
and the alignment are constants.  The
mapped `query_segment_v1` is reached by a directory that starts with an old segment.

### Varints, ParamCodec, TemplateExtract, ChunkCodec

`Varints` has the readers and writers of variable-length integers, with a shift that loses
the bits beyond the word as the code's does; the number of bits in a byte and in a word are
constants.

A token is a record that says what kind of text it is (number with sign and leading zeros,
hexadecimal, block id, address, path, word); `IsInteger` and its neighbours are the `try_`
functions, asked in the order of `from_str`, and bytes are sequences of numbers.
`TemplateExtract` collects a batch (`Collect`) and extracts templates group by group
(`Extract`, `TakeGroup`, `SplitGroup`, `TakeSubgroup`), in any order, since the code
iterates over hash maps.  `ChunkCodec` adds the writing of a segment (`Seal`, `Panic`); a
chunk is a sequence of cells (a number or a text), and the readers find their way by the
counts in it, as the code does by offsets.

Abstractions: `tokenize_v2` is left out; zstd and its dictionaries are external.  Numbers
are bounded by `IntMax` instead of 64 bits, the length field of XOR-P by `LenLimit` instead
of 16 bits, four levels in a byte are two, and a service index of one byte ends at
`ByteLimit`.  Ids of templates and counts of lines do not wrap.

### LineParser and AgentPipeline

A raw line is blank, a JSON object (a function from names to values) or a text.
`ParseLine` is the whole of `parse_line`.  `strip_level_prefix` looks for a level word in the
upper-case copy of the line and cuts the line itself at the byte it found, so a text is a
sequence of words with three things more: `at`, the byte at which each word begins in the
line, `up`, the byte at which it begins in the upper-case copy, and `bounds`, the bytes of the
line before which a character ends.  The upper case of a character can have more bytes than the
character (`ɐ`) or fewer (`ı`).  `Cut` is the byte in the copy, `From` what is left of the line
when it is cut there, which may be nothing, a part of a word (`Part`), or more than was meant,
and `Panics` says that the cut is inside a character or behind the end.

In `AgentPipeline` the collector thread tails a file (`LookAtFlag`, `Stat`, `EndPass`,
`FailPass`), reads standard input (`SkipLine`, `SeeFlag`, `EndOfInput`) or is the mock
(`MockRound`, `MockSend`, `MockEnds`); a line of either is parsed and sent by `TakeLine`, or the
parser panics at it and the thread is gone (`Die`).  The owner of the collector is a loop that
receives until the channel is disconnected (`Receive`, `Disconnected`, `CallStop`), or a caller
that stops the collector whenever it likes (`CallStop`, `Joined`) and takes the rest
(`Drained`) or has dropped its end of the channel (`DropReceiver`).  `cmd_agent` is the loop
with a file: a file has no end, so it ends by a panic of the parser and by nothing else.  The
loop with a mock is `test_collector_to_storage_pipeline`, the caller with a file
`test_windows_2k_compression_vs_pure_zstd`; nothing in the repository starts standard input,
which is offered to callers of the library.

Abstractions: time is a counter of ticks that never goes back; of the file only the lines
matter that come after the reader's first seek (pieces, rotation and truncation are in
`TailCollector`); a text has single blanks between its words, which do not occur inside one; what
`append` does with a line is in `StorageEngine`.

### Faulty variants

Some definitions have a neighbour marked "Faulty variant", for example `NoSave` before
`Saved`.  The specification never uses them; each is the body of a mutant.

## 3. Runs

| Run | Instance | Shows |
|---|---|---|
| `storage_safety` | 4 lines (one blank message), buffer 2, 2 kills, 1 fault, 7 ids | the engine implements `LogStore`; the inductive invariants `IInv` and `AuditInv`, and the properties below |
| `storage_recovers` | 3 lines, 2 kills, 1 fault, fairness | `BootRecovers` |
| `shared_safety` | 3 threads, 4 lines, buffer 3 | the safety properties of shared use |
| `shared_returns` | 2 threads, 3 lines, fairness | `CallsReturn` |
| `directory` | 5 lines, buffer 2, 4 opens, 8 ids | what a second process can do to an agent's lines, and what not |
| `codec` | batches of up to 3 of 19 lines, chunks of 2 or 3; integers of 5 bits in groups of 2 | round trips of all codings |
| `index` | 3 lines of 4, two configurations, one repair, with or without an old segment | files, list, totals, queries and filters agree |
| `tail_safety` | 4 pieces (one line of two, one garbled, one fatal), 2 rotations, 1 truncation, fairness | what the file tail sends, and that `stop` ends |
| `pipeline` | 122 inputs of 2 or 3 raw lines, in the file and on standard input, or a mock of 3 ticks and 2 lines each; both owners, fairness | what reaches `append`, what ends the agent, and that `stop` ends |
| `storage_crash_loss`, `storage_poison`, `index_may_exist` | 3 lines; 1 line | findings, see section 6 |

Safety properties of `StorageEngine`:

- `OnlyKnownLosses`: an acknowledged line is recoverable from the files, or in the
  `BufWriter`, or was lost there by a kill, or was in a batch whose segment failed.
- `AckedIsVisible`: between two calls, `query` finds those lines.
- `CopiesBounded`: each kill or error adds at most one copy of a line.
- `OrphansAreCovered`: a segment file that the manifest does not list may be
  overwritten: it has no acknowledged line of its own.
- `ListedIsImmutable`, `TruncatedIsSealedOrAbandoned`: what a step may never do.
- `StatsAreExact`: without kills and errors the totals are right, after reopening too.

Of `SharedEngine`: `ExactlyOnce`, `ManifestCatchesUp`, `QueryIsExact`,
`DropLosesOnlyExposed`, `CallsReturn`.

Of `SharedDirectory`: `AckedIsServed` (the agent's own engine, and after its end the next
open, have every acknowledged line but the exposed ones), `QueryMissesOnlyCarried`, and the
action property `RecoverableGrows`: no step of anybody takes away a line that the next open
would serve.

Of `ChunkCodec`: `RoundTrip` (`VarintsRoundTrip`: every integer is read back, and refused when
it is cut; `RecordsFit`: one record for each line, of its template's
shape; `PanicsOnlyOnBlank`: sealing fails for one kind of batch only; `ReadsBack`),
`CutChunkFails`, `OtherCodingsAgree` (`LegacyAgrees`, `CompressorRoundTrip`).

Of `SegmentIndex`: `SealedIsParsed` (with the laws of the layouts),
`DamageIsCaught`, `ListIsTrue` (`TypeOK`, with: the next id is free; `EntriesAreTrue`,
`TotalsSurvive`), `QueryIsSound`, `QueryFinds`, `MayExistKeepsWords`.

Of `TailCollector`: `SentWithoutGap` (`SentInOrder`, `NoGap`), `LeftUpToLastSize`,
`ArrivesUnlessGarbled`, `StopEnds` (if the application comes to rest).

Of `AgentPipeline`: `Orderly` (`TypeOK`, `InOrder`: the stored and the queued lines are those
of the lines taken, one for each that becomes a log line, at the place that the count of such
lines before it gives; that is said without a recursive filter, so that it can be proved);
`EndsDrained` (who is done has stored all that was taken, and the loop ends by a panic of the
parser, the mock's duration or the end of standard input only); `ParsedAsMeant`
(`TextIsKept`: what becomes of a text whose upper case is not longer; `GeneratedArrives`,
`SpellingsAgree`); `AgentFinishes`, `StopReturns`.

Bounds.  Four lines with a buffer of two give two full batches or up to four small
ones, so that a batch can be replayed after another was sealed.  Two kills reach a
kill during the recovery from a kill; one fault on top reaches every error path, with
recovery after it.  Seven ids are more than any such behaviour uses up except by
errors of replay; `WriteTmp` has the bound in its guard.  In `SharedEngine` three
threads are needed for one to rename, a second to find its file renamed, and a third
to create a new one; four lines let three flushes overlap.

In `TailCollector` two rotations allow one between a stat and the open and another
before the next poll; four pieces give each of three files something to lose.  In
`SharedDirectory` five lines fill the buffer twice and leave one in it, and four opens put a
recovery into each of the agent's flushes and between them.  In `SegmentIndex` three lines
make one segment of up to three chunks, two segments, or a segment and a buffer; their times
are out of order, a parameter of one is a word of another, and a pattern mask of two bits
has fewer than the templates of a segment.  One repair is one manifest lost, one reopening
or one rebuild, after which lines can be appended again.  In `ChunkCodec` there are two
tokens of most types, so that a hole can hold either; a batch of three lets two lines share a
template that the third does not have, and gives the legacy coding a reference row that is
reset.  The integers of `Varints` have 5 bits in groups of 2, so the last group is cut
as the tenth byte is in 64 bits.  In `AgentPipeline` the texts have an upper case that is as
long, shorter and longer; of the last kind one becomes the empty message, one is cut inside a
character, one behind its end, and two lose a beginning.  A line that panics comes first or
last, so that the thread has lines in the channel when it goes, or nothing.

Deadlock is checked in the runs of `StorageEngine` and `SharedEngine`; the systems of the
others end.

Fairness.  `FairSpec` of `StorageEngine` says that a thread inside `flush` or `open`
goes on, and that a stopped agent is started again; it does not say that anybody
appends, flushes, or stops, and kills and faults are bounded but otherwise free.
`FairSpec` of `SharedEngine` says that a thread inside a call is scheduled and gets
its locks in the end: the standard library's locks do not promise an order, but each
lock here is held for a bounded time and the number of calls is bounded.
`FairSpec` of `TailCollector` says that the thread is scheduled, and that a rotation
creates the new file; nobody has to write, rotate, clear or stop.
`Spec` of `AgentPipeline` says that both threads are scheduled and that the clock goes on;
nobody has to feed or close the input, to stop the collector or to drop the receiver.

## 4. Refinement

`LogStore` knows four states of a line (new, volatile, stable, lost).  A kill loses
exactly the volatile lines; a stable line stays stable unless a flush with it failed;
an acknowledged line that is lost never comes back.  `StorageEngine` maps a line to
*stable* when the next `open` would serve it (`Recoverable`), else to *volatile* while
it is in memory; every step of flush and recovery, with all of its file operations,
then is a step of `LogStore` or a stutter.  TLC checks it (`storage_safety`), and
the theorem `Refinement` of `StorageEngineProofs` proves it.

## 5. Proofs

TLAPS has checked, for every value of the constants that the named assumptions allow:

| Module | Theorems |
|---|---|
| `StorageEngineProofs` | `Invariance` (`IInv`), `TypeCorrect`, `LossesAreKnown`, `OrphansCovered`; the action properties `TruncationIsSafe`, `ListedSegmentsAreImmutable`; `Refinement`: `Spec => ImplementsLogStore`; `VisibleAfterAck`, `AuditInvariance` (`AuditInv`), `TotalsAreExact`, `CopiesAreBounded` |
| `SharedEngineProofs` | `SharedInvariance` (`IInv`), `LinesAreOnce`, `ManifestIsCurrent`, `QueriesAreExact`, `DropKeepsUnexposed` |
| `SharedDirectoryProofs` | `DirectoryInvariance` (`IInv`), `AckedStaysServed`, `ReadersAreAnswered`; the action property `NothingIsTakenAway` |
| `SegmentFormatProofs` | `WrittenIsRead`, `WrittenIsReadV1`: what the readers find in a written file |
| `SegmentIndexProofs` | `IInvHolds` (`IInv`), `SealedIsAlwaysParsed`, `DamageIsNeverMissed`, `ListIsAlwaysTrue`, `QueriesAreAlwaysSound`, `QueriesAlwaysFind`, `WordsAreAlwaysKept` |
| `TailCollectorProofs` | `TailInvariance` (`IInv`), `TailSendsTheFile`; the action property `RotationLosesLittle` |
| `AgentPipelineProofs` | `PipelineInvariance` (`IInv`), `PipelineIsOrderly`, `PipelineEndsDrained`, `LinesAreParsedAsMeant` |

The assumptions are that sets of lines and of threads are finite, that bounds and limits are
numbers (a buffer limit is positive), that a WAL hole is not a line, that a piece is not at the
same time invalid UTF-8 and a text on which the parser panics (decoding comes first), that the
bytes of a text are consistent (`IsText`: words begin one after the other in the line and in its
upper-case copy, and a character ends before each), that a word which ends in a level word also
contains it, that a line of a segment has one of the levels that `parse_line` gives, that a
chunk takes at least one line, that an old segment has a line, that times and ranges are
numbers, and that `Lower` knows the words of every line. Nothing is assumed of `Hash`, `Within`,
`LevelOf` and `TooShort`, and of the bits in a pattern mask only that they have a number.

Each safety proof has the same shape: `Init => IInv`, one lemma per conjunct of `IInv` that
takes it over a step with one case per action, and one lemma for each property that follows.
TLC checks each inductive invariant in the safety run of its module; those of `AgentPipeline`
and `SegmentIndex` stand in the proof modules, and TLC finds them true of the instances of
`PipelineSafety.cfg` and `IndexSafety.cfg`.

**StorageEngine.**  `OnlyKnownLosses` is not inductive.  That `Truncate` loses nothing needs that
the WAL has only lines of the buffer, the batch or listed segments (`WalInv`), which needs that
`Drain` writes out the `BufWriter` and that the buffer is empty inside a flush
(`MemoryInv`), and that the manifest is the list in memory at that point (`ListInv`).
That `Rename` destroys nothing needs that its id is not listed (`IdInv`) and that the
unlisted file it may replace has no acknowledged line of its own (`OrphanInv`,
`OrphansAreCovered`): such a file was left by an earlier process whose WAL still had
its lines, and replay has put them into the batch.  That a kill in mid-flush loses
nothing beyond the `BufWriter` needs the write-ahead rule (`WriteAheadInv`).  `SealedStays` is
the lemma that what the list or the manifest names survives a step.

`AuditInv` is inductive relative to `IInv`.  `StatsInv` says that, as long as nothing went wrong,
the files are those of the list and a segment is counted from `Save` on.  `CopiesInv` counts the
places of a line (`Holders`: segment files, listed or not, and one for the WAL with the memory):
between the rename and the truncation a line of the batch has one too many, which a kill or an
error then leaves there for good; that is why each of them adds at most one.

**Refinement.**  `StoreStep` takes a step of the engine to a step of `LogStore` or a stutter.  The
lemmas before it name the ways a step can act on the status of lines: it changes none
(`Stutters`), makes volatile lines stable (`Hardens`: `Drain`, `Rename` and `Save`, and the
loss of the manifest, after which the files speak for themselves), accepts a line, ends the process
(`Closes`, `Crashes`) or fails with one (`Fails`).  They need `IInv` before and after the step.

**SharedEngine.**  `ExactlyOnce` needs that batches, buffer and segments are disjoint
(`PlaceInv`), that an id is handed out once and its file is the batch of the thread
(`FlightInv`), and that nobody is answered for the line of another (`AnswerInv`).  For
`ManifestCatchesUp` `SaveInv` follows the temporary file through the renames of several threads:
a save whose file was renamed by another one finds its list on disk already, and a file that is
not written yet has a thread that will write it.  For `DropLosesOnlyExposed` `WalInv` says
that the part of the WAL behind the descriptor has no hole, and together with the `BufWriter` has
every line of the buffer but the exposed ones; `WalFileProofs` has what a write does to that part,
in append mode and out of it.

**SharedDirectory.**  The lists of both processes and of the manifest are beginnings of 1, 2, ...
(`IdInv`), so two processes can only differ in the last ones.  `ListedInv` says which
segments one of them does not know, and that these are exposed or on their way to the manifest;
`RescueInv` that what a recovery has read is safe without the WAL before it cuts it;
`SafeInv` and `OwnInv` that a line is in the next open's reach, in the agent's reach, or
exposed; `AskedInv` what a reader has already or will have.  `RecoverableGrows` then follows
action by action.

**SegmentFormat.**  A file is the union of parts on sets of offsets that do not meet: header, fields
of the header, table, dictionary, and an entry, a summary and the data of each chunk.  `WrittenIsRead`
places each of them (the data of a chunk by the sum of the sizes before it, which grows), so that a
reader finds there what was put there, with its width, and finds nothing where no part begins; that is
what makes the wrong offset of `scan_segment_meta` harmless in a file without a dictionary.  The CRC of
the footer is the content itself, so `Verified` is an equation of functions.

**SegmentIndex.**  None of the properties is inductive, since they speak of files that are read and of
answers that are computed.  `IInv` says where these come from: every file is one that
`SegmentFile` wrote for some cut of its batch into chunks, in some order of its templates
(`FilesAreWritten`); an entry of the list, and of the manifest that may be loaded later, says what is
true of its file (`ListIsOf`), with less said of an entry that was read back from the file
(`MetaIsTrue`: nothing but types if there is a dictionary, the range only if there is one chunk in
order); the keyword map has the words of every file (`WordsAreMapped`), whether they were added at a
flush or read at an open; and the totals are those of the files.  There is one lemma per action
(`FlushKeeps`, `OpenScannedKeeps`, ...).  Below them are the lemmas on the model's operators:
`SortedBy` is a permutation in order, `FlattenSeq` has an origin for every element (`Origins`), and sums and
folds over finite sets.  For these, facts of the form "for every length" are proved by the set of the
lengths for which they hold (`NumbersUpTo`), which needs no induction theorem.
The properties then follow in any state of `IInv`.  `DamageIsCaught` goes through the fields of a file:
a changed one makes the content differ from the CRC of the footer, a cut one leaves no footer where the
reader looks.  `QueryIsSound` counts a line in the answer by the places that it came from.  For `QueryFinds`,
a line that is due is followed from its chunk through the three filters: the range (the lines are
in order, so those of a chunk lie between its first and its last), the pattern mask (the
template that has the keyword is the line's own, or there is one chunk and every template has its bit),
and the end of the data.

**TailCollector.**  Files are runs of successive pieces, and a later file has later ones (`FileInv`);
the recorded inode is never ahead of the file behind the reader (`InodeInv`); the `BufReader` is a
window on that file (`BufferInv`).  From there, what was sent lies behind the reader (`SentInv`),
and what lies behind the reader was sent, but for the lines that cannot be (`GapInv`), which gives
`NoGap`.  `PassInv` is the part of it that a rotation does not take away.

**AgentPipeline.**  `InOrder` is inductive with the two thread invariants: a round of the mock has
not sent more than its goal (`LoopInv`), and a loop stops a thread only after that has ended
by itself, which it does at a line the parser panics on, after the mock's duration or with all of
standard input taken (`OwnerInv`); `EndsDrained` rests on that.  `ParsedAsMeant` rests on no
invariant but the type of the input.  Names of a JSON object are looked up in lists of which at
most one name is there (`OnlyName`).  For a text, `Cut` is the byte in the copy of the word behind
the level word; when that is no further on than the word's byte in the line, the words that `From`
keeps begin no later (`FromIs`), and there is one, since a level word has a blank behind it and
the line is trimmed.

Only model-checked: `BootRecovers`, `CallsReturn`, `AgentFinishes`, `StopReturns`,
`ArrivesUnlessGarbled` and `StopEnds`, since liveness under fairness is out of the prover's reach;
and the properties of `ChunkCodec` (`RoundTrip`, `CutChunkFails`, `OtherCodingsAgree`).  `ParamCodec` uses
the bitwise exclusive or of the module `Bitwise`, from which no theorem can be proved, and that holds for
the modules above it.  `VarintsRoundTrip` is a part of `RoundTrip` and needs no `Bitwise`, but it multiplies
and divides by powers of a constant, which is beyond the arithmetic of the provers.

## 6. Where code and documents disagree

1. `storage_crash_loss`: an acknowledged line can be lost by a kill, Ctrl+C included
   (`storage.rs:203`, readme:19).
2. `storage_poison`: one line with a blank message can make every `open` panic
   (`storage.rs:405`, `template.rs:397`).
3. `index_may_exist`: `may_exist` denies keywords that stored lines have: parameters, parts
   of words, service names, other case (`index.rs:184`, :182).

What the properties have to make an exception for is as instructive.

- After a failed segment write the next flush truncates the WAL with the only copy of the
  batch (`storage.rs:230`, readme:213-217): `abandoned` in `OnlyKnownLosses` and
  `TruncatedIsSealedOrAbandoned`.
- `StatsAreExact` needs that nothing cut the engine short: after a kill inside a flush the
  totals count a batch twice (`storage.rs:166`).
- Two threads in `save` share one temporary name, and the second rename makes an append fail
  without a fault (`index.rs:505`; `test_concurrent_append` expects success): the action
  `SaveRenameFails`; `ManifestCatchesUp` says that the manifest is complete all the same.
- `DropLosesOnlyExposed` and the properties of `SharedDirectory` need the history variable
  `exposed`: with two writers even a stop in good order loses lines that were appended between
  the two critical sections of the other's flush (`storage.rs:239`; readme:277 assumes one
  writer, nothing enforces it).  `query` and `stats` are writers in this sense.
- `stop` sets a flag that a pass over the file does not look at, and the pass goes on as long as
  there is something to read (`collector.rs:148`, :111): `stop` waits for ever for an
  application that appends as fast as its lines are read (against :85, "tell the thread to exit
  and wait for its end").  `StopEnds` has the premise that the application comes to rest.
- A rotation loses the end of the old file (`collector.rs:135`, against :39): `LeftUpToLastSize`
  says that it is not more than what came after the last pass.
- Lines behind one that is not UTF-8 wait until the file grows (`collector.rs:161`, against
  :8), and a line that gets longer in upper case can end the agent (`collector.rs:334`):
  `ArrivesUnlessGarbled` excepts both.  It is the only end that `cmd_agent` has
  (`EndsDrained`).
- When such a line is cut without a panic, its message has lost its beginning; `ɐ ERROR x`
  becomes the empty message, which is the line of `storage_poison`.  `TextIsKept` says that no
  other text loses anything.
- `SentInOrder` lets a message be a part of a line, since `read_line` returns an unfinished
  line at the end of the file (`collector.rs:150`).  No property of `TailCollector` holds for
  a file that was emptied: when it has regrown to its old size by the next poll, it is read on
  from its middle or not at all (`collector.rs:167`).
- `EntriesAreTrue` and `TotalsSurvive` leave out segments with a dictionary: the readers at
  `storage.rs:323` and `index.rs:573` look for the chunk table where the dictionary is.  A time
  range that was read back from a file is that of its first chunk (`index.rs:638`).
- `QueryFinds` leaves out segments whose lines are not in time order (`storage.rs:419` takes
  the first and the last line's time for the range of a chunk) and matches in a parameter when
  another template has the keyword in a literal (`storage.rs:887`).
- `count_at_least` is no lower bound (`index.rs:224`): a word counts once for each occurrence
  in any segment, again after a rebuild, and in lower case only; `MayExistKeepsWords` says only
  that it is not positive where `may_exist` is false.
- The chunk offsets of old segments are absolute and `chunk_data` adds the data offset again
  (`format.rs:1019`): `SealedIsParsed` reads the chunks of new ones only.
- Tokens come back changed where their type loses something: `0xAB` as `0xab`, `blk_-0` as
  `blk_0` (`Lossy`); a literal `*` is confused with a hole (`StarInBatch`); a parameter of
  65536 bytes or more breaks XOR-P (`LongParam`), and one that is a NUL or a newline breaks the
  compressor's batches (`Delimited`).
- A level that is none of D, I, W, E comes back as I (`Shown`).
- A line of standard input that arrives together with `stop` is thrown away
  (`collector.rs:196`, `refused`); `stop` waits for a line that may never come
  (`collector.rs:91`), and a read error that stays is read again for ever (`collector.rs:207`,
  `Stuck`).
- The comment on the segment header (`format.rs:284-290`) gives other offsets for the reserved
  bytes than the code uses; the layouts are those of the code.

## 7. Not modelled, and what is left

Not modelled: zstd with its dictionaries and errors; the arithmetic of the CRC; the writer of
the first segment version (only tests call it); file names and `parse_segment_name`, which reads
back only eight digits of an id; the template trie (not called); `tokenize_v2`; argument
parsing, printing and formatting; the compressor's JSON fallback; the wrap of 16- and 32-bit
counts of chunks, templates and lines.  A WAL line torn by a kill and the page cache after a
power loss (nothing syncs the WAL or the directories, `storage.rs:222`) depend on line lengths
and on the file system.  The channel has no bound (`collector.rs:54`, against the 10000 lines of
`collector.rs:5`), and no code reacts to its length.  Two processes are not combined with kills
and I/O errors, `rebuild` not with other threads (`index.rs:312`: it computes ids anew while a
flush may hold one; nothing in the engine calls it), and a clock that goes back is left out.

Every safety property that a run checks is proved, except for those of `ChunkCodec`, for the reason given
in section 5; liveness stays with TLC.
