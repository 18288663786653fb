---------------------------- MODULE StorageEngine ----------------------------
(***************************************************************************)
(* StorageEngine of src/agent/storage.rs with the segment list of          *)
(* src/agent/index.rs, used by one writer (the agent loop of src/main.rs): *)
(* append to the text WAL and to the buffer, flush of the buffer into a    *)
(* segment file, registration of the segment in the manifest, truncation   *)
(* of the WAL, and the recovery that open runs after a stop at any point.  *)
(*                                                                         *)
(* A line is a member of Lines and is appended once; files are the sets of *)
(* the lines in them.  A segment id with no file, or a file with no line,  *)
(* has the empty set: no batch is ever empty.                              *)
(***************************************************************************)
EXTENDS Naturals, FiniteSets

CONSTANTS
    Lines,            \* the log lines that reach append
    EmptyMsg,         \* those whose message has no token (empty or blank)
    MaxBufferLines,   \* StorageConfig.max_buffer_lines
    MaxSegId,         \* bound: segment ids are 1..MaxSegId
    MaxCrashes,       \* bound: number of process crashes
    MaxFaults         \* bound: number of I/O errors and lost manifests

ASSUME LinesAssumption == IsFiniteSet(Lines) /\ EmptyMsg \subseteq Lines
ASSUME BufferAssumption == MaxBufferLines \in Nat \ {0}
ASSUME BoundsAssumption == {MaxSegId, MaxCrashes, MaxFaults} \subseteq Nat

SegId == 1..MaxSegId

VARIABLES
    \* on disk
    walFile,     \* wal/current.wal: the lines that read_wal parses from it
    segs,        \* segments/segment-<id>.mobs
    tmp,         \* segments/.tmp.segment-<id>.mobs, left over or being written
    manifest,    \* ids listed in index/manifest.midx; {} when there is no file
    \* in memory
    pc,          \* where the engine's thread is
    booting,     \* the running flush was called by open
    buffer,      \* WriteState.buffer
    walBuf,      \* lines still inside the BufWriter around the WAL file
    batch,       \* logs drained by the running flush
    curId,       \* id of the segment being written, 0 before one is taken
    nextId,      \* Index.next_id
    index,       \* ids in Index.segments
    counted,     \* per id, the lines counted in total_original
    pending,     \* the line whose append is running this flush, if any
    \* history
    appended,    \* lines that were handed to append
    acked,       \* lines whose append returned Ok
    dropped,     \* lines that were inside the BufWriter at a crash
    abandoned,   \* lines of batches whose segment could not be written
    crashes, faults

\* Groups of variables for UNCHANGED.
files == <<segs, tmp, manifest>>
list  == <<nextId, index, counted>>
run   == <<batch, curId, pending>>
calls == <<appended, acked>>
losses == <<dropped, abandoned>>
limits == <<crashes, faults>>
vars == <<walFile, segs, tmp, manifest, pc, booting, buffer, walBuf, batch,
          curId, nextId, index, counted, pending, appended, acked, dropped,
          abandoned, crashes, faults>>

\* Where the engine's thread can be; the last five are inside a running flush
\* that has drained the buffer.
Sealing == {"write", "rename", "index", "save", "trunc"}
PC == {"down", "replay", "idle", "drain"} \cup Sealing

\* The lines of the segment files with ids in S.
In(S) == UNION {segs[i] : i \in S}

Files == {i \in SegId : segs[i] # {}}

-----------------------------------------------------------------------------
(* Init: a data directory nobody has used, no process.                     *)

NoIndex == [i \in SegId |-> 0]

Init ==
    /\ walFile = {} /\ manifest = {}
    /\ segs = [i \in SegId |-> {}] /\ tmp = [i \in SegId |-> {}]
    /\ pc = "down" /\ booting = FALSE
    /\ buffer = {} /\ walBuf = {} /\ batch = {}
    /\ curId = 0 /\ nextId = 0 /\ index = {} /\ counted = NoIndex
    /\ pending = {}
    /\ appended = {} /\ acked = {} /\ dropped = {} /\ abandoned = {}
    /\ crashes = 0 /\ faults = 0

\* The process is gone, and its memory with it.
LoseMemory ==
    /\ pc' = "down" /\ booting' = FALSE
    /\ buffer' = {} /\ walBuf' = {} /\ batch' = {}
    /\ curId' = 0 /\ nextId' = 0 /\ index' = {} /\ counted' = NoIndex
    /\ pending' = {}

-----------------------------------------------------------------------------
(* append *)

\* An I/O error happens.
Fault == faults < MaxFaults /\ faults' = faults + 1

\* How many bytes stay in the BufWriter is a matter of line lengths: the new
\* line may join the old ones, push them out, or go straight to the file with
\* them.  What leaves the BufWriter is in the file.
WalAfterAppend(l) ==
    \E kept \in {walBuf \cup {l}, {l}, {}} :
        /\ walBuf' = kept
        /\ walFile' = walFile \cup ((walBuf \cup {l}) \ kept)

\* should_flush: the line limit decides, or the byte limit (any answer).
ShouldFlush(buf, full) == Cardinality(buf) >= MaxBufferLines => full

\* append up to the release of the lock.  The call returns Ok unless the buffer
\* is full: then the same thread goes on into flush().
Append(l) ==
    /\ pc = "idle" /\ l \notin appended
    /\ appended' = appended \cup {l}
    /\ buffer' = buffer \cup {l}
    /\ WalAfterAppend(l)
    /\ \E full \in BOOLEAN :
         /\ ShouldFlush(buffer', full)
         /\ IF full THEN /\ pc' = "drain" /\ pending' = {l}
                         /\ UNCHANGED acked
                    ELSE /\ acked' = acked \cup {l}
                         /\ UNCHANGED <<pc, pending>>
    /\ UNCHANGED <<booting, batch, curId, files, list, losses, limits>>

\* Pushing older lines out of the BufWriter, or the direct write of a long line,
\* fails: the new line is in the buffer already, but not in the WAL, and the
\* limits are not looked at.
AppendWalError(l) ==
    /\ pc = "idle" /\ l \notin appended /\ Fault
    /\ appended' = appended \cup {l}
    /\ buffer' = buffer \cup {l}
    /\ \E out \in SUBSET walBuf :
         /\ walFile' = walFile \cup out
         /\ walBuf' = walBuf \ out
    /\ UNCHANGED <<pc, booting, acked, crashes, files, list, run, losses>>

-----------------------------------------------------------------------------
(* flush *)

\* flush() as a public call; append and open get to "drain" by themselves.
Flush ==
    /\ pc = "idle" /\ buffer # {}
    /\ pc' = "drain"
    /\ UNCHANGED <<walFile, booting, buffer, walBuf, files, list, run, calls,
                   losses, limits>>

\* First critical section: push the BufWriter into the file, take the buffer.
Drain ==
    /\ pc = "drain"
    /\ walFile' = walFile \cup walBuf
    /\ walBuf' = {}
    /\ batch' = buffer
    /\ buffer' = {}
    /\ pc' = "write"
    /\ UNCHANGED <<booting, curId, pending, files, list, calls, losses, limits>>

\* Faulty variant: any record that is alone in its batch is dropped.
PoisonedAlone(lines) == Cardinality(lines) = 1

\* TemplateExtractor::extract drops a record whose message has no tokens when
\* it is alone in its group; the slice of the records then panics.
Poisoned(lines) == Cardinality(lines \cap EmptyMsg) = 1

\* write_segment_v2 up to sync_all of the temporary file.
WriteTmp ==
    /\ pc = "write" /\ ~Poisoned(batch)
    /\ nextId \in SegId                                     \* bound MaxSegId
    /\ curId' = nextId
    /\ nextId' = nextId + 1
    /\ tmp' = [tmp EXCEPT ![nextId] = batch]
    /\ pc' = "rename"
    /\ UNCHANGED <<walFile, segs, manifest, booting, buffer, walBuf, batch,
                   index, counted, pending, calls, losses, limits>>

Rename ==
    /\ pc = "rename"
    /\ segs' = [segs EXCEPT ![curId] = batch]
    /\ tmp' = [tmp EXCEPT ![curId] = {}]
    /\ pc' = "index"
    /\ UNCHANGED <<walFile, manifest, booting, buffer, walBuf, list, run, calls,
                   losses, limits>>

\* add_segment_with_summary under the write lock.
IndexAdd ==
    /\ pc = "index"
    /\ index' = index \cup {curId}
    /\ pc' = "save"
    /\ UNCHANGED <<walFile, booting, buffer, walBuf, nextId, counted, files, run,
                   calls, losses, limits>>

\* Faulty variant: the new segment is only listed in memory.
NoSave == manifest

\* What Index::save renames over the old manifest: the whole list.
Saved == index

\* The manifest is saved.  Back in flush() the sizes are added to the totals.
Save ==
    /\ pc = "save"
    /\ manifest' = Saved
    /\ counted' = [counted EXCEPT ![curId] = @ + Cardinality(batch)]
    /\ pc' = "trunc"
    /\ UNCHANGED <<walFile, segs, tmp, booting, buffer, walBuf, nextId, index,
                   run, calls, losses, limits>>

\* Faulty variant: the WAL is opened without truncate(true).
Untruncated == walFile

\* The WAL after it was opened with truncate(true).
Truncated == {}

\* Second critical section: truncate the WAL, replace the BufWriter.  flush()
\* returns Ok, and so does the append that called it.
Truncate ==
    /\ pc = "trunc"
    /\ walFile' = Truncated
    /\ batch' = {} /\ curId' = 0
    /\ acked' = acked \cup pending
    /\ pending' = {}
    /\ booting' = FALSE
    /\ pc' = "idle"
    /\ UNCHANGED <<buffer, walBuf, appended, files, list, losses, limits>>

-----------------------------------------------------------------------------
(* Errors of flush.  An error of the flush that open runs makes open fail:  *)
(* the process ends and the WAL file is as it was.  Otherwise append or     *)
(* flush returns the error, the agent logs it and goes on.                  *)

\* flush returns an error after the buffer was drained: the batch is dropped,
\* and the lines of it that reached no segment file (lost) are abandoned.
GiveUp(lost) ==
    \/ /\ booting
       /\ LoseMemory
       /\ UNCHANGED abandoned
    \/ /\ ~booting
       /\ pc' = "idle"
       /\ batch' = {} /\ curId' = 0 /\ pending' = {}
       /\ abandoned' = abandoned \cup lost
       /\ UNCHANGED <<booting, buffer, walBuf, index, counted>>

\* The BufWriter cannot be pushed out: the buffer is not drained.
DrainError ==
    /\ pc = "drain" /\ walBuf # {} /\ Fault
    /\ \E out \in SUBSET walBuf :
         /\ out # walBuf
         /\ walFile' = walFile \cup out
         /\ walBuf' = walBuf \ out
    /\ pc' = "idle" /\ pending' = {}
    /\ UNCHANGED <<booting, buffer, batch, curId, crashes, files, list, calls,
                   losses>>

\* The temporary file cannot be created, written or synced.  Its id is used up.
WriteTmpError ==
    /\ pc = "write" /\ ~Poisoned(batch) /\ Fault
    /\ nextId \in SegId                                     \* bound MaxSegId
    /\ \E left \in {tmp[nextId], {}, batch} : tmp' = [tmp EXCEPT ![nextId] = left]
    /\ GiveUp(batch)
    /\ ~booting => nextId' = nextId + 1
    /\ UNCHANGED <<walFile, segs, manifest, dropped, crashes, calls>>

RenameError ==
    /\ pc = "rename" /\ Fault
    /\ GiveUp(batch)
    /\ ~booting => nextId' = nextId
    /\ UNCHANGED <<walFile, dropped, crashes, files, calls>>

\* update_keyword_map_from_segment or save fails: the segment is in the list
\* in memory, not in the manifest; its sizes are not counted.
SaveError ==
    /\ pc = "save" /\ Fault
    /\ GiveUp({})
    /\ ~booting => nextId' = nextId
    /\ UNCHANGED <<walFile, dropped, crashes, files, calls>>

\* The WAL cannot be opened for truncation: it keeps the lines of the batch.
TruncateError ==
    /\ pc = "trunc" /\ Fault
    /\ GiveUp({})
    /\ ~booting => nextId' = nextId
    /\ UNCHANGED <<walFile, dropped, crashes, files, calls>>

-----------------------------------------------------------------------------
(* The end of a process, and open.                                         *)

\* Faulty variant: the process exits without dropping the engine.
WalUndropped == walFile

\* The WAL after StorageEngine was dropped: BufWriter::drop writes the rest.
WalAfterDrop == walFile \cup walBuf

\* write_segment_v2 panics on a poisoned batch; unwinding drops the engine.
Panic ==
    /\ pc = "write" /\ Poisoned(batch)
    /\ walFile' = WalAfterDrop
    /\ LoseMemory
    /\ UNCHANGED <<files, calls, losses, limits>>

\* The process is killed: no destructor runs, the files stay as they are.  The
\* documented way to stop the agent, Ctrl+C, is this action: main.rs installs no
\* signal handler.
Crash ==
    /\ pc # "down"
    /\ crashes < MaxCrashes /\ crashes' = crashes + 1
    /\ dropped' = dropped \cup walBuf
    /\ LoseMemory
    /\ UNCHANGED <<walFile, abandoned, faults, files, calls>>

\* The engine is dropped between two calls.
Shutdown ==
    /\ pc = "idle"
    /\ walFile' = WalAfterDrop
    /\ LoseMemory
    /\ UNCHANGED <<files, calls, losses, limits>>

\* Somebody removes a manifest while no process runs (the index is then
\* rebuilt from the segment files).
LoseManifest ==
    /\ pc = "down" /\ manifest # {} /\ Fault
    /\ manifest' = {}
    /\ UNCHANGED <<walFile, segs, tmp, pc, booting, buffer, walBuf, crashes,
                   list, run, calls, losses>>

\* Faulty variant: a missing manifest is an empty index.
BootIndexNoScan == manifest

\* The ids Index::open finds: those of the manifest, or of a directory scan.
BootIndex == IF manifest # {} THEN manifest ELSE Files

\* Faulty variant: ids are counted, not read.
NextIdByCount(ids) == Cardinality(ids) + 1

\* One more than the largest id, 1 when there is none.
NextIdAfter(ids) ==
    CHOOSE n \in 1..(MaxSegId + 1) :
        /\ \A i \in ids : i < n
        /\ n = 1 \/ n - 1 \in ids

\* Faulty variant: the totals start at zero.
NoSizes == NoIndex

\* The sum over segments/*.mobs, a pattern that temporary files match too.
SizesOnDisk == [i \in SegId |-> Cardinality(segs[i]) + Cardinality(tmp[i])]

\* Index::open (a scanned list is saved when it is not empty) and the totals.
OpenIndex ==
    /\ pc = "down"
    /\ index' = BootIndex
    /\ manifest' = BootIndex
    /\ nextId' = NextIdAfter(BootIndex)
    /\ counted' = SizesOnDisk
    /\ pc' = "replay" /\ booting' = TRUE
    /\ UNCHANGED <<walFile, segs, tmp, buffer, walBuf, run, calls, losses, limits>>

\* Faulty variant: the WAL is only read when there is no segment yet.
RecoveredOnce == IF index = {} THEN walFile ELSE {}

\* The lines that read_wal returns.
Recovered == walFile

\* A WAL with lines is flushed before open returns.
Replay ==
    /\ pc = "replay"
    /\ buffer' = Recovered
    /\ IF buffer' = {} THEN pc' = "idle" /\ booting' = FALSE
                       ELSE pc' = "drain" /\ UNCHANGED booting
    /\ UNCHANGED <<walFile, walBuf, files, list, run, calls, losses, limits>>

-----------------------------------------------------------------------------
EngineStep ==
    \/ Drain \/ WriteTmp \/ Rename \/ IndexAdd \/ Save \/ Truncate
    \/ Panic \/ Replay

FaultStep ==
    \/ DrainError \/ WriteTmpError \/ RenameError \/ SaveError \/ TruncateError
    \/ LoseManifest

Next ==
    \/ \E l \in Lines : Append(l) \/ AppendWalError(l)
    \/ Flush
    \/ EngineStep
    \/ FaultStep
    \/ OpenIndex \/ Shutdown \/ Crash

Spec == Init /\ [][Next]_vars

\* A thread that is inside flush or open goes on, and a stopped agent is
\* started again; nobody has to append, flush or shut down.
FairSpec == Spec /\ WF_vars(EngineStep) /\ WF_vars(OpenIndex)

-----------------------------------------------------------------------------
(* Properties.                                                             *)

\* Type correctness of the whole state.
TypeOK ==
    /\ walFile \subseteq Lines
    /\ segs \in [SegId -> SUBSET Lines] /\ tmp \in [SegId -> SUBSET Lines]
    /\ manifest \subseteq SegId /\ index \subseteq SegId
    /\ pc \in PC /\ booting \in BOOLEAN
    /\ buffer \subseteq Lines /\ walBuf \subseteq Lines /\ batch \subseteq Lines
    /\ curId \in 0..MaxSegId /\ nextId \in 0..(MaxSegId + 1)
    /\ counted \in [SegId -> Nat]
    /\ pending \subseteq Lines
    /\ appended \subseteq Lines /\ acked \subseteq appended
    /\ dropped \subseteq Lines /\ abandoned \subseteq Lines
    /\ crashes \in Nat /\ faults \in Nat

\* What the next open would serve if the process stopped now.
Recoverable == walFile \cup In(BootIndex)

\* A line whose append returned Ok can be recovered from the files, or is on
\* its way there in the BufWriter, or was lost in one of the two ways the code
\* has: inside the BufWriter at a crash, or in a batch whose segment failed.
\* Nothing else in flush, recovery, id assignment or truncation loses a line.
OnlyKnownLosses == acked \subseteq Recoverable \cup walBuf \cup dropped \cup abandoned

\* Read your writes: between two calls, query (the listed segments and the
\* buffer) finds every line that was acknowledged and not lost as above.
AckedIsVisible ==
    pc = "idle" => acked \subseteq In(index) \cup buffer \cup dropped \cup abandoned

\* A stop and an I/O error each add at most one copy of a line: without them
\* every line is in one segment or in the buffer, never in both.
Copies(l) == Cardinality({i \in index : l \in segs[i]})
               + Cardinality({l} \cap buffer)
CopiesBounded == pc = "idle" => \A l \in Lines : Copies(l) <= 1 + crashes + faults

\* A segment file that the manifest does not list (left by a stop between the
\* rename and the save) holds no acknowledged line that is nowhere else, so
\* the next flush may take its id and overwrite it.
OrphansAreCovered == \A i \in SegId : segs[i] \cap acked \subseteq Recoverable

\* The size totals of an engine that was never cut short, by a stop or by an I/O
\* error, count every listed segment once between two calls, reopened or not.
StatsAreExact ==
    pc = "idle" /\ crashes = 0 /\ faults = 0 => \A i \in SegId :
        counted[i] = IF i \in index THEN Cardinality(segs[i]) ELSE 0

\* No acknowledged line is missing from the files while no process runs.
StoppedKeepsAcked == pc = "down" => acked \subseteq Recoverable

\* Ids are never reused: a listed segment never changes its lines, and the
\* manifest only grows (or is removed by somebody else).
ListedIsImmutable ==
    [][/\ \A i \in manifest : segs'[i] = segs[i]
       /\ manifest \subseteq manifest' \/ (pc = "down" /\ manifest' = {})]_vars

\* The WAL lets go of a line only when the manifest lists a segment with it,
\* or its batch was abandoned.
TruncatedIsSealedOrAbandoned ==
    [][walFile \ walFile' \subseteq In(manifest)' \cup abandoned]_vars

\* Every open ends with a usable engine, however often it is interrupted.
BootRecovers == booting ~> pc = "idle"

-----------------------------------------------------------------------------
(* The inductive invariant behind OnlyKnownLosses and ListedIsImmutable.   *)

\* What is in memory at each point of the code: nothing while no process
\* runs, no batch outside a running flush, and no buffer inside one, since the
\* writer is inside flush itself.
MemoryInv ==
    /\ pc = "down" => ~booting /\ index = {} /\ nextId = 0
    /\ pc = "replay" => booting
    /\ pc = "idle" => ~booting
    /\ pc \in {"down", "replay"} \cup Sealing => buffer = {}
    /\ pc \notin Sealing => batch = {} /\ curId = 0
    /\ pc \notin {"drain"} \cup Sealing => pending = {}
    /\ walBuf \subseteq buffer
    /\ booting => walBuf = {}

\* Ids: larger than every listed one, and not listed before IndexAdd.
IdInv ==
    /\ pc # "down" => nextId >= 1 /\ \A i \in index : i < nextId
    /\ pc \in Sealing \ {"write"} =>
         curId \in SegId /\ curId < nextId
    /\ pc = "rename" \/ pc = "index" => curId \notin index
    /\ pc \in {"index", "save", "trunc"} => segs[curId] = batch
    /\ pc = "save" \/ pc = "trunc" => curId \in index

\* The list in memory against the manifest and the files.
ListInv ==
    /\ pc # "down" => manifest \subseteq index
    /\ pc # "down" /\ manifest = {} =>
         Files \subseteq index \cup (IF pc = "index" THEN {curId} ELSE {})
    /\ pc = "trunc" => manifest = index

\* What a running engine would lose by truncating the WAL.
WalInv ==
    pc \notin {"down", "replay"} =>
        walFile \subseteq buffer \cup batch \cup In(index) \cup abandoned

CoverInv ==
    acked \cup pending \subseteq Recoverable \cup walBuf \cup dropped \cup abandoned

\* No line is anywhere before it is appended.
AppendedInv ==
    /\ walFile \cup buffer \cup batch \cup pending \subseteq appended
    /\ \A i \in SegId : segs[i] \subseteq appended

\* The write-ahead rule: what is acknowledged, or about to be, is in the WAL as
\* long as it is in the buffer or in a batch.
WriteAheadInv ==
    /\ (acked \cup pending) \cap buffer \subseteq walFile \cup walBuf
    /\ (acked \cup pending) \cap batch \subseteq walFile
    /\ pending \subseteq buffer \cup batch

\* Files the list does not name: their acknowledged lines are in listed files,
\* or, until open has replayed it, in the WAL.
OrphanInv ==
    /\ booting /\ pc # "replay" => walFile \subseteq buffer \cup batch
    /\ pc # "down" => \A i \in SegId \ index :
         segs[i] \cap acked \subseteq In(index) \cup (IF booting THEN walFile ELSE {})
                                   \cup (IF pc = "index" THEN batch ELSE {})

\* The conjunction is inductive.
IInv ==
    /\ TypeOK /\ MemoryInv /\ IdInv /\ ListInv /\ WalInv /\ CoverInv
    /\ AppendedInv /\ WriteAheadInv /\ OrphanInv /\ OrphansAreCovered

-----------------------------------------------------------------------------
(* The inductive invariants behind StatsAreExact and CopiesBounded.        *)

\* As long as nothing went wrong, the files are those of the list, no temporary
\* file is left over, and a segment is counted from Save on.
StatsInv ==
    crashes = 0 /\ faults = 0 =>
        /\ \A i \in SegId : tmp[i] # {} => pc = "rename" /\ i = curId
        /\ \A i \in SegId : segs[i] # {} =>
             \/ i \in (IF pc = "down" THEN BootIndex ELSE index)
             \/ pc = "index" /\ i = curId
        /\ pc \notin {"down", "save"} => manifest = index
        /\ pc # "down" => \A i \in SegId :
             counted[i] = IF pc \in {"index", "save"} /\ i = curId THEN 0
                          ELSE Cardinality(segs[i])

\* Where a line is: the segment files, listed or not, and 0 for the WAL together
\* with the memory.
Holders(l) ==
    {i \in SegId : l \in segs[i]}
    \cup {i \in {0} : l \in walFile \cup buffer \cup batch}

\* While the batch is in its file and not yet out of the WAL, a line of it has
\* one copy too many, which a stop or an error would leave there.
Sealed == pc \in {"index", "save", "trunc"}
CopiesInv ==
    \A l \in Lines :
        /\ Cardinality(Holders(l)) <=
             1 + crashes + faults + (IF Sealed /\ l \in batch THEN 1 ELSE 0)
        /\ Sealed => Cardinality(Holders(l) \ {0}) <= 1 + crashes + faults

\* Both are inductive relative to IInv.
AuditInv == StatsInv /\ CopiesInv

-----------------------------------------------------------------------------
(* The engine implements LogStore.                                         *)

Status(l) ==
    IF l \notin appended THEN "new"
    ELSE IF l \in Recoverable THEN "stable"
    ELSE IF l \in buffer \cup batch THEN "volatile"
    ELSE "lost"

Store == INSTANCE LogStore WITH
            status <- [l \in Lines |-> Status(l)], doomed <- abandoned

\* Every behaviour of the engine is one of the abstract store.
ImplementsLogStore == Store!Spec
===============================================================================
