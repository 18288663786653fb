----------------------------- MODULE SharedEngine -----------------------------
(***************************************************************************)
(* One open StorageEngine (src/agent/storage.rs, src/agent/index.rs)       *)
(* shared by several threads through an Arc, the way test_concurrent_append*)
(* uses it: every thread appends, flushes and queries.  A step is what a   *)
(* thread does under one lock, the mutex of WriteState or the RwLock of    *)
(* the segment list; what it does between two of them interleaves.         *)
(*                                                                         *)
(* There are no I/O errors and no recovery here: StorageEngine has them,   *)
(* for one thread.  The WAL file is a sequence of slots, and all lines are *)
(* one slot long, because file offsets decide what it holds after two      *)
(* flushes that overlap.                                                   *)
(***************************************************************************)
EXTENDS WalFile, FiniteSets

CONSTANTS
    Lines,            \* the log lines that reach append
    Threads,          \* the threads that share the engine
    MaxBufferLines    \* StorageConfig.max_buffer_lines

ASSUME LinesAssumption == IsFiniteSet(Lines) /\ Hole \notin Lines
ASSUME ThreadsAssumption == IsFiniteSet(Threads)
ASSUME BufferAssumption == MaxBufferLines \in Nat \ {0}

\* Every segment has a line of its own.
SegId == 1..Cardinality(Lines)

VARIABLES
    \* WriteState, behind its mutex, and the file it writes to
    buffer,     \* WriteState.buffer
    walBuf,     \* lines still inside the BufWriter, in order
    fd,         \* the descriptor in the BufWriter: [append, pos]
    wal,        \* the slots of wal/current.wal
    \* Index, and the segment files
    nextId, index, segs,
    savers,     \* threads inside Index::save: they hold the read lock
    listed,     \* the list that thread t serialized in save
    holds,      \* where the file is that t created in save
    tmpList,    \* index/manifest.tmp: [there, full, ids]
    manifest,   \* index/manifest.midx: [there, full, ids]
    \* per thread
    pc, batch, curId,
    mine,       \* the line whose append runs the flush, if any
    snap,       \* the segment list the query took
    \* history
    appended, acked,
    failed,     \* lines whose append returned an error
    exposed,    \* lines appended while a flush was past its drain
    asked,      \* lines acknowledged when the query began
    carried     \* lines that were in some flush while the query ran

state    == <<buffer, walBuf, fd, wal>>
segments == <<nextId, index, segs>>
saving   == <<savers, listed, holds, tmpList, manifest>>
flight   == <<batch, curId>>
query    == <<snap, asked>>
calls    == <<acked, failed>>
vars == <<buffer, walBuf, fd, wal, nextId, index, segs, savers, listed, holds,
          tmpList, manifest, pc, batch, curId, mine, snap, appended, acked,
          failed, exposed, asked, carried>>

In(S) == UNION {segs[i] : i \in S}

Nothing == [there |-> FALSE, full |-> FALSE, ids |-> {}]

Init ==
    /\ buffer = {} /\ walBuf = <<>> /\ wal = <<>>
    /\ fd = [append |-> TRUE, pos |-> 0]
    /\ nextId = 1 /\ index = {} /\ segs = [i \in SegId |-> {}]
    /\ savers = {} /\ tmpList = Nothing /\ manifest = Nothing
    /\ listed = [t \in Threads |-> {}]
    /\ holds = [t \in Threads |-> "nothing"]
    /\ pc = [t \in Threads |-> "idle"]
    /\ batch = [t \in Threads |-> {}] /\ curId = [t \in Threads |-> 0]
    /\ mine = [t \in Threads |-> {}]
    /\ snap = [t \in Threads |-> {}]
    /\ appended = {} /\ acked = {} /\ failed = {} /\ exposed = {}
    /\ asked = [t \in Threads |-> {}] /\ carried = [t \in Threads |-> {}]

Goto(t, label) == pc' = [pc EXCEPT ![t] = label]

\* Threads that have drained the buffer and not yet reset the WAL.
InFlight == {t \in Threads : batch[t] # {}}

\* Their lines that no listed segment has yet.
Unlisted == UNION {batch[t] : t \in {u \in InFlight : pc[u] \in {"write", "index"}}}

-----------------------------------------------------------------------------
(* append *)

\* append under the mutex.  The BufWriter pushes out nothing, the older lines,
\* or everything.  A full buffer sends the thread on into flush.
AppendLine(t, l) ==
    /\ pc[t] = "idle" /\ l \notin appended
    /\ appended' = appended \cup {l}
    /\ buffer' = buffer \cup {l}
    /\ LET all == Append(walBuf, l) IN
       \E n \in {0, Len(walBuf), Len(all)} :
         LET out == SubSeq(all, 1, n) IN
         /\ walBuf' = SubSeq(all, n + 1, Len(all))
         /\ wal' = Written(wal, fd, out)
         /\ fd' = Advanced(fd, out)
    /\ IF Cardinality(buffer') >= MaxBufferLines
       THEN /\ Goto(t, "drain")
            /\ mine' = [mine EXCEPT ![t] = {l}]
            /\ UNCHANGED acked
       ELSE acked' = acked \cup {l} /\ UNCHANGED <<pc, mine>>
    /\ exposed' = IF InFlight = {} THEN exposed ELSE exposed \cup {l}
    /\ UNCHANGED <<flight, failed, carried, segments, saving, query>>

-----------------------------------------------------------------------------
(* flush *)

\* flush or append returns Ok to its caller.
ReturnOk(t) ==
    /\ Goto(t, "idle")
    /\ acked' = acked \cup mine[t]
    /\ mine' = [mine EXCEPT ![t] = {}]
    /\ batch' = [batch EXCEPT ![t] = {}]
    /\ curId' = [curId EXCEPT ![t] = 0]

\* Another thread drained the buffer in between.
FlushNothing(t) ==
    /\ pc[t] = "drain" /\ buffer = {}
    /\ ReturnOk(t)
    /\ UNCHANGED <<state, segments, saving, query, appended, failed, exposed, carried>>

\* Faulty variant: the lines are copied, not drained.
Copied == buffer

\* What drain(..) leaves in the buffer.
Drained == {}

\* First critical section of flush, called by append or by the user of the
\* engine.
Drain(t) ==
    /\ pc[t] \in {"idle", "drain"} /\ buffer # {}
    /\ wal' = Written(wal, fd, walBuf)
    /\ fd' = Advanced(fd, walBuf)
    /\ walBuf' = <<>>
    /\ batch' = [batch EXCEPT ![t] = buffer]
    /\ buffer' = Drained
    /\ Goto(t, "write")
    /\ carried' = [u \in Threads |->
                     IF pc[u] = "query" THEN carried[u] \cup buffer ELSE {}]
    /\ UNCHANGED <<curId, mine, appended, calls, exposed, segments, saving, query>>

\* Faulty variants: the id is read and not advanced, or advanced twice.
SameId == nextId
SkippedId == nextId + 2

\* next_segment_id under the write lock of next_id.
FollowingId == nextId + 1

\* The segment is written under an id of its own; nobody else touches the file.
WriteSegment(t) ==
    /\ pc[t] = "write"
    /\ curId' = [curId EXCEPT ![t] = nextId]
    /\ nextId' = FollowingId
    /\ segs' = [segs EXCEPT ![nextId] = batch[t]]
    /\ Goto(t, "index")
    /\ UNCHANGED <<index, batch, mine, appended, calls, exposed, carried, state,
                   saving, query>>

\* Faulty variant: save keeps no lock while it writes.
Unlocked == TRUE

\* The write lock on the list is free: save holds a read lock to its end.
ListFree == savers = {}

\* The push in add_segment_with_summary.
IndexAdd(t) ==
    /\ pc[t] = "index" /\ ListFree
    /\ index' = index \cup {curId[t]}
    /\ Goto(t, "save")
    /\ UNCHANGED <<nextId, segs, flight, mine, appended, calls, exposed, carried,
                   state, saving, query>>

\* Index::save serializes the list and creates index/manifest.tmp, or empties
\* the one that another thread is writing.
SaveCreate(t) ==
    /\ pc[t] = "save"
    /\ savers' = savers \cup {t}
    /\ listed' = [listed EXCEPT ![t] = index]
    /\ holds' = [holds EXCEPT ![t] = "tmp"]
    /\ tmpList' = [there |-> TRUE, full |-> FALSE, ids |-> {}]
    /\ Goto(t, "put")
    /\ UNCHANGED <<manifest, flight, mine, appended, calls, exposed, carried,
                   state, segments, query>>

\* The list goes into the file, under whatever name it has by now.
SaveWrite(t) ==
    LET list == [there |-> TRUE, full |-> TRUE, ids |-> listed[t]] IN
    /\ pc[t] = "put"
    /\ tmpList'  = IF holds[t] = "tmp" THEN list ELSE tmpList
    /\ manifest' = IF holds[t] = "manifest" THEN list ELSE manifest
    /\ Goto(t, "rename")
    /\ UNCHANGED <<savers, listed, holds, flight, mine, appended, calls, exposed,
                   carried, state, segments, query>>

\* Faulty variant: the lock is kept when the rename fails.
KeptOnError(t) == IF tmpList.there THEN savers \ {t} ELSE savers

\* The read lock is released when save returns.
Released(t) == savers \ {t}

\* manifest.tmp takes the place of the manifest.  Other threads may have it open.
SaveRename(t) ==
    /\ pc[t] = "rename" /\ tmpList.there
    /\ manifest' = tmpList
    /\ tmpList' = Nothing
    /\ holds' = [u \in Threads |->
                   IF u # t /\ holds[u] = "tmp" THEN "manifest" ELSE "nothing"]
    /\ savers' = Released(t)
    /\ listed' = [listed EXCEPT ![t] = {}]
    /\ Goto(t, "trunc")
    /\ UNCHANGED <<flight, mine, appended, calls, exposed, carried, state, segments,
                   query>>

\* Another thread has renamed manifest.tmp already: save, add_segment, flush and
\* the append that called it return an error; the WAL is not truncated.
SaveRenameFails(t) ==
    /\ pc[t] = "rename" /\ ~tmpList.there
    /\ savers' = Released(t)
    /\ listed' = [listed EXCEPT ![t] = {}]
    /\ holds' = [holds EXCEPT ![t] = "nothing"]
    /\ failed' = failed \cup mine[t]
    /\ mine' = [mine EXCEPT ![t] = {}]
    /\ batch' = [batch EXCEPT ![t] = {}]
    /\ curId' = [curId EXCEPT ![t] = 0]
    /\ Goto(t, "idle")
    /\ UNCHANGED <<tmpList, manifest, appended, acked, exposed, carried, state,
                   segments, query>>

\* Second critical section of flush: the WAL is emptied through a new
\* descriptor, which is not in append mode; then the old BufWriter is dropped,
\* and writes what other threads left in it through the old descriptor.
Truncate(t) ==
    /\ pc[t] = "trunc"
    /\ wal' = Written(<<>>, fd, walBuf)
    /\ fd' = [append |-> FALSE, pos |-> 0]
    /\ walBuf' = <<>>
    /\ ReturnOk(t)
    /\ UNCHANGED <<buffer, appended, failed, exposed, carried, segments, saving, query>>

-----------------------------------------------------------------------------
(* query: the segment list first, the buffer after the segments were read. *)

QueryIndex(t) ==
    /\ pc[t] = "idle"
    /\ snap' = [snap EXCEPT ![t] = index]
    /\ asked' = [asked EXCEPT ![t] = acked]
    /\ carried' = [carried EXCEPT ![t] = Unlisted]
    /\ Goto(t, "query")
    /\ UNCHANGED <<flight, mine, appended, calls, exposed, state, segments, saving>>

QueryBuffer(t) ==
    /\ pc[t] = "query"
    /\ snap' = [snap EXCEPT ![t] = {}]
    /\ asked' = [asked EXCEPT ![t] = {}]
    /\ carried' = [carried EXCEPT ![t] = {}]
    /\ Goto(t, "idle")
    /\ UNCHANGED <<flight, mine, appended, calls, exposed, state, segments, saving>>

-----------------------------------------------------------------------------
\* What a thread inside flush or query does next.
Continue(t) ==
    \/ FlushNothing(t)
    \/ pc[t] = "drain" /\ Drain(t)
    \/ WriteSegment(t) \/ IndexAdd(t)
    \/ SaveCreate(t) \/ SaveWrite(t) \/ SaveRename(t) \/ SaveRenameFails(t)
    \/ Truncate(t)
    \/ QueryBuffer(t)

Next ==
    \E t \in Threads :
        \/ \E l \in Lines : AppendLine(t, l)
        \/ pc[t] = "idle" /\ Drain(t)
        \/ QueryIndex(t)
        \/ Continue(t)

Spec == Init /\ [][Next]_vars

\* A thread inside a call is scheduled again and gets its locks in the end.
FairSpec == Spec /\ \A t \in Threads : WF_vars(Continue(t))

-----------------------------------------------------------------------------
(* Properties.                                                             *)

ListFile == [there : BOOLEAN, full : BOOLEAN, ids : SUBSET SegId]

\* Type correctness of the whole state.
TypeOK ==
    /\ buffer \subseteq Lines /\ walBuf \in Seq(Lines)
    /\ fd \in [append : BOOLEAN, pos : Nat]
    /\ wal \in Seq(Lines \cup {Hole})
    /\ nextId \in 1..(Cardinality(Lines) + 1) /\ index \subseteq SegId
    /\ segs \in [SegId -> SUBSET Lines]
    /\ savers \subseteq Threads /\ listed \in [Threads -> SUBSET SegId]
    /\ holds \in [Threads -> {"nothing", "tmp", "manifest"}]
    /\ tmpList \in ListFile /\ manifest \in ListFile
    /\ pc \in [Threads -> {"idle", "drain", "write", "index", "save", "put",
                           "rename", "trunc", "query"}]
    /\ batch \in [Threads -> SUBSET Lines]
    /\ curId \in [Threads -> SegId \cup {0}]
    /\ mine \in [Threads -> SUBSET Lines] /\ snap \in [Threads -> SUBSET SegId]
    /\ appended \subseteq Lines /\ acked \subseteq appended
    /\ failed \subseteq appended \ acked /\ exposed \subseteq appended
    /\ asked \in [Threads -> SUBSET Lines] /\ carried \in [Threads -> SUBSET Lines]

\* Threads never lose or double a line between them: it is in the buffer, or in
\* the batch of one flush, or in one listed segment.
Places(l) ==
    Cardinality({l} \cap buffer)
    + Cardinality({t \in InFlight : pc[t] \in {"write", "index"} /\ l \in batch[t]})
    + Cardinality({i \in index : l \in segs[i]})
ExactlyOnce == \A l \in appended : Places(l) = 1

\* Saves that run into each other end with a complete manifest: when no thread
\* is about to save or saving, it lists every segment.
Settled == \A t \in Threads : pc[t] \notin {"save", "put", "rename"}
ManifestCatchesUp ==
    Settled /\ index # {} => manifest.full /\ manifest.ids = index

\* At the point where query reads the buffer, what it has from the segments is
\* not in the buffer again, and it can only miss an acknowledged line that a
\* flush carried while the query ran.
QueryIsExact ==
    \A t \in Threads : pc[t] = "query" =>
        /\ In(snap[t]) \cap buffer = {}
        /\ asked[t] \subseteq In(snap[t]) \cup buffer \cup carried[t]

Idle == \A t \in Threads : pc[t] = "idle"

\* What the next open serves when the engine is dropped now.
AfterDrop == In(index) \cup Recovered(Written(wal, fd, walBuf))

\* A stop in good order keeps every acknowledged line, except those appended
\* while another thread's flush was between its two critical sections.
DropLosesOnlyExposed == Idle => acked \subseteq AfterDrop \cup exposed

\* Every call returns: the locks of the engine never make all threads wait.
CallsReturn == \A t \in Threads : pc[t] # "idle" ~> pc[t] = "idle"

-----------------------------------------------------------------------------
(* The inductive invariant behind the safety properties.                   *)

\* Where a thread's batch is: drained, in its own file, and in the list.
FlightInv ==
    /\ \A t \in Threads :
         /\ batch[t] # {} <=> pc[t] \in {"write", "index", "save", "put", "rename", "trunc"}
         /\ pc[t] \in {"index", "save", "put", "rename", "trunc"} =>
              curId[t] \in 1..(nextId - 1) /\ segs[curId[t]] = batch[t]
         /\ pc[t] = "index" => curId[t] \notin index
    /\ index \subseteq 1..(nextId - 1)
    /\ \A i \in 1..(nextId - 1) : i \in index \/ \E t \in Threads : pc[t] = "index" /\ curId[t] = i
    /\ \A i \in SegId : i >= nextId => segs[i] = {}
    /\ nextId - 1 <= Cardinality(In(SegId))

\* A line is in one place only, and every appended one is in some place.
PlaceInv ==
    /\ \A t \in Threads : batch[t] \cap buffer = {}
    /\ \A i \in SegId : segs[i] \cap buffer = {}
    /\ \A t, u \in Threads : t # u => batch[t] \cap batch[u] = {}
    /\ \A i, j \in SegId : i # j => segs[i] \cap segs[j] = {}
    /\ \A t \in Threads, i \in SegId : pc[t] = "write" => batch[t] \cap segs[i] = {}
    /\ appended = buffer \cup Unlisted \cup In(index)

\* No line is answered for twice.
AnswerInv ==
    /\ \A t \in Threads : mine[t] \subseteq appended \ (acked \cup failed)
    /\ \A t, u \in Threads : t # u => mine[t] \cap mine[u] = {}

\* What a query holds against the places of the lines.
QueryInv ==
    \A t \in Threads : pc[t] = "query" =>
        /\ snap[t] \subseteq 1..(nextId - 1)
        /\ asked[t] \subseteq In(snap[t]) \cup buffer \cup carried[t]

\* The list on disk is that of the engine as far as it is written at all.
Fresh == manifest.there /\ (manifest.full => manifest.ids = index)

\* A file that is not written yet has a thread that is about to write it; a save
\* whose temporary file was renamed by another thread finds its list on disk.
SaveInv ==
    /\ \A t \in Threads :
         /\ t \in savers <=> pc[t] \in {"put", "rename"}
         /\ t \in savers => listed[t] = index
         /\ t \in savers /\ holds[t] = "tmp" => tmpList.there
         /\ t \in savers /\ holds[t] # "tmp" => Fresh
    /\ tmpList.there => \E t \in savers : holds[t] = "tmp"
    /\ tmpList.there /\ ~tmpList.full => \E t \in Threads : pc[t] = "put" /\ holds[t] = "tmp"
    /\ tmpList.full => tmpList.there /\ tmpList.ids = index
    /\ manifest.full => manifest.there
    /\ manifest.there /\ ~manifest.full =>
         \E t \in Threads : pc[t] = "put" /\ holds[t] = "manifest"
    /\ Settled /\ index # {} => Fresh

\* The slots that the open descriptor has behind it hold no zero bytes, and with
\* the BufWriter every line of the buffer, but for the exposed ones.
WrittenTo == IF fd.append THEN Len(wal) ELSE fd.pos
Backed(l) ==
    \/ \E k \in 1..WrittenTo : wal[k] = l
    \/ \E k \in 1..Len(walBuf) : walBuf[k] = l
WalInv ==
    /\ WrittenTo <= Len(wal)
    /\ \A k \in 1..WrittenTo : wal[k] # Hole
    /\ \A l \in buffer \ exposed : Backed(l)
    /\ InFlight # {} => buffer \subseteq exposed

\* The conjunction is inductive.
IInv ==
    /\ TypeOK /\ FlightInv /\ PlaceInv /\ AnswerInv /\ QueryInv /\ SaveInv /\ WalInv
===============================================================================
