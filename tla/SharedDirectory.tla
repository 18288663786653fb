---------------------------- MODULE SharedDirectory ----------------------------
(***************************************************************************)
(* Two processes on one data directory.  The agent (cmd_agent of           *)
(* src/main.rs) keeps a StorageEngine open and appends to it; meanwhile    *)
(* query or stats (cmd_query, cmd_stats) open an engine of their own on    *)
(* the same files, and the open of src/agent/storage.rs recovers: it       *)
(* replays the WAL into a new segment, saves the manifest and truncates    *)
(* the WAL, although the agent is alive.  Nothing locks the directory.     *)
(*                                                                         *)
(* A step is what a process does to one file.  The save of the manifest is *)
(* one step (SharedEngine takes it apart), and there are no I/O errors and *)
(* no kills (StorageEngine has them, for one process).  The open of a      *)
(* reader after the agent has closed is also the restart of the agent.     *)
(***************************************************************************)
EXTENDS WalFile, FiniteSets, FiniteSetsExt, SequencesExt

CONSTANTS
    Lines,            \* the log lines that reach append
    MaxBufferLines,   \* StorageConfig.max_buffer_lines of the agent
    MaxOpens,         \* bound: how often a reader opens the directory
    MaxId             \* bound on segment ids

ASSUME DirectoryAssumption ==
    /\ IsFiniteSet(Lines) /\ Hole \notin Lines
    /\ {MaxBufferLines, MaxOpens, MaxId} \subseteq Nat \ {0}

SegId == 1..MaxId

VARIABLES
    \* the files
    wal,        \* the slots of wal/current.wal
    segs,       \* segs[i]: the lines of segment i, empty when there is no file
    manifest,   \* index/manifest.midx: [there, ids]
    \* the engine of the agent
    buffer, walBuf, fd,
    batch,      \* the lines flush has drained
    list,       \* the ids of Index.segments
    nextId,
    pc,         \* "run", "drain", "write", "save", "trunc", "closed"
    mine,       \* the line whose append runs the flush
    \* the engine of the reader
    opens,
    rpc,        \* "off", "read", "write", "save", "trunc", "query"
    rlist, rnext, rbatch,
    \* history
    acked,      \* lines whose append returned Ok
    touched,    \* a reader read lines from the WAL since the agent truncated it
    exposed,    \* lines of the agent that a recovery may have overtaken
    asked,      \* what was recoverable when the reader loaded the manifest
    carried     \* lines the agent had in a flush since then

files  == <<wal, segs, manifest>>
agent  == <<buffer, walBuf, fd, batch, list, nextId, pc, mine, acked>>
reader == <<opens, rpc, rlist, rnext, rbatch>>
vars == <<wal, segs, manifest, buffer, walBuf, fd, batch, list, nextId, pc, mine,
          opens, rpc, rlist, rnext, rbatch, acked, touched, exposed, asked, carried>>

In(S) == UNION {segs[i] : i \in S}

\* The agent has opened an empty directory.
Init ==
    /\ wal = <<>> /\ segs = [i \in SegId |-> {}]
    /\ manifest = [there |-> FALSE, ids |-> {}]
    /\ buffer = {} /\ walBuf = <<>> /\ fd = [append |-> TRUE, pos |-> 0]
    /\ batch = {} /\ list = {} /\ nextId = 1 /\ pc = "run" /\ mine = {}
    /\ opens = 0 /\ rpc = "off" /\ rlist = {} /\ rnext = 1 /\ rbatch = {}
    /\ acked = {} /\ touched = FALSE /\ exposed = {}
    /\ asked = {} /\ carried = {}

\* A recovery is between its look at the manifest and the end of its changes.
Recovering == rpc \in {"read", "write", "save", "trunc"}

-----------------------------------------------------------------------------
(* The agent.                                                              *)

AppendLine(l) ==
    /\ pc = "run" /\ l \notin acked \cup buffer \cup exposed \cup batch
    /\ buffer' = buffer \cup {l}
    /\ LET all == Append(walBuf, l) IN
       \E n \in {0, Len(walBuf), Len(all)} :
         LET out == SubSeq(all, 1, n) IN
         /\ walBuf' = SubSeq(all, n + 1, Len(all))
         /\ wal' = Written(wal, fd, out)
         /\ fd' = Advanced(fd, out)
    /\ IF Cardinality(buffer') >= MaxBufferLines
       THEN pc' = "drain" /\ mine' = {l} /\ UNCHANGED acked
       ELSE acked' = acked \cup {l} /\ UNCHANGED <<pc, mine>>
    /\ exposed' = IF touched \/ Recovering THEN exposed \cup {l} ELSE exposed
    /\ UNCHANGED <<segs, manifest, batch, list, nextId, reader, touched, asked, carried>>

\* flush pushes out the BufWriter and takes the buffer.
Drain ==
    /\ pc = "drain"
    /\ wal' = Written(wal, fd, walBuf)
    /\ fd' = Advanced(fd, walBuf)
    /\ walBuf' = <<>>
    /\ batch' = buffer /\ buffer' = {}
    /\ carried' = IF rpc = "off" THEN {} ELSE carried \cup batch'
    /\ pc' = "write"
    /\ UNCHANGED <<segs, manifest, list, nextId, mine, reader, acked, touched,
                   exposed, asked>>

\* The rename replaces whatever file has that id.
WriteSegment ==
    /\ pc = "write" /\ nextId \in SegId
    /\ segs' = [segs EXCEPT ![nextId] = batch]
    /\ list' = list \cup {nextId}
    /\ nextId' = nextId + 1
    /\ pc' = "save"
    /\ UNCHANGED <<wal, manifest, buffer, walBuf, fd, batch, mine, reader, acked,
                   touched, exposed, asked, carried>>

\* Faulty variant: a manifest that exists is kept.
SavedOnce(ids) == IF manifest.there THEN manifest ELSE [there |-> TRUE, ids |-> ids]

\* Index::save writes the list of its own process.
Saved(ids) == [there |-> TRUE, ids |-> ids]

\* The lines are safe now, unless a recovery has looked at the directory before
\* and will change it after.
SaveManifest ==
    /\ pc = "save"
    /\ manifest' = Saved(list)
    /\ exposed' = IF Recovering THEN exposed \cup batch ELSE exposed \ In(list)
    /\ pc' = "trunc"
    /\ UNCHANGED <<wal, segs, buffer, walBuf, fd, batch, list, nextId, mine, reader,
                   acked, touched, asked, carried>>

\* The WAL is opened anew, without append mode.
Reopened(f) == [append |-> FALSE, pos |-> 0]

\* The append that ran the flush returns.
Truncate ==
    /\ pc = "trunc"
    /\ wal' = <<>> /\ fd' = Reopened(fd)
    /\ batch' = {} /\ mine' = {}
    /\ acked' = acked \cup mine
    /\ touched' = Recovering
    /\ pc' = "run"
    /\ UNCHANGED <<segs, manifest, buffer, walBuf, list, nextId, reader, exposed,
                   asked, carried>>

\* The agent ends in good order: the destructor pushes out the BufWriter.
Close ==
    /\ pc = "run"
    /\ wal' = Written(wal, fd, walBuf)
    /\ walBuf' = <<>> /\ buffer' = {}
    /\ pc' = "closed"
    /\ UNCHANGED <<segs, manifest, fd, batch, list, nextId, mine, reader, acked,
                   touched, exposed, asked, carried>>

-----------------------------------------------------------------------------
(* query and stats.                                                        *)

\* What Index::open lists: the manifest, or a scan when there is none.
Loaded == IF manifest.there THEN manifest.ids ELSE {i \in SegId : segs[i] # {}}

\* Faulty variant: ids are not carried over from the manifest.
NextIdFromOne(ids) == 1

\* load_manifest and scan_all_segments both leave next_id behind the largest id.
NextId(ids) == IF ids = {} THEN 1 ELSE Max(ids) + 1

\* Index::open; a list that was scanned is saved.
Load ==
    /\ rpc = "off" /\ opens < MaxOpens
    /\ opens' = opens + 1
    /\ rlist' = Loaded /\ rnext' = NextId(Loaded)
    /\ manifest' = IF Loaded # {} THEN Saved(Loaded) ELSE manifest
    /\ asked' = In(Loaded) \cup Recovered(wal)
    /\ carried' = batch
    /\ rpc' = "read"
    /\ UNCHANGED <<wal, segs, agent, rbatch, touched, exposed>>

\* read_wal.  Lines of the agent that it does not see are exposed: their place
\* in the WAL is behind what will be cut off.
ReadWal ==
    /\ rpc = "read"
    /\ rbatch' = Recovered(wal)
    /\ IF rbatch' = {} THEN rpc' = "query" /\ UNCHANGED <<touched, exposed>>
       ELSE /\ rpc' = "write"
            /\ touched' = TRUE
            /\ exposed' = exposed \cup (buffer \ rbatch')
    /\ UNCHANGED <<files, agent, opens, rlist, rnext, asked, carried>>

\* The flush inside open, one file at a time.
Rewrite ==
    /\ rpc = "write" /\ rnext \in SegId
    /\ segs' = [segs EXCEPT ![rnext] = rbatch]
    /\ rlist' = rlist \cup {rnext}
    /\ rpc' = "save"
    /\ UNCHANGED <<wal, manifest, agent, opens, rnext, rbatch, touched, exposed, asked,
                   carried>>

Resave ==
    /\ rpc = "save"
    /\ manifest' = Saved(rlist)
    /\ rpc' = "trunc"
    /\ UNCHANGED <<wal, segs, agent, opens, rlist, rnext, rbatch, touched, exposed,
                   asked, carried>>

CutWal ==
    /\ rpc = "trunc"
    /\ wal' = <<>>
    /\ rpc' = "query"
    /\ UNCHANGED <<segs, manifest, agent, opens, rlist, rnext, rbatch, touched, exposed,
                   asked, carried>>

\* The query reads the segments of its list, answers, and the process exits.
Answer ==
    /\ rpc = "query"
    /\ rpc' = "off" /\ rlist' = {} /\ rnext' = 1 /\ rbatch' = {}
    /\ asked' = {} /\ carried' = {}
    /\ UNCHANGED <<files, agent, opens, touched, exposed>>

-----------------------------------------------------------------------------
Next ==
    \/ \E l \in Lines : AppendLine(l)
    \/ Drain \/ WriteSegment \/ SaveManifest \/ Truncate \/ Close
    \/ Load \/ ReadWal \/ Rewrite \/ Resave \/ CutWal \/ Answer

Spec == Init /\ [][Next]_vars

-----------------------------------------------------------------------------
(* Properties.                                                             *)

\* Type correctness of the whole state.
TypeOK ==
    /\ wal \in Seq(Lines \cup {Hole}) /\ segs \in [SegId -> SUBSET Lines]
    /\ manifest \in [there : BOOLEAN, ids : SUBSET SegId]
    /\ buffer \subseteq Lines /\ walBuf \in Seq(Lines) /\ batch \subseteq Lines
    /\ fd \in [append : BOOLEAN, pos : Nat]
    /\ list \subseteq SegId /\ nextId \in 1..(MaxId + 1)
    /\ pc \in {"run", "drain", "write", "save", "trunc", "closed"}
    /\ mine \subseteq Lines /\ acked \subseteq Lines
    /\ opens \in 0..MaxOpens
    /\ rpc \in {"off", "read", "write", "save", "trunc", "query"}
    /\ rlist \subseteq SegId /\ rnext \in 1..(MaxId + 1) /\ rbatch \subseteq Lines
    /\ touched \in BOOLEAN /\ exposed \subseteq Lines
    /\ asked \subseteq Lines /\ carried \subseteq Lines

\* What an open serves if it happens now and nothing else runs.
Recoverable == In(Loaded) \cup Recovered(wal)

\* Whoever opens the directory meanwhile, the agent's own engine still has every
\* line it acknowledged, in its buffer or in a segment it lists; only lines that a
\* recovery has overtaken may be missing.
AgentServes ==
    pc # "closed" => acked \subseteq buffer \cup batch \cup In(list) \cup exposed

\* After the agent has closed, and no reader runs, the next open serves every
\* acknowledged line, except those that a recovery has overtaken.
DirectoryServes ==
    pc = "closed" /\ rpc = "off" => acked \subseteq Recoverable \cup exposed

\* An acknowledged line is served, by the agent while it runs and from the files
\* afterwards, unless a recovery has overtaken it.
AckedIsServed == TypeOK /\ AgentServes /\ DirectoryServes

\* A reader answers with everything that was recoverable when it opened the
\* directory; it can only miss lines that the agent was flushing meanwhile, or
\* that another recovery had overtaken.
QueryMissesOnlyCarried ==
    rpc = "query" => asked \subseteq In(rlist) \cup carried \cup exposed

\* No step of either process takes away a line that the next open would serve,
\* except for lines that a recovery has overtaken.
RecoverableGrows == [][Recoverable \subseteq Recoverable' \cup exposed']_vars
-----------------------------------------------------------------------------
(* The inductive invariant behind the properties.                          *)

\* The agent has handed out the ids 1, 2, ... one by one, and every list of the two
\* processes is a beginning of them; what both lists have, the manifest has as well.
IdInv ==
    /\ list = 1..(nextId - 1)
    /\ \E n \in 0..MaxId : Loaded = 1..n
    /\ ~manifest.there => rnext = 1 /\ nextId = (IF pc = "save" THEN 2 ELSE 1)
    /\ rpc \in {"read", "write"} => rlist = 1..(rnext - 1)
    /\ rpc \in {"save", "trunc"} => rlist = 1..rnext
    /\ rpc = "query" => \E n \in 0..MaxId : rlist = 1..n
    /\ rpc \in {"read", "write", "save"} =>
         \A j \in (list \cap rlist) \ {rnext} : j \in Loaded \/ (pc = "save" /\ j = nextId - 1)

\* The lines of the WAL and those on the way to it.
InWal == Recovered(wal) \cup ToSet(walBuf)

\* What a flush has in hand, and where lines come from.
BatchInv ==
    /\ pc \in {"write", "save", "trunc", "closed"} => walBuf = <<>> /\ buffer = {}
    /\ pc \in {"run", "drain", "closed"} => batch = {}
    /\ pc \in {"run", "closed"} => mine = {}
    /\ pc = "drain" => buffer # {}
    /\ pc = "write" => batch # {}
    /\ rpc = "write" => rbatch # {}
    /\ mine \subseteq buffer \cup batch
    /\ In(SegId) \cup rbatch \cup InWal \cup buffer \cup batch \subseteq acked \cup mine

\* As long as no reader has read from the WAL, the descriptor is at its end; lines
\* that come after a reader has read it are exposed.
WalInv ==
    /\ pc # "closed" => fd.append \/ Len(wal) <= fd.pos
    /\ ~touched => /\ pc # "closed" => fd.append \/ fd.pos = Len(wal)
                   /\ Hole \notin ToSet(wal)
                   /\ rpc \notin {"write", "save", "trunc"}
    /\ pc # "closed" => InWal \subseteq buffer \cup batch
    /\ rpc \in {"write", "save", "trunc"} => InWal \subseteq rbatch \cup exposed

\* What the next open serves, and what a recovery has in front of it.
SafeInv ==
    /\ acked \cup buffer \cup batch \subseteq
         Recoverable \cup exposed \cup (IF touched THEN {} ELSE ToSet(walBuf))
    /\ rpc = "read" => buffer \cup batch \subseteq InWal \cup exposed \cup In(rlist)
    /\ rpc \in {"write", "save", "trunc"} =>
         buffer \cup batch \subseteq rbatch \cup exposed \cup In({j \in rlist : j < rnext})

\* What the engine of the agent has.
Own == buffer \cup batch \cup In(list) \cup exposed

OwnInv ==
    /\ pc # "closed" => acked \cup In(SegId) \cup rbatch \subseteq Own
    /\ pc \in {"save", "trunc"} => batch \subseteq In(list) \cup exposed

\* A segment of the agent that may drop out of the manifest.
Droppable(j) ==
    \/ segs[j] \subseteq exposed
    \/ pc = "save" /\ j = nextId - 1 /\ segs[j] \subseteq batch

\* A segment of one process that the other does not know is exposed, or on its way.
ListedInv ==
    /\ \A j \in list : \/ j \in Loaded \/ Droppable(j)
                       \/ rpc = "save" /\ j = rnext /\ segs[j] = rbatch
    /\ rpc \in {"read", "write", "save"} => \A j \in Loaded \ rlist : j \in list /\ Droppable(j)
    /\ pc = "trunc" => \/ batch \subseteq exposed
                       \/ list \subseteq Loaded /\ (Recovering => list \subseteq rlist \ {rnext})

\* Segments that neither process replaces or drops during a recovery.
Kept == {j \in list \cap Loaded \cap rlist : j < rnext}

\* What a recovery has read is safe without the WAL before it cuts the WAL.
RescueInv ==
    /\ rpc \in {"write", "save"} => rbatch \subseteq exposed \cup Recovered(wal) \cup In(Kept)
    /\ rpc = "save" => rbatch \subseteq exposed \cup segs[rnext] \cup In(Kept)
    /\ rpc = "trunc" => rbatch \subseteq exposed \cup In(Loaded)

\* The ids that a running recovery will leave in the manifest, or that are there.
View == IF rpc \in {"read", "write", "save"} THEN rlist ELSE Loaded

\* What the reader was asked for is in its list or in its hands.
AskedInv ==
    /\ rpc # "off" =>
         /\ batch \subseteq carried
         /\ asked \cap In(list \ rlist) \subseteq carried \cup In(rlist)
         /\ asked \subseteq In(rlist) \cup carried \cup exposed
              \cup (IF rpc = "read" THEN Recovered(wal) ELSE IF rpc = "write" THEN rbatch ELSE {})
    /\ \A j \in list \ View : segs[j] \cap (InWal \cup buffer) \subseteq batch

\* The conjunction is inductive.
IInv ==
    /\ TypeOK /\ IdInv /\ BatchInv /\ WalInv /\ SafeInv /\ OwnInv /\ ListedInv
    /\ RescueInv /\ AskedInv
===============================================================================
