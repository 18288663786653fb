---------------------------- MODULE TailCollector -----------------------------
(***************************************************************************)
(* collect_file of src/agent/collector.rs: the thread that tails one log   *)
(* file by polling, together with the application that writes the file and *)
(* whoever rotates or clears it.                                           *)
(*                                                                         *)
(* The application writes pieces 1, 2, ... of one unit of size each; a line*)
(* is a run of pieces that ends with a piece in Breaks (its newline).  A   *)
(* file is the sequence of the pieces in it; files are numbered by inode.  *)
(* The writing comes to an end, which an application's need not.           *)
(***************************************************************************)
EXTENDS Naturals, Sequences, SequencesExt

CONSTANTS
    Pieces,       \* bound: pieces 1..Pieces are written
    Breaks,       \* pieces that end in a newline
    Garbled,      \* pieces that are not valid UTF-8
    Fatal,        \* pieces whose text makes strip_level_prefix panic
    MaxRotations, \* bound: number of times the file is renamed
    MaxClears     \* bound: number of times the file is truncated to nothing

ASSUME PiecesAssumption ==
    /\ {Pieces, MaxRotations, MaxClears} \subseteq Nat
    /\ Breaks \cup Garbled \cup Fatal \subseteq 1..Pieces
    /\ Garbled \cap Fatal = {}

Piece == 1..Pieces
Inode == 1..(MaxRotations + 1)

VARIABLES
    \* the file system
    data,       \* data[i]: the file with inode i
    path,       \* the inode that the path names, 0 when it names none
    target,     \* the inode the application writes to
    written,    \* the last piece that was written
    clears,
    \* collect_file
    pc,         \* "poll", "open", "read", "done"
    inode,      \* current_inode, 0 for None
    held,       \* the inode of the file behind reader, 0 for None
    pos,        \* the position of its file descriptor
    ahead,      \* what its BufReader has read and read_line has not returned
    lastSize,   \* last_size
    newInode, newSize,   \* of the running poll
    stop,       \* the stop flag
    sent,       \* what went into the channel, each message as its pieces
    \* history
    skipped,    \* pieces of the first file that were there when it was opened
    cleared     \* inodes of files that were truncated

files == <<data, path, target, written, clears, cleared>>
reader == <<inode, held, pos, ahead, lastSize>>
stat == <<newInode, newSize>>
vars == <<data, path, target, written, clears, pc, inode, held, pos, ahead,
          lastSize, newInode, newSize, stop, sent, skipped, cleared>>

Init ==
    /\ data = [i \in Inode |-> <<>>]
    /\ path = 1 /\ target = 1 /\ written = 0 /\ clears = 0
    /\ pc = "poll"
    /\ inode = 0 /\ held = 0 /\ pos = 0 /\ ahead = <<>> /\ lastSize = 0
    /\ newInode = 0 /\ newSize = 0
    /\ stop = FALSE /\ sent = <<>>
    /\ skipped = {} /\ cleared = {}

-----------------------------------------------------------------------------
(* The application and the log rotation.                                   *)

\* The application appends a piece, to the renamed file as long as there is no
\* new one.
Write ==
    /\ written < Pieces
    /\ written' = written + 1
    /\ data' = [data EXCEPT ![target] = Append(@, written + 1)]
    /\ UNCHANGED <<path, target, clears, cleared, pc, reader, stat, stop, sent, skipped>>

Rename ==
    /\ path # 0 /\ target <= MaxRotations
    /\ path' = 0
    /\ UNCHANGED <<data, target, written, clears, cleared, pc, reader, stat, stop,
                   sent, skipped>>

Create ==
    /\ path = 0
    /\ path' = target + 1 /\ target' = target + 1
    /\ UNCHANGED <<data, written, clears, cleared, pc, reader, stat, stop, sent, skipped>>

\* The file is emptied in place.
Clear ==
    /\ clears < MaxClears /\ clears' = clears + 1
    /\ path # 0 /\ data[path] # <<>>
    /\ data' = [data EXCEPT ![path] = <<>>]
    /\ cleared' = cleared \cup {path}
    /\ UNCHANGED <<path, target, written, pc, reader, stat, stop, sent, skipped>>

\* Collector::stop sets the flag, and then waits for the thread.
Stop ==
    /\ ~stop
    /\ stop' = TRUE
    /\ UNCHANGED <<files, pc, reader, stat, sent, skipped>>

-----------------------------------------------------------------------------
(* collect_file                                                            *)

Done ==
    /\ pc = "poll" /\ stop
    /\ pc' = "done"
    /\ UNCHANGED <<files, reader, stat, stop, sent, skipped>>

\* No such file: nothing happens until the next poll.
Missing == path = 0

\* Faulty variant: only the existence of a reader is looked at.
NewFileUnseen(i) == held = 0

\* The path names another file than the one recorded, or none was opened yet.
NewFile(i) == inode # i \/ held = 0

\* A poll whose stat finds the file; the size decides what is done.
Poll ==
    /\ pc = "poll" /\ ~stop /\ ~Missing
    /\ newInode' = path /\ newSize' = Len(data[path])
    /\ IF NewFile(path) THEN pc' = "open" /\ UNCHANGED reader
       ELSE IF newSize' > lastSize THEN pc' = "read" /\ UNCHANGED reader
       ELSE IF newSize' < lastSize
            THEN pos' = 0 /\ ahead' = <<>> /\ lastSize' = 0 /\ UNCHANGED <<pc, inode, held>>
       ELSE UNCHANGED <<pc, reader>>
    /\ UNCHANGED <<files, stop, sent, skipped>>

\* Faulty variant: a new file is read from its end as well.
StartAtEnd == Len(data[path])

\* Where reading starts: at the end of the first file, at the beginning of the
\* one that replaced it.
Start == IF inode = 0 THEN Len(data[path]) ELSE 0

\* The path may name another file than the one that was looked at.
Open ==
    /\ pc = "open" /\ ~Missing
    /\ held' = path
    /\ pos' = Start /\ ahead' = <<>>
    /\ lastSize' = IF inode = 0 THEN newSize ELSE 0
    /\ inode' = newInode
    /\ skipped' = IF inode = 0 THEN ToSet(data[path]) ELSE skipped
    /\ pc' = "poll"
    /\ UNCHANGED <<files, stat, stop, sent>>

\* Or none any more: the error is logged, and the next poll tries again.
OpenError ==
    /\ pc = "open" /\ Missing
    /\ pc' = "poll"
    /\ UNCHANGED <<files, reader, stat, stop, sent, skipped>>

AtEnd == pos >= Len(data[held])

\* A newline is in sight.
HasLine == ToSet(ahead) \cap Breaks # {}

\* read_line wants more: the BufReader reads any part of what is left.
Fill ==
    /\ pc = "read" /\ ~HasLine /\ ~AtEnd
    /\ \E n \in (pos + 1)..Len(data[held]) :
         /\ ahead' = ahead \o SubSeq(data[held], pos + 1, n)
         /\ pos' = n
    /\ UNCHANGED <<files, pc, inode, held, lastSize, stat, stop, sent, skipped>>

\* Faulty variant: what is left without a newline is not returned.
WholeLineReady == HasLine

\* read_line returns: there is a newline, or the file ends here for now.
LineReady == HasLine \/ (AtEnd /\ ahead # <<>>)

LineLength ==
    IF HasLine THEN CHOOSE k \in DOMAIN ahead :
                        ahead[k] \in Breaks /\ \A j \in 1..(k - 1) : ahead[j] \notin Breaks
               ELSE Len(ahead)
Line == SubSeq(ahead, 1, LineLength)

TakeLine ==
    /\ pc = "read" /\ LineReady
    /\ ahead' = SubSeq(ahead, LineLength + 1, Len(ahead))

\* The line is parsed and sent.
ReadLine ==
    /\ TakeLine
    /\ ToSet(Line) \cap (Garbled \cup Fatal) = {}
    /\ sent' = Append(sent, Line)
    /\ UNCHANGED <<files, pc, inode, held, pos, lastSize, stat, stop, skipped>>

\* Faulty variant: one too many.
SizeTooLarge == newSize + 1

\* What is remembered of a pass over the file.
SizeRead == newSize

\* The pass ends at the end of the file.
EndRead ==
    /\ pc = "read" /\ AtEnd /\ ahead = <<>>
    /\ lastSize' = SizeRead
    /\ pc' = "poll"
    /\ UNCHANGED <<files, inode, held, pos, ahead, stat, stop, sent, skipped>>

\* A line that is not UTF-8 is dropped, and the pass ends there.
ReadError ==
    /\ TakeLine
    /\ ToSet(Line) \cap Garbled # {}
    /\ lastSize' = SizeRead
    /\ pc' = "poll"
    /\ UNCHANGED <<files, inode, held, pos, stat, stop, sent, skipped>>

\* The parser slices the line at an index of its upper-case copy and panics:
\* the thread ends, and with it the agent.
Panic ==
    /\ TakeLine
    /\ ToSet(Line) \cap Garbled = {} /\ ToSet(Line) \cap Fatal # {}
    /\ pc' = "done"
    /\ UNCHANGED <<files, inode, held, pos, lastSize, stat, stop, sent, skipped>>

-----------------------------------------------------------------------------
Collect ==
    \/ Done \/ Poll \/ Open \/ OpenError
    \/ Fill \/ ReadLine \/ EndRead \/ ReadError \/ Panic

Next == Write \/ Rename \/ Create \/ Clear \/ Stop \/ Collect

Spec == Init /\ [][Next]_vars

\* The thread is scheduled, and a rotation creates the new file.
FairSpec == Spec /\ WF_vars(Collect) /\ WF_vars(Create)

-----------------------------------------------------------------------------
(* Properties.                                                             *)

Sent == UNION {ToSet(sent[k]) : k \in DOMAIN sent}

\* Type correctness of the whole state.
TypeOK ==
    /\ data \in [Inode -> Seq(Piece)]
    /\ path \in Inode \cup {0} /\ target \in Inode
    /\ written \in Piece \cup {0} /\ clears \in 0..MaxClears
    /\ pc \in {"poll", "open", "read", "done"}
    /\ inode \in Inode \cup {0} /\ held \in Inode \cup {0}
    /\ pos \in 0..Pieces /\ ahead \in Seq(Piece) /\ lastSize \in 0..Pieces
    /\ newInode \in Inode \cup {0} /\ newSize \in 0..Pieces
    /\ stop \in BOOLEAN /\ sent \in Seq(Seq(Piece))
    /\ skipped \subseteq Piece /\ cleared \subseteq Inode

\* As long as nobody empties a file, no piece is sent twice, pieces are sent in
\* the order of writing, and a message is a run of successive pieces of one line,
\* whatever rotation happens between a look at the file and the use of it.
SentInOrder ==
    cleared = {} =>
        /\ \A j \in DOMAIN sent : \A n \in 1..(Len(sent[j]) - 1) :
             sent[j][n + 1] = sent[j][n] + 1 /\ sent[j][n] \notin Breaks
        /\ \A j, k \in DOMAIN sent : j < k =>
             \A x \in ToSet(sent[j]), y \in ToSet(sent[k]) : x < y

\* Position k of file i is on one line with a piece that is in Bad: there is no
\* newline between the two.
OnLineWith(i, k, Bad) ==
    \E g \in DOMAIN data[i] :
        /\ data[i][g] \in Bad
        /\ \A b \in DOMAIN data[i] : (k <= b /\ b < g) \/ (g <= b /\ b < k) => data[i][b] \notin Breaks

\* Reading leaves no gap in a file that was never emptied: what is behind the
\* reader was sent, or was there before the first open, or is on a line that
\* cannot be sent.
NoGap ==
    held # 0 /\ held \notin cleared =>
        \A k \in DOMAIN data[held] :
            k + Len(ahead) <= pos =>
                \/ data[held][k] \in Sent \cup skipped
                \/ OnLineWith(held, k, Garbled \cup Fatal)

\* What is sent is the file, in order and without a gap.
SentWithoutGap == SentInOrder /\ NoGap

\* A rotation loses at most what was appended to the old file since the last pass
\* over it: what that pass saw was sent before the file is left for its successor.
\* Exceptions: a file with an invalid line or one that was emptied, and a file that
\* took the place of the one that was looked at before it could be opened.
LeftUpToLastSize ==
    [][held # 0 /\ held' # held /\ inode = held /\ held \notin cleared
         /\ ToSet(data[held]) \cap Garbled = {} =>
            \A k \in DOMAIN data[held] : k <= lastSize => data[held][k] \in Sent \cup skipped]_vars

\* A piece in the file that the path names, when nobody ever emptied that file.
Waits(n) == path \notin {0} \cup cleared /\ n \in ToSet(data[path]) \ (Sent \cup skipped)

\* A piece that stays in such a file is sent in the end, unless something that is not
\* UTF-8 comes before it.
ArrivesUnlessGarbled ==
    \A n \in Piece : []<>(~Waits(n) \/ pc = "done" \/ \E g \in Garbled : g <= n)

\* The application comes to rest, as it always does here.
Rests == <>[][FALSE]_written

\* If the application comes to rest, at any piece, Collector::stop returns, after any
\* rotations, truncations and bad lines.  Nothing is said of one that never rests: a pass
\* over the file does not look at the flag, and need not come to an end.
StopEnds == Rests => (stop ~> pc = "done")

-----------------------------------------------------------------------------
(* The inductive invariant behind the safety properties.                   *)

\* Pieces go into the files one after the other: a file is a run of successive
\* pieces, the file being written ends with the last one, and a later file has
\* later pieces.
FileInv ==
    /\ path \in {0, target} /\ (path = 0 => target <= MaxRotations)
    /\ \A i \in Inode : /\ i > target => data[i] = <<>>
                        /\ Len(data[i]) <= written
                        /\ \A k \in DOMAIN data[i] : data[i][k] <= written
                        /\ \A k, m \in DOMAIN data[i] : data[i][m] - data[i][k] = m - k
    /\ \A k \in DOMAIN data[target] : data[target][k] = written - Len(data[target]) + k
    /\ \A i, j \in Inode : i < j =>
         \A k \in DOMAIN data[i], m \in DOMAIN data[j] : data[i][k] < data[j][m]

\* The recorded inode never runs ahead of the file behind the reader, and the two
\* are the same while it reads.
InodeInv ==
    /\ held = 0 <=> inode = 0
    /\ inode <= held /\ held <= target
    /\ held = 0 => ahead = <<>> /\ pos = 0 /\ sent = <<>>
    /\ pc = "open" => newInode \notin {0, inode} /\ held <= newInode /\ newInode <= target
    /\ pc = "read" => held # 0 /\ inode = held /\ newInode = held
    /\ held # inode => ahead = <<>>
    /\ newInode = 0 => newSize = 0
    /\ inode = 0 => lastSize = 0

\* What the BufReader holds is the part of the file in front of its position, and
\* the sizes are those of the file.
BufferInv ==
    /\ held # 0 /\ held \notin cleared =>
         /\ Len(ahead) <= pos /\ pos <= Len(data[held])
         /\ \A k \in DOMAIN ahead : ahead[k] = data[held][pos - Len(ahead) + k]
    /\ inode # 0 /\ inode \notin cleared => lastSize <= Len(data[inode])
    /\ newInode # 0 /\ newInode \notin cleared => newSize <= Len(data[newInode])

\* Position k of file i is behind the reader.
IsRead(i, k) ==
    /\ k \in DOMAIN data[i]
    /\ i < held \/ (i = held /\ i = inode /\ k + Len(ahead) <= pos)

\* What was sent is behind the reader.
SentInv ==
    /\ SentInOrder
    /\ cleared = {} =>
         \A x \in Sent : \E i \in Inode, k \in 1..Pieces : IsRead(i, k) /\ data[i][k] = x

\* What is behind the reader was sent, but for the lines with an error, and for
\* those at which the thread ended.
GapInv ==
    held # 0 /\ held \notin cleared =>
        \A k \in DOMAIN data[held] :
            k + Len(ahead) <= pos =>
                \/ data[held][k] \in Sent \cup skipped
                \/ OnLineWith(held, k, Garbled)
                \/ pc = "done" /\ OnLineWith(held, k, Fatal)

\* What the last pass has seen was sent.
PassInv ==
    held # 0 /\ inode = held /\ held \notin cleared /\ pc # "done"
    /\ ToSet(data[held]) \cap Garbled = {} =>
        \A k \in DOMAIN data[held] : k <= lastSize => data[held][k] \in Sent \cup skipped

\* The conjunction is inductive.
IInv ==
    /\ TypeOK /\ FileInv /\ InodeInv /\ BufferInv /\ SentInv /\ GapInv /\ PassInv
===============================================================================
