------------------------- MODULE TailCollectorProofs -------------------------
(***************************************************************************)
(* Proofs about TailCollector, for any number of pieces, any lines and any *)
(* number of rotations and truncations.                                    *)
(***************************************************************************)
EXTENDS TailCollector, SequenceTheorems, WellFoundedInduction, TLAPS

-----------------------------------------------------------------------------
(* Facts about the operators.                                              *)

\* The bounds are numbers.
LEMMA Bounds == Pieces \in Nat /\ MaxRotations \in Nat /\ MaxClears \in Nat
BY PiecesAssumption

\* Every set of numbers that is not empty has a least element.
LEMMA LeastNumber ==
    ASSUME NEW T, T \subseteq Nat, T # {}
    PROVE  \E x \in T : \A y \in T : x <= y
<1> DEFINE R == OpToRel(<, Nat)
<1>1. IsWellFoundedOn(R, Nat)
    BY NatLessThanWellFounded
<1>2. \A x, y \in Nat : <<y, x>> \in R <=> y < x
    BY DEF OpToRel
<1> HIDE DEF R
<1>3. PICK x \in T : \A y \in T : <<y, x>> \notin R
    BY <1>1, WFMin
<1>4. \A y \in T : ~(y < x)
    BY <1>2, <1>3
<1> QED BY <1>4

\* Files are sequences of pieces.
LEMMA FileIs ==
    ASSUME TypeOK, NEW i \in Inode
    PROVE  /\ data[i] \in Seq(Piece) /\ Len(data[i]) \in Nat
           /\ DOMAIN data[i] = 1..Len(data[i])
           /\ \A k \in 1..Len(data[i]) : data[i][k] \in Piece /\ data[i][k] \in Nat
<1>1. data[i] \in Seq(Piece)
    BY DEF TypeOK
<1>2. Len(data[i]) \in Nat /\ DOMAIN data[i] = 1..Len(data[i])
    BY <1>1, LenProperties
<1>3. \A k \in 1..Len(data[i]) : data[i][k] \in Piece
    BY <1>1, ElementOfSeq
<1> QED BY <1>1, <1>2, <1>3, Bounds DEF Piece, Inode

\* What read_line takes: a part of what is held, with at most its last piece a
\* newline.
LEMMA LineIs ==
    ASSUME TypeOK, LineReady
    PROVE  /\ LineLength \in 1..Len(ahead) /\ Len(ahead) \in Nat
           /\ \A j \in 1..(LineLength - 1) : ahead[j] \notin Breaks
           /\ Line \in Seq(Piece) /\ Len(Line) = LineLength
           /\ DOMAIN Line = 1..LineLength
           /\ \A j \in 1..LineLength : Line[j] = ahead[j]
<1>1. /\ ahead \in Seq(Piece) /\ Len(ahead) \in Nat /\ DOMAIN ahead = 1..Len(ahead)
      /\ \A j \in 1..Len(ahead) : ahead[j] \in Piece
    <2>1. ahead \in Seq(Piece)
        BY DEF TypeOK
    <2> QED BY <2>1, LenProperties, ElementOfSeq
<1>2. /\ LineLength \in 1..Len(ahead)
      /\ \A j \in 1..(LineLength - 1) : ahead[j] \notin Breaks
    <2>1. CASE HasLine
        <3> DEFINE At == {k \in 1..Len(ahead) : ahead[k] \in Breaks}
        <3>1. At # {} /\ At \subseteq Nat
            BY <1>1, <2>1 DEF HasLine, ToSet
        <3>2. PICK k \in At : \A j \in At : k <= j
            BY <3>1, LeastNumber
        <3>3. k \in DOMAIN ahead /\ ahead[k] \in Breaks /\ \A j \in 1..(k - 1) : ahead[j] \notin Breaks
            <4> SUFFICES ASSUME NEW j \in 1..(k - 1) PROVE ahead[j] \notin Breaks
                BY <1>1, <3>2
            <4>1. j \in 1..Len(ahead) /\ ~(k <= j)
                BY <1>1, <3>2
            <4> QED BY <3>2, <4>1
        <3>4. \E n \in DOMAIN ahead :
                ahead[n] \in Breaks /\ \A j \in 1..(n - 1) : ahead[j] \notin Breaks
            BY <3>3
        <3>5. /\ LineLength \in DOMAIN ahead
              /\ \A j \in 1..(LineLength - 1) : ahead[j] \notin Breaks
            BY <2>1, <3>4 DEF LineLength
        <3> QED BY <1>1, <3>5
    <2>2. CASE ~HasLine
        <3>1. LineLength = Len(ahead) /\ ahead # <<>>
            BY <2>2 DEF LineLength, LineReady
        <3>2. Len(ahead) # 0
            BY <1>1, <3>1, EmptySeq
        <3>3. \A j \in 1..Len(ahead) : ahead[j] \notin Breaks
            BY <1>1, <2>2 DEF HasLine, ToSet
        <3> QED BY <1>1, <3>1, <3>2, <3>3
    <2> QED BY <2>1, <2>2
<1> HIDE DEF LineLength
<1>3. /\ Line \in Seq(Piece) /\ Len(Line) = LineLength
      /\ \A j \in 1..LineLength : Line[j] = ahead[j]
    <2>1. \A j \in 1..LineLength : ahead[j] \in Piece
        BY <1>1, <1>2
    <2>2. LineLength \in Int /\ 1 <= LineLength
        BY <1>1, <1>2
    <2>3. /\ SubSeq(ahead, 1, LineLength) \in Seq(Piece)
          /\ Len(SubSeq(ahead, 1, LineLength)) = IF 1 <= LineLength THEN LineLength - 1 + 1 ELSE 0
          /\ \A j \in 1..(LineLength - 1 + 1) : SubSeq(ahead, 1, LineLength)[j] = ahead[1 + j - 1]
        BY <2>1, <2>2, SubSeqProperties
    <2>4. Line = SubSeq(ahead, 1, LineLength)
        BY DEF Line
    <2> HIDE DEF Line
    <2> QED BY <2>2, <2>3, <2>4
<1> HIDE DEF Line
<1>4. DOMAIN Line = 1..LineLength
    BY <1>3, LenProperties
<1> QED BY <1>1, <1>2, <1>3, <1>4

\* What it leaves.
LEMMA RestIs ==
    ASSUME TypeOK, TakeLine
    PROVE  /\ ahead' \in Seq(Piece) /\ Len(ahead') = Len(ahead) - LineLength
           /\ \A j \in 1..Len(ahead') : ahead'[j] = ahead[LineLength + j]
<1>1. LineReady /\ ahead' = SubSeq(ahead, LineLength + 1, Len(ahead))
    BY DEF TakeLine
<1>2. LineLength \in 1..Len(ahead) /\ Len(ahead) \in Nat
    BY <1>1, LineIs
<1>3. \A j \in 1..Len(ahead) : ahead[j] \in Piece
    BY ElementOfSeq DEF TypeOK
<1> HIDE DEF LineLength
<1>4. /\ LineLength + 1 \in Int /\ Len(ahead) \in Int
      /\ \A j \in (LineLength + 1)..Len(ahead) : ahead[j] \in Piece
    BY <1>2, <1>3
<1> DEFINE rest == SubSeq(ahead, LineLength + 1, Len(ahead))
<1>5. /\ rest \in Seq(Piece)
      /\ Len(rest) = IF LineLength + 1 <= Len(ahead) THEN Len(ahead) - (LineLength + 1) + 1 ELSE 0
      /\ \A j \in 1..(Len(ahead) - (LineLength + 1) + 1) :
            rest[j] = ahead[LineLength + 1 + j - 1]
    BY <1>4, SubSeqProperties
<1>6. ahead' = rest
    BY <1>1
<1> HIDE DEF rest
<1> QED BY <1>2, <1>5, <1>6

\* What Fill reads.
LEMMA FillIs ==
    ASSUME TypeOK, Fill, held \in Inode
    PROVE  /\ pos' \in (pos + 1)..Len(data[held])
           /\ ahead' \in Seq(Piece) /\ Len(ahead') - Len(ahead) = pos' - pos
           /\ \A j \in 1..Len(ahead) : ahead'[j] = ahead[j]
           /\ \A j \in (Len(ahead) + 1)..Len(ahead') : ahead'[j] = data[held][pos + (j - Len(ahead))]
<1>1. PICK n \in (pos + 1)..Len(data[held]) :
         ahead' = ahead \o SubSeq(data[held], pos + 1, n) /\ pos' = n
    BY DEF Fill
<1>2. /\ data[held] \in Seq(Piece) /\ Len(data[held]) \in Nat
      /\ \A k \in 1..Len(data[held]) : data[held][k] \in Piece
    BY FileIs
<1>3. ahead \in Seq(Piece) /\ Len(ahead) \in Nat /\ pos \in Nat
    BY LenProperties, Bounds DEF Piece, Inode, TypeOK
<1> DEFINE part == SubSeq(data[held], pos + 1, n)
<1>4. /\ pos + 1 \in Int /\ n \in Int /\ pos + 1 <= n
      /\ \A k \in (pos + 1)..n : data[held][k] \in Piece
    BY <1>1, <1>2, <1>3
<1>5. /\ part \in Seq(Piece)
      /\ Len(part) = IF pos + 1 <= n THEN n - (pos + 1) + 1 ELSE 0
      /\ \A j \in 1..(n - (pos + 1) + 1) : part[j] = data[held][pos + 1 + j - 1]
    BY <1>4, SubSeqProperties
<1>6. ahead' = ahead \o part
    BY <1>1
<1> HIDE DEF part
<1>7. Len(part) = n - pos /\ \A j \in 1..(n - pos) : part[j] = data[held][pos + j]
    <2>1. n - (pos + 1) + 1 = n - pos /\ \A j \in 1..(n - pos) : pos + 1 + j - 1 = pos + j
        BY <1>3, <1>4
    <2>2. Len(part) = n - pos
        BY <1>3, <1>4, <1>5
    <2>3. \A j \in 1..(n - pos) : part[j] = data[held][pos + 1 + j - 1]
        BY <1>5, <2>1
    <2> QED BY <2>1, <2>2, <2>3
<1>8. /\ ahead' \in Seq(Piece) /\ Len(ahead') = Len(ahead) + Len(part)
      /\ \A j \in 1..(Len(ahead) + Len(part)) :
            ahead'[j] = IF j <= Len(ahead) THEN ahead[j] ELSE part[j - Len(ahead)]
    BY <1>3, <1>5, <1>6, ConcatProperties
<1>9. \A j \in (Len(ahead) + 1)..Len(ahead') : j - Len(ahead) \in 1..(n - pos)
    BY <1>3, <1>4, <1>7, <1>8
<1>10. \A j \in (Len(ahead) + 1)..Len(ahead') : ahead'[j] = data[held][pos + (j - Len(ahead))]
    <2>1. \A j \in (Len(ahead) + 1)..Len(ahead') :
             j \in 1..(Len(ahead) + Len(part)) /\ ~(j <= Len(ahead))
        BY <1>3, <1>4, <1>7, <1>8
    <2> QED BY <1>7, <1>8, <1>9, <2>1
<1>11. \A j \in 1..Len(ahead) : ahead'[j] = ahead[j]
    <2>1. \A j \in 1..Len(ahead) : j \in 1..(Len(ahead) + Len(part)) /\ j <= Len(ahead)
        BY <1>3, <1>4, <1>7
    <2> QED BY <1>8, <2>1
<1>12. Len(ahead') - Len(ahead) = pos' - pos
    BY <1>1, <1>3, <1>4, <1>7, <1>8
<1> QED BY <1>1, <1>8, <1>10, <1>11, <1>12

\* A write makes one file longer by the next piece.
LEMMA WriteIs ==
    ASSUME TypeOK, Write
    PROVE  /\ written' = written + 1 /\ written' \in Piece
           /\ data' \in [Inode -> Seq(Piece)]
           /\ \A i \in Inode : i # target => data'[i] = data[i]
           /\ target \in Inode /\ Len(data'[target]) = Len(data[target]) + 1
           /\ \A k \in 1..Len(data[target]) : data'[target][k] = data[target][k]
           /\ data'[target][Len(data[target]) + 1] = written + 1
<1>1. written' = written + 1 /\ written + 1 \in Piece
    BY Bounds DEF Piece, Inode, TypeOK, Write
<1>2. target \in Inode /\ data \in [Inode -> Seq(Piece)]
    BY DEF TypeOK
<1> DEFINE new == Append(data[target], written + 1)
<1>3. /\ new \in Seq(Piece) /\ Len(new) = Len(data[target]) + 1
      /\ \A k \in 1..Len(data[target]) : new[k] = data[target][k]
      /\ new[Len(data[target]) + 1] = written + 1
    BY <1>1, <1>2, FileIs, AppendProperties
<1>4. data' = [data EXCEPT ![target] = new]
    BY DEF Write
<1> HIDE DEF new
<1> QED BY <1>1, <1>2, <1>3, <1>4

-----------------------------------------------------------------------------
(* The invariant holds initially.                                          *)

LEMMA InitInv == Init => IInv
<1> SUFFICES ASSUME Init PROVE IInv
    OBVIOUS
<1>1. /\ data = [i \in Inode |-> <<>>] /\ path = 1 /\ target = 1 /\ written = 0
      /\ pc = "poll" /\ inode = 0 /\ held = 0 /\ pos = 0 /\ ahead = <<>> /\ lastSize = 0
      /\ newInode = 0 /\ newSize = 0 /\ sent = <<>> /\ skipped = {} /\ cleared = {}
    BY DEF Init
<1>2. TypeOK
    <2>1. data \in [Inode -> Seq(Piece)] /\ ahead \in Seq(Piece) /\ sent \in Seq(Seq(Piece))
        BY <1>1
    <2>2. 1 \in Inode /\ 0 \in 0..Pieces /\ 0 \in 0..MaxClears
        BY Bounds DEF Inode
    <2> QED BY <1>1, <2>1, <2>2 DEF Init, TypeOK
<1>3. \A i \in Inode : Len(data[i]) = 0 /\ DOMAIN data[i] = {}
    BY <1>1
<1>4. FileInv
    BY <1>1, <1>3, Bounds DEF Piece, Inode, FileInv
<1>5. InodeInv /\ BufferInv /\ GapInv /\ PassInv
    BY <1>1 DEF InodeInv, BufferInv, GapInv, PassInv
<1>6. DOMAIN sent = {}
    BY <1>1
<1>7. SentInv
    BY <1>6 DEF SentInv, SentInOrder, Sent
<1> QED BY <1>2, <1>4, <1>5, <1>7 DEF IInv

-----------------------------------------------------------------------------
(* Every step preserves it, part by part.                                  *)

\* Every step keeps the types.
LEMMA TypeStep ==
    ASSUME IInv, [Next]_vars
    PROVE  TypeOK'
<1> USE DEF files, reader, stat
<1>0. TypeOK /\ FileInv /\ InodeInv
    BY DEF IInv
<1>00. pc = "read" => held \in Inode
    BY <1>0 DEF TypeOK, InodeInv
<1>000. /\ \A i \in Inode : Len(data[i]) \in 0..Pieces
        /\ path # 0 => path \in Inode
    <2>1. \A i \in Inode : Len(data[i]) \in Nat /\ Len(data[i]) <= written
        BY <1>0, FileIs DEF FileInv
    <2> QED BY <1>0, <2>1, Bounds DEF Piece, Inode, TypeOK
<1>1. CASE Write
    <2>1. data' \in [Inode -> Seq(Piece)] /\ written' \in Piece
        BY <1>0, <1>1, WriteIs
    <2> QED BY <1>0, <1>1, <2>1 DEF TypeOK, Write
<1>2. CASE Rename
    BY <1>0, <1>2 DEF TypeOK, Rename
<1>3. CASE Create
    <2>1. target + 1 \in Inode
        <3>1. target <= MaxRotations
            BY <1>0, <1>3 DEF FileInv, Create
        <3> QED BY <1>0, <3>1, Bounds DEF Piece, Inode, TypeOK
    <2> QED BY <1>0, <1>3, <2>1 DEF TypeOK, Create
<1>4. CASE Clear
    <2>1. clears' \in 0..MaxClears
        BY <1>0, <1>4, Bounds DEF Piece, Inode, TypeOK, Clear
    <2>2. path \in Inode
        BY <1>000, <1>4 DEF Clear
    <2> QED BY <1>0, <1>4, <2>1, <2>2 DEF TypeOK, Clear
<1>5. CASE Stop \/ Done \/ OpenError
    BY <1>0, <1>5 DEF TypeOK, Stop, Done, OpenError
<1>6. CASE Poll
    <2>1. path \in Inode /\ newInode' = path /\ newSize' = Len(data[path])
        BY <1>000, <1>6 DEF Poll, Missing
    <2>2. /\ pc' \in {"poll", "open", "read", "done"}
          /\ UNCHANGED reader \/ (pos' = 0 /\ ahead' = <<>> /\ lastSize' = 0 /\ UNCHANGED <<inode, held>>)
          /\ UNCHANGED <<files, stop, sent, skipped>>
        BY <1>0, <1>6 DEF TypeOK, Poll
    <2>3. 0 \in 0..Pieces /\ <<>> \in Seq(Piece)
        BY Bounds
    <2>4. /\ inode' \in Inode \cup {0} /\ held' \in Inode \cup {0}
          /\ pos' \in 0..Pieces /\ ahead' \in Seq(Piece) /\ lastSize' \in 0..Pieces
        <3>1. CASE UNCHANGED reader
            BY <1>0, <3>1 DEF TypeOK
        <3>2. CASE pos' = 0 /\ ahead' = <<>> /\ lastSize' = 0 /\ UNCHANGED <<inode, held>>
            BY <1>0, <2>3, <3>2 DEF TypeOK
        <3> QED BY <2>2, <3>1, <3>2
    <2> QED BY <1>0, <1>000, <2>1, <2>2, <2>4 DEF TypeOK
<1>7. CASE Open
    <2>1. path \in Inode
        BY <1>000, <1>7 DEF Open, Missing
    <2>2. Start \in 0..Pieces
        BY <1>000, <2>1, Bounds DEF Piece, Inode, Start
    <2>3. ToSet(data[path]) \subseteq Piece
        BY <1>0, <2>1, FileIs DEF ToSet
    <2>4. /\ held' = path /\ pos' = Start /\ ahead' = <<>> /\ inode' = newInode
          /\ lastSize' = IF inode = 0 THEN newSize ELSE 0
          /\ skipped' = IF inode = 0 THEN ToSet(data[path]) ELSE skipped
          /\ pc' = "poll" /\ UNCHANGED <<files, stat, stop, sent>>
        BY <1>7 DEF Open
    <2>5. lastSize' \in 0..Pieces /\ skipped' \subseteq Piece
        <3>1. 0 \in 0..Pieces
            BY Bounds
        <3> QED BY <1>0, <2>3, <2>4, <3>1 DEF TypeOK
    <2> QED BY <1>0, <2>1, <2>2, <2>4, <2>5 DEF TypeOK
<1>8. CASE Fill
    <2>1. held \in Inode
        BY <1>00, <1>8 DEF Fill
    <2>2. pos' \in (pos + 1)..Len(data[held]) /\ ahead' \in Seq(Piece)
        BY <1>0, <1>8, <2>1, FillIs
    <2>3. pos' \in 0..Pieces
        BY <1>0, <1>000, <2>1, <2>2, Bounds DEF Piece, Inode, TypeOK
    <2> QED BY <1>0, <1>8, <2>2, <2>3 DEF TypeOK, Fill
<1>9. CASE ReadLine
    <2>1. TakeLine /\ LineReady
        BY <1>9 DEF ReadLine, TakeLine
    <2>2. ahead' \in Seq(Piece) /\ Line \in Seq(Piece)
        BY <1>0, <2>1, RestIs, LineIs
    <2>3. sent' \in Seq(Seq(Piece))
        BY <1>0, <1>9, <2>2, AppendProperties DEF TypeOK, ReadLine
    <2> QED BY <1>0, <1>9, <2>2, <2>3 DEF TypeOK, ReadLine
<1>10. CASE EndRead
    BY <1>0, <1>10 DEF TypeOK, EndRead, SizeRead
<1>11. CASE ReadError \/ Panic
    <2>1. ahead' \in Seq(Piece)
        BY <1>0, <1>11, RestIs DEF ReadError, Panic
    <2> QED BY <1>0, <1>11, <2>1 DEF TypeOK, ReadError, Panic, SizeRead
<1>12. CASE UNCHANGED vars
    BY <1>0, <1>12 DEF TypeOK, vars
<1> QED BY <1>1, <1>2, <1>3, <1>4, <1>5, <1>6, <1>7, <1>8, <1>9, <1>10, <1>11, <1>12
        DEF Next, Collect

\* Every step keeps the files runs of pieces.
LEMMA FileStep ==
    ASSUME IInv, [Next]_vars
    PROVE  FileInv'
<1> USE DEF files, reader, stat
<1>0. TypeOK /\ FileInv
    BY DEF IInv
<1>00. \A i \in Inode : /\ DOMAIN data[i] = 1..Len(data[i]) /\ Len(data[i]) \in Nat
                        /\ \A k \in 1..Len(data[i]) : data[i][k] \in Nat
    BY <1>0, FileIs
<1>000. written \in Nat /\ target \in Nat /\ target \in Inode
    BY <1>0, Bounds DEF Piece, Inode, TypeOK
<1>1. CASE Write
    <2>1. /\ written' = written + 1 /\ path' = path /\ target' = target
          /\ \A i \in Inode : i # target => data'[i] = data[i]
          /\ Len(data'[target]) = Len(data[target]) + 1
          /\ \A k \in 1..Len(data[target]) : data'[target][k] = data[target][k]
          /\ data'[target][Len(data[target]) + 1] = written + 1
          /\ data'[target] \in Seq(Piece)
        BY <1>0, <1>1, WriteIs DEF Write
    <2> DEFINE n == Len(data[target])
    <2>2. DOMAIN data'[target] = 1..(n + 1) /\ n \in Nat
        BY <1>00, <1>000, <2>1, LenProperties
    <2>3. ASSUME NEW k \in 1..(n + 1) PROVE data'[target][k] = written - n + k
        <3>1. CASE k = n + 1
            BY <1>000, <2>1, <2>2, <3>1
        <3>2. CASE k # n + 1
            <4>1. k \in 1..n /\ k \in DOMAIN data[target]
                BY <1>00, <1>000, <2>2, <3>2
            <4> QED BY <1>0, <2>1, <4>1 DEF FileInv
        <3> QED BY <3>1, <3>2
    <2>4. n <= written
        BY <1>0, <1>000 DEF FileInv
    <2>5. Len(data'[target]) = n + 1
        BY <2>1
    <2> HIDE DEF n
    <2>6. \A k \in DOMAIN data'[target] : data'[target][k] = written' - Len(data'[target]) + k
        <3> SUFFICES ASSUME NEW k \in 1..(n + 1)
                     PROVE  data'[target][k] = written' - Len(data'[target]) + k
            BY <2>1, <2>2
        <3>1. written - n + k = written + 1 - (n + 1) + k
            BY <1>000, <2>2
        <3>2. data'[target][k] = written + 1 - (n + 1) + k
            BY <2>3, <3>1
        <3>3. written' = written + 1
            BY <2>1
        <3> QED BY <1>000, <2>2, <2>5, <3>2, <3>3
    <2>7. ASSUME NEW i \in Inode
          PROVE  /\ i > target => data'[i] = <<>>
                 /\ Len(data'[i]) <= written'
                 /\ \A k \in DOMAIN data'[i] : data'[i][k] <= written'
                 /\ \A k, m \in DOMAIN data'[i] : data'[i][m] - data'[i][k] = m - k
        <3>1. CASE i = target
            <4>1. Len(data'[i]) <= written'
                BY <1>000, <2>1, <2>2, <2>4, <2>5, <3>1
            <4>2. ASSUME NEW k \in 1..(n + 1) PROVE written - n + k <= written + 1
                BY <1>000, <2>2
            <4>3. ASSUME NEW k \in 1..(n + 1), NEW m \in 1..(n + 1)
                  PROVE  (written - n + m) - (written - n + k) = m - k
                BY <1>000, <2>2
            <4>4. ~(i > target)
                BY <1>000, <3>1
            <4>5. \A k \in DOMAIN data'[i] : data'[i][k] <= written'
                BY <2>1, <2>2, <2>3, <3>1, <4>2
            <4>6. \A k, m \in DOMAIN data'[i] : data'[i][m] - data'[i][k] = m - k
                BY <2>2, <2>3, <3>1, <4>3
            <4> QED BY <4>1, <4>4, <4>5, <4>6
        <3>2. CASE i # target
            <4>1. data'[i] = data[i]
                BY <2>1, <3>2
            <4>2. /\ i > target => data[i] = <<>>
                  /\ Len(data[i]) <= written /\ Len(data[i]) \in Nat
                  /\ \A k \in DOMAIN data[i] : data[i][k] <= written /\ data[i][k] \in Nat
                  /\ \A k, m \in DOMAIN data[i] : data[i][m] - data[i][k] = m - k
                BY <1>0, <1>00 DEF FileInv
            <4>3. \A x \in Nat : x <= written => x <= written + 1
                BY <1>000
            <4> QED BY <2>1, <4>1, <4>2, <4>3
        <3> QED BY <3>1, <3>2
    <2>8. ASSUME NEW i \in Inode, NEW j \in Inode, i < j,
                 NEW k \in DOMAIN data'[i], NEW m \in DOMAIN data'[j]
          PROVE  data'[i][k] < data'[j][m]
        <3>1. j <= target
            <4>1. j > target => data'[j] = <<>>
                BY <2>7
            <4>2. j \in Nat
                BY Bounds DEF Inode
            <4> QED BY <1>000, <4>1, <4>2
        <3>2. i # target /\ data'[i] = data[i]
            <4>1. i \in Nat /\ j \in Nat
                BY Bounds DEF Inode
            <4> QED BY <1>000, <2>1, <2>8, <3>1, <4>1
        <3>3. data[i][k] <= written /\ data[i][k] \in Nat /\ k \in DOMAIN data[i]
            BY <1>0, <1>00, <2>8, <3>2 DEF FileInv
        <3>4. CASE j = target /\ m = n + 1
            <4>1. data'[j][m] = written + 1
                BY <2>1, <3>4 DEF n
            <4> QED BY <1>000, <3>2, <3>3, <4>1
        <3>5. CASE j # target \/ m # n + 1
            <4>1. m \in DOMAIN data[j] /\ data'[j][m] = data[j][m]
                <5>1. CASE j # target
                    BY <2>1, <2>8, <5>1
                <5>2. CASE j = target
                    <6>1. m \in 1..n
                        BY <2>2, <2>8, <3>5, <5>2
                    <6> QED BY <1>00, <1>000, <2>1, <5>2, <6>1 DEF n
                <5> QED BY <5>1, <5>2
            <4> QED BY <1>0, <2>8, <3>2, <3>3, <4>1 DEF FileInv
        <3> QED BY <3>4, <3>5
    <2>9. path \in {0, target} /\ (path = 0 => target <= MaxRotations)
        BY <1>0 DEF FileInv
    <2> QED BY <2>1, <2>6, <2>7, <2>8, <2>9 DEF FileInv
<1>2. CASE Rename
    BY <1>0, <1>2 DEF FileInv, Rename
<1>3. CASE Create
    <2>1. /\ data' = data /\ written' = written /\ target' = target + 1 /\ path' = target + 1
        BY <1>3 DEF Create
    <2>2. target + 1 \in Inode
        <3>1. target <= MaxRotations
            BY <1>0, <1>3 DEF FileInv, Create
        <3> QED BY <1>000, <3>1, Bounds DEF Piece, Inode
    <2>3. data[target + 1] = <<>>
        BY <1>0, <1>000, <2>2 DEF FileInv
    <2>4. \A i \in Inode : i > target + 1 => i > target
        BY <1>000, Bounds DEF Piece, Inode
    <2>5. DOMAIN data[target + 1] = {}
        BY <2>3
    <2>6. \A i \in Inode : i > target' => data'[i] = <<>>
        BY <1>0, <2>1, <2>4 DEF FileInv
    <2>7. \A k \in DOMAIN data'[target'] :
             data'[target'][k] = written' - Len(data'[target']) + k
        BY <2>1, <2>5
    <2>8. /\ \A i \in Inode : /\ Len(data'[i]) <= written'
                              /\ \A k \in DOMAIN data'[i] : data'[i][k] <= written'
                              /\ \A k, m \in DOMAIN data'[i] : data'[i][m] - data'[i][k] = m - k
          /\ \A i, j \in Inode : i < j =>
               \A k \in DOMAIN data'[i], m \in DOMAIN data'[j] : data'[i][k] < data'[j][m]
        BY <1>0, <2>1 DEF FileInv
    <2>9. path' \in {0, target'} /\ path' # 0
        BY <1>000, <2>1
    <2> QED BY <2>6, <2>7, <2>8, <2>9 DEF FileInv
<1>4. CASE Clear
    <2>1. path = target /\ path' = path /\ target' = target /\ written' = written
          /\ data' = [data EXCEPT ![target] = <<>>]
        BY <1>0, <1>4 DEF Clear, FileInv
    <2>2. \A i \in Inode : data'[i] = IF i = target THEN <<>> ELSE data[i]
        BY <1>0, <2>1 DEF TypeOK
    <2>3. Len(<<>>) = 0 /\ DOMAIN <<>> = {} /\ 0 <= written
        BY <1>000
    <2>4. \A i \in Inode : \A k \in DOMAIN data'[i] :
             i # target /\ data'[i] = data[i] /\ k \in DOMAIN data[i]
        BY <2>2, <2>3
    <2>5. \A i \in Inode : /\ i > target => data'[i] = <<>>
                           /\ Len(data'[i]) <= written
        BY <1>0, <2>2, <2>3 DEF FileInv
    <2>6. \A i \in Inode : /\ \A k \in DOMAIN data'[i] : data'[i][k] <= written
                           /\ \A k, m \in DOMAIN data'[i] : data'[i][m] - data'[i][k] = m - k
        BY <1>0, <2>4 DEF FileInv
    <2>7. \A i, j \in Inode : i < j =>
             \A k \in DOMAIN data'[i], m \in DOMAIN data'[j] : data'[i][k] < data'[j][m]
        BY <1>0, <2>4 DEF FileInv
    <2>8. DOMAIN data'[target] = {}
        BY <1>000, <2>2, <2>3
    <2>9. path \in {0, target} /\ (path = 0 => target <= MaxRotations)
        BY <1>0 DEF FileInv
    <2> QED BY <2>1, <2>5, <2>6, <2>7, <2>8, <2>9 DEF FileInv
<1>5. CASE UNCHANGED files
    BY <1>0, <1>5 DEF FileInv
<1>6. CASE Stop \/ Collect \/ UNCHANGED vars
    BY <1>5, <1>6 DEF Stop, Collect, Done, Poll, Open, OpenError, Fill, ReadLine, EndRead,
       ReadError, Panic, vars
<1> QED BY <1>1, <1>2, <1>3, <1>4, <1>6 DEF Next

\* Every step keeps the recorded inode behind the file that is read.
LEMMA InodeStep ==
    ASSUME IInv, [Next]_vars
    PROVE  InodeInv'
<1> USE DEF files, reader, stat
<1>0. TypeOK /\ FileInv /\ InodeInv
    BY DEF IInv
<1>00. /\ inode \in Nat /\ held \in Nat /\ target \in Nat /\ newInode \in Nat /\ path \in Nat
       /\ target # 0 /\ path \in {0, target}
    BY <1>0, Bounds DEF Inode, TypeOK, FileInv
<1>1. CASE Write \/ Rename \/ Clear \/ Stop
    BY <1>0, <1>1 DEF Write, Rename, Clear, Stop, InodeInv
<1>2. CASE Create
    <2>1. /\ target' = target + 1
          /\ UNCHANGED <<pc, inode, held, pos, ahead, lastSize, newInode, newSize, sent>>
        BY <1>2 DEF Create
    <2>2. held <= target => held <= target + 1
        BY <1>00
    <2>3. newInode <= target => newInode <= target + 1
        BY <1>00
    <2> QED BY <1>0, <2>1, <2>2, <2>3 DEF InodeInv
<1>3. CASE Done \/ OpenError
    BY <1>0, <1>3 DEF Done, OpenError, InodeInv
<1>4. CASE Poll
    <2>1. /\ path = target /\ newInode' = target /\ target' = target /\ sent' = sent
          /\ inode' = inode /\ held' = held
        BY <1>00, <1>4 DEF Poll, Missing
    <2>2. CASE NewFile(path)
        <3>1. pc' = "open" /\ UNCHANGED reader
            BY <1>4, <2>2 DEF Poll
        <3>2. inode # target
            BY <1>0, <1>00, <2>1, <2>2 DEF NewFile, InodeInv
        <3> QED BY <1>0, <1>00, <2>1, <3>1, <3>2 DEF InodeInv
    <2>3. CASE ~NewFile(path)
        <3>1. inode = target /\ held # 0
            BY <2>1, <2>3 DEF NewFile
        <3>2. held = inode
            BY <1>0, <1>00, <3>1 DEF InodeInv
        <3>3. pc' # "open" /\ (UNCHANGED reader \/ (pos' = 0 /\ ahead' = <<>> /\ lastSize' = 0))
            BY <1>4, <2>3 DEF Poll
        <3> QED BY <1>0, <1>00, <2>1, <3>1, <3>2, <3>3 DEF InodeInv
    <2> QED BY <2>2, <2>3
<1>5. CASE Open
    <2>1. /\ held' = target /\ inode' = newInode /\ ahead' = <<>> /\ pc' = "poll"
          /\ newInode' = newInode /\ newSize' = newSize /\ target' = target
        BY <1>00, <1>5 DEF Open, Missing
    <2>2. newInode # 0 /\ newInode <= target
        BY <1>0, <1>5 DEF InodeInv, Open
    <2> QED BY <1>00, <2>1, <2>2 DEF InodeInv
<1>6. CASE Fill \/ ReadLine \/ EndRead \/ ReadError \/ Panic
    <2>1. /\ pc = "read" /\ pc' # "open"
          /\ UNCHANGED <<target, inode, held, newInode, newSize>>
        BY <1>6 DEF Fill, ReadLine, EndRead, ReadError, Panic, TakeLine
    <2>2. held # 0 /\ inode = held /\ newInode = held /\ held <= target
        BY <1>0, <2>1 DEF InodeInv
    <2> QED BY <1>00, <2>1, <2>2 DEF InodeInv
<1>7. CASE UNCHANGED vars
    BY <1>0, <1>7 DEF InodeInv, vars
<1> QED BY <1>1, <1>2, <1>3, <1>4, <1>5, <1>6, <1>7 DEF Next, Collect

\* Only a truncation takes pieces out of a file.
LEMMA FilesGrow ==
    ASSUME IInv, [Next]_vars, NEW i \in Inode, i \notin cleared'
    PROVE  /\ i \notin cleared
           /\ Len(data[i]) <= Len(data'[i]) /\ Len(data'[i]) \in Nat
           /\ \A k \in 1..Len(data[i]) : data'[i][k] = data[i][k]
<1> USE DEF files, reader, stat
<1>0. TypeOK /\ FileInv /\ TypeOK'
    BY TypeStep DEF IInv
<1>00. Len(data[i]) \in Nat
    BY <1>0, FileIs
<1>1. CASE Write
    <2>1. cleared' = cleared
        BY <1>1 DEF Write
    <2>2. CASE i = target
        <3>1. Len(data'[i]) = Len(data[i]) + 1
            BY <1>0, <1>1, <2>2, WriteIs
        <3>2. \A k \in 1..Len(data[i]) : data'[i][k] = data[i][k]
            BY <1>0, <1>1, <2>2, WriteIs
        <3> QED BY <1>00, <2>1, <3>1, <3>2
    <2>3. CASE i # target
        <3>1. data'[i] = data[i]
            BY <1>0, <1>1, <2>3, WriteIs
        <3> QED BY <1>00, <2>1, <3>1
    <2> QED BY <2>2, <2>3
<1>2. CASE Clear
    <2>1. cleared' = cleared \cup {path} /\ data' = [data EXCEPT ![path] = <<>>]
        BY <1>2 DEF Clear
    <2>2. data'[i] = data[i] /\ i \notin cleared
        BY <1>0, <2>1 DEF TypeOK
    <2> QED BY <1>00, <2>2
<1>3. CASE UNCHANGED <<data, cleared>>
    BY <1>00, <1>3
<1> QED BY <1>1, <1>2, <1>3 DEF Next, Rename, Create, Stop, Collect, Done, Poll, Open, OpenError,
           Fill, ReadLine, EndRead, ReadError, Panic, vars

\* What is in the BufReader and the sizes that are remembered stay true when the
\* files grow.
LEMMA BufferKept ==
    ASSUME IInv, [Next]_vars, UNCHANGED <<inode, held, pos, ahead, lastSize, newInode, newSize>>
    PROVE  BufferInv'
<1>0. TypeOK /\ InodeInv /\ BufferInv /\ FileInv
    BY DEF IInv
<1>00. /\ pos \in Nat /\ Len(ahead) \in Nat /\ DOMAIN ahead = 1..Len(ahead)
       /\ lastSize \in Nat /\ newSize \in Nat
    BY <1>0, LenProperties, Bounds DEF TypeOK
<1>1. /\ held # 0 => held \in Inode
      /\ inode # 0 => inode \in Inode
      /\ newInode # 0 => newInode \in Inode
    BY <1>0 DEF TypeOK
<1>2. ASSUME held # 0, held \notin cleared'
      PROVE  /\ Len(ahead) <= pos /\ pos <= Len(data'[held])
             /\ \A k \in DOMAIN ahead : ahead[k] = data'[held][pos - Len(ahead) + k]
    <2>1. /\ held \notin cleared /\ Len(data[held]) <= Len(data'[held])
          /\ Len(data'[held]) \in Nat /\ Len(data[held]) \in Nat
          /\ \A k \in 1..Len(data[held]) : data'[held][k] = data[held][k]
        BY <1>0, <1>1, <1>2, FilesGrow, FileIs
    <2>2. /\ Len(ahead) <= pos /\ pos <= Len(data[held])
          /\ \A k \in DOMAIN ahead : ahead[k] = data[held][pos - Len(ahead) + k]
        BY <1>0, <1>2, <2>1 DEF BufferInv
    <2>3. \A k \in DOMAIN ahead : pos - Len(ahead) + k \in 1..Len(data[held])
        BY <1>00, <2>1, <2>2
    <2>4. \A k \in DOMAIN ahead : ahead[k] = data'[held][pos - Len(ahead) + k]
        BY <2>1, <2>2, <2>3
    <2>5. pos <= Len(data'[held])
        BY <1>00, <2>1, <2>2
    <2> QED BY <2>2, <2>4, <2>5
<1>3. ASSUME inode # 0, inode \notin cleared' PROVE lastSize <= Len(data'[inode])
    <2>1. /\ inode \notin cleared /\ Len(data[inode]) <= Len(data'[inode])
          /\ Len(data'[inode]) \in Nat /\ Len(data[inode]) \in Nat
        BY <1>0, <1>1, <1>3, FilesGrow, FileIs
    <2>2. lastSize <= Len(data[inode])
        BY <1>0, <1>3, <2>1 DEF BufferInv
    <2> QED BY <1>00, <2>1, <2>2
<1>4. ASSUME newInode # 0, newInode \notin cleared' PROVE newSize <= Len(data'[newInode])
    <2>1. /\ newInode \notin cleared /\ Len(data[newInode]) <= Len(data'[newInode])
          /\ Len(data'[newInode]) \in Nat /\ Len(data[newInode]) \in Nat
        BY <1>0, <1>1, <1>4, FilesGrow, FileIs
    <2>2. newSize <= Len(data[newInode])
        BY <1>0, <1>4, <2>1 DEF BufferInv
    <2> QED BY <1>00, <2>1, <2>2
<1> QED BY <1>2, <1>3, <1>4 DEF BufferInv

\* Every step keeps the BufReader a window on its file.
LEMMA BufferStep ==
    ASSUME IInv, [Next]_vars
    PROVE  BufferInv'
<1> USE DEF files, reader, stat
<1>0. TypeOK /\ FileInv /\ InodeInv /\ BufferInv
    BY DEF IInv
<1>00. /\ pos \in Nat /\ Len(ahead) \in Nat /\ DOMAIN ahead = 1..Len(ahead)
       /\ lastSize \in Nat /\ newSize \in Nat
    BY <1>0, LenProperties, Bounds DEF TypeOK
<1>1. CASE Write \/ Rename \/ Create \/ Clear \/ Stop \/ Done \/ OpenError \/ UNCHANGED vars
    <2>1. UNCHANGED <<inode, held, pos, ahead, lastSize, newInode, newSize>>
        BY <1>1 DEF Write, Rename, Create, Clear, Stop, Done, OpenError, vars
    <2> QED BY <2>1, BufferKept
<1>2. CASE Poll
    <2>1. /\ path \in Inode /\ newInode' = path /\ newSize' = Len(data[path])
          /\ UNCHANGED <<data, cleared, inode, held>>
          /\ UNCHANGED reader \/ (pos' = 0 /\ ahead' = <<>> /\ lastSize' = 0)
        BY <1>0, <1>2 DEF Poll, Missing, TypeOK
    <2>2. /\ held # 0 => Len(data[held]) \in Nat
          /\ inode # 0 => Len(data[inode]) \in Nat
          /\ Len(data[path]) \in Nat
        BY <1>0, <2>1, FileIs DEF TypeOK
    <2>3. newSize' <= Len(data'[newInode'])
        BY <2>1, <2>2
    <2>4. CASE UNCHANGED reader
        BY <1>0, <2>1, <2>3, <2>4 DEF BufferInv
    <2>5. CASE pos' = 0 /\ ahead' = <<>> /\ lastSize' = 0
        <3>1. Len(ahead') = 0 /\ DOMAIN ahead' = {}
            BY <2>5
        <3> QED BY <2>1, <2>2, <2>3, <2>5, <3>1 DEF BufferInv
    <2> QED BY <2>1, <2>4, <2>5
<1>3. CASE Open
    <2>1. /\ held' = path /\ pos' = Start /\ ahead' = <<>> /\ inode' = newInode
          /\ lastSize' = IF inode = 0 THEN newSize ELSE 0
          /\ UNCHANGED <<data, cleared, newInode, newSize>>
          /\ path \in Inode /\ newInode \in Inode
        BY <1>0, <1>3 DEF Open, Missing, TypeOK, InodeInv
    <2>2. Len(ahead') = 0 /\ DOMAIN ahead' = {}
        BY <2>1
    <2>3. Len(data[path]) \in Nat /\ Len(data[newInode]) \in Nat
        BY <1>0, <2>1, FileIs
    <2>4. 0 <= Start /\ Start <= Len(data[path])
        BY <2>3 DEF Start
    <2>5. newInode \notin cleared => newSize <= Len(data[newInode]) /\ lastSize' <= Len(data[newInode])
        <3>1. newInode # 0
            BY <2>1, Bounds DEF Inode
        <3> QED BY <1>0, <2>1, <2>3, <3>1 DEF BufferInv
    <2> QED BY <2>1, <2>2, <2>4, <2>5 DEF BufferInv
<1>4. CASE Fill
    <2>1. /\ held \in Inode
          /\ UNCHANGED <<data, cleared, inode, held, lastSize, newInode, newSize>>
        BY <1>0, <1>4 DEF Fill, TypeOK, InodeInv
    <2>2. /\ pos' \in (pos + 1)..Len(data[held])
          /\ ahead' \in Seq(Piece) /\ Len(ahead') - Len(ahead) = pos' - pos
          /\ \A j \in 1..Len(ahead) : ahead'[j] = ahead[j]
          /\ \A j \in (Len(ahead) + 1)..Len(ahead') : ahead'[j] = data[held][pos + (j - Len(ahead))]
        BY <1>0, <1>4, <2>1, FillIs
    <2>3. Len(ahead') \in Nat /\ DOMAIN ahead' = 1..Len(ahead') /\ Len(data[held]) \in Nat
        BY <1>0, <2>1, <2>2, LenProperties, FileIs
    <2>4. ASSUME held \notin cleared
          PROVE  /\ Len(ahead') <= pos' /\ pos' <= Len(data[held])
                 /\ \A k \in DOMAIN ahead' : ahead'[k] = data[held][pos' - Len(ahead') + k]
        <3>1. /\ Len(ahead) <= pos
              /\ \A k \in DOMAIN ahead : ahead[k] = data[held][pos - Len(ahead) + k]
            BY <1>0, <2>1, <2>4, Bounds DEF BufferInv, Inode
        <3>2. ASSUME NEW k \in 1..Len(ahead')
              PROVE  ahead'[k] = data[held][pos - Len(ahead) + k]
            <4>1. CASE k <= Len(ahead)
                <5>1. k \in 1..Len(ahead)
                    BY <1>00, <2>3, <4>1
                <5> QED BY <1>00, <2>2, <3>1, <5>1
            <4>2. CASE ~(k <= Len(ahead))
                <5>1. ahead'[k] = data[held][pos + (k - Len(ahead))]
                    <6>1. k \in (Len(ahead) + 1)..Len(ahead')
                        BY <1>00, <2>3, <4>2
                    <6> QED BY <2>2, <6>1
                <5>2. pos + (k - Len(ahead)) = pos - Len(ahead) + k
                    <6>1. pos \in Int /\ k \in Int /\ Len(ahead) \in Int
                        BY <1>00, <2>3
                    <6>2. \A a, b, c \in Int : a + (b - c) = a - c + b
                        OBVIOUS
                    <6> QED BY <6>1, <6>2
                <5> QED BY <5>1, <5>2
            <4> QED BY <4>1, <4>2
        <3>3. pos' - Len(ahead') = pos - Len(ahead) /\ Len(ahead') <= pos'
            <4>1. /\ Len(ahead) \in Int /\ Len(ahead') \in Int /\ pos \in Int /\ pos' \in Int
                  /\ Len(ahead') - Len(ahead) = pos' - pos /\ Len(ahead) <= pos
                BY <1>00, <2>2, <2>3, <3>1
            <4>2. \A a, b, c, d \in Int : b - a = d - c /\ a <= c => d - b = c - a /\ b <= d
                OBVIOUS
            <4> QED BY <4>1, <4>2
        <3> QED BY <2>2, <2>3, <3>2, <3>3
    <2> QED BY <1>0, <2>1, <2>4 DEF BufferInv
<1>5. CASE ReadLine \/ ReadError \/ Panic
    <2>1. /\ held \in Inode /\ inode = held /\ newInode = held /\ TakeLine /\ LineReady
          /\ UNCHANGED <<data, cleared, inode, held, pos, newInode, newSize>>
          /\ lastSize' \in {lastSize, newSize}
        BY <1>0, <1>5 DEF ReadLine, ReadError, Panic, TakeLine, SizeRead, TypeOK, InodeInv
    <2>2. /\ ahead' \in Seq(Piece) /\ Len(ahead') = Len(ahead) - LineLength
          /\ \A j \in 1..Len(ahead') : ahead'[j] = ahead[LineLength + j]
          /\ LineLength \in 1..Len(ahead)
        BY <1>0, <2>1, RestIs, LineIs
    <2> HIDE DEF LineLength
    <2>3. DOMAIN ahead' = 1..Len(ahead')
        BY <2>2, LenProperties
    <2>4. ASSUME held \notin cleared
          PROVE  /\ Len(ahead') <= pos /\ pos <= Len(data[held])
                 /\ \A k \in DOMAIN ahead' : ahead'[k] = data[held][pos - Len(ahead') + k]
        <3>1. /\ Len(ahead) <= pos /\ pos <= Len(data[held])
              /\ \A k \in DOMAIN ahead : ahead[k] = data[held][pos - Len(ahead) + k]
            BY <1>0, <2>1, <2>4, Bounds DEF BufferInv, Inode
        <3>2. ASSUME NEW k \in 1..Len(ahead')
              PROVE  ahead'[k] = data[held][pos - Len(ahead') + k]
            <4>1. LineLength + k \in 1..Len(ahead) /\ ahead'[k] = ahead[LineLength + k]
                BY <1>00, <2>2
            <4>2. ahead[LineLength + k] = data[held][pos - Len(ahead) + (LineLength + k)]
                BY <1>00, <3>1, <4>1
            <4>3. pos - Len(ahead) + (LineLength + k) = pos - Len(ahead') + k
                BY <1>00, <2>2
            <4> QED BY <4>1, <4>2, <4>3
        <3>3. Len(ahead') <= pos
            BY <1>00, <2>2, <3>1
        <3> QED BY <2>3, <3>1, <3>2, <3>3
    <2> QED BY <1>0, <2>1, <2>4 DEF BufferInv
<1>6. CASE EndRead
    <2>1. /\ newInode = inode /\ lastSize' = newSize
          /\ UNCHANGED <<data, cleared, inode, held, pos, ahead, newInode, newSize>>
        BY <1>0, <1>6 DEF EndRead, SizeRead, InodeInv
    <2> QED BY <1>0, <2>1 DEF BufferInv
<1> QED BY <1>1, <1>2, <1>3, <1>4, <1>5, <1>6 DEF Next, Collect

\* What is in the BufReader is in the file: the line that read_line takes is a run of
\* successive pieces, behind the reader from then on.
LEMMA LineInFile ==
    ASSUME IInv, TakeLine, held \notin cleared
    PROVE  /\ held \in Inode /\ inode = held
           /\ pos - Len(ahead) \in Nat /\ pos \in Nat /\ Len(ahead) \in Nat /\ pos <= Len(data[held])
           /\ LineLength \in 1..Len(ahead)
           /\ \A j \in 1..LineLength :
                /\ pos - Len(ahead) + j \in 1..Len(data[held])
                /\ Line[j] = data[held][pos - Len(ahead) + j]
<1>0. TypeOK /\ InodeInv /\ BufferInv /\ LineReady /\ pc = "read"
    BY DEF IInv, TakeLine
<1>1. held \in Inode /\ inode = held /\ held # 0
    BY <1>0 DEF InodeInv, TypeOK
<1>2. /\ Len(ahead) <= pos /\ pos <= Len(data[held])
      /\ \A k \in DOMAIN ahead : ahead[k] = data[held][pos - Len(ahead) + k]
    BY <1>0, <1>1 DEF BufferInv
<1>3. /\ pos \in Nat /\ Len(ahead) \in Nat /\ DOMAIN ahead = 1..Len(ahead)
      /\ Len(data[held]) \in Nat
    BY <1>0, <1>1, FileIs, LenProperties, Bounds DEF TypeOK
<1>4. /\ LineLength \in 1..Len(ahead)
      /\ \A j \in 1..LineLength : Line[j] = ahead[j]
    BY <1>0, LineIs
<1> HIDE DEF LineLength, Line
<1>5. ASSUME NEW j \in 1..LineLength
      PROVE  /\ pos - Len(ahead) + j \in 1..Len(data[held])
             /\ Line[j] = data[held][pos - Len(ahead) + j]
    <2>1. j \in 1..Len(ahead)
        BY <1>3, <1>4
    <2>2. Line[j] = ahead[j]
        BY <1>4
    <2>3. ahead[j] = data[held][pos - Len(ahead) + j]
        BY <1>2, <1>3, <2>1
    <2>4. pos - Len(ahead) + j \in 1..Len(data[held])
        BY <1>2, <1>3, <2>1
    <2> QED BY <2>2, <2>3, <2>4
<1>6. pos - Len(ahead) \in Nat
    BY <1>2, <1>3
<1>7. \A j \in 1..LineLength : /\ pos - Len(ahead) + j \in 1..Len(data[held])
                               /\ Line[j] = data[held][pos - Len(ahead) + j]
    BY <1>5
<1> QED BY <1>1, <1>2, <1>3, <1>4, <1>6, <1>7

\* As long as nobody empties a file, what is behind the reader stays there.
LEMMA ReadKept ==
    ASSUME IInv, [Next]_vars, cleared' = {}, NEW i \in Inode, NEW k, IsRead(i, k)
    PROVE  IsRead(i, k)' /\ data'[i][k] = data[i][k]
<1> USE DEF files, reader, stat
<1>0. TypeOK /\ FileInv /\ InodeInv /\ BufferInv
    BY DEF IInv
<1>1. /\ k \in 1..Len(data[i]) /\ k \in DOMAIN data'[i] /\ data'[i][k] = data[i][k]
      /\ cleared = {}
    <2>1. k \in 1..Len(data[i]) /\ Len(data[i]) \in Nat
        BY <1>0, FileIs DEF IsRead
    <2>2. /\ Len(data[i]) <= Len(data'[i]) /\ Len(data'[i]) \in Nat
          /\ \A m \in 1..Len(data[i]) : data'[i][m] = data[i][m]
        BY FilesGrow
    <2>3. DOMAIN data'[i] = 1..Len(data'[i])
        BY TypeStep, LenProperties DEF TypeOK
    <2>4. cleared \subseteq cleared'
        BY DEF Next, Write, Rename, Create, Clear, Stop, Collect, Done, Poll, Open, OpenError,
               Fill, ReadLine, EndRead, ReadError, Panic, vars
    <2> QED BY <2>1, <2>2, <2>3, <2>4
<1>2. i < held \/ (i = held /\ i = inode /\ k + Len(ahead) <= pos)
    BY DEF IsRead
<1>3. /\ i \in Nat /\ held \in Nat /\ inode \in Nat /\ target \in Nat /\ newInode \in Nat
      /\ k \in Nat /\ pos \in Nat /\ Len(ahead) \in Nat
    <2>1. Len(ahead) \in Nat
        BY <1>0, LenProperties DEF TypeOK
    <2>2. k \in Nat
        BY <1>0, <1>1, FileIs
    <2> QED BY <1>0, <2>1, <2>2, Bounds DEF TypeOK, Inode
<1>4. i < held' \/ (i = held' /\ i = inode' /\ k + Len(ahead') <= pos')
    <2>1. CASE UNCHANGED reader
        BY <1>2, <2>1
    <2>2. CASE Poll
        <3>1. CASE NewFile(path)
            BY <2>1, <2>2, <3>1 DEF Poll
        <3>2. CASE ~NewFile(path)
            <4>1. inode = path /\ inode \in Inode
                BY <1>0, <2>2, <3>2 DEF NewFile, Poll, Missing, TypeOK
            <4>2. inode # 0
                BY <4>1, Bounds DEF Inode
            <4>3. lastSize <= Len(data[path])
                BY <1>0, <1>1, <4>1, <4>2 DEF BufferInv
            <4>4. lastSize \in Nat /\ Len(data[path]) \in Nat
                BY <1>0, <4>1, FileIs, Bounds DEF TypeOK
            <4>5. ~(newSize' < lastSize)
                BY <2>2, <4>3, <4>4 DEF Poll
            <4> QED BY <2>1, <2>2, <3>2, <4>5 DEF Poll
        <3> QED BY <3>1, <3>2
    <2>3. CASE Open
        <3>1. held' = target
            BY <1>0, <2>3 DEF Open, Missing, FileInv
        <3>2. newInode # inode /\ held <= newInode /\ newInode <= target
            BY <1>0, <2>3 DEF Open, InodeInv
        <3> QED BY <1>2, <1>3, <3>1, <3>2
    <2>4. CASE Fill
        <3>1. held \in Inode /\ held' = held /\ inode' = inode
            BY <1>0, <2>4 DEF Fill, InodeInv, TypeOK
        <3>2. /\ pos' \in (pos + 1)..Len(data[held]) /\ Len(ahead') - Len(ahead) = pos' - pos
              /\ ahead' \in Seq(Piece)
            BY <1>0, <2>4, <3>1, FillIs
        <3>3. Len(ahead') \in Nat /\ Len(data[held]) \in Nat
            BY <1>0, <3>1, <3>2, LenProperties, FileIs
        <3> QED BY <1>2, <1>3, <3>1, <3>2, <3>3
    <2>5. CASE ReadLine \/ ReadError \/ Panic
        <3>1. /\ TakeLine /\ LineReady
              /\ held' = held /\ inode' = inode /\ pos' = pos
            BY <2>5 DEF ReadLine, ReadError, Panic, TakeLine
        <3>2. Len(ahead') = Len(ahead) - LineLength /\ LineLength \in 1..Len(ahead)
            BY <1>0, <3>1, RestIs, LineIs
        <3> HIDE DEF LineLength
        <3> QED BY <1>2, <1>3, <3>1, <3>2
    <2>6. CASE EndRead
        BY <1>2, <2>6 DEF EndRead
    <2> QED BY <2>1, <2>2, <2>3, <2>4, <2>5, <2>6
            DEF Next, Write, Rename, Create, Clear, Stop, Collect, Done, OpenError, vars
<1> QED BY <1>1, <1>4 DEF IsRead

\* Every step sends the pieces in the order of writing, and only what it has read.
LEMMA SentStep ==
    ASSUME IInv, [Next]_vars
    PROVE  SentInv'
<1> USE DEF files, reader, stat
<1>0. TypeOK /\ FileInv /\ InodeInv /\ BufferInv /\ SentInv
    BY DEF IInv
<1>1. SUFFICES ASSUME cleared' = {}
               PROVE  /\ SentInOrder'
                      /\ \A x \in Sent' : \E i \in Inode, k \in 1..Pieces :
                           IsRead(i, k)' /\ data'[i][k] = x
    BY DEF SentInv, SentInOrder
<1>2. cleared = {}
    <2>1. cleared \subseteq cleared'
        BY DEF Next, Write, Rename, Create, Clear, Stop, Collect, Done, Poll, Open, OpenError,
               Fill, ReadLine, EndRead, ReadError, Panic, vars
    <2> QED BY <1>1, <2>1
<1>3. /\ \A j \in DOMAIN sent : \A n \in 1..(Len(sent[j]) - 1) :
           sent[j][n + 1] = sent[j][n] + 1 /\ sent[j][n] \notin Breaks
      /\ \A j, k \in DOMAIN sent : j < k =>
           \A x \in ToSet(sent[j]), y \in ToSet(sent[k]) : x < y
    BY <1>0, <1>2 DEF SentInv, SentInOrder
<1>4. \A x \in Sent : \E i \in Inode, k \in 1..Pieces : IsRead(i, k) /\ data[i][k] = x
    BY <1>0, <1>2 DEF SentInv
<1>5. \A x \in Sent : \E i \in Inode, k \in 1..Pieces : IsRead(i, k)' /\ data'[i][k] = x
    <2> SUFFICES ASSUME NEW x \in Sent
                 PROVE  \E i \in Inode, k \in 1..Pieces : IsRead(i, k)' /\ data'[i][k] = x
        OBVIOUS
    <2>1. PICK i \in Inode, k \in 1..Pieces : IsRead(i, k) /\ data[i][k] = x
        BY <1>4
    <2>2. IsRead(i, k)' /\ data'[i][k] = data[i][k]
        BY <1>1, <2>1, ReadKept
    <2> QED BY <2>1, <2>2
<1>6. CASE ReadLine
    <2>1. /\ TakeLine /\ LineReady /\ sent' = Append(sent, Line)
          /\ data' = data /\ held' = held /\ inode' = inode /\ pos' = pos
        BY <1>6 DEF ReadLine, TakeLine
    <2>2. /\ held \in Inode /\ inode = held
          /\ pos - Len(ahead) \in Nat /\ pos \in Nat /\ Len(ahead) \in Nat /\ pos <= Len(data[held])
          /\ LineLength \in 1..Len(ahead)
          /\ \A j \in 1..LineLength :
                /\ pos - Len(ahead) + j \in 1..Len(data[held])
                /\ Line[j] = data[held][pos - Len(ahead) + j]
        BY <1>2, <2>1, LineInFile
    <2>3. /\ Line \in Seq(Piece) /\ Len(Line) = LineLength /\ DOMAIN Line = 1..LineLength
          /\ \A j \in 1..(LineLength - 1) : ahead[j] \notin Breaks
          /\ \A j \in 1..LineLength : Line[j] = ahead[j]
        BY <1>0, <2>1, LineIs
    <2>4. Len(ahead') = Len(ahead) - LineLength
        BY <1>0, <2>1, RestIs
    <2> HIDE DEF LineLength, Line
    <2>5. /\ DOMAIN data[held] = 1..Len(data[held]) /\ Len(data[held]) \in Nat
          /\ \A k \in 1..Len(data[held]) : data[held][k] \in Nat
        BY <1>0, <2>2, FileIs
    <2>6. ASSUME NEW n \in 1..(LineLength - 1)
          PROVE  Line[n + 1] = Line[n] + 1 /\ Line[n] \notin Breaks
        <3> DEFINE p == pos - Len(ahead) + n
        <3>1. n \in 1..LineLength /\ n + 1 \in 1..LineLength
            BY <2>2
        <3>2. /\ p \in 1..Len(data[held]) /\ Line[n] = data[held][p]
              /\ pos - Len(ahead) + (n + 1) \in 1..Len(data[held])
              /\ Line[n + 1] = data[held][pos - Len(ahead) + (n + 1)]
            BY <2>2, <3>1
        <3>3. pos - Len(ahead) + (n + 1) = p + 1 /\ p \in Nat
            BY <2>2
        <3> HIDE DEF p
        <3>4. data[held][p + 1] - data[held][p] = (p + 1) - p
            <4>1. p \in DOMAIN data[held] /\ p + 1 \in DOMAIN data[held]
                BY <2>5, <3>2, <3>3
            <4> QED BY <1>0, <2>2, <4>1 DEF FileInv
        <3>5. data[held][p + 1] \in Nat /\ data[held][p] \in Nat
            BY <2>5, <3>2, <3>3
        <3>6. data[held][p + 1] = data[held][p] + 1
            BY <3>3, <3>4, <3>5
        <3> QED BY <2>3, <3>1, <3>2, <3>3, <3>6
    <2>7. ASSUME NEW x \in Sent, NEW y \in ToSet(Line)
          PROVE  x < y
        <3>1. PICK i \in Inode, k \in 1..Pieces : IsRead(i, k) /\ data[i][k] = x
            BY <1>4
        <3>2. PICK j \in 1..LineLength : y = Line[j]
            BY <2>3 DEF ToSet
        <3> DEFINE p == pos - Len(ahead) + j
        <3>3. p \in 1..Len(data[held]) /\ y = data[held][p]
            BY <2>2, <3>2
        <3>4. j \in Nat /\ 1 <= j /\ p \in Nat /\ k \in Nat /\ i \in Nat
            BY <2>2, Bounds DEF Inode
        <3>5. k \in DOMAIN data[i]
            BY <3>1 DEF IsRead
        <3>6. CASE i < held
            BY <1>0, <2>2, <2>5, <3>1, <3>3, <3>5, <3>6 DEF FileInv
        <3>7. CASE i = held /\ k + Len(ahead) <= pos
            <4>1. k < p
                BY <2>2, <3>4, <3>7
            <4> HIDE DEF p
            <4>2. data[held][p] - data[held][k] = p - k
                <5>1. p \in DOMAIN data[held] /\ k \in DOMAIN data[held]
                    BY <2>5, <3>3, <3>5, <3>7
                <5> QED BY <1>0, <2>2, <5>1 DEF FileInv
            <4>3. data[held][p] \in Nat /\ data[held][k] \in Nat
                BY <2>5, <3>3, <3>5, <3>7
            <4>4. data[held][k] < data[held][p]
                BY <3>4, <4>1, <4>2, <4>3
            <4> QED BY <3>1, <3>3, <3>7, <4>4
        <3> QED BY <3>1, <3>6, <3>7 DEF IsRead
    <2>8. /\ DOMAIN sent' = 1..(Len(sent) + 1) /\ DOMAIN sent = 1..Len(sent) /\ Len(sent) \in Nat
          /\ \A j \in 1..Len(sent) : sent'[j] = sent[j]
          /\ sent'[Len(sent) + 1] = Line
        <3>1. sent \in Seq(Seq(Piece))
            BY <1>0 DEF TypeOK
        <3>2. Len(sent) \in Nat /\ DOMAIN sent = 1..Len(sent)
            BY <3>1, LenProperties
        <3>3. /\ DOMAIN Append(sent, Line) = 1..(Len(sent) + 1)
              /\ \A j \in 1..Len(sent) : Append(sent, Line)[j] = sent[j]
              /\ Append(sent, Line)[Len(sent) + 1] = Line
            BY <2>3, <3>1, <3>2, AppendProperties, LenProperties
        <3> QED BY <2>1, <3>2, <3>3
    <2>9. \A j \in 1..Len(sent) : ToSet(sent[j]) \subseteq Sent
        BY <2>8 DEF Sent
    <2>10. SentInOrder'
        <3>1. ASSUME NEW j \in DOMAIN sent', NEW n \in 1..(Len(sent'[j]) - 1)
              PROVE  sent'[j][n + 1] = sent'[j][n] + 1 /\ sent'[j][n] \notin Breaks
            <4>1. CASE j = Len(sent) + 1
                BY <2>3, <2>6, <2>8, <3>1, <4>1
            <4>2. CASE j # Len(sent) + 1
                <5>1. j \in DOMAIN sent /\ sent'[j] = sent[j]
                    BY <2>8, <4>2
                <5> QED BY <1>3, <3>1, <5>1
            <4> QED BY <4>1, <4>2
        <3>2. ASSUME NEW j \in DOMAIN sent', NEW k \in DOMAIN sent', j < k,
                     NEW x \in ToSet(sent'[j]), NEW y \in ToSet(sent'[k])
              PROVE  x < y
            <4>1. j \in 1..Len(sent) /\ x \in ToSet(sent[j])
                <5>1. j \in 1..Len(sent)
                    BY <2>8, <3>2
                <5> QED BY <2>8, <3>2, <5>1
            <4>2. CASE k = Len(sent) + 1
                BY <2>7, <2>8, <2>9, <4>1, <4>2
            <4>3. CASE k # Len(sent) + 1
                <5>1. k \in DOMAIN sent /\ sent'[k] = sent[k]
                    BY <2>8, <4>3
                <5> QED BY <1>3, <2>8, <3>2, <4>1, <5>1
            <4> QED BY <4>2, <4>3
        <3> QED BY <3>1, <3>2 DEF SentInOrder
    <2>11. ASSUME NEW x \in ToSet(Line)
           PROVE  \E i \in Inode, k \in 1..Pieces : IsRead(i, k)' /\ data'[i][k] = x
        <3>1. PICK j \in 1..LineLength : x = Line[j]
            BY <2>3 DEF ToSet
        <3>2. PICK p \in 1..Len(data[held]) : p = pos - Len(ahead) + j /\ x = data[held][p]
            BY <2>2, <3>1
        <3>3. p + Len(ahead') <= pos
            <4>1. j \in Nat /\ j <= LineLength /\ LineLength \in Nat /\ pos \in Nat /\ Len(ahead) \in Nat
                BY <2>2
            <4>2. pos - Len(ahead) + j + (Len(ahead) - LineLength) <= pos
                BY <4>1
            <4> QED BY <2>4, <3>2, <4>2
        <3>4. p \in 1..Pieces
            <4>1. Len(data[held]) <= Pieces
                <5>1. Len(data[held]) <= written
                    BY <1>0, <2>2 DEF FileInv
                <5>2. written \in 0..Pieces
                    BY <1>0, Bounds DEF TypeOK, Piece
                <5> QED BY <2>5, <5>1, <5>2, Bounds
            <4> QED BY <2>5, <3>2, <4>1, Bounds
        <3>5. PICK i \in Inode : i = held
            BY <2>2
        <3>6. IsRead(i, p)'
            <4>1. p \in DOMAIN data'[i]
                BY <2>1, <2>5, <3>5
            <4> QED BY <2>1, <2>2, <3>3, <3>5, <4>1 DEF IsRead
        <3>7. data'[i][p] = x
            BY <2>1, <3>2, <3>5
        <3> QED BY <3>4, <3>6, <3>7
    <2>12. Sent' \subseteq Sent \cup ToSet(Line)
        <3> SUFFICES ASSUME NEW j \in DOMAIN sent', NEW x \in ToSet(sent'[j])
                     PROVE  x \in Sent \cup ToSet(Line)
            BY DEF Sent
        <3>1. CASE j = Len(sent) + 1
            BY <2>8, <3>1
        <3>2. CASE j # Len(sent) + 1
            <4>1. j \in 1..Len(sent) /\ sent'[j] = sent[j]
                BY <2>8, <3>2
            <4> QED BY <2>9, <4>1
        <3> QED BY <3>1, <3>2
    <2> QED BY <1>5, <2>10, <2>11, <2>12
<1>7. CASE sent' = sent
    <2>1. SentInOrder' /\ Sent' = Sent
        BY <1>3, <1>7 DEF SentInOrder, Sent
    <2> QED BY <1>5, <2>1
<1> QED BY <1>6, <1>7 DEF Next, Write, Rename, Create, Clear, Stop, Collect, Done, Poll, Open,
        OpenError, Fill, EndRead, ReadError, Panic, vars

\* What was sent stays sent, and what was there before the first open stays so.
LEMMA KnownKept ==
    ASSUME IInv, [Next]_vars, held # 0
    PROVE  Sent \cup skipped \subseteq (Sent \cup skipped)'
<1> USE DEF files, reader, stat
<1>0. TypeOK /\ InodeInv
    BY DEF IInv
<1>1. skipped' = skipped
    <2>1. CASE Open
        BY <1>0, <2>1 DEF Open, InodeInv
    <2> QED BY <2>1 DEF Next, Write, Rename, Create, Clear, Stop, Collect, Done, Poll, OpenError,
               Fill, ReadLine, EndRead, ReadError, Panic, vars
<1>2. Sent \subseteq Sent'
    <2>1. CASE ReadLine
        <3>1. /\ sent \in Seq(Seq(Piece)) /\ Line \in Seq(Piece) /\ sent' = Append(sent, Line)
            BY <1>0, <2>1, LineIs DEF TypeOK, ReadLine, TakeLine
        <3> HIDE DEF Line
        <3>2. /\ DOMAIN sent = 1..Len(sent) /\ Len(sent) \in Nat
            BY <3>1, LenProperties
        <3>3. /\ DOMAIN sent' = 1..(Len(sent) + 1)
              /\ \A j \in 1..Len(sent) : sent'[j] = sent[j]
            BY <3>1, <3>2, AppendProperties, LenProperties
        <3>4. \A j \in DOMAIN sent : j \in DOMAIN sent' /\ sent'[j] = sent[j]
            BY <3>2, <3>3
        <3> QED BY <3>4 DEF Sent
    <2>2. CASE sent' = sent
        BY <2>2 DEF Sent
    <2> QED BY <2>1, <2>2 DEF Next, Write, Rename, Create, Clear, Stop, Collect, Done, Poll, Open,
               OpenError, Fill, EndRead, ReadError, Panic, vars
<1> QED BY <1>1, <1>2

\* A line that cannot be sent stays one when its file grows.
LEMMA OnLineKept ==
    ASSUME IInv, [Next]_vars, NEW i \in Inode, i \notin cleared',
           NEW k \in 1..Len(data[i]), NEW CONSTANT Bad, OnLineWith(i, k, Bad)
    PROVE  OnLineWith(i, k, Bad)'
<1>0. TypeOK /\ TypeOK'
    BY TypeStep DEF IInv
<1>1. /\ Len(data[i]) <= Len(data'[i]) /\ Len(data'[i]) \in Nat /\ Len(data[i]) \in Nat
      /\ \A m \in 1..Len(data[i]) : data'[i][m] = data[i][m]
      /\ DOMAIN data[i] = 1..Len(data[i])
    BY <1>0, FilesGrow, FileIs
<1>2. DOMAIN data'[i] = 1..Len(data'[i])
    BY <1>0, LenProperties DEF TypeOK
<1>3. PICK g \in 1..Len(data[i]) :
        /\ data[i][g] \in Bad
        /\ \A b \in 1..Len(data[i]) : (k <= b /\ b < g) \/ (g <= b /\ b < k) => data[i][b] \notin Breaks
    BY <1>1 DEF OnLineWith
<1>4. g \in DOMAIN data'[i] /\ data'[i][g] \in Bad
    BY <1>1, <1>2, <1>3
<1>5. ASSUME NEW b \in DOMAIN data'[i], (k <= b /\ b < g) \/ (g <= b /\ b < k)
      PROVE  data'[i][b] \notin Breaks
    <2>1. b \in 1..Len(data[i])
        BY <1>1, <1>2, <1>5
    <2> QED BY <1>1, <1>3, <1>5, <2>1
<1> QED BY <1>4, <1>5 DEF OnLineWith

\* Position k of the file behind the reader is accounted for.
Known(k) ==
    \/ data[held][k] \in Sent \cup skipped
    \/ OnLineWith(held, k, Garbled)
    \/ pc = "done" /\ OnLineWith(held, k, Fatal)

\* What was accounted for stays so as long as the reader keeps its file.
LEMMA KnownStep ==
    ASSUME IInv, [Next]_vars, held' = held, held # 0, held \notin cleared',
           NEW k \in DOMAIN data'[held], k + Len(ahead) <= pos
    PROVE  Known(k)'
<1> USE DEF files, reader, stat
<1>0. TypeOK /\ InodeInv /\ BufferInv /\ GapInv /\ TypeOK'
    BY TypeStep DEF IInv
<1>1. PICK i \in Inode : i = held
    BY <1>0 DEF TypeOK
<1>2. /\ i \notin cleared /\ i \notin cleared' /\ Len(data[i]) \in Nat
      /\ \A m \in 1..Len(data[i]) : data'[i][m] = data[i][m]
      /\ DOMAIN data[i] = 1..Len(data[i])
    BY <1>0, <1>1, FilesGrow, FileIs
<1>3. k \in 1..Len(data[i])
    <2>1. k \in Nat /\ 1 <= k
        <3>1. data'[i] \in Seq(Piece)
            BY <1>0 DEF TypeOK
        <3>2. DOMAIN data'[i] = 1..Len(data'[i])
            BY <3>1, LenProperties
        <3> QED BY <1>1, <3>2
    <2>2. pos <= Len(data[i]) /\ pos \in Nat /\ Len(ahead) \in Nat
        BY <1>0, <1>1, <1>2, LenProperties, Bounds DEF BufferInv, TypeOK
    <2> QED BY <1>2, <2>1, <2>2
<1>4. Known(k)
    BY <1>0, <1>1, <1>2, <1>3 DEF GapInv, Known
<1>5. CASE data[held][k] \in Sent \cup skipped
    <2>1. data'[i][k] \in (Sent \cup skipped)'
        BY <1>1, <1>2, <1>3, <1>5, KnownKept
    <2> QED BY <1>1, <2>1 DEF Known
<1>6. CASE OnLineWith(held, k, Garbled)
    <2>1. OnLineWith(i, k, Garbled)
        BY <1>1, <1>6
    <2>2. OnLineWith(i, k, Garbled)'
        BY <1>2, <1>3, <2>1, OnLineKept
    <2>3. OnLineWith(held, k, Garbled)'
        BY <1>1, <2>2 DEF OnLineWith
    <2> QED BY <2>3 DEF Known
<1>7. CASE pc = "done" /\ OnLineWith(held, k, Fatal)
    <2>1. OnLineWith(i, k, Fatal)
        BY <1>1, <1>7
    <2>2. OnLineWith(i, k, Fatal)'
        BY <1>2, <1>3, <2>1, OnLineKept
    <2>3. OnLineWith(held, k, Fatal)'
        BY <1>1, <2>2 DEF OnLineWith
    <2>4. pc' = "done"
        BY <1>7 DEF Next, Write, Rename, Create, Clear, Stop, Collect, Done, Poll, Open, OpenError,
           Fill, ReadLine, EndRead, ReadError, Panic, TakeLine, vars
    <2> QED BY <2>3, <2>4 DEF Known
<1> QED BY <1>4, <1>5, <1>6, <1>7 DEF Known

\* The pieces of a line are on a line with each other.
LEMMA LineIsBad ==
    ASSUME IInv, TakeLine, held \notin cleared, NEW CONSTANT Bad, ToSet(Line) \cap Bad # {},
           NEW k \in 1..Len(data[held]), k + Len(ahead) > pos, k + Len(ahead) <= pos + LineLength
    PROVE  OnLineWith(held, k, Bad)
<1>0. TypeOK /\ LineReady
    BY DEF IInv, TakeLine
<1>1. /\ held \in Inode
      /\ pos - Len(ahead) \in Nat /\ pos \in Nat /\ Len(ahead) \in Nat
      /\ LineLength \in 1..Len(ahead)
      /\ \A j \in 1..LineLength :
            /\ pos - Len(ahead) + j \in 1..Len(data[held])
            /\ Line[j] = data[held][pos - Len(ahead) + j]
    BY LineInFile
<1>2. /\ DOMAIN Line = 1..LineLength
      /\ \A j \in 1..(LineLength - 1) : ahead[j] \notin Breaks
      /\ \A j \in 1..LineLength : Line[j] = ahead[j]
    BY <1>0, LineIs
<1> HIDE DEF LineLength, Line
<1>3. DOMAIN data[held] = 1..Len(data[held]) /\ Len(data[held]) \in Nat
    BY <1>0, <1>1, FileIs
<1>4. PICK j \in 1..LineLength : Line[j] \in Bad
    BY <1>2 DEF ToSet
<1>5. PICK g \in 1..Len(data[held]) : g = pos - Len(ahead) + j /\ data[held][g] \in Bad
    BY <1>1, <1>4
<1>6. ASSUME NEW b \in 1..Len(data[held]), (k <= b /\ b < g) \/ (g <= b /\ b < k)
      PROVE  data[held][b] \notin Breaks
    <2>1. PICK m \in 1..(LineLength - 1) : b = pos - Len(ahead) + m
        <3>1. b - (pos - Len(ahead)) \in 1..(LineLength - 1)
            <4>1. /\ pos \in Nat /\ Len(ahead) \in Nat /\ LineLength \in Nat /\ j \in Nat
                  /\ k \in Nat /\ b \in Nat /\ g \in Nat
                  /\ 1 <= j /\ j <= LineLength /\ g = pos - Len(ahead) + j
                BY <1>1, <1>3, <1>5
            <4>2. k + Len(ahead) > pos /\ k + Len(ahead) <= pos + LineLength
                OBVIOUS
            <4>3. CASE k <= b /\ b < g
                BY <4>1, <4>2, <4>3
            <4>4. CASE g <= b /\ b < k
                BY <4>1, <4>2, <4>4
            <4> QED BY <1>6, <4>3, <4>4
        <3>2. b = pos - Len(ahead) + (b - (pos - Len(ahead)))
            BY <1>1, <1>3
        <3> QED BY <3>1, <3>2
    <2>2. m \in 1..LineLength
        BY <1>1, <2>1
    <2>3. Line[m] = data[held][b] /\ Line[m] = ahead[m]
        BY <1>1, <1>2, <2>1, <2>2
    <2> QED BY <1>2, <2>1, <2>3
<1> QED BY <1>3, <1>5, <1>6 DEF OnLineWith

\* Every step accounts for what it leaves behind.
LEMMA GapStep ==
    ASSUME IInv, [Next]_vars
    PROVE  GapInv'
<1> USE DEF files, reader, stat
<1>0. TypeOK /\ FileInv /\ InodeInv /\ BufferInv /\ TypeOK'
    BY TypeStep DEF IInv
<1>1. SUFFICES ASSUME held' # 0, held' \notin cleared', NEW k \in DOMAIN data'[held'],
                      k + Len(ahead') <= pos'
               PROVE  Known(k)'
    BY DEF GapInv, Known
<1>2. k \in Nat /\ 1 <= k
    <2>1. held' \in Inode
        BY <1>0, <1>1 DEF TypeOK
    <2>2. DOMAIN data'[held'] = 1..Len(data'[held'])
        BY <1>0, <2>1, LenProperties DEF TypeOK
    <2> QED BY <1>1, <2>2
<1>3. pos \in Nat /\ Len(ahead) \in Nat
    BY <1>0, LenProperties, Bounds DEF TypeOK
<1>4. CASE held' = held /\ k + Len(ahead) <= pos
    BY <1>1, <1>4, KnownStep
<1>5. CASE UNCHANGED reader
    BY <1>1, <1>4, <1>5
<1>6. CASE Poll
    <2>1. CASE pos' = 0 /\ ahead' = <<>>
        <3>1. Len(ahead') = 0
            BY <2>1
        <3> QED BY <1>1, <1>2, <2>1, <3>1
    <2> QED BY <1>5, <1>6, <2>1 DEF Poll
<1>7. CASE Open
    <2>1. /\ held' = path /\ pos' = Start /\ ahead' = <<>> /\ data' = data
          /\ skipped' = IF inode = 0 THEN ToSet(data[path]) ELSE skipped
        BY <1>7 DEF Open
    <2>2. Len(ahead') = 0
        BY <2>1
    <2>3. inode = 0
        BY <1>1, <1>2, <2>1, <2>2 DEF Start
    <2>4. data'[held'][k] \in skipped'
        BY <1>1, <2>1, <2>3 DEF ToSet
    <2> QED BY <2>4 DEF Known
<1>8. CASE Fill
    <2>1. held \in Inode /\ held' = held
        BY <1>0, <1>8 DEF Fill, InodeInv, TypeOK
    <2>2. /\ pos' \in (pos + 1)..Len(data[held]) /\ Len(ahead') - Len(ahead) = pos' - pos
          /\ ahead' \in Seq(Piece)
        BY <1>0, <1>8, <2>1, FillIs
    <2>3. Len(ahead') \in Nat /\ Len(data[held]) \in Nat
        BY <1>0, <2>1, <2>2, LenProperties, FileIs
    <2>4. k + Len(ahead) <= pos
        BY <1>1, <1>2, <1>3, <2>2, <2>3
    <2> QED BY <1>4, <2>1, <2>4
<1>9. CASE ReadLine \/ ReadError \/ Panic
    <2>1. /\ TakeLine /\ data' = data /\ cleared' = cleared /\ held' = held /\ pos' = pos
          /\ LineReady
        BY <1>9 DEF ReadLine, ReadError, Panic, TakeLine
    <2>2. /\ held \in Inode /\ inode = held
          /\ pos - Len(ahead) \in Nat /\ pos \in Nat /\ Len(ahead) \in Nat /\ pos <= Len(data[held])
          /\ LineLength \in 1..Len(ahead)
          /\ \A j \in 1..LineLength :
                /\ pos - Len(ahead) + j \in 1..Len(data[held])
                /\ Line[j] = data[held][pos - Len(ahead) + j]
        BY <1>1, <2>1, LineInFile
    <2>3. Len(ahead') = Len(ahead) - LineLength
        BY <1>0, <2>1, RestIs
    <2>4. DOMAIN data[held] = 1..Len(data[held]) /\ Len(data[held]) \in Nat
        BY <1>0, <2>2, FileIs
    <2>5. SUFFICES ASSUME k + Len(ahead) > pos
                   PROVE  Known(k)'
        BY <1>2, <1>3, <1>4, <2>1
    <2>6. k \in 1..Len(data[held]) /\ k + Len(ahead) <= pos + LineLength
        <3> HIDE DEF LineLength, Line
        <3>1. k \in 1..Len(data[held])
            BY <1>1, <2>1, <2>4
        <3> QED BY <1>1, <1>2, <2>1, <2>2, <2>3, <3>1
    <2>7. CASE ReadLine
        <3>1. PICK j \in 1..LineLength : k = pos - Len(ahead) + j
            <4> HIDE DEF LineLength, Line
            <4>1. k - (pos - Len(ahead)) \in 1..LineLength
                BY <1>2, <2>2, <2>5, <2>6
            <4>2. k = pos - Len(ahead) + (k - (pos - Len(ahead)))
                BY <1>2, <2>2
            <4> QED BY <4>1, <4>2
        <3>2. data[held][k] \in ToSet(Line)
            <4>1. DOMAIN Line = 1..LineLength
                BY <1>0, <2>1, LineIs
            <4> HIDE DEF LineLength, Line
            <4> QED BY <2>2, <3>1, <4>1 DEF ToSet
        <3>3. ToSet(Line) \subseteq Sent'
            <4>1. sent' = Append(sent, Line) /\ sent \in Seq(Seq(Piece)) /\ Line \in Seq(Piece)
                BY <1>0, <2>1, <2>7, LineIs DEF ReadLine, TypeOK
            <4> HIDE DEF Line
            <4>2. /\ Len(sent) \in Nat /\ Len(sent') = Len(sent) + 1 /\ sent' \in Seq(Seq(Piece))
                  /\ sent'[Len(sent) + 1] = Line
                BY <4>1, AppendProperties, LenProperties
            <4>3. Len(sent) + 1 \in DOMAIN sent'
                BY <4>2, LenProperties
            <4> QED BY <4>2, <4>3 DEF Sent
        <3> HIDE DEF LineLength, Line
        <3>4. data'[held'][k] \in Sent'
            BY <2>1, <3>2, <3>3
        <3> QED BY <3>4 DEF Known
    <2>8. CASE ReadError
        <3>1. ToSet(Line) \cap Garbled # {}
            BY <2>8 DEF ReadError
        <3>2. OnLineWith(held, k, Garbled)
            BY <1>1, <2>1, <2>5, <2>6, <3>1, LineIsBad
        <3>3. OnLineWith(held, k, Garbled)'
            BY <2>1, <3>2 DEF OnLineWith
        <3> QED BY <3>3 DEF Known
    <2>9. CASE Panic
        <3>1. ToSet(Line) \cap Fatal # {} /\ pc' = "done"
            BY <2>9 DEF Panic
        <3>2. OnLineWith(held, k, Fatal)
            BY <1>1, <2>1, <2>5, <2>6, <3>1, LineIsBad
        <3>3. OnLineWith(held, k, Fatal)'
            BY <2>1, <3>2 DEF OnLineWith
        <3> QED BY <3>1, <3>3 DEF Known
    <2> QED BY <1>9, <2>7, <2>8, <2>9
<1>10. CASE EndRead
    BY <1>1, <1>4, <1>10 DEF EndRead
<1> QED BY <1>5, <1>6, <1>7, <1>8, <1>9, <1>10
        DEF Next, Write, Rename, Create, Clear, Stop, Collect, Done, OpenError, vars

\* Every step keeps what the last pass has seen accounted for.
LEMMA PassStep ==
    ASSUME IInv, [Next]_vars
    PROVE  PassInv'
<1> USE DEF files, reader, stat
<1>0. /\ TypeOK /\ FileInv /\ InodeInv /\ BufferInv /\ GapInv /\ PassInv
      /\ TypeOK' /\ BufferInv' /\ InodeInv'
    BY TypeStep, BufferStep, InodeStep DEF IInv
<1>1. SUFFICES ASSUME held' # 0, inode' = held', held' \notin cleared', pc' # "done",
                      ToSet(data'[held']) \cap Garbled = {},
                      NEW k \in DOMAIN data'[held'], k <= lastSize'
               PROVE  data'[held'][k] \in (Sent \cup skipped)'
    BY DEF PassInv
<1>2. PICK i \in Inode : i = held'
    BY <1>0, <1>1 DEF TypeOK
<1>3. DOMAIN data'[i] = 1..Len(data'[i]) /\ Len(data'[i]) \in Nat /\ k \in Nat /\ 1 <= k
    <2>1. data'[i] \in Seq(Piece)
        BY <1>0 DEF TypeOK
    <2>2. DOMAIN data'[i] = 1..Len(data'[i]) /\ Len(data'[i]) \in Nat
        BY <2>1, LenProperties
    <2> QED BY <1>1, <1>2, <2>2
<1>4. /\ i \notin cleared /\ Len(data[i]) <= Len(data'[i]) /\ Len(data[i]) \in Nat
      /\ DOMAIN data[i] = 1..Len(data[i])
      /\ \A m \in 1..Len(data[i]) : data'[i][m] = data[i][m]
    BY <1>0, <1>1, <1>2, FilesGrow, FileIs
<1>5. ToSet(data[i]) \subseteq ToSet(data'[i])
    <2>1. \A m \in DOMAIN data[i] : m \in DOMAIN data'[i] /\ data'[i][m] = data[i][m]
        BY <1>3, <1>4
    <2> QED BY <2>1 DEF ToSet
<1>6. lastSize \in Nat /\ pos \in Nat /\ Len(ahead) \in Nat
    BY <1>0, LenProperties, Bounds DEF TypeOK
<1>7. pc # "done"
    BY <1>1 DEF Next, Write, Rename, Create, Clear, Stop, Collect, Done, Poll, Open, OpenError,
       Fill, ReadLine, EndRead, ReadError, Panic, TakeLine, vars
<1>8. CASE UNCHANGED <<inode, held, lastSize>>
    <2>1. lastSize <= Len(data[i])
        BY <1>0, <1>1, <1>2, <1>4, <1>8 DEF BufferInv
    <2>2. k \in 1..Len(data[i]) /\ k <= lastSize
        BY <1>1, <1>3, <1>4, <1>6, <1>8, <2>1
    <2>3. data[i][k] \in Sent \cup skipped
        <3>1. ToSet(data[held]) \cap Garbled = {}
            BY <1>1, <1>2, <1>5, <1>8
        <3> QED BY <1>0, <1>1, <1>2, <1>4, <1>7, <1>8, <2>2, <3>1 DEF PassInv
    <2>4. data'[i][k] = data[i][k]
        BY <1>4, <2>2
    <2> QED BY <1>1, <1>2, <1>8, <2>3, <2>4, KnownKept
<1>9. CASE lastSize' = 0
    BY <1>1, <1>3, <1>9
<1>10. CASE Open /\ inode = 0
    <2>1. data' = data /\ held' = path /\ skipped' = ToSet(data[path])
        BY <1>10 DEF Open
    <2> QED BY <1>1, <2>1 DEF ToSet
<1>11. CASE EndRead
    <2>1. /\ AtEnd /\ ahead = <<>> /\ pc = "read"
          /\ UNCHANGED <<data, held, inode, cleared, sent, skipped>>
        BY <1>11 DEF EndRead
    <2>2. Len(ahead) = 0
        BY <2>1
    <2>3. k + Len(ahead) <= pos
        BY <1>1, <1>2, <1>3, <1>4, <1>6, <2>1, <2>2 DEF AtEnd
    <2>4. \/ data[held][k] \in Sent \cup skipped
          \/ OnLineWith(held, k, Garbled)
        BY <1>0, <1>1, <2>1, <2>3 DEF GapInv
    <2>5. ~OnLineWith(held, k, Garbled)
        BY <1>1, <2>1 DEF OnLineWith, ToSet
    <2>6. (Sent \cup skipped)' = Sent \cup skipped
        BY <2>1 DEF Sent
    <2> QED BY <2>1, <2>4, <2>5, <2>6
<1>12. CASE ReadError
    <2>1. /\ TakeLine /\ LineReady /\ ToSet(Line) \cap Garbled # {}
          /\ UNCHANGED <<data, held, inode, cleared>>
        BY <1>12 DEF ReadError, TakeLine
    <2>2. \A j \in 1..LineLength : pos - Len(ahead) + j \in 1..Len(data[held])
                                   /\ Line[j] = data[held][pos - Len(ahead) + j]
        BY <1>1, <2>1, LineInFile
    <2>3. DOMAIN Line = 1..LineLength
        BY <1>0, <2>1, LineIs
    <2> HIDE DEF LineLength, Line
    <2>4. ToSet(Line) \subseteq ToSet(data[held])
        BY <1>2, <1>4, <2>1, <2>2, <2>3 DEF ToSet
    <2> QED BY <1>1, <2>1, <2>4
<1>13. CASE Poll
    BY <1>8, <1>9, <1>13 DEF Poll
<1>14. CASE Open /\ inode # 0
    BY <1>9, <1>14 DEF Open
<1>15. CASE Panic
    BY <1>1, <1>15 DEF Panic
<1> QED BY <1>8, <1>10, <1>11, <1>12, <1>13, <1>14, <1>15
        DEF Next, Write, Rename, Create, Clear, Stop, Collect, Done, OpenError, Fill, ReadLine, vars

-----------------------------------------------------------------------------
(* The theorems.                                                           *)

\* The inductive invariant: the files are runs of successive pieces, the recorded
\* inode is never ahead of the file that is read, the BufReader is a window on that
\* file, and what is behind it was sent or is accounted for.
THEOREM TailInvariance == Spec => []IInv
<1>1. Init => IInv
    BY InitInv
<1>2. IInv /\ [Next]_vars => IInv'
    BY TypeStep, FileStep, InodeStep, BufferStep, SentStep, GapStep, PassStep DEF IInv
<1> QED BY <1>1, <1>2, PTL DEF Spec

\* What is sent is what the application wrote, in its order, no piece twice, and
\* without a gap but for the lines that are not UTF-8 and the one that ends the
\* thread: for any number of rotations between any two steps of a poll.
THEOREM TailSendsTheFile == Spec => []SentWithoutGap
<1>1. IInv => SentWithoutGap
    <2> SUFFICES ASSUME IInv PROVE SentWithoutGap
        OBVIOUS
    <2>1. SentInOrder /\ GapInv
        BY DEF IInv, SentInv
    <2>2. NoGap
        BY <2>1 DEF GapInv, NoGap, OnLineWith
    <2> QED BY <2>1, <2>2 DEF SentWithoutGap
<1> QED BY <1>1, TailInvariance, PTL

\* When the collector leaves a file for the next one, what the last pass over it has
\* seen was sent.
THEOREM RotationLosesLittle == Spec => LeftUpToLastSize
<1>1. ASSUME IInv, [Next]_vars, held # 0, held' # held, inode = held, held \notin cleared,
             ToSet(data[held]) \cap Garbled = {}, NEW k \in DOMAIN data[held], k <= lastSize
      PROVE  data[held][k] \in Sent \cup skipped
    <2>1. Open
        BY <1>1 DEF Next, Write, Rename, Create, Clear, Stop, Collect, Done, Poll, OpenError,
           Fill, ReadLine, EndRead, ReadError, Panic, vars, reader
    <2>2. pc = "open" /\ PassInv
        BY <1>1, <2>1 DEF Open, IInv
    <2> QED BY <1>1, <2>2 DEF PassInv
<1>2. IInv /\ [Next]_vars =>
        [held # 0 /\ held' # held /\ inode = held /\ held \notin cleared
         /\ ToSet(data[held]) \cap Garbled = {} =>
            \A k \in DOMAIN data[held] : k <= lastSize => data[held][k] \in Sent \cup skipped]_vars
    BY <1>1
<1> QED BY <1>2, TailInvariance, PTL DEF Spec, LeftUpToLastSize
===============================================================================
