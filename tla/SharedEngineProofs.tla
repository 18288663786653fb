-------------------------- MODULE SharedEngineProofs --------------------------
(***************************************************************************)
(* Proofs about SharedEngine, for any number of lines and of threads.      *)
(***************************************************************************)
EXTENDS SharedEngine, WalFileProofs, FiniteSetTheorems

-----------------------------------------------------------------------------
(* Facts about the operators.                                              *)

\* Sets of lines are finite.
LEMMA LinesFinite ==
    ASSUME NEW S, S \subseteq Lines
    PROVE  /\ IsFiniteSet(S) /\ Cardinality(S) \in Nat
           /\ Cardinality(S) <= Cardinality(Lines) /\ Cardinality(Lines) \in Nat
BY LinesAssumption, FS_Subset, FS_CardinalityType

\* A write through the open descriptor keeps what is behind it, and puts its
\* lines there.
LEMMA PushStep ==
    ASSUME TypeOK, WalInv, NEW out \in Seq(Lines),
           wal' = Written(wal, fd, out), fd' = Advanced(fd, out)
    PROVE  /\ wal' \in Seq(Lines \cup {Hole}) /\ fd' \in [append : BOOLEAN, pos : Nat]
           /\ WrittenTo' <= Len(wal') /\ \A k \in 1..WrittenTo' : wal'[k] # Hole
           /\ \A l : (\E k \in 1..WrittenTo : wal[k] = l) =>
                        \E k \in 1..WrittenTo' : wal'[k] = l
           /\ \A k \in 1..Len(out) : \E j \in 1..WrittenTo' : wal'[j] = out[k]
<1> DEFINE start == Behind(wal, fd)
<1>1. /\ wal \in Seq(Lines \cup {Hole}) /\ fd \in [append : BOOLEAN, pos : Nat]
      /\ start = WrittenTo /\ WrittenTo <= Len(wal)
      /\ Behind(wal, fd) <= Len(wal) /\ \A k \in 1..start : wal[k] # Hole
    BY DEF TypeOK, WalInv, WrittenTo, Behind
<1>2. Len(wal) \in Nat /\ Len(out) \in Nat /\ fd.pos \in Nat /\ start \in Nat
    BY <1>1, LenProperties DEF Behind
<1>3. /\ wal' \in Seq(Lines \cup {Hole})
      /\ start + Len(out) <= Len(wal')
      /\ \A k \in 1..start : wal'[k] = wal[k]
      /\ \A k \in 1..Len(out) : wal'[start + k] = out[k]
      /\ fd.append => Len(wal') = Len(wal) + Len(out)
    <2> DEFINE new == Written(wal, fd, out)
    <2>1. new \in Seq(Lines \cup {Hole}) /\ Continues(new, wal, fd, out)
        BY <1>1, WrittenIs, Zenon
    <2>2. wal' = new
        OBVIOUS
    <2> HIDE DEF new
    <2> QED BY <2>1, <2>2 DEF Continues
<1>4. /\ fd' \in [append : BOOLEAN, pos : Nat]
      /\ fd'.append = fd.append /\ fd'.pos = fd.pos + Len(out)
    BY <1>1, <1>2 DEF Advanced
<1>5. WrittenTo' = start + Len(out)
    BY <1>2, <1>3, <1>4 DEF WrittenTo, Behind
<1>6. \A k \in 1..Len(out) : out[k] \in Lines /\ out[k] # Hole
    BY ElementOfSeq, LinesAssumption
<1> HIDE DEF start
<1>7. ASSUME NEW k \in 1..(start + Len(out)) PROVE wal'[k] # Hole
    <2>1. CASE k <= start
        BY <1>1, <1>2, <1>3, <2>1
    <2>2. CASE start < k
        <3>1. k - start \in 1..Len(out) /\ start + (k - start) = k
            BY <1>2, <2>2
        <3> QED BY <1>3, <1>6, <3>1
    <2> QED BY <1>2, <2>1, <2>2
<1>8. ASSUME NEW k \in 1..start PROVE k \in 1..WrittenTo' /\ wal'[k] = wal[k]
    BY <1>2, <1>3, <1>5
<1>9. ASSUME NEW k \in 1..Len(out)
      PROVE  start + k \in 1..WrittenTo' /\ wal'[start + k] = out[k]
    BY <1>2, <1>3, <1>5
<1> QED BY <1>1, <1>3, <1>4, <1>5, <1>7, <1>8, <1>9

\* The last push of the old descriptor leaves a file of lines and holes.
LEMMA TruncatePushes ==
    ASSUME TypeOK, wal' = Written(<<>>, fd, walBuf)
    PROVE  wal' \in Seq(Lines \cup {Hole})
<1>1. /\ fd \in [append : BOOLEAN, pos : Nat] /\ walBuf \in Seq(Lines)
      /\ <<>> \in Seq(Lines \cup {Hole})
    BY DEF TypeOK
<1>2. Written(<<>>, fd, walBuf) \in Seq(Lines \cup {Hole})
    BY <1>1, WrittenIs, Zenon
<1> QED BY <1>2

\* An append is a write of a part of what the BufWriter has.
LEMMA AppendPushes ==
    ASSUME TypeOK, WalInv, NEW t \in Threads, NEW l \in Lines, AppendLine(t, l)
    PROVE  /\ wal' \in Seq(Lines \cup {Hole}) /\ fd' \in [append : BOOLEAN, pos : Nat]
           /\ walBuf' \in Seq(Lines)
           /\ WrittenTo' <= Len(wal') /\ \A k \in 1..WrittenTo' : wal'[k] # Hole
           /\ \A x : x = l \/ Backed(x) => Backed(x)'
<1> DEFINE all == Append(walBuf, l)
<1>1. PICK n \in {0, Len(walBuf), Len(all)} :
         /\ walBuf' = SubSeq(all, n + 1, Len(all))
         /\ wal' = Written(wal, fd, SubSeq(all, 1, n))
         /\ fd' = Advanced(fd, SubSeq(all, 1, n))
    BY DEF AppendLine
<1> DEFINE out  == SubSeq(all, 1, n)
           rest == SubSeq(all, n + 1, Len(all))
<1>2. walBuf \in Seq(Lines)
    BY DEF TypeOK
<1>3. /\ out \in Seq(Lines) /\ rest \in Seq(Lines)
      /\ Split(walBuf, l, out, rest)
    BY <1>2, PushSplits, Zenon DEF rest, out, all
<1>4. wal' = Written(wal, fd, out) /\ fd' = Advanced(fd, out) /\ walBuf' = rest
    BY <1>1
<1> HIDE DEF out, rest
<1>5. /\ wal' \in Seq(Lines \cup {Hole}) /\ fd' \in [append : BOOLEAN, pos : Nat]
      /\ WrittenTo' <= Len(wal') /\ \A k \in 1..WrittenTo' : wal'[k] # Hole
      /\ \A x : (\E k \in 1..WrittenTo : wal[k] = x) =>
                   \E k \in 1..WrittenTo' : wal'[k] = x
      /\ \A k \in 1..Len(out) : \E j \in 1..WrittenTo' : wal'[j] = out[k]
    BY <1>3, <1>4, PushStep
<1>6. ASSUME NEW x, x = l \/ Backed(x) PROVE Backed(x)'
    <2>1. CASE \E k \in 1..WrittenTo : wal[k] = x
        BY <1>5, <2>1 DEF Backed
    <2>2. CASE \E k \in 1..Len(out) : out[k] = x
        BY <1>5, <2>2 DEF Backed
    <2>3. CASE \E k \in 1..Len(rest) : rest[k] = x
        BY <1>4, <2>3 DEF Backed
    <2> QED BY <1>3, <1>6, <2>1, <2>2, <2>3 DEF Split, Backed
<1> QED BY <1>3, <1>4, <1>5, <1>6

\* When the BufWriter is dropped, the lines of the buffer are where read_wal
\* finds them: in front of every hole.
LEMMA DropServes ==
    ASSUME TypeOK, WalInv, NEW l, Backed(l)
    PROVE  l \in Recovered(Written(wal, fd, walBuf))
<1> DEFINE start == Behind(wal, fd)
           new   == Written(wal, fd, walBuf)
<1>1. /\ wal \in Seq(Lines \cup {Hole}) /\ fd \in [append : BOOLEAN, pos : Nat]
      /\ walBuf \in Seq(Lines)
    BY DEF TypeOK
<1>2. /\ start = WrittenTo /\ Behind(wal, fd) <= Len(wal)
      /\ \A k \in 1..start : wal[k] # Hole
    BY DEF WalInv, WrittenTo, Behind
<1>3. new \in Seq(Lines \cup {Hole}) /\ Continues(new, wal, fd, walBuf)
    BY <1>1, <1>2, WrittenIs, Zenon
<1>4. Len(wal) \in Nat /\ Len(walBuf) \in Nat /\ Len(new) \in Nat /\ start \in Nat
    <2>1. Len(new) \in Nat
        BY <1>3, LenProperties
    <2> QED BY <1>1, <2>1, LenProperties DEF Behind
<1>5. \A k \in 1..Len(walBuf) : walBuf[k] # Hole
    BY <1>1, ElementOfSeq, LinesAssumption
<1> HIDE DEF new
<1>6. /\ start + Len(walBuf) <= Len(new)
      /\ \A k \in 1..start : new[k] = wal[k]
      /\ \A k \in 1..Len(walBuf) : new[start + k] = walBuf[k]
    BY <1>3 DEF Continues
<1> HIDE DEF start
<1>7. ASSUME NEW k \in 1..(start + Len(walBuf)) PROVE new[k] # Hole
    <2>1. CASE k <= start
        <3>1. k \in 1..start
            BY <1>4, <2>1
        <3> QED BY <1>2, <1>6, <3>1
    <2>2. CASE start < k
        <3>1. k - start \in 1..Len(walBuf) /\ start + (k - start) = k
            BY <1>4, <2>2
        <3> QED BY <1>5, <1>6, <3>1
    <2> QED BY <1>4, <2>1, <2>2
<1>8. PICK k \in 1..(start + Len(walBuf)) : new[k] = l
    <2>1. CASE \E k \in 1..WrittenTo : wal[k] = l
        <3>1. PICK k \in 1..start : wal[k] = l
            BY <1>2, <2>1
        <3>2. k \in 1..(start + Len(walBuf))
            BY <1>4, <3>1
        <3> QED BY <1>6, <3>1, <3>2
    <2>2. CASE \E k \in 1..Len(walBuf) : walBuf[k] = l
        <3>1. PICK k \in 1..Len(walBuf) : walBuf[k] = l
            BY <2>2
        <3>2. start + k \in 1..(start + Len(walBuf)) /\ new[start + k] = l
            BY <1>4, <1>6, <3>1
        <3> QED BY <3>2
    <2> QED BY <2>1, <2>2 DEF Backed
<1>9. k \in 1..Len(new) /\ (k > 1 => k - 1 \in 1..(start + Len(walBuf)))
    BY <1>4, <1>6
<1>10. new[k] # Hole /\ (k > 1 => new[k - 1] # Hole)
    BY <1>7, <1>9
<1> QED BY <1>8, <1>9, <1>10 DEF Recovered, new

\* What an append does besides: the caller is answered, or runs the flush.
AppendEffect(t, l) ==
    /\ pc[t] = "idle" /\ l \notin appended
    /\ appended' = appended \cup {l} /\ buffer' = buffer \cup {l}
    /\ \/ pc' = [pc EXCEPT ![t] = "drain"] /\ mine' = [mine EXCEPT ![t] = {l}] /\ acked' = acked
       \/ pc' = pc /\ mine' = mine /\ acked' = acked \cup {l}
    /\ exposed' = IF InFlight = {} THEN exposed ELSE exposed \cup {l}
    /\ UNCHANGED <<flight, failed, carried, segments, saving, query>>

LEMMA AppendHas ==
    ASSUME NEW t, NEW l, AppendLine(t, l)
    PROVE  AppendEffect(t, l)
<1>1. \/ Goto(t, "drain") /\ mine' = [mine EXCEPT ![t] = {l}] /\ UNCHANGED acked
      \/ acked' = acked \cup {l} /\ UNCHANGED <<pc, mine>>
    BY DEF AppendLine
<1>2. /\ pc[t] = "idle" /\ l \notin appended
      /\ appended' = appended \cup {l} /\ buffer' = buffer \cup {l}
      /\ exposed' = IF InFlight = {} THEN exposed ELSE exposed \cup {l}
      /\ UNCHANGED <<flight, failed, carried, segments, saving, query>>
    BY DEF AppendLine
<1> QED BY <1>1, <1>2 DEF AppendEffect, Goto

\* The next id is in range, and its file is not there: every segment that was
\* written has a line of its own, and so has the batch.
LEMMA IdIsFree ==
    ASSUME IInv, NEW t \in Threads, pc[t] = "write"
    PROVE  /\ nextId \in SegId /\ segs[nextId] = {}
           /\ nextId <= Cardinality(In(SegId) \cup batch[t])
<1>0. TypeOK /\ FlightInv /\ PlaceInv
    BY DEF IInv
<1>1. batch[t] # {} /\ batch[t] \cap In(SegId) = {}
    BY <1>0 DEF FlightInv, PlaceInv, In
<1>2. In(SegId) \subseteq Lines /\ batch[t] \subseteq Lines
    BY <1>0 DEF TypeOK, In
<1>3. PICK l \in batch[t] : l \notin In(SegId)
    BY <1>1
<1>4. /\ IsFiniteSet(In(SegId)) /\ Cardinality(In(SegId)) \in Nat
      /\ IsFiniteSet(In(SegId) \cup batch[t]) /\ Cardinality(In(SegId) \cup batch[t]) \in Nat
      /\ Cardinality(In(SegId) \cup batch[t]) <= Cardinality(Lines) /\ Cardinality(Lines) \in Nat
    <2>1. In(SegId) \cup batch[t] \subseteq Lines
        BY <1>2
    <2> QED BY <1>2, <2>1, LinesFinite
<1>5. Cardinality(In(SegId) \cup {l}) = Cardinality(In(SegId)) + 1
    BY <1>3, <1>4, FS_AddElement
<1>6. In(SegId) \cup {l} \subseteq In(SegId) \cup batch[t]
    BY <1>3
<1>7. Cardinality(In(SegId) \cup {l}) <= Cardinality(In(SegId) \cup batch[t])
    BY <1>4, <1>6, FS_Subset
<1>8. nextId \in Nat /\ nextId >= 1 /\ nextId - 1 <= Cardinality(In(SegId))
    BY <1>0, <1>4 DEF TypeOK, FlightInv
<1>9. nextId <= Cardinality(In(SegId) \cup batch[t])
    BY <1>4, <1>5, <1>7, <1>8
<1>10. nextId \in SegId
    BY <1>4, <1>8, <1>9 DEF SegId
<1> QED BY <1>0, <1>8, <1>9, <1>10 DEF FlightInv

-----------------------------------------------------------------------------
(* The invariant holds initially.                                          *)

LEMMA InitInv == Init => IInv
<1> SUFFICES ASSUME Init PROVE IInv
    OBVIOUS
<1>1. Cardinality(Lines) \in Nat
    BY LinesAssumption, FS_CardinalityType
<1>2. TypeOK
    BY <1>1 DEF Init, TypeOK, ListFile, Nothing, SegId
<1>3. In(SegId) = {}
    BY DEF Init, In
<1>4. Cardinality(In(SegId)) = 0
    BY <1>3, FS_EmptySet
<1>5. FlightInv
    BY <1>1, <1>4 DEF Init, FlightInv, SegId
<1>6. PlaceInv /\ AnswerInv /\ QueryInv
    BY DEF Init, PlaceInv, AnswerInv, QueryInv, In, Unlisted, InFlight
<1>7. SaveInv
    BY DEF Init, SaveInv, Nothing, Settled
<1>8. WalInv
    BY DEF Init, WalInv, WrittenTo, InFlight
<1> QED BY <1>2, <1>5, <1>6, <1>7, <1>8 DEF IInv

-----------------------------------------------------------------------------
(* Every step preserves it, part by part.                                  *)

\* Every step keeps the types.
LEMMA TypeStep ==
    ASSUME IInv, [Next]_vars
    PROVE  TypeOK'
<1> USE DEF state, segments, saving, flight, query, calls
<1>0. TypeOK /\ AnswerInv /\ WalInv /\ FlightInv
    BY DEF IInv
<1>1. ASSUME NEW t \in Threads, NEW l \in Lines, AppendLine(t, l) PROVE TypeOK'
    <2>1. /\ wal' \in Seq(Lines \cup {Hole}) /\ fd' \in [append : BOOLEAN, pos : Nat]
          /\ walBuf' \in Seq(Lines)
        BY <1>0, <1>1, AppendPushes
    <2>2. AppendEffect(t, l)
        BY <1>1, AppendHas
    <2>3. /\ appended' \subseteq Lines /\ acked' \subseteq appended'
          /\ failed' \subseteq appended' \ acked' /\ exposed' \subseteq appended'
          /\ buffer' \subseteq Lines
        BY <1>0, <2>2 DEF TypeOK, AppendEffect
    <2>4. /\ mine' \in [Threads -> SUBSET Lines]
          /\ pc' \in [Threads -> {"idle", "drain", "write", "index", "save", "put",
                                  "rename", "trunc", "query"}]
        <3>1. /\ mine \in [Threads -> SUBSET Lines]
              /\ pc \in [Threads -> {"idle", "drain", "write", "index", "save", "put",
                                    "rename", "trunc", "query"}]
            BY <1>0 DEF TypeOK
        <3>2. \/ pc' = [pc EXCEPT ![t] = "drain"] /\ mine' = [mine EXCEPT ![t] = {l}]
              \/ pc' = pc /\ mine' = mine
            BY <2>2 DEF AppendEffect
        <3> QED BY <3>1, <3>2
    <2>5. UNCHANGED <<flight, segments, saving, query, carried>>
        BY <2>2 DEF AppendEffect
    <2> QED BY <1>0, <2>1, <2>3, <2>4, <2>5 DEF TypeOK
<1>2. ASSUME NEW t \in Threads, FlushNothing(t) PROVE TypeOK'
    BY <1>0, <1>2 DEF TypeOK, FlushNothing, ReturnOk, Goto, AnswerInv
<1>3. ASSUME NEW t \in Threads, Drain(t) PROVE TypeOK'
    <2>1. wal' \in Seq(Lines \cup {Hole}) /\ fd' \in [append : BOOLEAN, pos : Nat]
        <3>1. walBuf \in Seq(Lines) /\ wal' = Written(wal, fd, walBuf) /\ fd' = Advanced(fd, walBuf)
            BY <1>0, <1>3 DEF TypeOK, Drain
        <3> QED BY <1>0, <3>1, PushStep
    <2>2. walBuf' \in Seq(Lines)
        BY <1>3 DEF Drain
    <2> QED BY <1>0, <1>3, <2>1, <2>2 DEF TypeOK, Drain, Drained, Goto
<1>4. ASSUME NEW t \in Threads, WriteSegment(t) PROVE TypeOK'
    <2>1. nextId \in SegId
        BY <1>4, IdIsFree DEF WriteSegment
    <2>2. Cardinality(Lines) \in Nat
        BY LinesAssumption, FS_CardinalityType
    <2>3. nextId' \in 1..(Cardinality(Lines) + 1)
        BY <1>4, <2>1, <2>2 DEF WriteSegment, FollowingId, SegId
    <2> QED BY <1>0, <1>4, <2>1, <2>3 DEF TypeOK, WriteSegment, Goto
<1>5. ASSUME NEW t \in Threads, IndexAdd(t) PROVE TypeOK'
    <2>1. curId[t] \in SegId
        <3>1. curId[t] \in SegId \cup {0} /\ curId[t] \in 1..(nextId - 1)
            BY <1>0, <1>5 DEF TypeOK, FlightInv, IndexAdd
        <3>2. curId[t] # 0
            BY <1>0, <3>1 DEF TypeOK
        <3> QED BY <3>1, <3>2
    <2> QED BY <1>0, <1>5, <2>1 DEF TypeOK, IndexAdd, Goto
<1>6. ASSUME NEW t \in Threads, SaveCreate(t) PROVE TypeOK'
    BY <1>0, <1>6 DEF TypeOK, SaveCreate, Goto, ListFile
<1>7. ASSUME NEW t \in Threads, SaveWrite(t) PROVE TypeOK'
    BY <1>0, <1>7 DEF TypeOK, SaveWrite, Goto, ListFile
<1>8. ASSUME NEW t \in Threads, SaveRename(t) PROVE TypeOK'
    BY <1>0, <1>8 DEF TypeOK, SaveRename, Goto, ListFile, Nothing, Released
<1>9. ASSUME NEW t \in Threads, SaveRenameFails(t) PROVE TypeOK'
    BY <1>0, <1>9 DEF TypeOK, SaveRenameFails, Goto, Released, AnswerInv
<1>10. ASSUME NEW t \in Threads, Truncate(t) PROVE TypeOK'
    <2>1. wal' \in Seq(Lines \cup {Hole})
        BY <1>0, <1>10, TruncatePushes DEF Truncate
    <2>2. walBuf' \in Seq(Lines) /\ fd' \in [append : BOOLEAN, pos : Nat]
        BY <1>10 DEF Truncate
    <2> QED BY <1>0, <1>10, <2>1, <2>2 DEF TypeOK, Truncate, ReturnOk, Goto, AnswerInv
<1>11. ASSUME NEW t \in Threads, QueryIndex(t) PROVE TypeOK'
    <2>1. Unlisted \subseteq Lines
        BY <1>0 DEF TypeOK, Unlisted, InFlight
    <2> QED BY <1>0, <1>11, <2>1 DEF TypeOK, QueryIndex, Goto
<1>12. ASSUME NEW t \in Threads, QueryBuffer(t) PROVE TypeOK'
    BY <1>0, <1>12 DEF TypeOK, QueryBuffer, Goto
<1>13. CASE UNCHANGED vars
    BY <1>0, <1>13 DEF TypeOK, vars
<1> QED BY <1>1, <1>2, <1>3, <1>4, <1>5, <1>6, <1>7, <1>8, <1>9, <1>10, <1>11, <1>12,
           <1>13 DEF Next, Continue

\* The files that WriteSegment leaves.
LEMMA WriteHas ==
    ASSUME IInv, NEW t \in Threads, WriteSegment(t)
    PROVE  /\ pc[t] = "write" /\ nextId \in SegId /\ segs[nextId] = {} /\ nextId' = nextId + 1
           /\ \A u \in Threads : /\ pc'[u] = IF u = t THEN "index" ELSE pc[u]
                                 /\ curId'[u] = IF u = t THEN nextId ELSE curId[u]
           /\ \A i \in SegId : segs'[i] = IF i = nextId THEN batch[t] ELSE segs[i]
           /\ In(SegId)' = In(SegId) \cup batch[t]
           /\ batch' = batch /\ index' = index /\ buffer' = buffer /\ appended' = appended
<1> USE DEF state, segments, saving, flight, query, calls
<1>1. /\ pc[t] = "write" /\ nextId \in SegId /\ segs[nextId] = {}
    BY IdIsFree DEF WriteSegment
<1>2. TypeOK
    BY DEF IInv
<1>3. \A u \in Threads : /\ pc'[u] = IF u = t THEN "index" ELSE pc[u]
                         /\ curId'[u] = IF u = t THEN nextId ELSE curId[u]
    BY <1>2 DEF TypeOK, WriteSegment, Goto
<1>4. \A i \in SegId : segs'[i] = IF i = nextId THEN batch[t] ELSE segs[i]
    BY <1>2 DEF TypeOK, WriteSegment
<1>5. In(SegId)' = In(SegId) \cup batch[t]
    BY <1>1, <1>4 DEF In
<1>6. /\ nextId' = nextId + 1 /\ batch' = batch /\ index' = index /\ buffer' = buffer
      /\ appended' = appended
    BY DEF WriteSegment, FollowingId
<1> QED BY <1>1, <1>3, <1>4, <1>5, <1>6

\* Every step keeps track of the batches.
LEMMA FlightStep ==
    ASSUME IInv, [Next]_vars
    PROVE  FlightInv'
<1> USE DEF state, segments, saving, flight, query, calls
<1>0. TypeOK /\ FlightInv /\ PlaceInv
    BY DEF IInv
<1>00. nextId \in Nat /\ Cardinality(Lines) \in Nat /\ \A u \in Threads : curId[u] \in Nat
    BY <1>0, LinesAssumption, FS_CardinalityType DEF TypeOK, SegId
<1>1. ASSUME NEW t \in Threads, NEW l \in Lines, AppendLine(t, l) PROVE FlightInv'
    <2>1. AppendEffect(t, l)
        BY <1>1, AppendHas
    <2> QED BY <1>0, <2>1 DEF FlightInv, TypeOK, AppendEffect, In
<1>2. ASSUME NEW t \in Threads, FlushNothing(t) PROVE FlightInv'
    <2>1. /\ pc[t] = "drain" /\ segs' = segs /\ index' = index /\ nextId' = nextId
          /\ \A u \in Threads : /\ pc'[u] = IF u = t THEN "idle" ELSE pc[u]
                                /\ batch'[u] = IF u = t THEN {} ELSE batch[u]
                                /\ curId'[u] = IF u = t THEN 0 ELSE curId[u]
        BY <1>0, <1>2 DEF TypeOK, FlushNothing, ReturnOk, Goto
    <2> QED BY <1>0, <2>1 DEF FlightInv, In
<1>3. ASSUME NEW t \in Threads, Drain(t) PROVE FlightInv'
    BY <1>0, <1>3 DEF TypeOK, FlightInv, Drain, Goto, In
<1>4. ASSUME NEW t \in Threads, WriteSegment(t) PROVE FlightInv'
    <2>1. /\ pc[t] = "write" /\ nextId \in SegId /\ segs[nextId] = {} /\ nextId' = nextId + 1
          /\ \A u \in Threads : /\ pc'[u] = IF u = t THEN "index" ELSE pc[u]
                                /\ curId'[u] = IF u = t THEN nextId ELSE curId[u]
          /\ \A i \in SegId : segs'[i] = IF i = nextId THEN batch[t] ELSE segs[i]
          /\ In(SegId)' = In(SegId) \cup batch[t]
          /\ batch' = batch /\ index' = index
        BY <1>4, WriteHas
    <2>2. \A u \in Threads :
             /\ batch'[u] # {} <=> pc'[u] \in {"write", "index", "save", "put", "rename", "trunc"}
             /\ pc'[u] \in {"index", "save", "put", "rename", "trunc"} =>
                  curId'[u] \in 1..(nextId' - 1) /\ segs'[curId'[u]] = batch'[u]
             /\ pc'[u] = "index" => curId'[u] \notin index'
        <3> SUFFICES ASSUME NEW u \in Threads
                     PROVE  /\ batch'[u] # {} <=> pc'[u] \in {"write", "index", "save", "put", "rename", "trunc"}
                            /\ pc'[u] \in {"index", "save", "put", "rename", "trunc"} =>
                                 curId'[u] \in 1..(nextId' - 1) /\ segs'[curId'[u]] = batch'[u]
                            /\ pc'[u] = "index" => curId'[u] \notin index'
            OBVIOUS
        <3>1. CASE u = t
            BY <1>0, <1>00, <2>1, <3>1 DEF FlightInv, SegId
        <3>2. CASE u # t
            <4>1. curId[u] \in 1..(nextId - 1) => curId[u] \in SegId /\ curId[u] # nextId
                BY <1>00, <2>1 DEF SegId
            <4>2. curId[u] \in 1..(nextId - 1) => curId[u] \in 1..(nextId' - 1)
                BY <1>00, <2>1
            <4> QED BY <1>0, <2>1, <3>2, <4>1, <4>2 DEF FlightInv
        <3> QED BY <3>1, <3>2
    <2>3. index' \subseteq 1..(nextId' - 1)
        BY <1>0, <1>00, <2>1 DEF FlightInv
    <2>4. \A i \in 1..(nextId' - 1) :
              i \in index' \/ \E u \in Threads : pc'[u] = "index" /\ curId'[u] = i
        <3> SUFFICES ASSUME NEW i \in 1..nextId, i \notin index
                     PROVE  \E u \in Threads : pc'[u] = "index" /\ curId'[u] = i
            BY <1>00, <2>1
        <3>1. CASE i = nextId
            BY <2>1, <3>1
        <3>2. CASE i # nextId
            <4>1. i \in 1..(nextId - 1)
                BY <1>00, <3>2
            <4>2. PICK u \in Threads : pc[u] = "index" /\ curId[u] = i
                BY <1>0, <4>1 DEF FlightInv
            <4> QED BY <2>1, <4>2
        <3> QED BY <3>1, <3>2
    <2>5. \A i \in SegId : i >= nextId' => segs'[i] = {}
        BY <1>0, <1>00, <2>1 DEF FlightInv, SegId
    <2>6. nextId' - 1 <= Cardinality(In(SegId)')
        <3>1. nextId <= Cardinality(In(SegId) \cup batch[t])
            BY <2>1, IdIsFree
        <3>2. nextId <= Cardinality(In(SegId)')
            BY <2>1, <3>1
        <3>3. nextId' - 1 = nextId
            BY <1>00, <2>1
        <3> QED BY <3>2, <3>3
    <2> QED BY <2>2, <2>3, <2>4, <2>5, <2>6 DEF FlightInv
<1>5. ASSUME NEW t \in Threads, IndexAdd(t) PROVE FlightInv'
    <2>1. /\ pc[t] = "index" /\ index' = index \cup {curId[t]} /\ curId' = curId
          /\ segs' = segs /\ batch' = batch /\ nextId' = nextId
          /\ \A u \in Threads : pc'[u] = IF u = t THEN "save" ELSE pc[u]
        BY <1>0, <1>5 DEF TypeOK, IndexAdd, Goto
    <2>2. ASSUME NEW u \in Threads, u # t, pc[u] = "index" PROVE curId[u] # curId[t]
        <3>1. batch[u] # {} /\ batch[u] \cap batch[t] = {}
            BY <1>0, <2>2 DEF FlightInv, PlaceInv
        <3>2. segs[curId[u]] = batch[u] /\ segs[curId[t]] = batch[t]
            BY <1>0, <2>1, <2>2 DEF FlightInv
        <3> QED BY <3>1, <3>2
    <2>3. curId[t] \in 1..(nextId - 1)
        BY <1>0, <2>1 DEF FlightInv
    <2>4. \A u \in Threads :
             /\ batch'[u] # {} <=> pc'[u] \in {"write", "index", "save", "put", "rename", "trunc"}
             /\ pc'[u] \in {"index", "save", "put", "rename", "trunc"} =>
                  curId'[u] \in 1..(nextId' - 1) /\ segs'[curId'[u]] = batch'[u]
             /\ pc'[u] = "index" => curId'[u] \notin index'
        BY <1>0, <2>1, <2>2 DEF FlightInv
    <2>5. \A i \in 1..(nextId' - 1) :
              i \in index' \/ \E u \in Threads : pc'[u] = "index" /\ curId'[u] = i
        BY <1>0, <2>1 DEF FlightInv
    <2>6. In(SegId)' = In(SegId)
        BY <2>1 DEF In
    <2> QED BY <1>0, <2>1, <2>3, <2>4, <2>5, <2>6 DEF FlightInv
<1>6. ASSUME NEW t \in Threads, SaveCreate(t) PROVE FlightInv'
    BY <1>0, <1>6 DEF TypeOK, FlightInv, SaveCreate, Goto, In
<1>7. ASSUME NEW t \in Threads, SaveWrite(t) PROVE FlightInv'
    BY <1>0, <1>7 DEF TypeOK, FlightInv, SaveWrite, Goto, In
<1>8. ASSUME NEW t \in Threads, SaveRename(t) PROVE FlightInv'
    BY <1>0, <1>8 DEF TypeOK, FlightInv, SaveRename, Goto, In
<1>9. ASSUME NEW t \in Threads, SaveRenameFails(t) PROVE FlightInv'
    BY <1>0, <1>9 DEF TypeOK, FlightInv, SaveRenameFails, Goto, In
<1>10. ASSUME NEW t \in Threads, Truncate(t) PROVE FlightInv'
    BY <1>0, <1>10 DEF TypeOK, FlightInv, Truncate, ReturnOk, Goto, In
<1>11. ASSUME NEW t \in Threads, QueryIndex(t) PROVE FlightInv'
    BY <1>0, <1>11 DEF TypeOK, FlightInv, QueryIndex, Goto, In
<1>12. ASSUME NEW t \in Threads, QueryBuffer(t) PROVE FlightInv'
    BY <1>0, <1>12 DEF TypeOK, FlightInv, QueryBuffer, Goto, In
<1>13. CASE UNCHANGED vars
    BY <1>0, <1>13 DEF FlightInv, vars, In
<1> QED BY <1>1, <1>2, <1>3, <1>4, <1>5, <1>6, <1>7, <1>8, <1>9, <1>10, <1>11, <1>12,
           <1>13 DEF Next, Continue

\* Whatever is in a batch or in a file was appended.
LEMMA Placed ==
    ASSUME IInv
    PROVE  /\ \A t \in Threads : batch[t] \subseteq appended
           /\ \A i \in SegId : segs[i] \subseteq appended
           /\ \A t \in Threads : pc[t] \in {"save", "put", "rename", "trunc"} => curId[t] \in index
<1>0. TypeOK /\ FlightInv /\ PlaceInv
    BY DEF IInv
<1>1. ASSUME NEW i \in 1..(nextId - 1) PROVE i \in SegId
    <2>1. nextId \in Nat /\ Cardinality(Lines) \in Nat /\ nextId <= Cardinality(Lines) + 1
        BY <1>0, LinesAssumption, FS_CardinalityType DEF TypeOK
    <2> QED BY <2>1 DEF SegId
<1>2. ASSUME NEW t \in Threads, pc[t] \in {"save", "put", "rename", "trunc"}
      PROVE  curId[t] \in index
    <2>1. SUFFICES ASSUME curId[t] \notin index PROVE FALSE
        OBVIOUS
    <2>2. curId[t] \in 1..(nextId - 1) /\ segs[curId[t]] = batch[t] /\ batch[t] # {}
        BY <1>0, <1>2 DEF FlightInv
    <2>3. PICK u \in Threads : pc[u] = "index" /\ curId[u] = curId[t]
        BY <1>0, <2>1, <2>2 DEF FlightInv
    <2>4. segs[curId[u]] = batch[u] /\ u # t
        BY <1>0, <1>2, <2>3 DEF FlightInv
    <2>5. batch[u] \cap batch[t] = {}
        BY <1>0, <2>4 DEF PlaceInv
    <2> QED BY <2>2, <2>3, <2>4, <2>5
<1>3. ASSUME NEW t \in Threads, pc[t] \in {"write", "index"} PROVE batch[t] \subseteq Unlisted
    <2>1. t \in InFlight
        BY <1>0, <1>3 DEF FlightInv, InFlight
    <2> QED BY <1>3, <2>1 DEF Unlisted
<1>4. index \subseteq SegId /\ Unlisted \cup In(index) \subseteq appended
    BY <1>0 DEF TypeOK, PlaceInv
<1>5. ASSUME NEW i \in index PROVE segs[i] \subseteq appended
    BY <1>4 DEF In
<1>6. ASSUME NEW t \in Threads PROVE batch[t] \subseteq appended
    <2>1. CASE pc[t] \in {"write", "index"}
        BY <1>3, <1>4, <2>1
    <2>2. CASE pc[t] \in {"save", "put", "rename", "trunc"}
        BY <1>0, <1>2, <1>5, <2>2 DEF FlightInv
    <2>3. CASE pc[t] \notin {"write", "index", "save", "put", "rename", "trunc"}
        BY <1>0, <2>3 DEF FlightInv
    <2> QED BY <2>1, <2>2, <2>3
<1>7. ASSUME NEW i \in SegId PROVE segs[i] \subseteq appended
    <2>1. CASE i >= nextId
        BY <1>0, <2>1 DEF FlightInv
    <2>2. CASE i < nextId
        <3>1. i \in 1..(nextId - 1)
            BY <1>0, <2>2 DEF SegId, TypeOK
        <3>2. CASE i \in index
            BY <1>5, <3>2
        <3>3. CASE \E t \in Threads : pc[t] = "index" /\ curId[t] = i
            BY <1>0, <1>6, <3>3 DEF FlightInv
        <3> QED BY <1>0, <3>1, <3>2, <3>3 DEF FlightInv
    <2>3. i \in Int /\ nextId \in Int
        BY <1>0 DEF SegId, TypeOK
    <2> QED BY <2>1, <2>2, <2>3
<1> QED BY <1>2, <1>6, <1>7

\* What is in a batch and not in a listed segment.
LEMMA UnlistedHas ==
    ASSUME NEW x
    PROVE  x \in Unlisted <=> \E u \in Threads : pc[u] \in {"write", "index"} /\ x \in batch[u]
BY DEF Unlisted, InFlight

LEMMA UnlistedHasNext ==
    ASSUME NEW x
    PROVE  x \in Unlisted' <=> \E u \in Threads : pc'[u] \in {"write", "index"} /\ x \in batch'[u]
BY DEF Unlisted, InFlight

\* Every step keeps the places apart.
LEMMA PlaceStep ==
    ASSUME IInv, [Next]_vars
    PROVE  PlaceInv'
<1> USE DEF state, segments, saving, flight, query, calls
<1>0. TypeOK /\ FlightInv /\ PlaceInv
    BY DEF IInv
<1>1. ASSUME NEW t \in Threads, NEW l \in Lines, AppendLine(t, l) PROVE PlaceInv'
    <2>1. /\ l \notin appended /\ appended' = appended \cup {l} /\ buffer' = buffer \cup {l}
          /\ segs' = segs /\ batch' = batch /\ index' = index
          /\ \A u \in Threads : pc'[u] = pc[u] \/ (pc[u] = "idle" /\ pc'[u] = "drain")
        BY <1>0, <1>1, AppendHas DEF AppendEffect, TypeOK
    <2>2. Unlisted' = Unlisted
        <3>1. \A x : x \in Unlisted' <=> x \in Unlisted
            BY <2>1, UnlistedHas, UnlistedHasNext
        <3> QED BY <3>1
    <2>3. In(index)' = In(index)
        BY <2>1 DEF In
    <2>4. /\ \A u \in Threads : l \notin batch[u]
          /\ \A i \in SegId : l \notin segs[i]
        BY <2>1, Placed
    <2> QED BY <1>0, <2>1, <2>2, <2>3, <2>4 DEF PlaceInv
<1>2. ASSUME NEW t \in Threads,
             /\ buffer' = buffer /\ appended' = appended /\ segs' = segs /\ index' = index
             /\ \A u \in Threads : batch'[u] = batch[u] \/ batch'[u] = {}
             /\ \A u \in Threads : \/ pc'[u] = pc[u] /\ batch'[u] = batch[u]
                                   \/ {pc[u], pc'[u]} \cap {"write", "index"} = {}
      PROVE  PlaceInv'
    <2>1. Unlisted' = Unlisted
        <3>1. \A x : x \in Unlisted' <=> x \in Unlisted
            BY <1>2, UnlistedHas, UnlistedHasNext
        <3> QED BY <3>1
    <2>2. In(index)' = In(index)
        BY <1>2 DEF In
    <2>3. \A u \in Threads : batch'[u] \subseteq batch[u]
        BY <1>2
    <2>4. \A u \in Threads : pc'[u] = "write" => pc[u] = "write"
        BY <1>2
    <2> QED BY <1>0, <1>2, <2>1, <2>2, <2>3, <2>4 DEF PlaceInv
<1>3. ASSUME NEW t \in Threads, Drain(t) PROVE PlaceInv'
    <2>1. /\ buffer' = {} /\ appended' = appended /\ segs' = segs /\ index' = index
          /\ pc[t] \in {"idle", "drain"}
          /\ \A u \in Threads : /\ pc'[u] = IF u = t THEN "write" ELSE pc[u]
                                /\ batch'[u] = IF u = t THEN buffer ELSE batch[u]
        BY <1>0, <1>3 DEF Drain, Drained, Goto, TypeOK
    <2>2. Unlisted' = Unlisted \cup buffer
        <3>1. \A x : x \in Unlisted' <=> x \in Unlisted \/ x \in buffer
            BY <2>1, UnlistedHas, UnlistedHasNext
        <3> QED BY <3>1
    <2>3. In(index)' = In(index)
        BY <2>1 DEF In
    <2> QED BY <1>0, <2>1, <2>2, <2>3 DEF PlaceInv
<1>4. ASSUME NEW t \in Threads, WriteSegment(t) PROVE PlaceInv'
    <2>1. /\ pc[t] = "write" /\ nextId \in SegId /\ segs[nextId] = {}
          /\ \A u \in Threads : pc'[u] = IF u = t THEN "index" ELSE pc[u]
          /\ \A i \in SegId : segs'[i] = IF i = nextId THEN batch[t] ELSE segs[i]
          /\ batch' = batch /\ index' = index /\ buffer' = buffer /\ appended' = appended
        BY <1>4, WriteHas
    <2>2. Unlisted' = Unlisted
        <3>1. \A x : x \in Unlisted' <=> x \in Unlisted
            BY <2>1, UnlistedHas, UnlistedHasNext
        <3> QED BY <3>1
    <2>3. index \subseteq SegId /\ nextId \notin index
        <3>1. nextId \notin 1..(nextId - 1)
            BY <1>0 DEF TypeOK
        <3> QED BY <1>0, <3>1 DEF TypeOK, FlightInv
    <2>4. In(index)' = In(index)
        BY <2>1, <2>3 DEF In
    <2> QED BY <1>0, <2>1, <2>2, <2>4 DEF PlaceInv
<1>5. ASSUME NEW t \in Threads, IndexAdd(t) PROVE PlaceInv'
    <2>1. /\ pc[t] = "index" /\ index' = index \cup {curId[t]} /\ segs' = segs
          /\ batch' = batch /\ buffer' = buffer /\ appended' = appended
          /\ \A u \in Threads : pc'[u] = IF u = t THEN "save" ELSE pc[u]
        BY <1>0, <1>5 DEF TypeOK, IndexAdd, Goto
    <2>2. segs[curId[t]] = batch[t]
        BY <1>0, <2>1 DEF FlightInv
    <2>3. In(index)' = In(index) \cup batch[t]
        BY <2>1, <2>2 DEF In
    <2>4. Unlisted' \cup batch[t] = Unlisted
        <3>1. \A x : x \in Unlisted' \/ x \in batch[t] <=> x \in Unlisted
            BY <2>1, UnlistedHas, UnlistedHasNext
        <3> QED BY <3>1
    <2> QED BY <1>0, <2>1, <2>3, <2>4 DEF PlaceInv
<1>6. ASSUME NEW t \in Threads,
             \/ FlushNothing(t) \/ SaveCreate(t) \/ SaveWrite(t) \/ SaveRename(t)
             \/ SaveRenameFails(t) \/ Truncate(t) \/ QueryIndex(t) \/ QueryBuffer(t)
      PROVE  PlaceInv'
    <2>1. /\ buffer' = buffer /\ appended' = appended /\ segs' = segs /\ index' = index
          /\ pc[t] \notin {"write", "index"}
        BY <1>6 DEF FlushNothing, SaveCreate, SaveWrite, SaveRename, SaveRenameFails,
             Truncate, QueryIndex, QueryBuffer
    <2>2. \A u \in Threads : /\ u # t => pc'[u] = pc[u] /\ batch'[u] = batch[u]
                             /\ pc'[t] \notin {"write", "index"}
                             /\ batch'[t] = batch[t] \/ batch'[t] = {}
        BY <1>0, <1>6 DEF TypeOK, FlushNothing, SaveCreate, SaveWrite, SaveRename,
             SaveRenameFails, Truncate, QueryIndex, QueryBuffer, ReturnOk, Goto
    <2> QED BY <1>2, <2>1, <2>2
<1>7. CASE UNCHANGED vars
    BY <1>0, <1>7 DEF PlaceInv, vars, In, Unlisted, InFlight
<1> QED BY <1>1, <1>3, <1>4, <1>5, <1>6, <1>7 DEF Next, Continue

\* No step answers twice for a line.
LEMMA AnswerStep ==
    ASSUME IInv, [Next]_vars
    PROVE  AnswerInv'
<1> USE DEF state, segments, saving, flight, query, calls
<1>0. TypeOK /\ AnswerInv
    BY DEF IInv
<1>1. ASSUME NEW t \in Threads, NEW l \in Lines, AppendLine(t, l) PROVE AnswerInv'
    <2>1. AppendEffect(t, l)
        BY <1>1, AppendHas
    <2>2. CASE pc' = [pc EXCEPT ![t] = "drain"] /\ mine' = [mine EXCEPT ![t] = {l}] /\ acked' = acked
        BY <1>0, <2>1, <2>2 DEF TypeOK, AnswerInv, AppendEffect
    <2>3. CASE pc' = pc /\ mine' = mine /\ acked' = acked \cup {l}
        BY <1>0, <2>1, <2>3 DEF TypeOK, AnswerInv, AppendEffect
    <2> QED BY <2>1, <2>2, <2>3 DEF AppendEffect
<1>2. ASSUME NEW t \in Threads, FlushNothing(t) \/ Truncate(t) PROVE AnswerInv'
    <2>1. /\ acked' = acked \cup mine[t] /\ failed' = failed /\ appended' = appended
          /\ \A u \in Threads : mine'[u] = IF u = t THEN {} ELSE mine[u]
        BY <1>0, <1>2 DEF TypeOK, FlushNothing, Truncate, ReturnOk
    <2> QED BY <1>0, <2>1 DEF AnswerInv
<1>3. ASSUME NEW t \in Threads, SaveRenameFails(t) PROVE AnswerInv'
    <2>1. /\ failed' = failed \cup mine[t] /\ acked' = acked /\ appended' = appended
          /\ \A u \in Threads : mine'[u] = IF u = t THEN {} ELSE mine[u]
        BY <1>0, <1>3 DEF TypeOK, SaveRenameFails
    <2> QED BY <1>0, <2>1 DEF AnswerInv
<1>4. ASSUME UNCHANGED <<mine, appended, acked, failed>> PROVE AnswerInv'
    BY <1>0, <1>4 DEF AnswerInv
<1>5. ASSUME NEW t \in Threads,
             \/ Drain(t) \/ WriteSegment(t) \/ IndexAdd(t) \/ SaveCreate(t) \/ SaveWrite(t)
             \/ SaveRename(t) \/ QueryIndex(t) \/ QueryBuffer(t)
      PROVE  AnswerInv'
    BY <1>4, <1>5 DEF Drain, WriteSegment, IndexAdd, SaveCreate, SaveWrite, SaveRename,
       QueryIndex, QueryBuffer
<1> QED BY <1>1, <1>2, <1>3, <1>4, <1>5 DEF Next, Continue, vars

\* No step takes from a running query a line it was to answer with, but into
\* what a flush carries.
LEMMA QueryStep ==
    ASSUME IInv, [Next]_vars
    PROVE  QueryInv'
<1> USE DEF state, segments, saving, flight, query, calls
<1>0. TypeOK /\ FlightInv /\ PlaceInv /\ QueryInv
    BY DEF IInv
<1>1. ASSUME UNCHANGED <<snap, asked, nextId, segs>>, buffer \subseteq buffer',
             \A u \in Threads : pc'[u] = "query" => pc[u] = "query" /\ carried'[u] = carried[u]
      PROVE  QueryInv'
    BY <1>0, <1>1 DEF QueryInv, In
<1>2. ASSUME NEW t \in Threads, NEW l \in Lines, AppendLine(t, l) PROVE QueryInv'
    <2>1. AppendEffect(t, l)
        BY <1>2, AppendHas
    <2>2. /\ UNCHANGED <<snap, asked, nextId, segs>> /\ buffer \subseteq buffer'
          /\ \A u \in Threads : pc'[u] = "query" => pc[u] = "query" /\ carried'[u] = carried[u]
        BY <1>0, <2>1 DEF AppendEffect, TypeOK
    <2> QED BY <1>1, <2>2
<1>3. ASSUME NEW t \in Threads, Drain(t) PROVE QueryInv'
    <2>1. /\ UNCHANGED <<snap, asked, nextId, segs>>
          /\ \A u \in Threads : pc'[u] = "query" => pc[u] = "query" /\ carried'[u] = carried[u] \cup buffer
        BY <1>0, <1>3 DEF TypeOK, Drain, Goto
    <2> QED BY <1>0, <2>1 DEF QueryInv, In
<1>4. ASSUME NEW t \in Threads, WriteSegment(t) PROVE QueryInv'
    <2>1. /\ nextId \in SegId /\ segs[nextId] = {} /\ nextId' = nextId + 1
          /\ \A u \in Threads : pc'[u] = "query" => pc[u] = "query"
          /\ \A i \in SegId : segs'[i] = IF i = nextId THEN batch[t] ELSE segs[i]
          /\ buffer' = buffer
        BY <1>4, WriteHas
    <2>2. snap' = snap /\ asked' = asked /\ carried' = carried
        BY <1>4 DEF WriteSegment
    <2>3. \A u \in Threads : snap[u] \subseteq SegId
        BY <1>0 DEF TypeOK
    <2>4. \A u \in Threads : In(snap[u]) \subseteq In(snap[u])'
        BY <2>1, <2>2, <2>3 DEF In
    <2>5. 1..(nextId - 1) \subseteq 1..(nextId' - 1)
        BY <1>0, <2>1 DEF TypeOK
    <2> QED BY <1>0, <2>1, <2>2, <2>4, <2>5 DEF QueryInv
<1>5. ASSUME NEW t \in Threads, QueryIndex(t) PROVE QueryInv'
    <2>1. /\ segs' = segs /\ nextId' = nextId /\ buffer' = buffer
          /\ \A u \in Threads : /\ pc'[u] = IF u = t THEN "query" ELSE pc[u]
                                /\ snap'[u] = IF u = t THEN index ELSE snap[u]
                                /\ asked'[u] = IF u = t THEN acked ELSE asked[u]
                                /\ carried'[u] = IF u = t THEN Unlisted ELSE carried[u]
        BY <1>0, <1>5 DEF TypeOK, QueryIndex, Goto
    <2>2. acked \subseteq buffer \cup Unlisted \cup In(index) /\ index \subseteq 1..(nextId - 1)
        BY <1>0 DEF TypeOK, PlaceInv, FlightInv
    <2>3. \A u \in Threads : In(snap[u])' = UNION {segs[i] : i \in snap'[u]}
        BY <2>1 DEF In
    <2> SUFFICES ASSUME NEW u \in Threads, pc'[u] = "query"
                 PROVE  /\ snap'[u] \subseteq 1..(nextId' - 1)
                        /\ asked'[u] \subseteq In(snap[u])' \cup buffer' \cup carried'[u]
        BY DEF QueryInv
    <2>4. CASE u = t
        BY <2>1, <2>2, <2>3, <2>4 DEF In
    <2>5. CASE u # t
        BY <1>0, <2>1, <2>3, <2>5 DEF QueryInv, In
    <2> QED BY <2>4, <2>5
<1>6. ASSUME NEW t \in Threads,
             \/ FlushNothing(t) \/ IndexAdd(t) \/ SaveCreate(t) \/ SaveWrite(t) \/ SaveRename(t)
             \/ SaveRenameFails(t) \/ Truncate(t) \/ QueryBuffer(t)
      PROVE  QueryInv'
    <2>1. /\ nextId' = nextId /\ segs' = segs /\ buffer' = buffer
          /\ \A u \in Threads : u # t => /\ pc'[u] = pc[u] /\ carried'[u] = carried[u]
                                         /\ snap'[u] = snap[u] /\ asked'[u] = asked[u]
          /\ pc'[t] # "query"
        BY <1>0, <1>6 DEF TypeOK, FlushNothing, IndexAdd, SaveCreate, SaveWrite, SaveRename,
             SaveRenameFails, Truncate, QueryBuffer, ReturnOk, Goto
    <2> QED BY <1>0, <2>1 DEF QueryInv, In
<1>7. CASE UNCHANGED vars
    BY <1>1, <1>7 DEF vars
<1> QED BY <1>2, <1>3, <1>4, <1>5, <1>6, <1>7 DEF Next, Continue

\* Every step keeps the list on disk that of the engine, or on its way there.
LEMMA SaveStep ==
    ASSUME IInv, [Next]_vars
    PROVE  SaveInv'
<1> USE DEF state, segments, saving, flight, query, calls
<1>0. TypeOK /\ SaveInv
    BY DEF IInv
<1>1. ASSUME UNCHANGED saving, UNCHANGED index,
             \A u \in Threads : pc'[u] = pc[u] \/
                  {pc[u], pc'[u]} \cap {"save", "put", "rename"} = {}
      PROVE  SaveInv'
    BY <1>0, <1>1 DEF SaveInv, Fresh, Settled
<1>2. ASSUME NEW t \in Threads,
             \/ \E l \in Lines : AppendLine(t, l)
             \/ FlushNothing(t) \/ Drain(t) \/ WriteSegment(t) \/ Truncate(t) \/ QueryIndex(t)
             \/ QueryBuffer(t)
      PROVE  SaveInv'
    <2>1. UNCHANGED saving /\ UNCHANGED index
        BY <1>2 DEF AppendLine, FlushNothing, Drain, WriteSegment, Truncate, QueryIndex,
             QueryBuffer
    <2>2. \A u \in Threads : pc'[u] = pc[u] \/ {pc[u], pc'[u]} \cap {"save", "put", "rename"} = {}
        <3>1. CASE \E l \in Lines : AppendLine(t, l)
            BY <1>0, <3>1, AppendHas DEF AppendEffect, TypeOK
        <3>2. CASE FlushNothing(t) \/ Drain(t) \/ WriteSegment(t) \/ Truncate(t) \/ QueryIndex(t)
                   \/ QueryBuffer(t)
            BY <1>0, <3>2 DEF TypeOK, FlushNothing, Drain, WriteSegment, Truncate, QueryIndex,
               QueryBuffer, ReturnOk, Goto
        <3> QED BY <1>2, <3>1, <3>2
    <2> QED BY <1>1, <2>1, <2>2
<1>3. ASSUME NEW t \in Threads, IndexAdd(t) PROVE SaveInv'
    <2>1. /\ savers = {} /\ savers' = {} /\ listed' = listed /\ holds' = holds
          /\ tmpList' = tmpList /\ manifest' = manifest
          /\ pc[t] = "index"
          /\ \A u \in Threads : pc'[u] = IF u = t THEN "save" ELSE pc[u]
        BY <1>0, <1>3 DEF TypeOK, IndexAdd, ListFree, Goto
    <2> QED BY <1>0, <2>1 DEF SaveInv, Settled
<1>4. ASSUME NEW t \in Threads, SaveCreate(t) PROVE SaveInv'
    <2>1. /\ pc[t] = "save" /\ savers' = savers \cup {t} /\ index' = index /\ manifest' = manifest
          /\ tmpList'.there /\ ~tmpList'.full
          /\ \A u \in Threads : /\ pc'[u] = IF u = t THEN "put" ELSE pc[u]
                                /\ listed'[u] = IF u = t THEN index ELSE listed[u]
                                /\ holds'[u] = IF u = t THEN "tmp" ELSE holds[u]
        BY <1>0, <1>4 DEF TypeOK, SaveCreate, Goto
    <2> QED BY <1>0, <2>1 DEF SaveInv, Settled, Fresh
<1>5. ASSUME NEW t \in Threads, SaveWrite(t) PROVE SaveInv'
    <2>1. /\ pc[t] = "put" /\ savers' = savers /\ index' = index /\ listed' = listed
          /\ holds' = holds
          /\ \A u \in Threads : pc'[u] = IF u = t THEN "rename" ELSE pc[u]
        BY <1>0, <1>5 DEF TypeOK, SaveWrite, Goto
    <2>2. t \in savers /\ listed[t] = index
        BY <1>0, <2>1 DEF SaveInv
    <2>3. CASE holds[t] = "tmp"
        <3>1. manifest' = manifest /\ tmpList'.there /\ tmpList'.full /\ tmpList'.ids = index
            BY <1>5, <2>2, <2>3 DEF SaveWrite
        <3> QED BY <1>0, <2>1, <2>2, <2>3, <3>1 DEF SaveInv, Settled, Fresh
    <2>4. CASE holds[t] = "manifest"
        <3>1. tmpList' = tmpList /\ manifest'.there /\ manifest'.full /\ manifest'.ids = index
            BY <1>5, <2>2, <2>4 DEF SaveWrite
        <3> QED BY <1>0, <2>1, <2>2, <2>4, <3>1 DEF SaveInv, Settled, Fresh
    <2>5. CASE holds[t] = "nothing"
        <3>1. tmpList' = tmpList /\ manifest' = manifest
            BY <1>5, <2>5 DEF SaveWrite
        <3> QED BY <1>0, <2>1, <2>2, <2>5, <3>1 DEF SaveInv, Settled, Fresh
    <2> QED BY <1>0, <2>3, <2>4, <2>5 DEF TypeOK
<1>6. ASSUME NEW t \in Threads, SaveRename(t) PROVE SaveInv'
    <2>1. /\ pc[t] = "rename" /\ tmpList.there /\ savers' = savers \ {t} /\ index' = index
          /\ manifest' = tmpList /\ ~tmpList'.there /\ ~tmpList'.full
          /\ \A u \in Threads : /\ pc'[u] = IF u = t THEN "trunc" ELSE pc[u]
                                /\ u # t => listed'[u] = listed[u]
                                /\ holds'[u] = IF u # t /\ holds[u] = "tmp" THEN "manifest" ELSE "nothing"
        BY <1>0, <1>6 DEF TypeOK, SaveRename, Goto, Released, Nothing
    <2>2. Fresh'
        BY <1>0, <2>1 DEF SaveInv, Fresh
    <2>3. ~manifest'.full => \E u \in Threads : pc'[u] = "put" /\ holds'[u] = "manifest"
        BY <1>0, <2>1 DEF SaveInv
    <2> QED BY <1>0, <2>1, <2>2, <2>3 DEF SaveInv
<1>7. ASSUME NEW t \in Threads, SaveRenameFails(t) PROVE SaveInv'
    <2>1. /\ pc[t] = "rename" /\ ~tmpList.there /\ savers' = savers \ {t} /\ index' = index
          /\ manifest' = manifest /\ tmpList' = tmpList
          /\ \A u \in Threads : /\ pc'[u] = IF u = t THEN "idle" ELSE pc[u]
                                /\ u # t => listed'[u] = listed[u] /\ holds'[u] = holds[u]
        BY <1>0, <1>7 DEF TypeOK, SaveRenameFails, Goto, Released
    <2>2. Fresh'
        BY <1>0, <2>1 DEF SaveInv, Fresh
    <2>3. Fresh
        BY <1>0, <2>1 DEF SaveInv
    <2>4. \A u \in Threads : u \in savers' => u \in savers /\ u # t
        BY <2>1
    <2> QED BY <1>0, <2>1, <2>2, <2>3, <2>4 DEF SaveInv
<1>8. CASE UNCHANGED vars
    BY <1>1, <1>8 DEF vars
<1> QED BY <1>2, <1>3, <1>4, <1>5, <1>6, <1>7, <1>8 DEF Next, Continue

\* Every step keeps the lines of the buffer in the WAL or on their way there.
LEMMA WalStep ==
    ASSUME IInv, [Next]_vars
    PROVE  WalInv'
<1> USE DEF state, segments, saving, flight, query, calls
<1>0. TypeOK /\ FlightInv /\ WalInv
    BY DEF IInv
<1>1. ASSUME NEW t \in Threads, NEW l \in Lines, AppendLine(t, l) PROVE WalInv'
    <2>1. /\ WrittenTo' <= Len(wal') /\ \A k \in 1..WrittenTo' : wal'[k] # Hole
          /\ \A x : x = l \/ Backed(x) => Backed(x)'
        BY <1>0, <1>1, AppendPushes
    <2>2. /\ buffer' = buffer \cup {l} /\ InFlight' = InFlight
          /\ exposed' = IF InFlight = {} THEN exposed ELSE exposed \cup {l}
        BY <1>1, AppendHas DEF AppendEffect, InFlight
    <2>3. \A x \in buffer' \ exposed' : Backed(x)'
        BY <1>0, <2>1, <2>2 DEF WalInv
    <2>4. InFlight' # {} => buffer' \subseteq exposed'
        BY <1>0, <2>2 DEF WalInv
    <2> QED BY <2>1, <2>3, <2>4 DEF WalInv
<1>2. ASSUME NEW t \in Threads, Drain(t) PROVE WalInv'
    <2>1. walBuf \in Seq(Lines) /\ wal' = Written(wal, fd, walBuf) /\ fd' = Advanced(fd, walBuf)
        BY <1>0, <1>2 DEF TypeOK, Drain
    <2>2. WrittenTo' <= Len(wal') /\ \A k \in 1..WrittenTo' : wal'[k] # Hole
        BY <1>0, <2>1, PushStep
    <2>3. buffer' = {}
        BY <1>2 DEF Drain, Drained
    <2> QED BY <2>2, <2>3 DEF WalInv
<1>3. ASSUME NEW t \in Threads, Truncate(t) PROVE WalInv'
    <2>1. wal' \in Seq(Lines \cup {Hole})
        BY <1>0, <1>3, TruncatePushes DEF Truncate
    <2>2. Len(wal') \in Nat
        BY <2>1, LenProperties
    <2>3. WrittenTo' = 0
        BY <1>3 DEF Truncate, WrittenTo
    <2>4. t \in InFlight
        BY <1>0, <1>3 DEF Truncate, FlightInv, InFlight
    <2>5. buffer' \subseteq exposed'
        BY <1>0, <1>3, <2>4 DEF Truncate, WalInv
    <2> QED BY <2>2, <2>3, <2>5 DEF WalInv
<1>4. ASSUME UNCHANGED <<state, exposed>>, InFlight' # {} => InFlight # {} PROVE WalInv'
    BY <1>0, <1>4 DEF WalInv, WrittenTo, Backed
<1>5. ASSUME NEW t \in Threads,
             \/ FlushNothing(t) \/ WriteSegment(t) \/ IndexAdd(t) \/ SaveCreate(t)
             \/ SaveWrite(t) \/ SaveRename(t) \/ SaveRenameFails(t) \/ QueryIndex(t)
             \/ QueryBuffer(t)
      PROVE  WalInv'
    <2>1. UNCHANGED <<state, exposed>>
        BY <1>5 DEF FlushNothing, WriteSegment, IndexAdd, SaveCreate, SaveWrite, SaveRename,
             SaveRenameFails, QueryIndex, QueryBuffer
    <2>2. \A u \in Threads : batch'[u] # {} => batch[u] # {}
        BY <1>0, <1>5 DEF TypeOK, FlushNothing, WriteSegment, IndexAdd, SaveCreate, SaveWrite,
             SaveRename, SaveRenameFails, QueryIndex, QueryBuffer, ReturnOk
    <2>3. InFlight' # {} => InFlight # {}
        BY <2>2 DEF InFlight
    <2> QED BY <1>4, <2>1, <2>3
<1>6. CASE UNCHANGED vars
    <2>1. UNCHANGED <<state, exposed>> /\ InFlight' = InFlight
        BY <1>6 DEF vars, InFlight
    <2> QED BY <1>4, <2>1
<1> QED BY <1>1, <1>2, <1>3, <1>5, <1>6 DEF Next, Continue

-----------------------------------------------------------------------------
(* Theorems.                                                               *)

\* The inductive invariant holds in every reachable state: whatever the threads do
\* between the critical sections of storage.rs and index.rs.
THEOREM SharedInvariance == Spec => []IInv
<1>1. IInv /\ [Next]_vars => IInv'
    BY TypeStep, FlightStep, PlaceStep, AnswerStep, QueryStep, SaveStep, WalStep DEF IInv
<1> QED BY InitInv, <1>1, PTL DEF Spec

\* Cardinality of a set with at most the element x.
LEMMA AtMostOne ==
    ASSUME NEW S, NEW x, S \subseteq {x}
    PROVE  Cardinality(S) = IF x \in S THEN 1 ELSE 0
<1>1. CASE x \in S
    <2>1. S = {x}
        BY <1>1
    <2> QED BY <1>1, <2>1, FS_Singleton
<1>2. CASE x \notin S
    <2>1. S = {}
        BY <1>2
    <2> QED BY <1>2, <2>1, FS_EmptySet
<1> QED BY <1>1, <1>2

\* Whatever the threads do, a line that was appended is in the buffer, in the
\* batch of one flush or in one listed segment, and in one of them only.
THEOREM LinesAreOnce == Spec => []ExactlyOnce
<1>1. ASSUME IInv PROVE ExactlyOnce
    <2> SUFFICES ASSUME NEW l \in appended PROVE Places(l) = 1
        BY DEF ExactlyOnce
    <2>0. TypeOK /\ FlightInv /\ PlaceInv
        BY <1>1 DEF IInv
    <2> DEFINE B == {l} \cap buffer
               T == {t \in InFlight : pc[t] \in {"write", "index"} /\ l \in batch[t]}
               I == {i \in index : l \in segs[i]}
    <2>1. Places(l) = Cardinality(B) + Cardinality(T) + Cardinality(I)
        BY DEF Places
    <2>2. \A t \in Threads : t \in T <=> pc[t] \in {"write", "index"} /\ l \in batch[t]
        BY DEF InFlight
    <2>3. T \subseteq Threads /\ I \subseteq SegId
        BY <2>0 DEF InFlight, TypeOK
    <2>4. \A t \in T, i \in I : FALSE
        <3> SUFFICES ASSUME NEW t \in T, NEW i \in I PROVE FALSE
            OBVIOUS
        <3>1. t \in Threads /\ i \in SegId /\ i \in index /\ l \in batch[t] \cap segs[i]
            BY <2>2, <2>3
        <3>2. CASE pc[t] = "write"
            BY <2>0, <3>1, <3>2 DEF PlaceInv
        <3>3. CASE pc[t] = "index"
            <4>1. segs[curId[t]] = batch[t] /\ curId[t] \notin index
                BY <2>0, <3>1, <3>3 DEF FlightInv
            <4>2. curId[t] \in SegId
                <5>1. curId[t] \in 1..(nextId - 1) /\ nextId \in 1..(Cardinality(Lines) + 1)
                    BY <2>0, <3>1, <3>3 DEF FlightInv, TypeOK
                <5>2. Cardinality(Lines) \in Nat
                    BY LinesAssumption, FS_CardinalityType
                <5> QED BY <5>1, <5>2 DEF SegId
            <4>3. segs[i] \cap segs[curId[t]] = {}
                BY <2>0, <3>1, <4>1, <4>2 DEF PlaceInv
            <4> QED BY <3>1, <4>1, <4>3
        <3> QED BY <2>2, <3>1, <3>2, <3>3
    <2>5. \A t, u \in T : t = u
        BY <2>0, <2>2, <2>3 DEF PlaceInv
    <2>6. \A i, j \in I : i = j
        BY <2>0, <2>3 DEF PlaceInv
    <2>7. l \in B \/ (\E t \in Threads : t \in T) \/ (\E i \in SegId : i \in I)
        <3>1. l \in buffer \/ l \in Unlisted \/ l \in In(index)
            BY <2>0 DEF PlaceInv
        <3>2. l \in In(index) => \E i \in SegId : i \in I
            BY <2>0 DEF In, TypeOK
        <3> QED BY <2>2, <3>1, <3>2, UnlistedHas
    <2>8. l \in B => T = {} /\ I = {}
        BY <2>0, <2>2, <2>3 DEF PlaceInv
    <2> HIDE DEF B, T, I
    <2>9. CASE l \in B
        <3>1. Cardinality(B) = 1 /\ Cardinality(T) = 0 /\ Cardinality(I) = 0
            <4>1. B \subseteq {l}
                BY DEF B
            <4> QED BY <2>8, <2>9, <4>1, AtMostOne, FS_EmptySet
        <3> QED BY <2>1, <3>1
    <2>10. CASE l \notin B
        <3>1. Cardinality(B) = 0
            <4>1. B = {}
                BY <2>10 DEF B
            <4> QED BY <4>1, FS_EmptySet
        <3>2. CASE \E t \in T : TRUE
            <4>1. PICK t \in T : TRUE
                BY <3>2
            <4>2. T = {t} /\ I = {}
                BY <2>4, <2>5, <4>1
            <4>3. Cardinality(T) = 1 /\ Cardinality(I) = 0
                BY <4>2, FS_Singleton, FS_EmptySet
            <4> QED BY <2>1, <3>1, <4>3
        <3>3. CASE T = {}
            <4>1. PICK i \in I : TRUE
                BY <2>7, <2>10, <3>3
            <4>2. I = {i}
                BY <2>6, <4>1
            <4>3. Cardinality(T) = 0 /\ Cardinality(I) = 1
                BY <3>3, <4>2, FS_Singleton, FS_EmptySet
            <4> QED BY <2>1, <3>1, <4>3
        <3> QED BY <3>2, <3>3
    <2> QED BY <2>9, <2>10
<1> QED BY <1>1, SharedInvariance, PTL

\* However the saves of Index::save run into each other over the one name
\* manifest.tmp, when the last has ended the manifest is complete.
THEOREM ManifestIsCurrent == Spec => []ManifestCatchesUp
<1>1. IInv => ManifestCatchesUp
    BY DEF IInv, SaveInv, ManifestCatchesUp, Settled, Fresh
<1> QED BY <1>1, SharedInvariance, PTL

\* A query that runs beside flushes doubles no line, and misses only those that
\* a flush carried meanwhile.
THEOREM QueriesAreExact == Spec => []QueryIsExact
<1>1. ASSUME IInv PROVE QueryIsExact
    <2>0. TypeOK /\ PlaceInv /\ QueryInv
        BY <1>1 DEF IInv
    <2>1. \A t \in Threads : In(snap[t]) \cap buffer = {}
        BY <2>0 DEF TypeOK, PlaceInv, In
    <2> QED BY <2>0, <2>1 DEF QueryInv, QueryIsExact
<1> QED BY <1>1, SharedInvariance, PTL

\* Dropping the engine between the calls loses no acknowledged line but those
\* that were appended beside a flush.
THEOREM DropKeepsUnexposed == Spec => []DropLosesOnlyExposed
<1>1. ASSUME IInv, Idle PROVE acked \subseteq AfterDrop \cup exposed
    <2>0. TypeOK /\ FlightInv /\ PlaceInv /\ WalInv
        BY <1>1 DEF IInv
    <2>1. Unlisted = {}
        <3>1. \A x : x \notin Unlisted
            BY <1>1, UnlistedHas DEF Idle
        <3> QED BY <3>1
    <2>2. acked \subseteq buffer \cup In(index)
        BY <2>0, <2>1 DEF TypeOK, PlaceInv
    <2>3. ASSUME NEW l \in buffer \ exposed
          PROVE  l \in Recovered(Written(wal, fd, walBuf))
        BY <2>0, <2>3, DropServes DEF WalInv
    <2> QED BY <2>2, <2>3 DEF AfterDrop
<1> QED BY <1>1, SharedInvariance, PTL DEF DropLosesOnlyExposed
===============================================================================
