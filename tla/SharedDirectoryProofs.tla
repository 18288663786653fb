------------------------ MODULE SharedDirectoryProofs ------------------------
(***************************************************************************)
(* Proofs about SharedDirectory, for any number of lines, of opens and of  *)
(* segments.                                                               *)
(***************************************************************************)
EXTENDS SharedDirectory, WalFileProofs

-----------------------------------------------------------------------------
(* What a write does to the lines that read_wal finds.                     *)

\* The descriptor stands at the end of the file.
AtEnd(file, f) == f.append \/ f.pos = Len(file)

\* new and g are file and descriptor after out was written at the end of the file, or
\* past it: what was recoverable stays so, and at the end every line gets through.
Pushed(file, f, out, new, g) ==
    /\ g.append \/ Len(new) <= g.pos
    /\ Recovered(file) \subseteq Recovered(new)
    /\ Recovered(new) \subseteq Recovered(file) \cup ToSet(out)
    /\ AtEnd(file, f) /\ Hole \notin ToSet(file) =>
         AtEnd(new, g) /\ Hole \notin ToSet(new) /\ ToSet(out) \subseteq Recovered(new)

LEMMA WriteAtEnd ==
    ASSUME NEW S, Hole \notin S, NEW file \in Seq(S \cup {Hole}),
           NEW f \in [append : BOOLEAN, pos : Nat], NEW out \in Seq(S),
           f.append \/ Len(file) <= f.pos
    PROVE  Pushed(file, f, out, Written(file, f, out), Advanced(f, out))
<1> DEFINE start == Behind(file, f)
           end   == start + Len(out)
           size  == IF out = <<>> \/ end < Len(file) THEN Len(file) ELSE end
           new   == [k \in 1..size |->
                        IF k \in (start + 1)..end THEN out[k - start]
                        ELSE IF k <= Len(file) THEN file[k] ELSE Hole]
           g     == Advanced(f, out)
<1>1. Written(file, f, out) = new
    BY DEF Written, Behind
<1>2. Len(file) \in Nat /\ Len(out) \in Nat /\ f.pos \in Nat /\ f.append \in BOOLEAN
    BY LenProperties
<1>3. start \in Nat /\ Len(file) <= start
    BY <1>2 DEF Behind
<1>4. g.append = f.append /\ g.pos = f.pos + Len(out)
    BY DEF Advanced
<1>5. AtEnd(file, f) => start = Len(file)
    BY <1>2 DEF AtEnd, Behind
<1>6. ~f.append => start = f.pos
    BY <1>2 DEF Behind
<1>7. new \in Seq(S \cup {Hole})
    <2>1. Written(file, f, out) \in Seq(S \cup {Hole})
        BY WrittenIs, Zenon
    <2> HIDE DEF new
    <2> QED BY <1>1, <2>1
<1>8. \A k \in 1..Len(out) : out[k] \in S /\ out[k] # Hole
    BY ElementOfSeq
<1>9. DOMAIN out = 1..Len(out) /\ DOMAIN file = 1..Len(file)
    BY LenProperties
<1>10. out = <<>> <=> Len(out) = 0
    BY EmptySeq
<1> HIDE DEF start, g
<1>11. /\ size \in Nat /\ Len(file) <= size /\ size <= end /\ end \in Nat
       /\ start = Len(file) => size = end
    BY <1>2, <1>3, <1>10
<1>12. Len(new) = size /\ DOMAIN new = 1..size
    <2>1. DOMAIN new = 1..size /\ DOMAIN new = 1..Len(new) /\ Len(new) \in Nat
        BY <1>7, LenProperties
    <2> HIDE DEF new, size
    <2> QED BY <1>11, <2>1
<1>13. ASSUME NEW k \in 1..Len(file) PROVE k \in 1..size /\ new[k] = file[k]
    <2>1. k \in 1..size /\ k \notin (start + 1)..end /\ k <= Len(file)
        BY <1>2, <1>3, <1>11
    <2> QED BY <2>1
<1>14. ASSUME NEW k \in 1..size, k \notin 1..Len(file)
       PROVE  \/ new[k] = Hole /\ start # Len(file)
              \/ new[k] # Hole /\ new[k] \in ToSet(out)
    <2>1. CASE k \in (start + 1)..end
        <3>1. k - start \in 1..Len(out)
            BY <1>2, <1>3, <2>1
        <3>2. new[k] = out[k - start]
            BY <2>1
        <3> HIDE DEF new
        <3> QED BY <1>8, <1>9, <3>1, <3>2 DEF ToSet
    <2>2. CASE k \notin (start + 1)..end
        <3>1. ~(k <= Len(file))
            BY <1>2, <1>14
        <3>2. new[k] = Hole
            BY <2>2, <3>1
        <3>3. start # Len(file)
            BY <1>2, <1>3, <1>11, <2>2, <3>1
        <3> QED BY <3>2, <3>3
    <2> QED BY <2>1, <2>2
<1>15. ASSUME NEW k \in 1..Len(out), start = Len(file)
       PROVE  start + k \in 1..size /\ new[start + k] = out[k]
    <2>1. start + k \in 1..size /\ start + k \in (start + 1)..end /\ (start + k) - start = k
        BY <1>2, <1>3, <1>11, <1>15
    <2> QED BY <2>1
<1> HIDE DEF new, size
<1>16. Recovered(file) \subseteq Recovered(new)
    <2> SUFFICES ASSUME NEW j \in 1..Len(file), file[j] # Hole, j > 1 => file[j - 1] # Hole
                 PROVE  file[j] \in Recovered(new)
        BY DEF Recovered
    <2>1. j \in 1..Len(new) /\ new[j] = file[j]
        BY <1>12, <1>13
    <2>2. j > 1 => new[j - 1] # Hole
        <3>1. j > 1 => j - 1 \in 1..Len(file)
            BY <1>2
        <3> QED BY <1>13, <3>1
    <2> QED BY <2>1, <2>2 DEF Recovered
<1>17. Recovered(new) \subseteq Recovered(file) \cup ToSet(out)
    <2> SUFFICES ASSUME NEW j \in 1..Len(new), new[j] # Hole, j > 1 => new[j - 1] # Hole
                 PROVE  new[j] \in Recovered(file) \cup ToSet(out)
        BY DEF Recovered
    <2>1. CASE j \in 1..Len(file)
        <3>1. j > 1 => j - 1 \in 1..Len(file)
            BY <1>2, <2>1
        <3>2. j > 1 => file[j - 1] # Hole
            BY <1>13, <3>1
        <3> QED BY <1>13, <2>1, <3>2 DEF Recovered
    <2>2. CASE j \notin 1..Len(file)
        BY <1>12, <1>14, <2>2
    <2> QED BY <2>1, <2>2
<1>18. g.append \/ Len(new) <= g.pos
    BY <1>2, <1>4, <1>6, <1>11, <1>12
<1>19. ASSUME AtEnd(file, f), Hole \notin ToSet(file)
       PROVE  AtEnd(new, g) /\ Hole \notin ToSet(new) /\ ToSet(out) \subseteq Recovered(new)
    <2>1. start = Len(file) /\ Len(new) = end
        BY <1>5, <1>11, <1>12, <1>19
    <2>2. AtEnd(new, g)
        BY <1>2, <1>4, <1>6, <2>1 DEF AtEnd
    <2>3. \A k \in 1..Len(new) : new[k] # Hole
        <3> SUFFICES ASSUME NEW k \in 1..Len(new) PROVE new[k] # Hole
            OBVIOUS
        <3>1. CASE k \in 1..Len(file)
            BY <1>9, <1>13, <1>19, <3>1 DEF ToSet
        <3>2. CASE k \notin 1..Len(file)
            BY <1>12, <1>14, <2>1, <3>2
        <3> QED BY <3>1, <3>2
    <2>4. Hole \notin ToSet(new)
        BY <1>12, <2>3 DEF ToSet
    <2>5. ASSUME NEW k \in 1..Len(out) PROVE out[k] \in Recovered(new)
        <3>1. start + k \in 1..Len(new) /\ new[start + k] = out[k]
            BY <1>12, <1>15, <2>1
        <3>2. start + k > 1 => (start + k) - 1 \in 1..Len(new)
            BY <1>3, <1>11, <1>12, <3>1
        <3> DEFINE j == start + k
        <3>3. j \in 1..Len(new) /\ new[j] = out[k] /\ new[j] # Hole /\ (j > 1 => new[j - 1] # Hole)
            BY <2>3, <3>1, <3>2
        <3> HIDE DEF j
        <3> QED BY <3>3 DEF Recovered
    <2>6. ToSet(out) \subseteq Recovered(new)
        BY <1>9, <2>5 DEF ToSet
    <2> QED BY <2>2, <2>4, <2>6
<1> QED BY <1>1, <1>16, <1>17, <1>18, <1>19 DEF Pushed, g

\* The sequences out and rest over S are made of s and e.
Parts(S, s, e, out, rest) ==
    out \in Seq(S) /\ rest \in Seq(S) /\ ToSet(out) \cup ToSet(rest) = ToSet(s) \cup {e}

\* The BufWriter takes a line and pushes out a part of what it has: the part and the
\* rest are what it had and the line.
LEMMA PushSets ==
    ASSUME NEW S, NEW s \in Seq(S), NEW e \in S, NEW n \in {0, Len(s), Len(Append(s, e))},
           NEW out, out = SubSeq(Append(s, e), 1, n),
           NEW rest, rest = SubSeq(Append(s, e), n + 1, Len(Append(s, e)))
    PROVE  Parts(S, s, e, out, rest)
<1> DEFINE all == Append(s, e)
<1>1. /\ all \in Seq(S) /\ Len(all) = Len(s) + 1 /\ Len(s) \in Nat /\ all[Len(s) + 1] = e
      /\ \A k \in 1..Len(s) : all[k] = s[k]
    BY AppendProperties, LenProperties
<1>2. n \in Nat /\ n <= Len(all) /\ out = SubSeq(all, 1, n) /\ rest = SubSeq(all, n + 1, Len(all))
    BY <1>1
<1>3. \A k \in 1..Len(all) : all[k] \in S
    BY <1>1, ElementOfSeq
<1> HIDE DEF all
<1>4. /\ out \in Seq(S) /\ Len(out) = n
      /\ \A k \in 1..n : out[k] = all[k]
    <2>1. \A k \in 1..n : all[k] \in S
        BY <1>1, <1>2, <1>3
    <2> DEFINE o == SubSeq(all, 1, n)
    <2>2. /\ o \in Seq(S) /\ Len(o) = IF 1 <= n THEN n - 1 + 1 ELSE 0
          /\ \A k \in 1..(n - 1 + 1) : o[k] = all[1 + k - 1]
        BY <1>2, <2>1, SubSeqProperties
    <2>3. out = o
        BY <1>2
    <2> HIDE DEF o
    <2> QED BY <1>2, <2>2, <2>3
<1>5. /\ rest \in Seq(S) /\ Len(rest) = Len(all) - n
      /\ \A k \in 1..(Len(all) - n) : rest[k] = all[n + k]
    <2>1. \A k \in (n + 1)..Len(all) : all[k] \in S
        BY <1>1, <1>2, <1>3
    <2>2. n + 1 \in Int /\ Len(all) \in Int
        BY <1>1, <1>2
    <2> DEFINE r == SubSeq(all, n + 1, Len(all))
    <2>3. /\ r \in Seq(S)
          /\ Len(r) = IF n + 1 <= Len(all) THEN Len(all) - (n + 1) + 1 ELSE 0
          /\ \A k \in 1..(Len(all) - (n + 1) + 1) : r[k] = all[n + 1 + k - 1]
        BY <2>1, <2>2, SubSeqProperties
    <2>4. rest = r
        BY <1>2
    <2> HIDE DEF r
    <2>5. /\ Len(all) - (n + 1) + 1 = Len(all) - n
          /\ n + 1 <= Len(all) \/ Len(all) - n = 0
          /\ \A k \in 1..(Len(all) - n) : n + 1 + k - 1 = n + k
        BY <1>1, <1>2
    <2>6. Len(r) = Len(all) - n
        BY <2>3, <2>5
    <2>7. \A k \in 1..(Len(all) - n) : r[k] = all[n + k]
        BY <2>3, <2>5
    <2> QED BY <2>3, <2>4, <2>6, <2>7
<1>6. DOMAIN out = 1..n /\ DOMAIN rest = 1..(Len(all) - n) /\ DOMAIN s = 1..Len(s)
    BY <1>4, <1>5, LenProperties
<1>7. ToSet(out) \cup ToSet(rest) = {all[k] : k \in 1..Len(all)}
    <2>1. ASSUME NEW k \in 1..Len(all) PROVE all[k] \in ToSet(out) \cup ToSet(rest)
        <3>1. CASE k <= n
            <4>1. k \in 1..n
                BY <1>1, <1>2, <3>1
            <4> QED BY <1>4, <1>6, <4>1 DEF ToSet
        <3>2. CASE n < k
            <4>1. k - n \in 1..(Len(all) - n) /\ n + (k - n) = k
                BY <1>1, <1>2, <3>2
            <4>2. rest[k - n] = all[k]
                BY <1>5, <4>1
            <4> QED BY <1>6, <4>1, <4>2 DEF ToSet
        <3> QED BY <1>1, <1>2, <3>1, <3>2
    <2>2. ASSUME NEW k \in 1..n PROVE k \in 1..Len(all) /\ out[k] = all[k]
        BY <1>1, <1>2, <1>4
    <2>3. ASSUME NEW k \in 1..(Len(all) - n) PROVE n + k \in 1..Len(all) /\ rest[k] = all[n + k]
        BY <1>1, <1>2, <1>5
    <2>4. ToSet(out) \subseteq {all[k] : k \in 1..Len(all)}
        BY <1>6, <2>2 DEF ToSet
    <2>5. ToSet(rest) \subseteq {all[k] : k \in 1..Len(all)}
        BY <1>6, <2>3 DEF ToSet
    <2> QED BY <2>1, <2>4, <2>5
<1>8. {all[k] : k \in 1..Len(all)} = ToSet(s) \cup {e}
    <2>1. \A k \in 1..Len(all) : k \in 1..Len(s) \/ k = Len(s) + 1
        BY <1>1
    <2>2. \A k \in 1..Len(s) : k \in 1..Len(all)
        BY <1>1
    <2>3. Len(s) + 1 \in 1..Len(all)
        BY <1>1
    <2> QED BY <1>1, <1>6, <2>1, <2>2, <2>3 DEF ToSet
<1> QED BY <1>4, <1>5, <1>7, <1>8 DEF Parts

-----------------------------------------------------------------------------
(* What the steps do to the WAL.                                           *)

\* The bounds are numbers, and a line is not a hole.
LEMMA Bounds == MaxId \in Nat /\ MaxOpens \in Nat /\ MaxId # 0 /\ Hole \notin Lines
BY DirectoryAssumption

\* The invariant's part on the WAL is about one descriptor, open at the end or past it.
LEMMA PushIs ==
    ASSUME TypeOK, WalInv, pc # "closed", NEW out \in Seq(Lines)
    PROVE  /\ Written(wal, fd, out) \in Seq(Lines \cup {Hole})
           /\ Advanced(fd, out) \in [append : BOOLEAN, pos : Nat]
           /\ Pushed(wal, fd, out, Written(wal, fd, out), Advanced(fd, out))
           /\ ~touched => AtEnd(wal, fd) /\ Hole \notin ToSet(wal)
<1>1. /\ wal \in Seq(Lines \cup {Hole}) /\ fd \in [append : BOOLEAN, pos : Nat]
      /\ fd.append \/ Len(wal) <= fd.pos
    BY DEF TypeOK, WalInv
<1>2. Hole \notin Lines
    BY Bounds
<1>3. Pushed(wal, fd, out, Written(wal, fd, out), Advanced(fd, out))
    BY <1>1, <1>2, WriteAtEnd, Zenon
<1>4. Written(wal, fd, out) \in Seq(Lines \cup {Hole})
    BY <1>1, WrittenIs, Zenon
<1>5. Advanced(fd, out) \in [append : BOOLEAN, pos : Nat]
    BY <1>1, LenProperties DEF Advanced
<1> QED BY <1>3, <1>4, <1>5 DEF WalInv, AtEnd

\* An append loses nothing: the new line and what was in the BufWriter are there or
\* in the file, where read_wal finds them as long as no reader has read the WAL.
LEMMA AppendIs ==
    ASSUME TypeOK, WalInv, NEW l \in Lines, AppendLine(l)
    PROVE  /\ wal' \in Seq(Lines \cup {Hole}) /\ walBuf' \in Seq(Lines)
           /\ fd' \in [append : BOOLEAN, pos : Nat]
           /\ fd'.append \/ Len(wal') <= fd'.pos
           /\ Recovered(wal) \subseteq Recovered(wal')
           /\ InWal' \subseteq InWal \cup {l}
           /\ ~touched => /\ AtEnd(wal', fd') /\ Hole \notin ToSet(wal')
                          /\ InWal \cup {l} \subseteq InWal'
<1>1. PICK n \in {0, Len(walBuf), Len(Append(walBuf, l))} :
         /\ walBuf' = SubSeq(Append(walBuf, l), n + 1, Len(Append(walBuf, l)))
         /\ wal' = Written(wal, fd, SubSeq(Append(walBuf, l), 1, n))
         /\ fd' = Advanced(fd, SubSeq(Append(walBuf, l), 1, n))
    BY DEF AppendLine
<1>2. walBuf \in Seq(Lines) /\ pc # "closed"
    BY DEF TypeOK, AppendLine
<1>3. PICK out : out = SubSeq(Append(walBuf, l), 1, n)
    OBVIOUS
<1>4. out \in Seq(Lines) /\ walBuf' \in Seq(Lines)
      /\ ToSet(out) \cup ToSet(walBuf') = ToSet(walBuf) \cup {l}
    <2>1. PICK rest : rest = SubSeq(Append(walBuf, l), n + 1, Len(Append(walBuf, l)))
        OBVIOUS
    <2>2. n \in {0, Len(walBuf), Len(Append(walBuf, l))}
        OBVIOUS
    <2>3. Parts(Lines, walBuf, l, out, rest)
        BY <1>2, <1>3, <2>1, <2>2, PushSets, Zenon
    <2>4. walBuf' = rest
        BY <1>1, <2>1
    <2> QED BY <2>3, <2>4 DEF Parts
<1>5. wal' = Written(wal, fd, out) /\ fd' = Advanced(fd, out)
    BY <1>1, <1>3
<1>6. /\ wal' \in Seq(Lines \cup {Hole}) /\ fd' \in [append : BOOLEAN, pos : Nat]
      /\ Pushed(wal, fd, out, wal', fd')
      /\ ~touched => AtEnd(wal, fd) /\ Hole \notin ToSet(wal)
    BY <1>2, <1>4, <1>5, PushIs
<1> QED BY <1>4, <1>6 DEF Pushed, InWal

\* Drain and Close push out the whole BufWriter.
LEMMA EmptyIs ==
    ASSUME TypeOK, WalInv, Drain \/ Close
    PROVE  /\ wal' \in Seq(Lines \cup {Hole}) /\ walBuf' = <<>>
           /\ fd' \in [append : BOOLEAN, pos : Nat]
           /\ Drain => fd'.append \/ Len(wal') <= fd'.pos
           /\ Recovered(wal) \subseteq Recovered(wal')
           /\ ToSet(walBuf') = {} /\ InWal' = Recovered(wal') /\ InWal' \subseteq InWal
           /\ ~touched => /\ Drain => AtEnd(wal', fd')
                          /\ Hole \notin ToSet(wal') /\ InWal \subseteq InWal'
<1>1. /\ wal' = Written(wal, fd, walBuf) /\ walBuf' = <<>> /\ pc # "closed"
      /\ Drain => fd' = Advanced(fd, walBuf)
      /\ Close => fd' = fd
    BY DEF Drain, Close
<1>2. walBuf \in Seq(Lines) /\ fd \in [append : BOOLEAN, pos : Nat]
    BY DEF TypeOK
<1>3. /\ wal' \in Seq(Lines \cup {Hole}) /\ Advanced(fd, walBuf) \in [append : BOOLEAN, pos : Nat]
      /\ Pushed(wal, fd, walBuf, wal', Advanced(fd, walBuf))
      /\ ~touched => AtEnd(wal, fd) /\ Hole \notin ToSet(wal)
    BY <1>1, <1>2, PushIs
<1>4. ToSet(walBuf') = {}
    BY <1>1 DEF ToSet
<1> QED BY <1>1, <1>2, <1>3, <1>4 DEF Pushed, InWal

-----------------------------------------------------------------------------
(* What the steps do to the ids.                                           *)

\* Behind a beginning of the ids comes the next one.
LEMMA NextIdIs ==
    ASSUME NEW n \in Nat
    PROVE  NextId(1..n) = n + 1
<1>1. CASE n = 0
    <2>1. 1..n = {}
        BY <1>1
    <2> QED BY <1>1, <2>1 DEF NextId
<1>2. CASE n # 0
    <2>1. n \in 1..n /\ \A y \in 1..n : n >= y
        BY <1>2
    <2>2. Max(1..n) \in 1..n /\ \A y \in 1..n : Max(1..n) >= y
        BY <2>1 DEF Max
    <2>3. Max(1..n) = n
        BY <2>1, <2>2
    <2> QED BY <2>1, <2>3 DEF NextId
<1> QED BY <1>1, <1>2

\* The ids of both lists are ids of segments.
LEMMA IdsAre ==
    ASSUME TypeOK, IdInv
    PROVE  /\ nextId \in Nat /\ rnext \in Nat /\ nextId >= 1 /\ rnext >= 1
           /\ nextId \notin list
           /\ \A j \in list : j \in SegId /\ j \in Nat /\ j < nextId
           /\ \A j \in Nat : j >= 1 /\ j < nextId => j \in list
           /\ \A j \in Loaded \cup rlist : j \in SegId /\ j \in Nat
           /\ rpc \in {"read", "write"} => /\ rnext \notin rlist
                                           /\ \A j \in rlist : j < rnext
<1>1. nextId \in Nat /\ rnext \in Nat /\ nextId >= 1 /\ rnext >= 1
    BY Bounds DEF TypeOK
<1>2. /\ list = 1..(nextId - 1)
      /\ \E n \in 0..MaxId : Loaded = 1..n
      /\ list \subseteq SegId /\ rlist \subseteq SegId
      /\ rpc \in {"read", "write"} => rlist = 1..(rnext - 1)
    BY DEF IdInv, TypeOK
<1>3. \A j \in SegId : j \in Nat
    BY Bounds DEF SegId
<1>4. \A j \in Loaded : j \in SegId
    BY <1>2, Bounds DEF SegId
<1> QED BY <1>1, <1>2, <1>3, <1>4

\* Whoever writes neither segments nor the manifest leaves what an open loads.
LEMMA QuietLoaded ==
    ASSUME UNCHANGED <<segs, manifest>>
    PROVE  Loaded' = Loaded
BY DEF Loaded

\* A scanned list that is saved stays what an open loads.
LEMMA LoadLoaded ==
    ASSUME TypeOK, Load
    PROVE  Loaded' = Loaded
<1>1. segs' = segs /\ manifest' = IF Loaded # {} THEN Saved(Loaded) ELSE manifest
    BY DEF Load
<1>2. CASE Loaded # {}
    BY <1>1, <1>2 DEF Loaded, Saved
<1>3. CASE Loaded = {}
    BY <1>1, <1>3 DEF Loaded
<1> QED BY <1>2, <1>3

\* The segment i is replaced by one with the lines b.
Replaced(i, b) ==
    /\ Loaded' = IF manifest.there THEN Loaded ELSE Loaded \cup {i}
    /\ \A j \in SegId : segs'[j] = IF j = i THEN b ELSE segs[j]

\* A new segment adds at most its id to what an open loads.
LEMMA WriteLoaded ==
    ASSUME TypeOK, NEW i \in SegId, NEW b, b # {}, segs' = [segs EXCEPT ![i] = b],
           manifest' = manifest
    PROVE  Replaced(i, b)
<1>1. \A j \in SegId : segs'[j] = IF j = i THEN b ELSE segs[j]
    BY DEF TypeOK
<1>2. CASE manifest.there
    <2>1. Loaded' = Loaded
        BY <1>2 DEF Loaded
    <2> QED BY <1>1, <1>2, <2>1 DEF Replaced
<1>3. CASE ~manifest.there
    <2>1. \A j \in SegId : j \in {k \in SegId : segs'[k] # {}} <=> j \in {k \in SegId : segs[k] # {}} \cup {i}
        BY <1>1
    <2>2. Loaded' = {k \in SegId : segs'[k] # {}} /\ Loaded = {k \in SegId : segs[k] # {}}
        BY <1>3 DEF Loaded
    <2>3. {k \in SegId : segs'[k] # {}} = {k \in SegId : segs[k] # {}} \cup {i}
        BY <2>1
    <2> QED BY <1>1, <1>3, <2>2, <2>3 DEF Replaced
<1> QED BY <1>1, <1>2, <1>3 DEF Replaced

\* What the agent's and the reader's new segments do.
LEMMA SegmentIs ==
    ASSUME TypeOK, BatchInv
    PROVE  /\ WriteSegment => Replaced(nextId, batch)
           /\ Rewrite => Replaced(rnext, rbatch)
<1>1. ASSUME WriteSegment PROVE Replaced(nextId, batch)
    <2>1. /\ nextId \in SegId /\ batch # {} /\ segs' = [segs EXCEPT ![nextId] = batch]
          /\ manifest' = manifest
        BY <1>1 DEF WriteSegment, BatchInv
    <2> QED BY <2>1, WriteLoaded, Zenon
<1>2. ASSUME Rewrite PROVE Replaced(rnext, rbatch)
    <2>1. /\ rnext \in SegId /\ rbatch # {} /\ segs' = [segs EXCEPT ![rnext] = rbatch]
          /\ manifest' = manifest
        BY <1>2 DEF Rewrite, BatchInv
    <2> QED BY <2>1, WriteLoaded, Zenon
<1> QED BY <1>1, <1>2

\* A manifest that is saved is what the next open loads.
LEMMA SaveLoaded ==
    /\ SaveManifest => Loaded' = list
    /\ Resave => Loaded' = rlist
BY DEF SaveManifest, Resave, Loaded, Saved

-----------------------------------------------------------------------------
(* The invariant holds initially.                                          *)

LEMMA InitInv == Init => IInv
<1> SUFFICES ASSUME Init PROVE IInv
    OBVIOUS
<1>1. /\ wal = <<>> /\ segs = [i \in SegId |-> {}]
      /\ manifest = [there |-> FALSE, ids |-> {}]
      /\ buffer = {} /\ walBuf = <<>> /\ fd = [append |-> TRUE, pos |-> 0]
      /\ batch = {} /\ list = {} /\ nextId = 1 /\ pc = "run" /\ mine = {}
      /\ opens = 0 /\ rpc = "off" /\ rlist = {} /\ rnext = 1 /\ rbatch = {}
      /\ acked = {} /\ touched = FALSE /\ exposed = {}
      /\ asked = {} /\ carried = {}
    BY DEF Init
<1>2. Loaded = {} /\ In(SegId) = {}
    BY <1>1 DEF Loaded, In
<1>3. TypeOK
    <2>1. wal \in Seq(Lines \cup {Hole}) /\ walBuf \in Seq(Lines)
        BY <1>1
    <2>2. /\ segs \in [SegId -> SUBSET Lines]
          /\ manifest \in [there : BOOLEAN, ids : SUBSET SegId]
          /\ fd \in [append : BOOLEAN, pos : Nat]
        BY <1>1
    <2>3. 1 \in 1..(MaxId + 1) /\ 0 \in 0..MaxOpens
        BY Bounds
    <2> QED BY <1>1, <2>1, <2>2, <2>3 DEF TypeOK
<1>4. IdInv
    <2>1. 1..(1 - 1) = {} /\ 0 \in 0..MaxId /\ 1..0 = {}
        BY Bounds
    <2> QED BY <1>1, <1>2, <2>1 DEF IdInv
<1>5. ToSet(wal) = {} /\ Recovered(wal) = {} /\ InWal = {}
    <2>1. Len(wal) = 0 /\ DOMAIN wal = {} /\ DOMAIN walBuf = {}
        BY <1>1
    <2> QED BY <2>1 DEF ToSet, Recovered, InWal
<1>6. BatchInv
    BY <1>1, <1>2, <1>5 DEF BatchInv
<1>7. WalInv /\ SafeInv
    BY <1>1, <1>5 DEF WalInv, SafeInv
<1>8. OwnInv /\ ListedInv /\ RescueInv /\ AskedInv
    BY <1>1, <1>2 DEF OwnInv, ListedInv, RescueInv, AskedInv
<1> QED BY <1>3, <1>4, <1>6, <1>7, <1>8 DEF IInv

-----------------------------------------------------------------------------
(* Every step preserves it, part by part.                                  *)

\* Every step keeps the types.
LEMMA TypeStep ==
    ASSUME IInv, [Next]_vars
    PROVE  TypeOK'
<1> USE DEF files, agent, reader
<1>0. TypeOK /\ IdInv /\ BatchInv /\ WalInv
    BY DEF IInv
<1>00. nextId \in Nat /\ rnext \in Nat /\ opens \in Nat /\ Loaded \subseteq SegId
    BY <1>0, IdsAre, Bounds DEF TypeOK
<1>1. CASE \E l \in Lines : AppendLine(l)
    <2>1. PICK l \in Lines : AppendLine(l)
        BY <1>1
    <2>2. /\ wal' \in Seq(Lines \cup {Hole}) /\ walBuf' \in Seq(Lines)
          /\ fd' \in [append : BOOLEAN, pos : Nat]
        BY <1>0, <2>1, AppendIs
    <2>3. /\ buffer' = buffer \cup {l} /\ pc' \in {pc, "drain"} /\ mine' \in {mine, {l}}
          /\ acked' \in {acked, acked \cup {l}} /\ exposed' \in {exposed, exposed \cup {l}}
          /\ UNCHANGED <<segs, manifest, batch, list, nextId, reader, touched, asked, carried>>
        BY <2>1 DEF AppendLine
    <2> QED BY <1>0, <2>2, <2>3 DEF TypeOK
<1>2. CASE Drain
    <2>1. /\ wal' \in Seq(Lines \cup {Hole}) /\ walBuf' = <<>> /\ fd' \in [append : BOOLEAN, pos : Nat]
        BY <1>0, <1>2, EmptyIs
    <2>2. <<>> \in Seq(Lines)
        OBVIOUS
    <2> QED BY <1>0, <1>2, <2>1, <2>2 DEF TypeOK, Drain
<1>3. CASE WriteSegment
    <2>1. nextId \in 1..MaxId /\ nextId + 1 \in 1..(MaxId + 1)
        BY <1>00, <1>3, Bounds DEF WriteSegment, SegId
    <2> QED BY <1>0, <1>3, <2>1 DEF TypeOK, WriteSegment
<1>4. CASE SaveManifest
    BY <1>0, <1>4 DEF TypeOK, SaveManifest, Saved
<1>5. CASE Truncate
    <2>1. <<>> \in Seq(Lines \cup {Hole}) /\ [append |-> FALSE, pos |-> 0] \in [append : BOOLEAN, pos : Nat]
        OBVIOUS
    <2> QED BY <1>0, <1>5, <2>1 DEF TypeOK, Truncate, Reopened, Recovering
<1>6. CASE Close
    <2>1. /\ wal' \in Seq(Lines \cup {Hole}) /\ walBuf' = <<>>
        BY <1>0, <1>6, EmptyIs
    <2>2. <<>> \in Seq(Lines)
        OBVIOUS
    <2> QED BY <1>0, <1>6, <2>1, <2>2 DEF TypeOK, Close
<1>7. CASE Load
    <2>1. NextId(Loaded) \in 1..(MaxId + 1)
        <3>1. PICK n \in 0..MaxId : Loaded = 1..n
            BY <1>0 DEF IdInv
        <3>2. n \in Nat /\ n + 1 \in 1..(MaxId + 1)
            BY Bounds
        <3>3. NextId(Loaded) = n + 1
            BY <3>1, <3>2, NextIdIs
        <3> QED BY <3>2, <3>3
    <2>2. opens + 1 \in 0..MaxOpens
        BY <1>0, <1>00, <1>7, Bounds DEF Load, TypeOK
    <2>3. manifest' \in [there : BOOLEAN, ids : SUBSET SegId]
        BY <1>0, <1>00, <1>7 DEF Load, Saved, TypeOK
    <2>4. In(Loaded) \cup Recovered(wal) \subseteq Lines
        <3>1. In(Loaded) \subseteq Lines
            BY <1>0, <1>00 DEF In, TypeOK
        <3>2. \A k \in 1..Len(wal) : wal[k] \in Lines \cup {Hole}
            BY <1>0, ElementOfSeq DEF TypeOK
        <3>3. Recovered(wal) \subseteq Lines
            BY <3>2 DEF Recovered
        <3> QED BY <3>1, <3>3
    <2> QED BY <1>0, <1>00, <1>7, <2>1, <2>2, <2>3, <2>4 DEF TypeOK, Load
<1>8. CASE ReadWal
    <2>1. \A k \in 1..Len(wal) : wal[k] \in Lines \cup {Hole}
        BY <1>0, ElementOfSeq DEF TypeOK
    <2>2. Recovered(wal) \subseteq Lines
        BY <2>1 DEF Recovered
    <2>3. /\ rbatch' = Recovered(wal) /\ rpc' \in {"query", "write"} /\ touched' \in {touched, TRUE}
          /\ exposed' \in {exposed, exposed \cup (buffer \ rbatch')}
          /\ UNCHANGED <<files, agent, opens, rlist, rnext, asked, carried>>
        BY <1>8 DEF ReadWal
    <2> QED BY <1>0, <2>2, <2>3 DEF TypeOK
<1>9. CASE Rewrite
    BY <1>0, <1>9 DEF TypeOK, Rewrite
<1>10. CASE Resave
    BY <1>0, <1>10 DEF TypeOK, Resave, Saved
<1>11. CASE CutWal
    <2>1. <<>> \in Seq(Lines \cup {Hole})
        OBVIOUS
    <2> QED BY <1>0, <1>11, <2>1 DEF TypeOK, CutWal
<1>12. CASE Answer
    <2>1. 1 \in 1..(MaxId + 1)
        BY Bounds
    <2> QED BY <1>0, <1>12, <2>1 DEF TypeOK, Answer
<1>13. CASE UNCHANGED vars
    BY <1>0, <1>13 DEF TypeOK, vars
<1> QED BY <1>1, <1>2, <1>3, <1>4, <1>5, <1>6, <1>7, <1>8, <1>9, <1>10, <1>11, <1>12, <1>13
        DEF Next

\* Every step keeps the lists beginnings of the ids.
LEMMA IdStep ==
    ASSUME IInv, [Next]_vars
    PROVE  IdInv'
<1> USE DEF files, agent, reader
<1>0. TypeOK /\ IdInv /\ BatchInv
    BY DEF IInv
<1>00. nextId \in Nat /\ rnext \in Nat /\ nextId >= 1 /\ rnext >= 1
    BY <1>0, IdsAre
<1>000. PICK n \in 0..MaxId : Loaded = 1..n
    BY <1>0 DEF IdInv
<1>1. CASE (\E l \in Lines : AppendLine(l)) \/ Drain \/ Truncate \/ Close
    <2>1. /\ UNCHANGED <<segs, manifest, list, nextId, rpc, rlist, rnext>>
          /\ pc # "save" /\ pc' # "save"
        BY <1>1 DEF AppendLine, Drain, Truncate, Close
    <2> QED BY <1>0, <2>1, QuietLoaded DEF IdInv
<1>2. CASE WriteSegment
    <2>1. /\ nextId \in SegId /\ list' = list \cup {nextId} /\ nextId' = nextId + 1
          /\ pc = "write" /\ pc' = "save"
          /\ UNCHANGED <<manifest, rpc, rlist, rnext>>
        BY <1>2 DEF WriteSegment
    <2>2. Loaded' = IF manifest.there THEN Loaded ELSE Loaded \cup {nextId}
        BY <1>0, <1>2, SegmentIs DEF Replaced
    <2>3. ~manifest.there => nextId = 1
        BY <1>0, <2>1 DEF IdInv
    <2>4. \E m \in 0..MaxId : Loaded' = 1..m
        <3>1. CASE manifest.there
            BY <1>000, <2>2, <3>1
        <3>2. CASE ~manifest.there
            <4>1. CASE n = 0
                <5>1. Loaded' = 1..1 /\ 1 \in 0..MaxId
                    BY <1>000, <2>2, <2>3, <3>2, <4>1, Bounds
                <5> QED BY <5>1
            <4>2. CASE n # 0
                <5>1. 1 \in 1..n
                    BY <1>000, <4>2, Bounds
                <5> QED BY <1>000, <2>2, <2>3, <3>2, <5>1
            <4> QED BY <4>1, <4>2
        <3> QED BY <3>1, <3>2
    <2>5. list' = 1..(nextId' - 1)
        BY <1>0, <1>00, <2>1 DEF IdInv
    <2>6. ~manifest.there => nextId' = 2
        BY <2>1, <2>3
    <2>7. nextId' - 1 = nextId
        BY <1>00, <2>1
    <2>8. rpc \in {"read", "write", "save"} =>
            \A j \in (list' \cap rlist) \ {rnext} : j \in Loaded' \/ j = nextId
        BY <1>0, <2>1, <2>2 DEF IdInv
    <2> QED BY <1>0, <2>1, <2>4, <2>5, <2>6, <2>7, <2>8 DEF IdInv
<1>3. CASE SaveManifest
    <2>1. /\ Loaded' = list /\ manifest'.there
          /\ UNCHANGED <<list, nextId, rpc, rlist, rnext>>
        BY <1>3, SaveLoaded DEF SaveManifest, Saved
    <2>2. nextId - 1 \in 0..MaxId
        BY <1>0, <1>00, Bounds DEF TypeOK
    <2>3. list = 1..(nextId - 1)
        BY <1>0 DEF IdInv
    <2>4. \E m \in 0..MaxId : Loaded' = 1..m
        BY <2>1, <2>2, <2>3
    <2> QED BY <1>0, <2>1, <2>4 DEF IdInv
<1>4. CASE Load
    <2>1. /\ Loaded' = Loaded /\ rlist' = Loaded /\ rnext' = NextId(Loaded) /\ rpc' = "read"
          /\ manifest' = IF Loaded # {} THEN Saved(Loaded) ELSE manifest
          /\ UNCHANGED <<list, nextId, pc>>
        BY <1>0, <1>4, LoadLoaded DEF Load
    <2>2. rnext' = n + 1 /\ rnext' - 1 = n
        BY <1>000, <2>1, NextIdIs, Bounds
    <2>3. ~manifest'.there => rnext' = 1 /\ ~manifest.there
        <3>1. CASE Loaded # {}
            BY <2>1, <3>1 DEF Saved
        <3>2. CASE Loaded = {}
            <4>1. n = 0
                <5>1. n # 0 => 1 \in 1..n
                    BY <1>000, Bounds
                <5> QED BY <1>000, <3>2, <5>1
            <4> QED BY <2>1, <2>2, <3>2, <4>1
        <3> QED BY <3>1, <3>2
    <2> QED BY <1>0, <1>000, <2>1, <2>2, <2>3 DEF IdInv
<1>5. CASE ReadWal
    <2>1. /\ rpc = "read" /\ rpc' \in {"query", "write"}
          /\ UNCHANGED <<segs, manifest, list, nextId, pc, rlist, rnext>>
        BY <1>5 DEF ReadWal
    <2>2. rnext - 1 \in 0..MaxId /\ rlist = 1..(rnext - 1)
        BY <1>0, <1>00, <2>1, Bounds DEF IdInv, TypeOK
    <2>3. \E m \in 0..MaxId : rlist = 1..m
        BY <2>2
    <2> QED BY <1>0, <2>1, <2>2, <2>3, QuietLoaded DEF IdInv
<1>6. CASE Rewrite
    <2>1. /\ rnext \in SegId /\ rlist' = rlist \cup {rnext} /\ rpc = "write" /\ rpc' = "save"
          /\ UNCHANGED <<manifest, list, nextId, pc, rnext>>
        BY <1>6 DEF Rewrite
    <2>2. Loaded' = IF manifest.there THEN Loaded ELSE Loaded \cup {rnext}
        BY <1>0, <1>6, SegmentIs DEF Replaced
    <2>3. ~manifest.there => rnext = 1
        BY <1>0, <2>1 DEF IdInv
    <2>4. \E m \in 0..MaxId : Loaded' = 1..m
        <3>1. CASE manifest.there
            BY <1>000, <2>2, <3>1
        <3>2. CASE ~manifest.there
            <4>1. CASE n = 0
                <5>1. Loaded' = 1..1 /\ 1 \in 0..MaxId
                    BY <1>000, <2>2, <2>3, <3>2, <4>1, Bounds
                <5> QED BY <5>1
            <4>2. CASE n # 0
                <5>1. 1 \in 1..n
                    BY <1>000, <4>2, Bounds
                <5> QED BY <1>000, <2>2, <2>3, <3>2, <5>1
            <4> QED BY <4>1, <4>2
        <3> QED BY <3>1, <3>2
    <2>5. rlist' = 1..rnext
        <3>1. rlist = 1..(rnext - 1)
            BY <1>0, <2>1 DEF IdInv
        <3> QED BY <1>00, <2>1, <3>1
    <2>6. \A j \in (list \cap rlist') \ {rnext} : j \in Loaded' \/ (pc = "save" /\ j = nextId - 1)
        BY <1>0, <2>1, <2>2 DEF IdInv
    <2> QED BY <1>0, <2>1, <2>4, <2>5, <2>6 DEF IdInv
<1>7. CASE Resave
    <2>1. /\ Loaded' = rlist /\ manifest'.there /\ rpc = "save" /\ rpc' = "trunc"
          /\ UNCHANGED <<list, nextId, pc, rlist, rnext>>
        BY <1>7, SaveLoaded DEF Resave, Saved
    <2>2. rlist = 1..rnext
        BY <1>0, <2>1 DEF IdInv
    <2>3. rnext \in 0..MaxId
        <3>1. rnext \in 1..rnext
            BY <1>00
        <3> QED BY <1>0, <1>00, <2>2, <3>1, Bounds DEF TypeOK, SegId
    <2> QED BY <1>0, <2>1, <2>2, <2>3 DEF IdInv
<1>8. CASE CutWal
    <2>1. /\ rpc = "trunc" /\ rpc' = "query"
          /\ UNCHANGED <<segs, manifest, list, nextId, pc, rlist, rnext>>
        BY <1>8 DEF CutWal
    <2>2. rlist = 1..rnext
        BY <1>0, <2>1 DEF IdInv
    <2>3. rnext \in 0..MaxId
        <3>1. rnext \in 1..rnext
            BY <1>00
        <3> QED BY <1>0, <1>00, <2>2, <3>1, Bounds DEF TypeOK, SegId
    <2> QED BY <1>0, <2>1, <2>2, <2>3, QuietLoaded DEF IdInv
<1>9. CASE Answer
    <2>1. /\ rpc' = "off" /\ rnext' = 1
          /\ UNCHANGED <<segs, manifest, list, nextId, pc>>
        BY <1>9 DEF Answer
    <2> QED BY <1>0, <2>1, QuietLoaded DEF IdInv
<1>10. CASE UNCHANGED vars
    BY <1>0, <1>10, QuietLoaded DEF IdInv, vars
<1> QED BY <1>1, <1>2, <1>3, <1>4, <1>5, <1>6, <1>7, <1>8, <1>9, <1>10 DEF Next

\* A segment that is replaced has new lines, the others stay.
LEMMA ReplacedHas ==
    ASSUME TypeOK, NEW i, NEW b, Replaced(i, b)
    PROVE  /\ \A S, l : S \subseteq SegId /\ l \in In(S)' => l \in In(S) \cup b
           /\ \A S, l : S \subseteq SegId /\ l \in In(S) => l \in segs[i] \/ l \in In(S)'
           /\ \A S, l : S \subseteq SegId /\ l \in In(S \ {i}) => l \in In(S)'
           /\ \A S : S \subseteq SegId /\ i \in S => b \subseteq In(S)'
           /\ \A S : S \subseteq SegId /\ i \notin S => In(S)' = In(S)
<1>0. \A j \in SegId : segs'[j] = IF j = i THEN b ELSE segs[j]
    BY DEF Replaced
<1>1. ASSUME NEW S, S \subseteq SegId, NEW l, l \in In(S)' PROVE l \in In(S) \cup b
    <2>1. PICK j \in S : l \in segs'[j]
        BY <1>1 DEF In
    <2> QED BY <1>0, <1>1, <2>1 DEF In
<1>2. ASSUME NEW S, S \subseteq SegId, NEW l, l \in In(S) PROVE l \in segs[i] \/ l \in In(S)'
    <2>1. PICK j \in S : l \in segs[j]
        BY <1>2 DEF In
    <2>2. j # i => segs'[j] = segs[j]
        BY <1>0, <1>2, <2>1
    <2> QED BY <2>1, <2>2 DEF In
<1>3. ASSUME NEW S, S \subseteq SegId, NEW l, l \in In(S \ {i}) PROVE l \in In(S)'
    <2>1. PICK j \in S \ {i} : l \in segs[j]
        BY <1>3 DEF In
    <2>2. segs'[j] = segs[j]
        BY <1>0, <1>3, <2>1
    <2> QED BY <2>1, <2>2 DEF In
<1>4. ASSUME NEW S, S \subseteq SegId, i \in S PROVE b \subseteq In(S)'
    BY <1>0, <1>4 DEF In
<1>5. ASSUME NEW S, S \subseteq SegId, i \notin S PROVE In(S)' = In(S)
    <2>1. \A j \in S : segs'[j] = segs[j]
        BY <1>0, <1>5
    <2> QED BY <2>1 DEF In
<1> QED BY <1>1, <1>2, <1>3, <1>4, <1>5

\* Whoever writes no segment leaves the lines of all.
LEMMA QuietIn ==
    ASSUME segs' = segs
    PROVE  \A S : In(S)' = In(S)
BY DEF In

\* Every step keeps what a flush has in hand.
LEMMA BatchStep ==
    ASSUME IInv, [Next]_vars
    PROVE  BatchInv'
<1> USE DEF files, agent, reader
<1>0. TypeOK /\ IdInv /\ BatchInv /\ WalInv
    BY DEF IInv
<1>00. In(SegId) \cup rbatch \cup InWal \cup buffer \cup batch \subseteq acked \cup mine
    BY <1>0 DEF BatchInv
<1>1. CASE \E l \in Lines : AppendLine(l)
    <2>1. PICK l \in Lines : AppendLine(l)
        BY <1>1
    <2>2. InWal' \subseteq InWal \cup {l}
        BY <1>0, <2>1, AppendIs
    <2>3. /\ pc = "run" /\ buffer' = buffer \cup {l}
          /\ \/ pc' = "drain" /\ mine' = {l} /\ acked' = acked
             \/ pc' = "run" /\ mine' = mine /\ acked' = acked \cup {l}
          /\ UNCHANGED <<segs, batch, rpc, rbatch>>
        BY <2>1 DEF AppendLine
    <2>4. mine = {} /\ batch = {}
        BY <1>0, <2>3 DEF BatchInv
    <2>5. In(SegId)' = In(SegId)
        BY <2>3, QuietIn
    <2>6. (In(SegId) \cup rbatch \cup InWal \cup buffer \cup batch)' \subseteq acked' \cup mine'
        BY <1>00, <2>2, <2>3, <2>4, <2>5
    <2> QED BY <1>0, <2>3, <2>4, <2>6 DEF BatchInv
<1>2. CASE Drain
    <2>1. InWal' \subseteq InWal /\ walBuf' = <<>>
        BY <1>0, <1>2, EmptyIs
    <2>2. In(SegId)' = In(SegId)
        BY <1>2, QuietIn DEF Drain
    <2>3. /\ pc = "drain" /\ batch' = buffer /\ buffer' = {} /\ pc' = "write"
          /\ UNCHANGED <<mine, acked, rpc, rbatch>>
        BY <1>2 DEF Drain
    <2>4. batch = {} /\ buffer # {}
        BY <1>0, <2>3 DEF BatchInv
    <2>5. (In(SegId) \cup rbatch \cup InWal \cup buffer \cup batch)' \subseteq acked' \cup mine'
        BY <1>00, <2>1, <2>2, <2>3
    <2> QED BY <1>0, <2>1, <2>3, <2>4, <2>5 DEF BatchInv
<1>3. CASE WriteSegment
    <2>1. Replaced(nextId, batch)
        BY <1>0, <1>3, SegmentIs
    <2>2. \A l : l \in In(SegId)' => l \in In(SegId) \cup batch
        BY <2>1 DEF Replaced, In
    <2>3. /\ pc = "write" /\ pc' = "save"
          /\ UNCHANGED <<wal, buffer, walBuf, batch, mine, acked, rpc, rbatch>>
        BY <1>3 DEF WriteSegment
    <2>4. InWal' = InWal
        BY <2>3 DEF InWal
    <2> QED BY <1>0, <1>00, <2>2, <2>3, <2>4 DEF BatchInv
<1>4. CASE SaveManifest
    <2>1. /\ pc = "save" /\ pc' = "trunc"
          /\ UNCHANGED <<wal, segs, buffer, walBuf, batch, mine, acked, rpc, rbatch>>
        BY <1>4 DEF SaveManifest
    <2>2. InWal' = InWal /\ In(SegId)' = In(SegId)
        BY <2>1, QuietIn DEF InWal
    <2> QED BY <1>0, <1>00, <2>1, <2>2 DEF BatchInv
<1>5. CASE Truncate
    <2>1. /\ pc = "trunc" /\ pc' = "run" /\ batch' = {} /\ mine' = {} /\ acked' = acked \cup mine
          /\ wal' = <<>> /\ UNCHANGED <<segs, buffer, walBuf, rpc, rbatch>>
        BY <1>5 DEF Truncate
    <2>2. InWal' \subseteq InWal
        <3>1. Len(wal') = 0
            BY <2>1
        <3> QED BY <2>1, <3>1 DEF InWal, Recovered
    <2>3. In(SegId)' = In(SegId)
        BY <2>1, QuietIn
    <2> QED BY <1>0, <1>00, <2>1, <2>2, <2>3 DEF BatchInv
<1>6. CASE Close
    <2>1. InWal' \subseteq InWal /\ walBuf' = <<>>
        BY <1>0, <1>6, EmptyIs
    <2>2. /\ pc = "run" /\ pc' = "closed" /\ buffer' = {}
          /\ UNCHANGED <<segs, batch, mine, acked, rpc, rbatch>>
        BY <1>6 DEF Close
    <2>3. In(SegId)' = In(SegId)
        BY <2>2, QuietIn
    <2> QED BY <1>0, <1>00, <2>1, <2>2, <2>3 DEF BatchInv
<1>7. CASE Load \/ Resave
    <2>1. /\ UNCHANGED <<wal, segs, buffer, walBuf, batch, mine, acked, pc, rbatch>>
          /\ rpc' # "write"
        BY <1>7 DEF Load, Resave
    <2>2. InWal' = InWal /\ In(SegId)' = In(SegId)
        BY <2>1, QuietIn DEF InWal
    <2> QED BY <1>0, <1>00, <2>1, <2>2 DEF BatchInv
<1>8. CASE ReadWal
    <2>1. /\ UNCHANGED <<wal, segs, buffer, walBuf, batch, mine, acked, pc>>
          /\ rbatch' = Recovered(wal) /\ (rpc' = "write" => rbatch' # {})
        BY <1>8 DEF ReadWal
    <2>2. InWal' = InWal /\ In(SegId)' = In(SegId) /\ rbatch' \subseteq InWal
        BY <2>1, QuietIn DEF InWal
    <2> QED BY <1>0, <1>00, <2>1, <2>2 DEF BatchInv
<1>9. CASE Rewrite
    <2>1. Replaced(rnext, rbatch)
        BY <1>0, <1>9, SegmentIs
    <2>2. \A l : l \in In(SegId)' => l \in In(SegId) \cup rbatch
        BY <2>1 DEF Replaced, In
    <2>3. /\ rpc' = "save"
          /\ UNCHANGED <<wal, buffer, walBuf, batch, mine, acked, pc, rbatch>>
        BY <1>9 DEF Rewrite
    <2>4. InWal' = InWal
        BY <2>3 DEF InWal
    <2> QED BY <1>0, <1>00, <2>2, <2>3, <2>4 DEF BatchInv
<1>10. CASE CutWal
    <2>1. /\ UNCHANGED <<segs, buffer, walBuf, batch, mine, acked, pc, rbatch>>
          /\ wal' = <<>> /\ rpc' = "query"
        BY <1>10 DEF CutWal
    <2>2. InWal' \subseteq InWal
        <3>1. Len(wal') = 0
            BY <2>1
        <3> QED BY <2>1, <3>1 DEF InWal, Recovered
    <2>3. In(SegId)' = In(SegId)
        BY <2>1, QuietIn
    <2> QED BY <1>0, <1>00, <2>1, <2>2, <2>3 DEF BatchInv
<1>11. CASE Answer
    <2>1. /\ UNCHANGED <<wal, segs, buffer, walBuf, batch, mine, acked, pc>>
          /\ rbatch' = {} /\ rpc' = "off"
        BY <1>11 DEF Answer
    <2>2. InWal' = InWal /\ In(SegId)' = In(SegId)
        BY <2>1, QuietIn DEF InWal
    <2> QED BY <1>0, <1>00, <2>1, <2>2 DEF BatchInv
<1>12. CASE UNCHANGED vars
    <2>1. InWal' = InWal /\ In(SegId)' = In(SegId)
        BY <1>12, QuietIn DEF InWal, vars
    <2> QED BY <1>0, <1>00, <1>12, <2>1 DEF BatchInv, vars
<1> QED BY <1>1, <1>2, <1>3, <1>4, <1>5, <1>6, <1>7, <1>8, <1>9, <1>10, <1>11, <1>12
        DEF Next

\* A file that is cut has no lines and no holes.
LEMMA CutIs ==
    ASSUME wal' = <<>>
    PROVE  Recovered(wal') = {} /\ ToSet(wal') = {} /\ Len(wal') = 0
<1>1. Len(<<>>) = 0 /\ DOMAIN <<>> = {}
    OBVIOUS
<1>2. 1..0 = {}
    OBVIOUS
<1> QED BY <1>1, <1>2 DEF Recovered, ToSet

\* Every step keeps the descriptor at the end of the WAL until a reader has read it.
LEMMA WalStep ==
    ASSUME IInv, [Next]_vars
    PROVE  WalInv'
<1> USE DEF files, agent, reader
<1>0. TypeOK /\ BatchInv /\ WalInv
    BY DEF IInv
<1>1. CASE \E l \in Lines : AppendLine(l)
    <2>1. PICK l \in Lines : AppendLine(l)
        BY <1>1
    <2>2. /\ fd'.append \/ Len(wal') <= fd'.pos
          /\ InWal' \subseteq InWal \cup {l}
          /\ ~touched => AtEnd(wal', fd') /\ Hole \notin ToSet(wal')
        BY <1>0, <2>1, AppendIs
    <2>3. /\ pc = "run" /\ buffer' = buffer \cup {l}
          /\ exposed' = IF touched \/ Recovering THEN exposed \cup {l} ELSE exposed
          /\ UNCHANGED <<batch, rpc, rbatch, touched>>
        BY <2>1 DEF AppendLine
    <2>4. rpc \in {"write", "save", "trunc"} => exposed' = exposed \cup {l}
        BY <2>3 DEF Recovering
    <2> QED BY <1>0, <2>2, <2>3, <2>4 DEF WalInv, AtEnd
<1>2. CASE Drain
    <2>1. /\ fd'.append \/ Len(wal') <= fd'.pos
          /\ InWal' \subseteq InWal
          /\ ~touched => AtEnd(wal', fd') /\ Hole \notin ToSet(wal')
        BY <1>0, <1>2, EmptyIs
    <2>2. /\ batch' = buffer /\ pc = "drain" /\ pc' = "write"
          /\ UNCHANGED <<rpc, rbatch, touched, exposed>>
        BY <1>2 DEF Drain
    <2>3. batch = {}
        BY <1>0, <2>2 DEF BatchInv
    <2> QED BY <1>0, <2>1, <2>2, <2>3 DEF WalInv, AtEnd
<1>3. CASE WriteSegment \/ Resave
    <2>1. /\ UNCHANGED <<wal, fd, walBuf, touched, buffer, batch, rbatch, exposed>>
          /\ pc # "closed" <=> pc' # "closed"
          /\ rpc \in {"write", "save", "trunc"} <=> rpc' \in {"write", "save", "trunc"}
        BY <1>3 DEF WriteSegment, Resave
    <2>2. InWal' = InWal
        BY <2>1 DEF InWal
    <2> QED BY <1>0, <2>1, <2>2 DEF WalInv
<1>4. CASE SaveManifest
    <2>1. /\ UNCHANGED <<wal, fd, walBuf, touched, buffer, batch, rbatch, rpc>>
          /\ pc # "closed" /\ pc' # "closed"
          /\ Recovering => exposed' = exposed \cup batch
        BY <1>4 DEF SaveManifest
    <2>2. InWal' = InWal
        BY <2>1 DEF InWal
    <2>3. rpc \in {"write", "save", "trunc"} => Recovering
        BY DEF Recovering
    <2> QED BY <1>0, <2>1, <2>2, <2>3 DEF WalInv
<1>5. CASE Truncate
    <2>1. /\ pc = "trunc" /\ fd' = [append |-> FALSE, pos |-> 0] /\ wal' = <<>>
          /\ touched' = Recovering
          /\ UNCHANGED <<walBuf, rpc, rbatch, exposed>>
        BY <1>5 DEF Truncate, Reopened
    <2>2. walBuf = <<>>
        BY <1>0, <2>1 DEF BatchInv
    <2>3. InWal' = {} /\ ToSet(wal') = {} /\ Len(wal') = 0 /\ fd'.pos = 0
        BY <2>1, <2>2, CutIs DEF InWal, ToSet
    <2>4. Len(wal') <= fd'.pos /\ fd'.pos = Len(wal') /\ Hole \notin ToSet(wal')
        BY <2>3
    <2>5. ~touched' => rpc' \notin {"write", "save", "trunc"}
        BY <2>1 DEF Recovering
    <2> QED BY <2>3, <2>4, <2>5 DEF WalInv
<1>6. CASE Close
    <2>1. /\ InWal' \subseteq InWal
          /\ ~touched => Hole \notin ToSet(wal')
        BY <1>0, <1>6, EmptyIs
    <2>2. /\ pc' = "closed"
          /\ UNCHANGED <<rpc, rbatch, touched, exposed>>
        BY <1>6 DEF Close
    <2> QED BY <1>0, <2>1, <2>2 DEF WalInv
<1>7. CASE Load \/ Answer
    <2>1. /\ UNCHANGED <<wal, fd, walBuf, touched, buffer, batch, exposed, pc>>
          /\ rpc' \in {"read", "off"}
        BY <1>7 DEF Load, Answer
    <2>2. InWal' = InWal
        BY <2>1 DEF InWal
    <2> QED BY <1>0, <2>1, <2>2 DEF WalInv
<1>8. CASE ReadWal
    <2>1. /\ UNCHANGED <<wal, fd, walBuf, buffer, batch, pc>> /\ rbatch' = Recovered(wal)
          /\ \/ rpc' = "query" /\ UNCHANGED <<touched, exposed>>
             \/ /\ rpc' = "write" /\ touched' = TRUE
                /\ exposed' = exposed \cup (buffer \ rbatch')
        BY <1>8 DEF ReadWal
    <2>2. InWal' = InWal /\ InWal = rbatch' \cup ToSet(walBuf)
        BY <2>1 DEF InWal
    <2>3. ToSet(walBuf) \subseteq buffer
        <3>1. CASE batch = {} /\ pc # "closed"
            BY <1>0, <3>1 DEF WalInv, InWal
        <3>2. CASE batch # {} \/ pc = "closed"
            <4>1. walBuf = <<>>
                BY <1>0, <3>2 DEF BatchInv, TypeOK
            <4> QED BY <4>1 DEF ToSet
        <3> QED BY <3>1, <3>2
    <2> QED BY <1>0, <2>1, <2>2, <2>3 DEF WalInv
<1>9. CASE Rewrite
    <2>1. /\ UNCHANGED <<wal, fd, walBuf, touched, buffer, batch, exposed, pc, rbatch>>
          /\ rpc = "write" /\ rpc' = "save"
        BY <1>9 DEF Rewrite
    <2>2. InWal' = InWal
        BY <2>1 DEF InWal
    <2> QED BY <1>0, <2>1, <2>2 DEF WalInv
<1>10. CASE CutWal
    <2>1. /\ UNCHANGED <<fd, walBuf, touched, buffer, batch, exposed, pc>>
          /\ rpc = "trunc" /\ rpc' = "query" /\ wal' = <<>>
        BY <1>10 DEF CutWal
    <2>2. InWal' \subseteq InWal /\ Len(wal') = 0
        BY <2>1, CutIs DEF InWal
    <2>3. touched
        BY <1>0, <2>1 DEF WalInv
    <2>4. fd.pos \in Nat
        BY <1>0 DEF TypeOK
    <2> QED BY <1>0, <2>1, <2>2, <2>3, <2>4 DEF WalInv
<1>11. CASE UNCHANGED vars
    <2>1. InWal' = InWal
        BY <1>11 DEF InWal, vars
    <2> QED BY <1>0, <1>11, <2>1 DEF WalInv, vars
<1> QED BY <1>1, <1>2, <1>3, <1>4, <1>5, <1>6, <1>7, <1>8, <1>9, <1>10, <1>11 DEF Next

\* No step takes away a line that the next open would serve, or that is exposed: it is
\* one or the other afterwards.
LEMMA GrowStep ==
    ASSUME IInv, [Next]_vars
    PROVE  Recoverable \cup exposed \subseteq Recoverable' \cup exposed'
<1> USE DEF files, agent, reader
<1>0. /\ TypeOK /\ IdInv /\ BatchInv /\ WalInv /\ SafeInv /\ OwnInv /\ ListedInv /\ RescueInv
    BY DEF IInv
<1>00. /\ Loaded \subseteq SegId /\ list \subseteq SegId /\ rlist \subseteq SegId
       /\ Recovered(wal) \subseteq InWal
    BY <1>0, IdsAre DEF TypeOK, InWal
<1>1. CASE \E l \in Lines : AppendLine(l)
    <2>1. PICK l \in Lines : AppendLine(l)
        BY <1>1
    <2>2. Recovered(wal) \subseteq Recovered(wal')
        BY <1>0, <2>1, AppendIs
    <2>3. segs' = segs /\ manifest' = manifest /\ exposed \subseteq exposed'
        BY <2>1 DEF AppendLine
    <2>4. Loaded' = Loaded
        BY <2>3, QuietLoaded
    <2> QED BY <2>2, <2>3, <2>4 DEF Recoverable, In
<1>2. CASE Drain \/ Close
    <2>1. Recovered(wal) \subseteq Recovered(wal')
        BY <1>0, <1>2, EmptyIs
    <2>2. segs' = segs /\ manifest' = manifest /\ exposed' = exposed
        BY <1>2 DEF Drain, Close
    <2>3. Loaded' = Loaded
        BY <2>2, QuietLoaded
    <2> QED BY <2>1, <2>2, <2>3 DEF Recoverable, In
<1>3. CASE WriteSegment
    <2>1. /\ Loaded \subseteq Loaded'
          /\ \A j \in SegId : segs'[j] = IF j = nextId THEN batch ELSE segs[j]
        BY <1>0, <1>3, SegmentIs DEF Replaced
    <2>2. /\ pc = "write" /\ wal' = wal /\ exposed' = exposed /\ buffer = {} /\ nextId \in SegId
        BY <1>0, <1>3 DEF WriteSegment, BatchInv
    <2>3. \A k \in SegId : k \in Loaded /\ k # nextId => segs[k] \subseteq Recoverable'
        BY <2>1 DEF Recoverable, In
    <2>4. Recovered(wal) \subseteq Recoverable'
        BY <2>2 DEF Recoverable
    <2>5. nextId \notin list
        BY <1>0, IdsAre
    <2>6. In(Kept) \subseteq Recoverable'
        BY <1>00, <2>3, <2>5 DEF Kept, In
    <2>7. ASSUME NEW k \in list PROVE segs[k] \subseteq Recoverable' \cup exposed'
        <3>1. k \in Loaded \/ Droppable(k) \/ (rpc = "save" /\ segs[k] = rbatch)
            BY <1>0 DEF ListedInv
        <3>2. rpc = "save" => rbatch \subseteq exposed \cup Recovered(wal) \cup In(Kept)
            BY <1>0 DEF RescueInv
        <3> QED BY <1>00, <2>2, <2>3, <2>4, <2>5, <2>6, <3>1, <3>2 DEF Droppable
    <2>8. nextId \in Loaded => segs[nextId] \subseteq Recoverable' \cup exposed'
        <3>1. segs[nextId] \subseteq batch \cup In(list) \cup exposed
            BY <1>0, <2>2 DEF OwnInv, Own, In
        <3>2. nextId \in Loaded => batch \subseteq Recoverable'
            BY <2>1, <2>2 DEF Recoverable, In
        <3>3. In(list) \subseteq Recoverable' \cup exposed'
            BY <2>7 DEF In
        <3> QED BY <2>2, <3>1, <3>2, <3>3
    <2>9. In(Loaded) \subseteq Recoverable' \cup exposed'
        BY <1>00, <2>3, <2>8 DEF In
    <2> QED BY <2>2, <2>4, <2>9 DEF Recoverable
<1>4. CASE SaveManifest
    <2>1. /\ pc = "save" /\ segs' = segs /\ exposed \ In(list) \subseteq exposed' /\ buffer = {}
        BY <1>0, <1>4 DEF SaveManifest, BatchInv
    <2>2. Loaded' = list
        BY <1>4, SaveLoaded
    <2>3. In(list) \subseteq Recoverable'
        BY <2>1, <2>2 DEF Recoverable, In
    <2>4. In(Loaded) \subseteq In(SegId)
        BY <1>00 DEF In
    <2>5. In(SegId) \subseteq batch \cup In(list) \cup exposed
        BY <1>0, <2>1 DEF OwnInv, Own
    <2>6. Recovered(wal) \subseteq batch
        BY <1>0, <1>00, <2>1 DEF WalInv
    <2>7. batch \subseteq In(list) \cup exposed
        BY <1>0, <2>1 DEF OwnInv
    <2>8. Recoverable \cup exposed \subseteq In(list) \cup exposed
        BY <2>4, <2>5, <2>6, <2>7 DEF Recoverable
    <2> QED BY <2>1, <2>3, <2>8
<1>5. CASE Truncate
    <2>1. pc = "trunc" /\ segs' = segs /\ manifest' = manifest /\ exposed' = exposed /\ buffer = {}
        BY <1>0, <1>5 DEF Truncate, BatchInv
    <2>2. Loaded' = Loaded
        BY <2>1, QuietLoaded
    <2>3. In(Loaded) \subseteq Recoverable'
        BY <2>1, <2>2 DEF Recoverable, In
    <2>4. Recovered(wal) \subseteq batch
        BY <1>0, <1>00, <2>1 DEF WalInv
    <2>5. batch \subseteq In(list) \cup exposed
        BY <1>0, <2>1 DEF OwnInv
    <2>6. batch \subseteq exposed \/ list \subseteq Loaded
        BY <1>0, <2>1 DEF ListedInv
    <2>7. list \subseteq Loaded => In(list) \subseteq In(Loaded)
        BY DEF In
    <2> QED BY <2>1, <2>3, <2>4, <2>5, <2>6, <2>7 DEF Recoverable
<1>6. CASE Load
    <2>1. wal' = wal /\ segs' = segs /\ exposed' = exposed
        BY <1>6 DEF Load
    <2>2. Loaded' = Loaded
        BY <1>0, <1>6, LoadLoaded
    <2> QED BY <2>1, <2>2 DEF Recoverable, In
<1>7. CASE ReadWal \/ Answer \/ UNCHANGED vars
    <2>1. wal' = wal /\ segs' = segs /\ manifest' = manifest /\ exposed \subseteq exposed'
        BY <1>7 DEF ReadWal, Answer, vars
    <2>2. Loaded' = Loaded
        BY <2>1, QuietLoaded
    <2> QED BY <2>1, <2>2 DEF Recoverable, In
<1>8. CASE Rewrite
    <2>1. /\ Loaded \subseteq Loaded'
          /\ \A j \in SegId : segs'[j] = IF j = rnext THEN rbatch ELSE segs[j]
        BY <1>0, <1>8, SegmentIs DEF Replaced
    <2>2. rpc = "write" /\ wal' = wal /\ exposed' = exposed /\ rnext \in SegId
        BY <1>8 DEF Rewrite
    <2>3. \A k \in SegId : k \in Loaded /\ k # rnext => segs[k] \subseteq Recoverable'
        BY <2>1 DEF Recoverable, In
    <2>4. Recovered(wal) \subseteq Recoverable'
        BY <2>2 DEF Recoverable
    <2>5. rnext \in Loaded => segs[rnext] \subseteq Recoverable' \cup exposed'
        <3> SUFFICES ASSUME rnext \in Loaded PROVE segs[rnext] \subseteq Recoverable' \cup exposed'
            OBVIOUS
        <3>1. rnext \in list /\ Droppable(rnext)
            BY <1>0, <2>2, IdsAre DEF ListedInv
        <3>2. CASE segs[rnext] \subseteq exposed
            BY <2>2, <3>2
        <3>3. CASE pc = "save" /\ rnext = nextId - 1 /\ segs[rnext] \subseteq batch
            <4>1. batch \subseteq rbatch \cup exposed \cup In({j \in rlist : j < rnext})
                BY <1>0, <2>2 DEF SafeInv
            <4>2. rbatch \subseteq Recoverable'
                BY <2>1, <2>2 DEF Recoverable, In
            <4>3. ASSUME NEW i \in rlist, i < rnext PROVE segs[i] \subseteq Recoverable'
                <5>1. i \in list /\ i # rnext /\ i # nextId - 1 /\ i \in SegId
                    <6>1. /\ nextId \in Nat /\ rnext \in Nat /\ i \in Nat /\ i \in SegId /\ i >= 1
                          /\ \A j \in Nat : j >= 1 /\ j < nextId => j \in list
                        BY <1>0, IdsAre DEF SegId
                    <6>2. i < nextId /\ i # rnext /\ i # nextId - 1
                        BY <3>3, <4>3, <6>1
                    <6> QED BY <6>1, <6>2
                <5>2. i \in Loaded
                    BY <1>0, <2>2, <4>3, <5>1 DEF IdInv
                <5> QED BY <2>3, <5>1, <5>2
            <4>4. In({j \in rlist : j < rnext}) \subseteq Recoverable'
                BY <4>3 DEF In
            <4> QED BY <2>2, <3>3, <4>1, <4>2, <4>4
        <3> QED BY <3>1, <3>2, <3>3 DEF Droppable
    <2>6. In(Loaded) \subseteq Recoverable' \cup exposed'
        BY <1>00, <2>3, <2>5 DEF In
    <2> QED BY <2>2, <2>4, <2>6 DEF Recoverable
<1>9. CASE Resave
    <2>1. rpc = "save" /\ wal' = wal /\ segs' = segs /\ exposed' = exposed
        BY <1>9 DEF Resave
    <2>2. Loaded' = rlist
        BY <1>9, SaveLoaded
    <2>3. In(rlist) \subseteq Recoverable'
        BY <2>1, <2>2 DEF Recoverable, In
    <2>4. rnext \in rlist
        BY <1>0, <2>1, IdsAre DEF IdInv
    <2>5. rbatch \subseteq exposed \cup segs[rnext] \cup In(Kept)
        BY <1>0, <2>1 DEF RescueInv
    <2>6. In(Kept) \subseteq In(rlist) /\ segs[rnext] \subseteq In(rlist)
          /\ In({j \in rlist : j < rnext}) \subseteq In(rlist)
        BY <2>4 DEF In, Kept
    <2>7. buffer \cup batch \subseteq rbatch \cup exposed \cup In({j \in rlist : j < rnext})
        BY <1>0, <2>1 DEF SafeInv
    <2>8. ASSUME NEW k \in Loaded, k \notin rlist PROVE segs[k] \subseteq exposed \cup batch
        BY <1>0, <2>1, <2>8 DEF ListedInv, Droppable
    <2>9. In(Loaded) \subseteq In(rlist) \cup exposed \cup batch
        BY <2>8 DEF In
    <2> QED BY <2>1, <2>3, <2>5, <2>6, <2>7, <2>9 DEF Recoverable
<1>10. CASE CutWal
    <2>1. rpc = "trunc" /\ segs' = segs /\ manifest' = manifest /\ exposed' = exposed
        BY <1>10 DEF CutWal
    <2>2. Loaded' = Loaded
        BY <2>1, QuietLoaded
    <2>3. In(Loaded) \subseteq Recoverable'
        BY <2>1, <2>2 DEF Recoverable, In
    <2>4. Recovered(wal) \subseteq rbatch \cup exposed
        BY <1>0, <1>00, <2>1 DEF WalInv
    <2>5. rbatch \subseteq exposed \cup In(Loaded)
        BY <1>0, <2>1 DEF RescueInv
    <2> QED BY <2>1, <2>3, <2>4, <2>5 DEF Recoverable
<1> QED BY <1>1, <1>2, <1>3, <1>4, <1>5, <1>6, <1>7, <1>8, <1>9, <1>10 DEF Next

\* A line in the BufWriter is in the buffer too.
LEMMA BufWriterIs ==
    ASSUME TypeOK, BatchInv, WalInv
    PROVE  ToSet(walBuf) \subseteq buffer
<1>1. CASE batch = {} /\ pc # "closed"
    BY <1>1 DEF WalInv, InWal
<1>2. CASE batch # {} \/ pc = "closed"
    <2>1. walBuf = <<>>
        BY <1>2 DEF BatchInv, TypeOK
    <2> QED BY <2>1 DEF ToSet
<1> QED BY <1>1, <1>2

\* Every step keeps what the next open and a running recovery need.
LEMMA SafeStep ==
    ASSUME IInv, [Next]_vars
    PROVE  SafeInv'
<1> USE DEF files, agent, reader
<1>0. TypeOK /\ IdInv /\ BatchInv /\ WalInv /\ SafeInv /\ ListedInv
    BY DEF IInv
<1>00. Loaded \subseteq SegId /\ rlist \subseteq SegId
    BY <1>0, IdsAre DEF TypeOK
<1>1. Recoverable \cup exposed \subseteq Recoverable' \cup exposed'
    BY GrowStep
<1>2. /\ acked \cup buffer \cup batch \subseteq
           Recoverable \cup exposed \cup (IF touched THEN {} ELSE ToSet(walBuf))
      /\ rpc = "read" => buffer \cup batch \subseteq InWal \cup exposed \cup In(rlist)
      /\ rpc \in {"write", "save", "trunc"} =>
           buffer \cup batch \subseteq rbatch \cup exposed \cup In({j \in rlist : j < rnext})
    BY <1>0 DEF SafeInv
<1>3. walBuf = <<>> => ToSet(walBuf) = {}
    BY DEF ToSet
<1>4. ASSUME rpc = "read", pc # "save" PROVE In(Loaded) \subseteq In(rlist) \cup exposed
    <2>1. ASSUME NEW k \in Loaded, k \notin rlist PROVE segs[k] \subseteq exposed
        BY <1>0, <1>4, <2>1 DEF ListedInv, Droppable
    <2> QED BY <2>1 DEF In
<1>5. CASE \E l \in Lines : AppendLine(l)
    <2>1. PICK l \in Lines : AppendLine(l)
        BY <1>5
    <2>2. /\ Recovered(wal) \subseteq Recovered(wal')
          /\ ~touched => InWal \cup {l} \subseteq InWal'
        BY <1>0, <2>1, AppendIs
    <2>3. /\ acked' \cup buffer' \cup batch' \subseteq acked \cup buffer \cup batch \cup {l}
          /\ buffer' \cup batch' \subseteq buffer \cup batch \cup {l} /\ pc = "run"
          /\ exposed' = IF touched \/ Recovering THEN exposed \cup {l} ELSE exposed
          /\ UNCHANGED <<segs, rpc, rlist, rnext, rbatch, touched>>
        BY <2>1 DEF AppendLine
    <2>4. acked' \cup buffer' \cup batch' \subseteq
            Recoverable' \cup exposed' \cup (IF touched THEN {} ELSE ToSet(walBuf'))
        <3>1. CASE touched
            BY <1>1, <1>2, <2>3, <3>1
        <3>2. CASE ~touched
            <4>1. ToSet(walBuf) \cup {l} \subseteq Recovered(wal') \cup ToSet(walBuf')
                BY <2>2, <3>2 DEF InWal
            <4>2. Recovered(wal') \subseteq Recoverable'
                BY DEF Recoverable
            <4> QED BY <1>1, <1>2, <2>3, <3>2, <4>1, <4>2
        <3> QED BY <3>1, <3>2
    <2>5. ASSUME rpc = "read"
          PROVE  buffer' \cup batch' \subseteq InWal' \cup exposed' \cup In(rlist)
        <3>1. exposed' = exposed \cup {l}
            BY <2>3, <2>5 DEF Recovering
        <3>2. CASE touched
            <4>1. buffer \cup batch \subseteq In(Loaded) \cup Recovered(wal) \cup exposed
                BY <1>2, <3>2 DEF Recoverable
            <4>2. In(Loaded) \subseteq In(rlist) \cup exposed
                BY <1>4, <2>3, <2>5
            <4>3. Recovered(wal) \subseteq InWal'
                BY <2>2 DEF InWal
            <4> QED BY <2>3, <3>1, <4>1, <4>2, <4>3
        <3>3. CASE ~touched
            BY <1>2, <2>2, <2>3, <2>5, <3>1, <3>3
        <3> QED BY <3>2, <3>3
    <2>6. rpc \in {"write", "save", "trunc"} =>
            buffer' \cup batch' \subseteq rbatch \cup exposed' \cup In({j \in rlist : j < rnext})
        BY <1>2, <2>3 DEF Recovering
    <2> QED BY <2>3, <2>4, <2>5, <2>6 DEF SafeInv, In
<1>6. CASE Drain \/ Close
    <2>1. /\ Recovered(wal) \subseteq Recovered(wal') /\ ToSet(walBuf') = {}
          /\ InWal' = Recovered(wal')
          /\ ~touched => InWal \subseteq InWal'
        BY <1>0, <1>6, EmptyIs
    <2>2. /\ buffer' \cup batch' \subseteq buffer \cup batch /\ pc # "save"
          /\ UNCHANGED <<segs, rpc, rlist, rnext, rbatch, touched, exposed, acked>>
        BY <1>6 DEF Drain, Close
    <2>3. acked' \cup buffer' \cup batch' \subseteq Recoverable' \cup exposed'
        <3>1. CASE touched
            BY <1>1, <1>2, <2>2, <3>1
        <3>2. CASE ~touched
            <4>1. ToSet(walBuf) \subseteq Recoverable'
                BY <2>1, <3>2 DEF InWal, Recoverable
            <4> QED BY <1>1, <1>2, <2>2, <4>1
        <3> QED BY <3>1, <3>2
    <2>4. ASSUME rpc = "read"
          PROVE  buffer' \cup batch' \subseteq InWal' \cup exposed' \cup In(rlist)
        <3>1. CASE touched
            <4>1. buffer \cup batch \subseteq In(Loaded) \cup Recovered(wal) \cup exposed
                BY <1>2, <3>1 DEF Recoverable
            <4>2. In(Loaded) \subseteq In(rlist) \cup exposed
                BY <1>4, <2>2, <2>4
            <4> QED BY <2>1, <2>2, <4>1, <4>2
        <3>2. CASE ~touched
            BY <1>2, <2>1, <2>2, <2>4, <3>2
        <3> QED BY <3>1, <3>2
    <2>5. rpc \in {"write", "save", "trunc"} =>
            buffer' \cup batch' \subseteq rbatch \cup exposed' \cup In({j \in rlist : j < rnext})
        BY <1>2, <2>2
    <2> QED BY <2>2, <2>3, <2>4, <2>5 DEF SafeInv, In
<1>7. CASE WriteSegment
    <2>1. \A j \in SegId : segs'[j] = IF j = nextId THEN batch ELSE segs[j]
        BY <1>0, <1>7, SegmentIs DEF Replaced
    <2>2. /\ ToSet(walBuf) = {} /\ buffer = {} /\ nextId \in SegId
          /\ UNCHANGED <<wal, walBuf, acked, buffer, batch, rpc, rlist, rnext, rbatch, touched, exposed>>
        BY <1>0, <1>3, <1>7 DEF WriteSegment, BatchInv
    <2>3. acked' \cup buffer' \cup batch' \subseteq Recoverable' \cup exposed'
        BY <1>1, <1>2, <2>2
    <2>4. ASSUME NEW S, S \subseteq SegId
          PROVE  batch \cap In(S) \subseteq UNION {segs'[i] : i \in S}
        BY <2>1, <2>4 DEF In
    <2>5. batch \cap In(rlist) \subseteq In(rlist)'
        BY <1>00, <2>2, <2>4 DEF In
    <2>6. batch \cap In({j \in rlist : j < rnext}) \subseteq In({j \in rlist : j < rnext})'
        <3>1. {j \in rlist : j < rnext} \subseteq SegId
            BY <1>00
        <3> QED BY <2>2, <2>4, <3>1 DEF In
    <2>7. InWal' = InWal
        BY <2>2 DEF InWal
    <2> QED BY <1>2, <2>2, <2>3, <2>5, <2>6, <2>7 DEF SafeInv
<1>8. CASE SaveManifest
    <2>1. /\ ToSet(walBuf) = {} /\ buffer = {} /\ buffer' = {} /\ batch' = batch
          /\ Recovering => exposed' = exposed \cup batch
          /\ UNCHANGED <<walBuf, acked, rpc, touched>>
        BY <1>0, <1>3, <1>8 DEF SaveManifest, BatchInv
    <2>2. acked' \cup buffer' \cup batch' \subseteq Recoverable' \cup exposed'
        BY <1>1, <1>2, <2>1
    <2>3. rpc \in {"read", "write", "save", "trunc"} => buffer' \cup batch' \subseteq exposed'
        BY <2>1 DEF Recovering
    <2> QED BY <2>1, <2>2, <2>3 DEF SafeInv
<1>9. CASE Truncate
    <2>1. /\ buffer' = {} /\ batch' = {} /\ acked' \subseteq acked \cup buffer \cup batch
          /\ ToSet(walBuf) = {}
        BY <1>0, <1>3, <1>9 DEF Truncate, BatchInv
    <2>2. acked' \cup buffer' \cup batch' \subseteq Recoverable' \cup exposed'
        BY <1>1, <1>2, <2>1
    <2> QED BY <2>1, <2>2 DEF SafeInv
<1>10. CASE Load
    <2>1. /\ UNCHANGED <<wal, walBuf, segs, buffer, batch, acked, touched, exposed>>
          /\ rpc' = "read" /\ rlist' = Loaded
        BY <1>10 DEF Load
    <2>2. acked' \cup buffer' \cup batch' \subseteq
            Recoverable' \cup exposed' \cup (IF touched' THEN {} ELSE ToSet(walBuf'))
        BY <1>1, <1>2, <2>1
    <2>3. buffer \cup batch \subseteq InWal \cup exposed \cup In(Loaded)
        BY <1>2 DEF Recoverable, InWal
    <2>4. InWal' = InWal /\ In(rlist)' = In(Loaded)
        BY <2>1 DEF InWal, In
    <2> QED BY <2>1, <2>2, <2>3, <2>4 DEF SafeInv
<1>11. CASE ReadWal
    <2>1. /\ UNCHANGED <<wal, walBuf, segs, buffer, batch, acked, rlist, rnext>>
          /\ rbatch' = Recovered(wal) /\ rpc = "read"
          /\ \/ rpc' = "query" /\ UNCHANGED <<touched, exposed>>
             \/ /\ rpc' = "write" /\ touched' = TRUE
                /\ exposed' = exposed \cup (buffer \ rbatch')
        BY <1>11 DEF ReadWal
    <2>2. ToSet(walBuf) \subseteq buffer
        BY <1>0, BufWriterIs
    <2>3. rbatch' \subseteq Recoverable'
        BY <2>1 DEF Recoverable
    <2>4. acked' \cup buffer' \cup batch' \subseteq
            Recoverable' \cup exposed' \cup (IF touched' THEN {} ELSE ToSet(walBuf'))
        <3>1. CASE rpc' = "query" /\ UNCHANGED <<touched, exposed>>
            BY <1>1, <1>2, <2>1, <3>1
        <3>2. CASE rpc' = "write"
            <4>1. ToSet(walBuf) \subseteq Recoverable' \cup exposed'
                BY <2>1, <2>2, <2>3, <3>2
            <4>2. acked' \cup buffer' \cup batch' \subseteq Recoverable' \cup exposed'
                BY <1>1, <1>2, <2>1, <4>1
            <4> QED BY <2>1, <3>2, <4>2
        <3> QED BY <2>1, <3>1, <3>2
    <2>5. ASSUME rpc' = "write"
          PROVE  buffer' \cup batch' \subseteq rbatch' \cup exposed' \cup In({j \in rlist : j < rnext})'
        <3>1. \A j \in rlist : j < rnext
            BY <1>0, <2>1, IdsAre
        <3>2. {j \in rlist : j < rnext} = rlist
            BY <3>1
        <3>3. In({j \in rlist : j < rnext})' = In(rlist)
            BY <2>1, <3>2 DEF In
        <3>4. exposed' = exposed \cup (buffer \ rbatch')
            BY <2>1, <2>5
        <3>5. InWal = rbatch' \cup ToSet(walBuf)
            BY <2>1 DEF InWal
        <3> QED BY <1>2, <2>1, <2>2, <3>3, <3>4, <3>5
    <2> QED BY <2>1, <2>4, <2>5 DEF SafeInv
<1>12. CASE Rewrite
    <2>1. \A j \in SegId : segs'[j] = IF j = rnext THEN rbatch ELSE segs[j]
        BY <1>0, <1>12, SegmentIs DEF Replaced
    <2>2. /\ UNCHANGED <<walBuf, acked, buffer, batch, rnext, rbatch, touched, exposed>>
          /\ rpc = "write" /\ rpc' = "save" /\ rlist' = rlist \cup {rnext}
        BY <1>12 DEF Rewrite
    <2>3. rnext \in Nat
        BY <1>0, IdsAre
    <2>4. {j \in rlist' : j < rnext'} = {j \in rlist : j < rnext}
        BY <2>2, <2>3
    <2>5. \A j \in {i \in rlist : i < rnext} : segs'[j] = segs[j]
        BY <1>00, <2>1, <2>3
    <2>6. In({j \in rlist : j < rnext})' = In({j \in rlist : j < rnext})
        BY <2>4, <2>5 DEF In
    <2>7. acked' \cup buffer' \cup batch' \subseteq
            Recoverable' \cup exposed' \cup (IF touched' THEN {} ELSE ToSet(walBuf'))
        BY <1>1, <1>2, <2>2
    <2> QED BY <1>2, <2>2, <2>6, <2>7 DEF SafeInv
<1>13. CASE Resave
    <2>1. /\ UNCHANGED <<walBuf, segs, acked, buffer, batch, rlist, rnext, rbatch, touched, exposed>>
          /\ rpc = "save" /\ rpc' = "trunc"
        BY <1>13 DEF Resave
    <2>2. acked' \cup buffer' \cup batch' \subseteq
            Recoverable' \cup exposed' \cup (IF touched' THEN {} ELSE ToSet(walBuf'))
        BY <1>1, <1>2, <2>1
    <2>3. In({j \in rlist : j < rnext})' = In({j \in rlist : j < rnext})
        BY <2>1 DEF In
    <2> QED BY <1>2, <2>1, <2>2, <2>3 DEF SafeInv
<1>14. CASE CutWal \/ Answer
    <2>1. /\ UNCHANGED <<walBuf, acked, buffer, batch, touched, exposed>>
          /\ rpc' \in {"query", "off"}
        BY <1>14 DEF CutWal, Answer
    <2>2. acked' \cup buffer' \cup batch' \subseteq
            Recoverable' \cup exposed' \cup (IF touched' THEN {} ELSE ToSet(walBuf'))
        BY <1>1, <1>2, <2>1
    <2> QED BY <2>1, <2>2 DEF SafeInv
<1>15. CASE UNCHANGED vars
    <2>1. UNCHANGED <<wal, segs, manifest, walBuf, acked, buffer, batch, touched, exposed, rpc,
                      rlist, rnext, rbatch>>
        BY <1>15 DEF vars
    <2>2. Recoverable' = Recoverable /\ InWal' = InWal /\ In(rlist)' = In(rlist)
          /\ In({j \in rlist : j < rnext})' = In({j \in rlist : j < rnext})
        BY <2>1 DEF Recoverable, InWal, In, Loaded
    <2> QED BY <1>2, <2>1, <2>2 DEF SafeInv
<1> QED BY <1>5, <1>6, <1>7, <1>8, <1>9, <1>10, <1>11, <1>12, <1>13, <1>14, <1>15 DEF Next

\* Every step keeps what the agent's own engine has.
LEMMA OwnStep ==
    ASSUME IInv, [Next]_vars
    PROVE  OwnInv'
<1> USE DEF files, agent, reader
<1>0. TypeOK /\ IdInv /\ BatchInv /\ WalInv /\ SafeInv /\ OwnInv /\ ListedInv
    BY DEF IInv
<1>00. list \subseteq SegId /\ rlist \subseteq SegId
    BY <1>0 DEF TypeOK
<1>1. /\ pc # "closed" =>
           acked \cup In(SegId) \cup rbatch \subseteq buffer \cup batch \cup In(list) \cup exposed
      /\ pc \in {"save", "trunc"} => batch \subseteq In(list) \cup exposed
    BY <1>0 DEF OwnInv, Own
<1>2. ASSUME pc # "closed", pc' # "closed",
             acked' \cup In(SegId)' \cup rbatch' \subseteq
               acked \cup In(SegId) \cup rbatch \cup buffer' \cup batch' \cup In(list)' \cup exposed',
             buffer \cup batch \cup In(list) \cup exposed \subseteq
               buffer' \cup batch' \cup In(list)' \cup exposed',
             pc' \in {"save", "trunc"} => batch' \subseteq In(list)' \cup exposed'
      PROVE  OwnInv'
    BY <1>1, <1>2 DEF OwnInv, Own
<1>3. CASE \E l \in Lines : AppendLine(l)
    <2>1. PICK l \in Lines : AppendLine(l)
        BY <1>3
    <2>2. /\ pc = "run" /\ pc' \in {"run", "drain"} /\ buffer' = buffer \cup {l}
          /\ acked' \subseteq acked \cup {l} /\ exposed \subseteq exposed'
          /\ UNCHANGED <<segs, batch, list, rbatch>>
        BY <2>1 DEF AppendLine
    <2>3. In(SegId)' = In(SegId) /\ In(list)' = In(list)
        BY <2>2 DEF In
    <2> QED BY <1>2, <2>2, <2>3
<1>4. CASE Drain
    <2>1. /\ pc = "drain" /\ pc' = "write" /\ batch' = buffer /\ batch = {}
          /\ UNCHANGED <<segs, acked, list, rbatch, exposed>>
        BY <1>0, <1>4 DEF Drain, BatchInv
    <2>2. In(SegId)' = In(SegId) /\ In(list)' = In(list)
        BY <2>1 DEF In
    <2> QED BY <1>2, <2>1, <2>2
<1>5. CASE WriteSegment
    <2>1. \A j \in SegId : segs'[j] = IF j = nextId THEN batch ELSE segs[j]
        BY <1>0, <1>5, SegmentIs DEF Replaced
    <2>2. /\ pc = "write" /\ pc' = "save" /\ list' = list \cup {nextId} /\ nextId \in SegId
          /\ UNCHANGED <<acked, buffer, batch, rbatch, exposed>>
        BY <1>5 DEF WriteSegment
    <2>3. nextId \notin list
        BY <1>0, IdsAre
    <2>4. In(SegId)' \subseteq In(SegId) \cup batch
        BY <2>1 DEF In
    <2>5. In(list) \subseteq In(list)'
        BY <1>00, <2>1, <2>2, <2>3 DEF In
    <2>6. batch' \subseteq In(list)'
        BY <2>1, <2>2 DEF In
    <2> QED BY <1>2, <2>2, <2>4, <2>5, <2>6
<1>6. CASE SaveManifest
    <2>1. /\ pc = "save" /\ pc' = "trunc" /\ exposed \ In(list) \subseteq exposed'
          /\ UNCHANGED <<segs, acked, buffer, batch, list, rbatch>>
        BY <1>6 DEF SaveManifest
    <2>2. In(SegId)' = In(SegId) /\ In(list)' = In(list)
        BY <2>1 DEF In
    <2>3. batch' \subseteq In(list)' \cup exposed'
        BY <1>1, <2>1, <2>2
    <2> QED BY <1>2, <2>1, <2>2, <2>3
<1>7. CASE Truncate
    <2>1. /\ pc = "trunc" /\ pc' = "run" /\ acked' \subseteq acked \cup buffer \cup batch
          /\ UNCHANGED <<segs, buffer, list, rbatch, exposed>>
        BY <1>0, <1>7 DEF Truncate, BatchInv
    <2>2. In(SegId)' = In(SegId) /\ In(list)' = In(list)
        BY <2>1 DEF In
    <2>3. batch \subseteq In(list)' \cup exposed'
        BY <1>1, <2>1, <2>2
    <2> QED BY <1>2, <2>1, <2>2, <2>3
<1>8. CASE Close
    BY <1>8 DEF Close, OwnInv
<1>9. CASE pc = "closed" /\ (Load \/ ReadWal \/ Rewrite \/ Resave \/ CutWal \/ Answer)
    BY <1>9 DEF Load, ReadWal, Rewrite, Resave, CutWal, Answer, OwnInv
<1>10. CASE pc # "closed" /\ (Load \/ Resave \/ CutWal \/ Answer)
    <2>1. /\ rbatch' \subseteq rbatch
          /\ UNCHANGED <<segs, acked, buffer, batch, list, exposed, pc>>
        BY <1>10 DEF Load, Resave, CutWal, Answer
    <2>2. In(SegId)' = In(SegId) /\ In(list)' = In(list)
        BY <2>1 DEF In
    <2>3. pc' \in {"save", "trunc"} => batch' \subseteq In(list)' \cup exposed'
        BY <1>1, <2>1, <2>2
    <2> QED BY <1>2, <1>10, <2>1, <2>2, <2>3
<1>11. CASE pc # "closed" /\ ReadWal
    <2>1. /\ rbatch' = Recovered(wal) /\ exposed \subseteq exposed'
          /\ UNCHANGED <<segs, acked, buffer, batch, list, pc>>
        BY <1>11 DEF ReadWal
    <2>2. rbatch' \subseteq buffer \cup batch
        BY <1>0, <1>11, <2>1 DEF WalInv, InWal
    <2>3. In(SegId)' = In(SegId) /\ In(list)' = In(list)
        BY <2>1 DEF In
    <2>4. pc' \in {"save", "trunc"} => batch' \subseteq In(list)' \cup exposed'
        BY <1>1, <2>1, <2>3
    <2> QED BY <1>2, <1>11, <2>1, <2>2, <2>3, <2>4
<1>12. CASE pc # "closed" /\ Rewrite
    <2>1. \A j \in SegId : segs'[j] = IF j = rnext THEN rbatch ELSE segs[j]
        BY <1>0, <1>12, SegmentIs DEF Replaced
    <2>2. /\ rpc = "write" /\ rnext \in SegId
          /\ UNCHANGED <<acked, buffer, batch, list, exposed, pc, rbatch>>
        BY <1>12 DEF Rewrite
    <2>3. In(SegId)' \subseteq In(SegId) \cup rbatch
        BY <2>1 DEF In
    <2>4. In(list \ {rnext}) \subseteq In(list)'
        BY <1>00, <2>1, <2>2 DEF In
    <2>5. ASSUME rnext \in list
          PROVE  segs[rnext] \subseteq exposed \cup batch /\ batch \subseteq In(list)' \cup exposed
        <3>1. rnext \notin rlist
            BY <1>0, <2>2, IdsAre
        <3>2. Droppable(rnext)
            BY <1>0, <2>2, <2>5, <3>1 DEF ListedInv
        <3>3. batch \subseteq rbatch \cup exposed \cup In({j \in rlist : j < rnext})
            BY <1>0, <2>2 DEF SafeInv
        <3>4. rbatch \subseteq In(list)'
            BY <2>1, <2>2, <2>5 DEF In
        <3>5. ASSUME NEW j \in rlist, j < rnext PROVE j \in list \ {rnext}
            <4>1. /\ nextId \in Nat /\ rnext \in Nat /\ rnext < nextId /\ j \in Nat /\ j >= 1
                  /\ \A k \in Nat : k >= 1 /\ k < nextId => k \in list
                BY <1>0, <2>5, IdsAre DEF SegId
            <4>2. j < nextId /\ j # rnext
                BY <3>5, <4>1
            <4> QED BY <4>1, <4>2
        <3>6. In({j \in rlist : j < rnext}) \subseteq In(list \ {rnext})
            BY <3>5 DEF In
        <3> QED BY <2>4, <3>2, <3>3, <3>4, <3>6 DEF Droppable
    <2>6. In(list) \subseteq In(list)' \cup exposed \cup batch
        <3>1. In(list) \subseteq In(list \ {rnext}) \cup (IF rnext \in list THEN segs[rnext] ELSE {})
            BY DEF In
        <3> QED BY <2>4, <2>5, <3>1
    <2>7. pc' \in {"save", "trunc"} => batch' \subseteq In(list)' \cup exposed'
        <3>1. rnext \notin list => In(list) \subseteq In(list)'
            BY <1>00, <2>1, <2>2 DEF In
        <3> QED BY <1>1, <2>2, <2>5, <3>1
    <2> QED BY <1>2, <1>12, <2>2, <2>3, <2>6, <2>7
<1>13. CASE UNCHANGED vars
    <2>1. UNCHANGED <<segs, acked, buffer, batch, list, exposed, pc, rbatch>>
        BY <1>13 DEF vars
    <2>2. In(SegId)' = In(SegId) /\ In(list)' = In(list)
        BY <2>1 DEF In
    <2> QED BY <1>1, <2>1, <2>2 DEF OwnInv, Own
<1> QED BY <1>3, <1>4, <1>5, <1>6, <1>7, <1>8, <1>9, <1>10, <1>11, <1>12, <1>13 DEF Next

\* Every step keeps a segment that one process does not know exposed, or on its way.
LEMMA ListedStep ==
    ASSUME IInv, [Next]_vars
    PROVE  ListedInv'
<1> USE DEF files, agent, reader
<1>0. TypeOK /\ IdInv /\ BatchInv /\ ListedInv
    BY DEF IInv
<1>00. list \subseteq SegId /\ rlist \subseteq SegId /\ Loaded \subseteq SegId
    BY <1>0, IdsAre DEF TypeOK
<1>1. /\ \A j \in list : \/ j \in Loaded
                         \/ segs[j] \subseteq exposed
                         \/ pc = "save" /\ j = nextId - 1 /\ segs[j] \subseteq batch
                         \/ rpc = "save" /\ j = rnext /\ segs[j] = rbatch
      /\ rpc \in {"read", "write", "save"} =>
           \A j \in Loaded \ rlist :
             /\ j \in list
             /\ \/ segs[j] \subseteq exposed
                \/ pc = "save" /\ j = nextId - 1 /\ segs[j] \subseteq batch
      /\ pc = "trunc" =>
           \/ batch \subseteq exposed
           \/ list \subseteq Loaded /\ (Recovering => list \subseteq rlist \ {rnext})
    BY <1>0 DEF ListedInv, Droppable
<1>2. ASSUME \A j \in list' : \/ j \in Loaded'
                              \/ segs'[j] \subseteq exposed'
                              \/ pc' = "save" /\ j = nextId' - 1 /\ segs'[j] \subseteq batch'
                              \/ rpc' = "save" /\ j = rnext' /\ segs'[j] = rbatch',
             rpc' \in {"read", "write", "save"} =>
               \A j \in Loaded' \ rlist' :
                 /\ j \in list'
                 /\ \/ segs'[j] \subseteq exposed'
                    \/ pc' = "save" /\ j = nextId' - 1 /\ segs'[j] \subseteq batch',
             pc' = "trunc" =>
               \/ batch' \subseteq exposed'
               \/ list' \subseteq Loaded' /\ (Recovering' => list' \subseteq rlist' \ {rnext'})
      PROVE  ListedInv'
    BY <1>2 DEF ListedInv, Droppable
<1>3. CASE (\E l \in Lines : AppendLine(l)) \/ Drain \/ Close \/ Truncate
    <2>1. /\ pc \in {"run", "drain", "trunc"} /\ pc' \in {"run", "drain", "write", "closed"}
          /\ exposed \subseteq exposed'
          /\ UNCHANGED <<segs, manifest, list, nextId, rpc, rlist, rnext, rbatch>>
        BY <1>3 DEF AppendLine, Drain, Close, Truncate
    <2>2. Loaded' = Loaded
        BY <2>1, QuietLoaded
    <2>3. pc # "save" /\ pc' # "save" /\ pc' # "trunc"
        BY <2>1
    <2> QED BY <1>1, <1>2, <2>1, <2>2, <2>3
<1>4. CASE WriteSegment
    <2>1. /\ Loaded \subseteq Loaded' /\ Loaded' \subseteq Loaded \cup {nextId}
          /\ \A j \in SegId : segs'[j] = IF j = nextId THEN batch ELSE segs[j]
        BY <1>0, <1>4, SegmentIs DEF Replaced
    <2>2. /\ pc = "write" /\ pc' = "save" /\ nextId \in SegId
          /\ list' = list \cup {nextId} /\ nextId' = nextId + 1
          /\ UNCHANGED <<batch, exposed, rpc, rlist, rnext, rbatch>>
        BY <1>4 DEF WriteSegment
    <2>3. nextId \notin list /\ nextId \in Nat
        BY <1>0, IdsAre
    <2>4. nextId = nextId' - 1
        BY <2>2, <2>3
    <2>5. \A j \in list : j \in SegId /\ j # nextId /\ segs'[j] = segs[j]
        BY <1>00, <2>1, <2>3
    <2>6. pc' = "save" /\ nextId = nextId' - 1 /\ segs'[nextId] \subseteq batch'
        BY <2>1, <2>2, <2>4
    <2>7. \A j \in list' : \/ j \in Loaded'
                           \/ segs'[j] \subseteq exposed'
                           \/ pc' = "save" /\ j = nextId' - 1 /\ segs'[j] \subseteq batch'
                           \/ rpc' = "save" /\ j = rnext' /\ segs'[j] = rbatch'
        <3> SUFFICES ASSUME NEW j \in list'
                     PROVE  \/ j \in Loaded'
                            \/ segs'[j] \subseteq exposed'
                            \/ pc' = "save" /\ j = nextId' - 1 /\ segs'[j] \subseteq batch'
                            \/ rpc' = "save" /\ j = rnext' /\ segs'[j] = rbatch'
            OBVIOUS
        <3>1. CASE j = nextId
            BY <2>6, <3>1
        <3>2. CASE j \in list
            BY <1>1, <2>1, <2>2, <2>5, <3>2
        <3> QED BY <2>2, <3>1, <3>2
    <2>8. ASSUME rpc' \in {"read", "write", "save"}, NEW j \in Loaded' \ rlist'
          PROVE  /\ j \in list'
                 /\ \/ segs'[j] \subseteq exposed'
                    \/ pc' = "save" /\ j = nextId' - 1 /\ segs'[j] \subseteq batch'
        <3>1. CASE j = nextId
            BY <2>2, <2>6, <3>1
        <3>2. CASE j \in Loaded
            BY <1>1, <2>2, <2>5, <2>8, <3>2
        <3> QED BY <2>1, <3>1, <3>2
    <2> QED BY <1>2, <2>2, <2>7, <2>8
<1>5. CASE SaveManifest
    <2>1. /\ pc = "save" /\ pc' = "trunc"
          /\ Recovering => exposed' = exposed \cup batch
          /\ UNCHANGED <<segs, list, nextId, batch, rpc, rlist, rnext, rbatch>>
        BY <1>5 DEF SaveManifest
    <2>2. Loaded' = list
        BY <1>5, SaveLoaded
    <2>3. ASSUME rpc' \in {"read", "write", "save"}, NEW j \in Loaded' \ rlist'
          PROVE  segs'[j] \subseteq exposed'
        <3>1. exposed' = exposed \cup batch
            BY <2>1, <2>3 DEF Recovering
        <3>2. rpc = "save" => rnext \in rlist
            BY <1>0, IdsAre DEF IdInv
        <3>3. j \in list /\ j \notin rlist /\ rpc \in {"read", "write", "save"}
            BY <2>1, <2>2, <2>3
        <3>4. segs[j] \subseteq exposed \cup batch
            BY <1>1, <3>2, <3>3
        <3> QED BY <2>1, <3>1, <3>4
    <2>4. \/ batch' \subseteq exposed'
          \/ list' \subseteq Loaded' /\ (Recovering' => list' \subseteq rlist' \ {rnext'})
        BY <2>1, <2>2 DEF Recovering
    <2> QED BY <1>2, <2>1, <2>2, <2>3, <2>4
<1>6. CASE Load
    <2>1. /\ rpc = "off" /\ rpc' = "read" /\ rlist' = Loaded /\ rnext' = NextId(Loaded)
          /\ UNCHANGED <<segs, pc, list, nextId, batch, exposed>>
        BY <1>6 DEF Load
    <2>2. Loaded' = Loaded
        BY <1>0, <1>6, LoadLoaded
    <2>3. rnext' \notin Loaded
        <3>1. PICK n \in 0..MaxId : Loaded = 1..n
            BY <1>0 DEF IdInv
        <3>2. n \in Nat
            BY Bounds
        <3>3. rnext' = n + 1
            BY <2>1, <3>1, <3>2, NextIdIs
        <3> QED BY <3>1, <3>2, <3>3
    <2>4. ~Recovering
        BY <2>1 DEF Recovering
    <2> QED BY <1>1, <1>2, <2>1, <2>2, <2>3, <2>4
<1>7. CASE ReadWal \/ CutWal \/ Answer
    <2>1. /\ rpc # "save" /\ rpc' \in {"query", "off", "write"}
          /\ rpc' = "write" => rpc = "read" /\ UNCHANGED <<rlist, rnext>>
          /\ exposed \subseteq exposed'
          /\ UNCHANGED <<segs, manifest, pc, list, nextId, batch>>
        BY <1>7 DEF ReadWal, CutWal, Answer
    <2>2. Loaded' = Loaded
        BY <2>1, QuietLoaded
    <2>3. Recovering' => Recovering /\ UNCHANGED <<rlist, rnext>>
        BY <2>1 DEF Recovering
    <2>4. rpc' \in {"read", "write", "save"} => rpc = "read" /\ rlist' = rlist
        BY <2>1
    <2> QED BY <1>1, <1>2, <2>1, <2>2, <2>3, <2>4
<1>8. CASE Rewrite
    <2>1. /\ Loaded \subseteq Loaded' /\ Loaded' \subseteq Loaded \cup {rnext}
          /\ \A j \in SegId : segs'[j] = IF j = rnext THEN rbatch ELSE segs[j]
        BY <1>0, <1>8, SegmentIs DEF Replaced
    <2>2. /\ rpc = "write" /\ rpc' = "save" /\ rlist' = rlist \cup {rnext}
          /\ UNCHANGED <<batch, exposed, pc, list, nextId, rnext, rbatch>>
        BY <1>8 DEF Rewrite
    <2>3. Recovering
        BY <2>2 DEF Recovering
    <2>4. \A j \in list' : \/ j \in Loaded'
                           \/ segs'[j] \subseteq exposed'
                           \/ pc' = "save" /\ j = nextId' - 1 /\ segs'[j] \subseteq batch'
                           \/ rpc' = "save" /\ j = rnext' /\ segs'[j] = rbatch'
        <3> SUFFICES ASSUME NEW j \in list, j # rnext
                     PROVE  \/ j \in Loaded'
                            \/ segs'[j] \subseteq exposed'
                            \/ pc' = "save" /\ j = nextId' - 1 /\ segs'[j] \subseteq batch'
            BY <1>00, <2>1, <2>2
        <3>1. segs'[j] = segs[j]
            BY <1>00, <2>1
        <3> QED BY <1>1, <2>1, <2>2, <3>1
    <2>5. ASSUME NEW j \in Loaded' \ rlist'
          PROVE  /\ j \in list'
                 /\ \/ segs'[j] \subseteq exposed'
                    \/ pc' = "save" /\ j = nextId' - 1 /\ segs'[j] \subseteq batch'
        <3>1. j \in Loaded \ rlist /\ segs'[j] = segs[j]
            BY <1>00, <2>1, <2>2
        <3> QED BY <1>1, <2>2, <3>1
    <2> QED BY <1>1, <1>2, <2>1, <2>2, <2>3, <2>4, <2>5
<1>9. CASE Resave
    <2>1. /\ rpc = "save" /\ rpc' = "trunc"
          /\ UNCHANGED <<segs, pc, list, nextId, batch, exposed, rlist, rnext>>
        BY <1>9 DEF Resave
    <2>2. Loaded' = rlist
        BY <1>9, SaveLoaded
    <2>3. rnext \in rlist
        BY <1>0, <2>1, IdsAre DEF IdInv
    <2>4. Recovering
        BY <2>1 DEF Recovering
    <2>5. \A j \in list' : \/ j \in Loaded'
                           \/ segs'[j] \subseteq exposed'
                           \/ pc' = "save" /\ j = nextId' - 1 /\ segs'[j] \subseteq batch'
        BY <1>1, <2>1, <2>2, <2>3
    <2> QED BY <1>1, <1>2, <2>1, <2>2, <2>4, <2>5
<1>10. CASE UNCHANGED vars
    <2>1. UNCHANGED <<segs, manifest, pc, list, nextId, batch, exposed, rpc, rlist, rnext, rbatch>>
        BY <1>10 DEF vars
    <2>2. Loaded' = Loaded /\ Recovering' = Recovering
        BY <2>1, QuietLoaded DEF Recovering
    <2> QED BY <1>1, <1>2, <2>1, <2>2
<1> QED BY <1>3, <1>4, <1>5, <1>6, <1>7, <1>8, <1>9, <1>10 DEF Next

\* Every step keeps what a recovery has read safe without the WAL.
LEMMA RescueStep ==
    ASSUME IInv, [Next]_vars
    PROVE  RescueInv'
<1> USE DEF files, agent, reader
<1>0. TypeOK /\ IdInv /\ BatchInv /\ WalInv /\ OwnInv /\ ListedInv /\ RescueInv
    BY DEF IInv
<1>00. /\ list \subseteq SegId /\ rlist \subseteq SegId /\ Loaded \subseteq SegId
       /\ Recovered(wal) \subseteq InWal /\ rnext \in Nat
       /\ Kept \subseteq list /\ Kept \subseteq Loaded /\ Kept \subseteq rlist
       /\ rnext \notin Kept
    BY <1>0, IdsAre DEF TypeOK, InWal, Kept
<1>1. /\ rpc \in {"write", "save"} => rbatch \subseteq exposed \cup Recovered(wal) \cup In(Kept)
      /\ rpc = "save" => rbatch \subseteq exposed \cup segs[rnext] \cup In(Kept)
      /\ rpc = "trunc" => rbatch \subseteq exposed \cup In(Loaded)
    BY <1>0 DEF RescueInv
<1>2. CASE (\E l \in Lines : AppendLine(l)) \/ Drain \/ Close
    <2>1. Recovered(wal) \subseteq Recovered(wal')
        BY <1>0, <1>2, AppendIs, EmptyIs
    <2>2. /\ exposed \subseteq exposed'
          /\ UNCHANGED <<segs, manifest, list, rpc, rlist, rnext, rbatch>>
        BY <1>2 DEF AppendLine, Drain, Close
    <2>3. Loaded' = Loaded
        BY <2>2, QuietLoaded
    <2>4. Kept' = Kept
        BY <2>2, <2>3 DEF Kept
    <2>5. In(Kept)' = In(Kept) /\ In(Loaded)' = In(Loaded)
        BY <2>2, <2>3, <2>4 DEF In
    <2> QED BY <1>1, <2>1, <2>2, <2>5 DEF RescueInv
<1>3. CASE WriteSegment
    <2>1. /\ Loaded \subseteq Loaded'
          /\ \A j \in SegId : segs'[j] = IF j = nextId THEN batch ELSE segs[j]
        BY <1>0, <1>3, SegmentIs DEF Replaced
    <2>2. /\ pc = "write" /\ list' = list \cup {nextId} /\ buffer = {} /\ nextId \in SegId
          /\ UNCHANGED <<wal, exposed, rpc, rlist, rnext, rbatch>>
        BY <1>0, <1>3 DEF WriteSegment, BatchInv
    <2>3. nextId \notin list
        BY <1>0, IdsAre
    <2>4. Kept \subseteq Kept'
        BY <2>1, <2>2 DEF Kept
    <2>5. In(Kept) \subseteq In(Kept)'
        BY <1>00, <2>1, <2>3, <2>4 DEF In
    <2>6. rpc = "save" => rbatch \subseteq exposed \cup segs'[rnext] \cup In(Kept)
        <3>1. CASE rnext = nextId
            <4>1. segs'[rnext] = batch
                BY <2>1, <2>2, <3>1
            <4>2. Recovered(wal) \subseteq batch
                BY <1>0, <1>00, <2>2 DEF WalInv
            <4> QED BY <1>1, <4>1, <4>2
        <3>2. CASE rnext # nextId
            <4>1. rpc = "save" => rnext \in rlist
                BY <1>0, IdsAre DEF IdInv
            <4>2. rpc = "save" => segs'[rnext] = segs[rnext]
                BY <1>00, <2>1, <3>2, <4>1
            <4> QED BY <1>1, <4>2
        <3> QED BY <3>1, <3>2
    <2>7. ASSUME rpc = "trunc" PROVE rbatch \subseteq exposed \cup In(Loaded)'
        <3>1. \A k \in SegId : k \in Loaded /\ k # nextId => segs[k] \subseteq In(Loaded)'
            BY <2>1 DEF In
        <3>2. ASSUME NEW k \in list PROVE segs[k] \subseteq exposed \cup In(Loaded)'
            <4>1. k \in Loaded \/ segs[k] \subseteq exposed
                BY <1>0, <2>2, <2>7 DEF ListedInv, Droppable
            <4> QED BY <1>00, <2>3, <3>1, <4>1
        <3>3. In(list) \subseteq exposed \cup In(Loaded)'
            BY <3>2 DEF In
        <3>4. rbatch \subseteq batch \cup In(list) \cup exposed
            BY <1>0, <2>2 DEF OwnInv, Own
        <3>5. nextId \in Loaded => batch \subseteq In(Loaded)'
            BY <2>1, <2>2 DEF In
        <3>6. nextId \notin Loaded => In(Loaded) \subseteq In(Loaded)'
            BY <1>00, <3>1 DEF In
        <3> QED BY <1>1, <2>7, <3>3, <3>4, <3>5, <3>6
    <2> QED BY <1>1, <2>2, <2>5, <2>6, <2>7 DEF RescueInv
<1>4. CASE SaveManifest
    <2>1. /\ pc = "save" /\ buffer = {}
          /\ Recovering => exposed' = exposed \cup batch
          /\ UNCHANGED <<wal, segs, list, rpc, rlist, rnext, rbatch>>
        BY <1>0, <1>4 DEF SaveManifest, BatchInv
    <2>2. Loaded' = list
        BY <1>4, SaveLoaded
    <2>3. Kept \subseteq Kept'
        BY <2>1, <2>2 DEF Kept
    <2>4. In(Kept) \subseteq In(Kept)' /\ In(Loaded)' = In(list)
        BY <2>1, <2>2, <2>3 DEF In
    <2>5. rbatch \subseteq batch \cup In(list) \cup exposed
        BY <1>0, <2>1 DEF OwnInv, Own
    <2>6. rpc \in {"write", "save", "trunc"} => exposed' = exposed \cup batch
        BY <2>1 DEF Recovering
    <2> QED BY <1>1, <2>1, <2>4, <2>5, <2>6 DEF RescueInv
<1>5. CASE Truncate
    <2>1. /\ pc = "trunc" /\ buffer = {}
          /\ UNCHANGED <<segs, manifest, list, rpc, rlist, rnext, rbatch, exposed>>
        BY <1>0, <1>5 DEF Truncate, BatchInv
    <2>2. Loaded' = Loaded
        BY <2>1, QuietLoaded
    <2>3. Kept' = Kept
        BY <2>1, <2>2 DEF Kept
    <2>4. In(Kept)' = In(Kept) /\ In(Loaded)' = In(Loaded)
        BY <2>1, <2>2, <2>3 DEF In
    <2>5. ASSUME rpc \in {"write", "save"} PROVE Recovered(wal) \subseteq exposed \cup In(Kept)
        <3>1. Recovered(wal) \subseteq batch
            BY <1>0, <1>00, <2>1 DEF WalInv
        <3>2. batch \subseteq In(list) \cup exposed
            BY <1>0, <2>1 DEF OwnInv
        <3>3. batch \subseteq exposed \/ (list \subseteq Loaded /\ list \subseteq rlist \ {rnext})
            BY <1>0, <2>1, <2>5 DEF ListedInv, Recovering
        <3>4. \A j \in rlist \ {rnext} : j < rnext
            <4>1. rlist = 1..(rnext - 1) \/ rlist = 1..rnext
                BY <1>0, <2>5 DEF IdInv
            <4> QED BY <1>00, <4>1
        <3>5. list \subseteq Loaded /\ list \subseteq rlist \ {rnext} => list \subseteq Kept
            BY <3>4 DEF Kept
        <3>6. list \subseteq Kept => In(list) \subseteq In(Kept)
            BY DEF In
        <3> QED BY <3>1, <3>2, <3>3, <3>5, <3>6
    <2> QED BY <1>1, <2>1, <2>4, <2>5 DEF RescueInv
<1>6. CASE ReadWal
    <2>1. /\ rpc' = "write" => rbatch' = Recovered(wal) /\ wal' = wal
          /\ rpc' \in {"query", "write"}
        BY <1>6 DEF ReadWal
    <2> QED BY <2>1 DEF RescueInv
<1>7. CASE Rewrite
    <2>1. /\ Loaded \subseteq Loaded'
          /\ \A j \in SegId : segs'[j] = IF j = rnext THEN rbatch ELSE segs[j]
        BY <1>0, <1>7, SegmentIs DEF Replaced
    <2>2. /\ rpc = "write" /\ rpc' = "save" /\ rlist' = rlist \cup {rnext} /\ rnext \in SegId
          /\ UNCHANGED <<wal, exposed, list, rnext, rbatch>>
        BY <1>7 DEF Rewrite
    <2>3. Kept \subseteq Kept'
        BY <2>1, <2>2 DEF Kept
    <2>4. In(Kept) \subseteq In(Kept)'
        BY <1>00, <2>1, <2>3 DEF In
    <2>5. segs'[rnext] = rbatch
        BY <2>1, <2>2
    <2> QED BY <1>1, <2>2, <2>4, <2>5 DEF RescueInv
<1>8. CASE Resave
    <2>1. rpc = "save" /\ rpc' = "trunc" /\ UNCHANGED <<segs, exposed, rnext, rbatch, rlist>>
        BY <1>8 DEF Resave
    <2>2. Loaded' = rlist
        BY <1>8, SaveLoaded
    <2>3. rnext \in rlist
        BY <1>0, <2>1, IdsAre DEF IdInv
    <2>4. segs[rnext] \cup In(Kept) \subseteq In(Loaded)'
        BY <1>00, <2>1, <2>2, <2>3 DEF In
    <2> QED BY <1>1, <2>1, <2>4 DEF RescueInv
<1>9. CASE Load \/ CutWal \/ Answer
    <2>1. rpc' \in {"read", "query", "off"}
        BY <1>9 DEF Load, CutWal, Answer
    <2> QED BY <2>1 DEF RescueInv
<1>10. CASE UNCHANGED vars
    <2>1. UNCHANGED <<wal, segs, manifest, list, rpc, rlist, rnext, rbatch, exposed>>
        BY <1>10 DEF vars
    <2>2. Loaded' = Loaded
        BY <2>1, QuietLoaded
    <2>3. Kept' = Kept
        BY <2>1, <2>2 DEF Kept
    <2>4. In(Kept)' = In(Kept) /\ In(Loaded)' = In(Loaded)
        BY <2>1, <2>2, <2>3 DEF In
    <2> QED BY <1>1, <2>1, <2>4 DEF RescueInv
<1> QED BY <1>2, <1>3, <1>4, <1>5, <1>6, <1>7, <1>8, <1>9, <1>10 DEF Next

\* Every step keeps what the reader was asked for in its list or in its hands.
LEMMA AskedStep ==
    ASSUME IInv, [Next]_vars
    PROVE  AskedInv'
<1> USE DEF files, agent, reader
<1>0. TypeOK /\ IdInv /\ BatchInv /\ WalInv /\ OwnInv /\ AskedInv
    BY DEF IInv
<1>00. /\ list \subseteq SegId /\ rlist \subseteq SegId /\ Loaded \subseteq SegId
       /\ Recovered(wal) \subseteq InWal
    BY <1>0, IdsAre DEF TypeOK, InWal
<1> DEFINE InHand == IF rpc = "read" THEN Recovered(wal) ELSE IF rpc = "write" THEN rbatch ELSE {}
<1>1. /\ rpc # "off" => /\ batch \subseteq carried
                        /\ asked \cap In(list \ rlist) \subseteq carried \cup In(rlist)
                        /\ asked \subseteq In(rlist) \cup carried \cup exposed \cup InHand
      /\ \A j \in list \ View : segs[j] \cap (InWal \cup buffer) \subseteq batch
    BY <1>0 DEF AskedInv
<1>2. ASSUME rpc' # "off" =>
               /\ batch' \subseteq carried'
               /\ asked' \cap In(list \ rlist)' \subseteq carried' \cup In(rlist)'
               /\ asked' \subseteq In(rlist)' \cup carried' \cup exposed' \cup InHand',
             \A j \in list' \ View' : segs'[j] \cap (InWal' \cup buffer') \subseteq batch'
      PROVE  AskedInv'
    BY <1>2 DEF AskedInv
<1>3. CASE \E l \in Lines : AppendLine(l)
    <2>1. PICK l \in Lines : AppendLine(l)
        BY <1>3
    <2>2. Recovered(wal) \subseteq Recovered(wal') /\ InWal' \subseteq InWal \cup {l}
        BY <1>0, <2>1, AppendIs
    <2>3. /\ pc = "run" /\ l \notin acked /\ buffer' = buffer \cup {l} /\ exposed \subseteq exposed'
          /\ UNCHANGED <<segs, manifest, batch, list, rpc, rlist, rnext, rbatch, asked, carried>>
        BY <2>1 DEF AppendLine
    <2>4. Loaded' = Loaded /\ View' = View
        BY <2>3, QuietLoaded DEF View
    <2>5. In(rlist)' = In(rlist) /\ In(list \ rlist)' = In(list \ rlist)
        BY <2>3 DEF In
    <2>6. \A j \in list : l \notin segs[j]
        <3>1. In(SegId) \subseteq acked
            BY <1>0, <2>3 DEF BatchInv
        <3> QED BY <1>00, <2>3, <3>1 DEF In
    <2>7. \A j \in list' \ View' : segs'[j] \cap (InWal' \cup buffer') \subseteq batch'
        BY <1>1, <2>2, <2>3, <2>4, <2>6
    <2>8. InHand \subseteq InHand'
        BY <2>2, <2>3
    <2> HIDE DEF InHand
    <2> QED BY <1>1, <1>2, <2>3, <2>5, <2>7, <2>8
<1>4. CASE Drain \/ Close
    <2>1. Recovered(wal) \subseteq Recovered(wal') /\ InWal' \subseteq InWal
        BY <1>0, <1>4, EmptyIs
    <2>2. /\ batch = {} /\ buffer' = {}
          /\ UNCHANGED <<segs, manifest, list, rpc, rlist, rnext, rbatch, asked, exposed>>
        BY <1>0, <1>4 DEF Drain, Close, BatchInv
    <2>3. /\ carried \subseteq carried' \/ rpc = "off"
          /\ batch' \subseteq carried' \/ rpc = "off"
        BY <1>4, <2>2 DEF Drain, Close
    <2>4. Loaded' = Loaded /\ View' = View
        BY <2>2, QuietLoaded DEF View
    <2>5. In(rlist)' = In(rlist) /\ In(list \ rlist)' = In(list \ rlist)
        BY <2>2 DEF In
    <2>6. \A j \in list' \ View' : segs'[j] \cap (InWal' \cup buffer') \subseteq batch'
        BY <1>1, <2>1, <2>2, <2>4
    <2>7. InHand \subseteq InHand'
        BY <2>1, <2>2
    <2> HIDE DEF InHand
    <2> QED BY <1>1, <1>2, <2>2, <2>3, <2>5, <2>6, <2>7
<1>5. CASE WriteSegment
    <2>1. /\ Loaded \subseteq Loaded'
          /\ \A j \in SegId : segs'[j] = IF j = nextId THEN batch ELSE segs[j]
        BY <1>0, <1>5, SegmentIs DEF Replaced
    <2>2. /\ pc = "write" /\ list' = list \cup {nextId} /\ nextId \in SegId /\ buffer = {}
          /\ UNCHANGED <<wal, walBuf, buffer, batch, exposed, rpc, rlist, rnext, rbatch, asked, carried>>
        BY <1>0, <1>5 DEF WriteSegment, BatchInv
    <2>3. /\ nextId \notin list
          /\ \A j \in list : segs'[j] = segs[j]
        BY <1>0, <1>00, <2>1, IdsAre
    <2>4. View \subseteq View' /\ InWal' = InWal
        BY <2>1, <2>2 DEF View, InWal
    <2>5. \A j \in list' \ View' : segs'[j] \cap (InWal' \cup buffer') \subseteq batch'
        <3>1. segs'[nextId] = batch
            BY <2>1, <2>2
        <3> QED BY <1>1, <2>2, <2>3, <2>4, <3>1
    <2>6. InHand' = InHand
        BY <2>2
    <2> HIDE DEF InHand
    <2>7. ASSUME rpc # "off", nextId \in rlist PROVE list \subseteq rlist
        <3>1. \E n \in Nat : rlist = 1..n
            <4>1. rnext \in Nat /\ rnext - 1 \in Nat
                BY <1>0, IdsAre
            <4>2. \A n \in 0..MaxId : n \in Nat
                BY Bounds
            <4>3. rpc \in {"read", "write", "save", "trunc", "query"}
                BY <1>0, <2>7 DEF TypeOK
            <4> QED BY <1>0, <4>1, <4>2, <4>3 DEF IdInv
        <3>2. PICK n \in Nat : rlist = 1..n
            BY <3>1
        <3>3. list = 1..(nextId - 1) /\ nextId \in Nat
            BY <1>0, IdsAre DEF IdInv
        <3> QED BY <2>7, <3>2, <3>3
    <2>8. nextId \notin rlist => In(rlist)' = In(rlist)
        <3>1. nextId \notin rlist => \A j \in rlist : segs'[j] = segs[j]
            BY <1>00, <2>1
        <3> QED BY <2>2, <3>1 DEF In
    <2>9. ASSUME rpc # "off"
          PROVE  asked \cap In(list \ rlist)' \subseteq carried \cup In(rlist)'
        <3>1. In(list \ rlist)' \subseteq batch \cup In(list \ rlist)
            BY <2>1, <2>2, <2>3 DEF In
        <3>2. CASE nextId \notin rlist
            BY <1>1, <2>8, <2>9, <3>1, <3>2
        <3>3. CASE nextId \in rlist
            <4>1. list \ rlist = {}
                BY <2>7, <2>9, <3>3
            <4>2. In(list \ rlist) = {}
                BY <4>1 DEF In
            <4> QED BY <1>1, <2>9, <3>1, <4>2
        <3> QED BY <3>2, <3>3
    <2>10. ASSUME rpc # "off"
           PROVE  asked \subseteq In(rlist)' \cup carried \cup exposed \cup InHand
        <3>1. CASE nextId \notin rlist
            BY <1>1, <2>8, <2>10, <3>1
        <3>2. CASE nextId \in rlist
            <4>1. In(list) \subseteq In(rlist)'
                BY <2>2, <2>3, <2>7, <2>10, <3>2 DEF In
            <4>2. segs[nextId] \subseteq batch \cup In(list) \cup exposed
                BY <1>0, <2>2 DEF OwnInv, Own, In
            <4>3. In(rlist) \subseteq segs[nextId] \cup In(rlist)'
                BY <1>00, <2>1, <2>2 DEF In
            <4> QED BY <1>1, <2>10, <4>1, <4>2, <4>3
        <3> QED BY <3>1, <3>2
    <2> QED BY <1>1, <1>2, <2>2, <2>5, <2>6, <2>9, <2>10
<1>6. CASE SaveManifest
    <2>1. /\ exposed \ In(list) \subseteq exposed'
          /\ UNCHANGED <<wal, walBuf, segs, buffer, batch, list, rpc, rlist, rnext, rbatch, asked, carried>>
        BY <1>6 DEF SaveManifest
    <2>2. Loaded' = list
        BY <1>6, SaveLoaded
    <2>3. View' = View \/ View' = list
        BY <2>1, <2>2 DEF View
    <2>4. In(rlist)' = In(rlist) /\ In(list \ rlist)' = In(list \ rlist) /\ InWal' = InWal
        BY <2>1 DEF In, InWal
    <2>5. In(list) \subseteq In(rlist) \cup In(list \ rlist)
        BY DEF In
    <2>6. InHand' = InHand
        BY <2>1
    <2> HIDE DEF InHand
    <2>7. \A j \in list' \ View' : segs'[j] \cap (InWal' \cup buffer') \subseteq batch'
        BY <1>1, <2>1, <2>3, <2>4
    <2>8. rpc # "off" => asked \subseteq In(rlist) \cup carried \cup exposed' \cup InHand
        BY <1>1, <2>1, <2>5
    <2> QED BY <1>1, <1>2, <2>1, <2>4, <2>6, <2>7, <2>8
<1>7. CASE Truncate
    <2>1. /\ pc = "trunc" /\ buffer = {} /\ batch' = {} /\ buffer' = {} /\ walBuf = <<>> /\ wal' = <<>>
          /\ UNCHANGED <<segs, walBuf, list, rpc, rlist, rbatch, asked, carried, exposed>>
        BY <1>0, <1>7 DEF Truncate, BatchInv
    <2>2. InWal' = {}
        BY <2>1, CutIs DEF InWal, ToSet
    <2>3. Recovered(wal) \subseteq batch
        BY <1>0, <1>00, <2>1 DEF WalInv
    <2>4. InHand \subseteq InHand' \cup batch
        BY <2>1, <2>3
    <2> HIDE DEF InHand
    <2>5. In(rlist)' = In(rlist) /\ In(list \ rlist)' = In(list \ rlist)
        BY <2>1 DEF In
    <2> QED BY <1>1, <1>2, <2>1, <2>2, <2>4, <2>5
<1>8. CASE Load
    <2>1. /\ rpc = "off" /\ rpc' = "read" /\ rlist' = Loaded /\ carried' = batch
          /\ asked' = In(Loaded) \cup Recovered(wal)
          /\ UNCHANGED <<wal, walBuf, segs, buffer, batch, list, exposed>>
        BY <1>8 DEF Load
    <2>2. View = Loaded /\ View' = Loaded
        BY <2>1 DEF View
    <2>3. InWal' = InWal /\ In(rlist)' = In(Loaded) /\ In(list \ rlist)' = In(list \ Loaded)
        BY <2>1 DEF InWal, In
    <2>4. Recovered(wal) \cap In(list \ Loaded) \subseteq batch
        BY <1>00, <1>1, <2>2 DEF In
    <2>5. InHand' = Recovered(wal)
        BY <2>1
    <2> HIDE DEF InHand
    <2>6. asked' \cap In(list \ rlist)' \subseteq carried' \cup In(rlist)'
        BY <2>1, <2>3, <2>4
    <2> QED BY <1>1, <1>2, <2>1, <2>2, <2>3, <2>5, <2>6
<1>9. CASE ReadWal
    <2>1. /\ rpc = "read" /\ rbatch' = Recovered(wal) /\ exposed \subseteq exposed'
          /\ rpc' = IF rbatch' = {} THEN "query" ELSE "write"
          /\ UNCHANGED <<wal, walBuf, segs, manifest, buffer, batch, list, rlist, rnext, asked, carried, pc, nextId>>
        BY <1>9 DEF ReadWal
    <2>2. InWal' = InWal /\ In(rlist)' = In(rlist) /\ In(list \ rlist)' = In(list \ rlist)
        BY <2>1 DEF InWal, In
    <2>3. Loaded' = Loaded
        BY <2>1, QuietLoaded
    <2>4. InHand \subseteq InHand'
        BY <2>1
    <2> HIDE DEF InHand
    <2>5. ASSUME NEW j \in list, j \notin View' PROVE segs[j] \cap (InWal \cup buffer) \subseteq batch
        <3>1. View = rlist
            BY <2>1 DEF View
        <3>2. CASE rbatch' # {}
            <4>1. View' = rlist
                BY <2>1, <3>2 DEF View
            <4> QED BY <1>1, <2>5, <3>1, <4>1
        <3>3. CASE rbatch' = {}
            <4>1. View' = Loaded
                BY <2>1, <2>3, <3>3 DEF View
            <4>2. InWal \subseteq buffer
                BY <1>0, <2>1, <3>3, BufWriterIs DEF InWal
            <4>3. CASE j \notin rlist
                BY <1>1, <3>1, <4>3
            <4>4. CASE j \in rlist
                <5>1. rnext \notin rlist
                    BY <1>0, <2>1, IdsAre
                <5>2. pc = "save"
                    BY <1>0, <2>1, <2>5, <4>1, <4>4, <5>1 DEF IdInv
                <5>3. buffer = {}
                    BY <1>0, <5>2 DEF BatchInv
                <5> QED BY <4>2, <5>3
            <4> QED BY <4>3, <4>4
        <3> QED BY <3>2, <3>3
    <2> QED BY <1>1, <1>2, <2>1, <2>2, <2>4, <2>5
<1>10. CASE Rewrite
    <2>1. \A j \in SegId : segs'[j] = IF j = rnext THEN rbatch ELSE segs[j]
        BY <1>0, <1>10, SegmentIs DEF Replaced
    <2>2. /\ rpc = "write" /\ rpc' = "save" /\ rlist' = rlist \cup {rnext} /\ rnext \in SegId
          /\ UNCHANGED <<wal, walBuf, buffer, batch, list, asked, carried, exposed>>
        BY <1>10 DEF Rewrite
    <2>3. rnext \notin rlist
        BY <1>0, <2>2, IdsAre
    <2>4. In(rlist) \subseteq In(rlist)'
        BY <1>00, <2>1, <2>2, <2>3 DEF In
    <2>5. In(list \ rlist)' \subseteq In(list \ rlist)
        BY <1>00, <2>1, <2>2 DEF In
    <2>6. rbatch \subseteq In(rlist)'
        BY <2>1, <2>2 DEF In
    <2>7. InHand = rbatch
        BY <2>2
    <2> HIDE DEF InHand
    <2>8. View = rlist /\ View' = rlist \cup {rnext} /\ InWal' = InWal
        BY <2>2 DEF View, InWal
    <2>9. \A j \in list' \ View' : segs'[j] \cap (InWal' \cup buffer') \subseteq batch'
        BY <1>00, <1>1, <2>1, <2>2, <2>8
    <2> QED BY <1>1, <1>2, <2>2, <2>4, <2>5, <2>6, <2>7, <2>9
<1>11. CASE Resave
    <2>1. /\ rpc = "save" /\ rpc' = "trunc"
          /\ UNCHANGED <<wal, walBuf, segs, buffer, batch, list, rlist, asked, carried, exposed>>
        BY <1>11 DEF Resave
    <2>2. Loaded' = rlist
        BY <1>11, SaveLoaded
    <2>3. View = rlist /\ View' = rlist /\ InWal' = InWal
        BY <2>1, <2>2 DEF View, InWal
    <2>4. In(rlist)' = In(rlist) /\ In(list \ rlist)' = In(list \ rlist)
        BY <2>1 DEF In
    <2>5. InHand' = {} /\ InHand = {}
        BY <2>1
    <2> HIDE DEF InHand
    <2> QED BY <1>1, <1>2, <2>1, <2>3, <2>4, <2>5
<1>12. CASE CutWal
    <2>1. /\ rpc = "trunc" /\ rpc' = "query" /\ wal' = <<>>
          /\ UNCHANGED <<walBuf, segs, manifest, buffer, batch, list, rlist, asked, carried, exposed>>
        BY <1>12 DEF CutWal
    <2>2. Loaded' = Loaded
        BY <2>1, QuietLoaded
    <2>3. View' = View /\ InWal' \subseteq InWal
        BY <2>1, <2>2, CutIs DEF View, InWal
    <2>4. In(rlist)' = In(rlist) /\ In(list \ rlist)' = In(list \ rlist)
        BY <2>1 DEF In
    <2>5. InHand' = {} /\ InHand = {}
        BY <2>1
    <2> HIDE DEF InHand
    <2> QED BY <1>1, <1>2, <2>1, <2>3, <2>4, <2>5
<1>13. CASE Answer
    <2>1. /\ rpc = "query" /\ rpc' = "off"
          /\ UNCHANGED <<wal, walBuf, segs, manifest, buffer, batch, list>>
        BY <1>13 DEF Answer
    <2>2. Loaded' = Loaded
        BY <2>1, QuietLoaded
    <2>3. View' = View /\ InWal' = InWal
        BY <2>1, <2>2 DEF View, InWal
    <2> HIDE DEF InHand
    <2> QED BY <1>1, <1>2, <2>1, <2>3
<1>14. CASE UNCHANGED vars
    <2>1. UNCHANGED <<wal, walBuf, segs, manifest, buffer, batch, list, rpc, rlist, rbatch, asked,
                      carried, exposed>>
        BY <1>14 DEF vars
    <2>2. Loaded' = Loaded
        BY <2>1, QuietLoaded
    <2>3. View' = View /\ InWal' = InWal
        BY <2>1, <2>2 DEF View, InWal
    <2>4. In(rlist)' = In(rlist) /\ In(list \ rlist)' = In(list \ rlist)
        BY <2>1 DEF In
    <2>5. InHand' = InHand
        BY <2>1
    <2> HIDE DEF InHand
    <2> QED BY <1>1, <1>2, <2>1, <2>3, <2>4, <2>5
<1> QED BY <1>3, <1>4, <1>5, <1>6, <1>7, <1>8, <1>9, <1>10, <1>11, <1>12, <1>13, <1>14 DEF Next

-----------------------------------------------------------------------------
(* The theorems.                                                           *)

\* The invariant holds at every step of the two processes.
THEOREM DirectoryInvariance == Spec => []IInv
<1>1. Init => IInv
    BY InitInv
<1>2. IInv /\ [Next]_vars => IInv'
    <2> SUFFICES ASSUME IInv, [Next]_vars PROVE IInv'
        OBVIOUS
    <2> QED BY TypeStep, IdStep, BatchStep, WalStep, SafeStep, OwnStep, ListedStep, RescueStep,
               AskedStep DEF IInv
<1> QED BY <1>1, <1>2, PTL DEF Spec

\* Whatever a reader does to the files, the agent serves every line it acknowledged, and
\* the directory serves it after the agent has closed, unless a recovery has overtaken it.
THEOREM AckedStaysServed == Spec => []AckedIsServed
<1>1. IInv => AckedIsServed
    <2> SUFFICES ASSUME IInv PROVE AckedIsServed
        OBVIOUS
    <2>1. TypeOK
        BY DEF IInv
    <2>2. AgentServes
        BY DEF IInv, OwnInv, Own, AgentServes
    <2>3. DirectoryServes
        <3> SUFFICES ASSUME pc = "closed" PROVE acked \subseteq Recoverable \cup exposed
            BY DEF DirectoryServes
        <3>1. walBuf = <<>>
            BY DEF IInv, BatchInv
        <3>2. ToSet(walBuf) = {}
            BY <3>1 DEF ToSet
        <3> QED BY <3>2 DEF IInv, SafeInv
    <2> QED BY <2>1, <2>2, <2>3 DEF AckedIsServed
<1> QED BY <1>1, DirectoryInvariance, PTL

\* A reader misses only lines that the agent was flushing meanwhile, or that another
\* recovery has overtaken.
THEOREM ReadersAreAnswered == Spec => []QueryMissesOnlyCarried
<1>1. IInv => QueryMissesOnlyCarried
    BY DEF IInv, AskedInv, QueryMissesOnlyCarried
<1> QED BY <1>1, DirectoryInvariance, PTL

\* No step takes away a line that the next open would serve, except for lines that a
\* recovery has overtaken.
THEOREM NothingIsTakenAway == Spec => RecoverableGrows
<1>1. IInv /\ [Next]_vars => [Recoverable \subseteq Recoverable' \cup exposed']_vars
    <2> SUFFICES ASSUME IInv, [Next]_vars
                 PROVE  Recoverable \subseteq Recoverable' \cup exposed'
        OBVIOUS
    <2> QED BY GrowStep
<1> QED BY <1>1, DirectoryInvariance, PTL DEF Spec, RecoverableGrows
===============================================================================
