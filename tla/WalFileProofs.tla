---------------------------- MODULE WalFileProofs ----------------------------
(***************************************************************************)
(* What a write does to the slots of the WAL file, whatever is written.    *)
(***************************************************************************)
EXTENDS WalFile, SequenceTheorems, TLAPS

\* The slots that the descriptor f has behind it, or all of them in append mode.
Behind(file, f) == IF f.append THEN Len(file) ELSE f.pos

\* new is file with out put behind the descriptor f.
Continues(new, file, f, out) ==
    /\ Behind(file, f) + Len(out) <= Len(new)
    /\ \A k \in 1..Behind(file, f) : new[k] = file[k]
    /\ \A k \in 1..Len(out) : new[Behind(file, f) + k] = out[k]
    /\ f.append => Len(new) = Len(file) + Len(out)

\* s and the line e are in the two parts.
Split(s, e, out, rest) ==
    \A x : x = e \/ (\E k \in 1..Len(s) : s[k] = x) =>
            \/ \E k \in 1..Len(out) : out[k] = x
            \/ \E k \in 1..Len(rest) : rest[k] = x

\* A function on 1..n is a sequence of length n.
LEMMA SlotsAreSeq ==
    ASSUME NEW S, NEW n \in Nat, NEW g \in [1..n -> S]
    PROVE  g \in Seq(S) /\ Len(g) = n
<1>1. g \in Seq(S)
    BY SeqDef
<1>2. DOMAIN g = 1..n /\ DOMAIN g = 1..Len(g) /\ Len(g) \in Nat
    BY <1>1, LenProperties
<1>3. Len(g) = n
    <2>1. CASE Len(g) < n
        <3>1. n \in 1..n /\ n \notin 1..Len(g)
            BY <1>2, <2>1
        <3> QED BY <1>2, <3>1
    <2>2. CASE n < Len(g)
        <3>1. Len(g) \in 1..Len(g) /\ Len(g) \notin 1..n
            BY <1>2, <2>2
        <3> QED BY <1>2, <3>1
    <2> QED BY <1>2, <2>1, <2>2
<1> QED BY <1>1, <1>3

\* A write leaves a sequence of lines and holes; it keeps the slots behind the
\* descriptor and puts its lines after them, if that does not stand past the end.
LEMMA WrittenIs ==
    ASSUME NEW S, NEW file \in Seq(S \cup {Hole}), NEW f \in [append : BOOLEAN, pos : Nat],
           NEW out \in Seq(S)
    PROVE  /\ Written(file, f, out) \in Seq(S \cup {Hole})
           /\ Behind(file, f) <= Len(file) => Continues(Written(file, f, out), file, f, out)
<1> DEFINE start == Behind(file, f)
           end   == start + Len(out)
           size  == IF out = <<>> \/ end < Len(file) THEN Len(file) ELSE end
           new   == [k \in 1..size |->
                        IF k \in (start + 1)..end THEN out[k - start]
                        ELSE IF k <= Len(file) THEN file[k] ELSE Hole]
<1>1. Written(file, f, out) = new
    BY DEF Written, Behind
<1>2. Len(file) \in Nat /\ Len(out) \in Nat /\ f.pos \in Nat /\ f.append \in BOOLEAN
    BY LenProperties
<1>3. start \in Nat
    BY <1>2 DEF Behind
<1>4. out = <<>> => Len(out) = 0
    OBVIOUS
<1>5. /\ size \in Nat /\ end \in Nat /\ Len(file) <= size
      /\ start <= Len(file) => end <= size
    BY <1>2, <1>3, <1>4
<1>6. f.append => size = Len(file) + Len(out)
    BY <1>2, <1>4 DEF Behind
<1>7. \A k \in 1..Len(file) : file[k] \in S \cup {Hole}
    BY ElementOfSeq
<1>8. \A k \in 1..Len(out) : out[k] \in S
    BY ElementOfSeq
<1> HIDE DEF start
<1>9. \A k \in 1..size : new[k] \in S \cup {Hole}
    <2> SUFFICES ASSUME NEW k \in 1..size PROVE new[k] \in S \cup {Hole}
        OBVIOUS
    <2>1. CASE k \in (start + 1)..end
        <3>1. k - start \in 1..Len(out)
            BY <1>2, <1>3, <2>1
        <3> QED BY <1>8, <2>1, <3>1
    <2>2. CASE k \notin (start + 1)..end
        BY <1>2, <1>7, <2>2
    <2> QED BY <2>1, <2>2
<1>10. new \in [1..size -> S \cup {Hole}]
    BY <1>9
<1>11. ASSUME start <= Len(file)
       PROVE  /\ \A k \in 1..start : new[k] = file[k]
              /\ \A k \in 1..Len(out) : new[start + k] = out[k]
    <2>1. \A k \in 1..start : k \in 1..size /\ k \notin (start + 1)..end /\ k <= Len(file)
        BY <1>2, <1>3, <1>5, <1>11
    <2>2. \A k \in 1..Len(out) : /\ start + k \in 1..size /\ start + k \in (start + 1)..end
                                 /\ (start + k) - start = k
        BY <1>2, <1>3, <1>5, <1>11
    <2> QED BY <2>1, <2>2
<1> HIDE DEF size, new
<1>12. new \in Seq(S \cup {Hole}) /\ Len(new) = size
    BY <1>5, <1>10, SlotsAreSeq
<1> QED BY <1>1, <1>5, <1>6, <1>11, <1>12 DEF start, Continues

\* The BufWriter takes a line and pushes out a part of what it has: no line is
\* lost between the part and the rest.
LEMMA PushSplits ==
    ASSUME NEW S, NEW s \in Seq(S), NEW e \in S,
           NEW n \in {0, Len(s), Len(Append(s, e))}
    PROVE  LET all  == Append(s, e)
               out  == SubSeq(all, 1, n)
               rest == SubSeq(all, n + 1, Len(all))
           IN  out \in Seq(S) /\ rest \in Seq(S) /\ Split(s, e, out, rest)
<1> DEFINE all  == Append(s, e)
           out  == SubSeq(all, 1, n)
           rest == SubSeq(all, n + 1, Len(all))
<1>1. /\ all \in Seq(S) /\ Len(all) = Len(s) + 1 /\ Len(s) \in Nat /\ all[Len(s) + 1] = e
      /\ \A k \in 1..Len(s) : all[k] = s[k]
    BY AppendProperties, LenProperties
<1>2. n \in Nat /\ n <= Len(all)
    BY <1>1
<1>3. \A k \in 1..Len(all) : all[k] \in S
    BY <1>1, ElementOfSeq
<1> HIDE DEF all
<1>4. /\ out \in Seq(S) /\ Len(out) = n
      /\ \A k \in 1..n : out[k] = all[k]
    <2>1. \A k \in 1..n : all[k] \in S
        BY <1>1, <1>2, <1>3
    <2>2. /\ out \in Seq(S) /\ Len(out) = IF 1 <= n THEN n - 1 + 1 ELSE 0
          /\ \A k \in 1..(n - 1 + 1) : out[k] = all[1 + k - 1]
        BY <1>2, <2>1, SubSeqProperties
    <2> HIDE DEF out
    <2> QED BY <1>2, <2>2
<1>5. /\ rest \in Seq(S) /\ Len(rest) = Len(all) - n
      /\ \A k \in 1..(Len(all) - n) : rest[k] = all[n + k]
    <2>1. \A k \in (n + 1)..Len(all) : all[k] \in S
        BY <1>1, <1>2, <1>3
    <2>2. n + 1 \in Int /\ Len(all) \in Int
        BY <1>1, <1>2
    <2>3. /\ rest \in Seq(S)
          /\ Len(rest) = IF n + 1 <= Len(all) THEN Len(all) - (n + 1) + 1 ELSE 0
          /\ \A k \in 1..(Len(all) - (n + 1) + 1) : rest[k] = all[n + 1 + k - 1]
        BY <2>1, <2>2, SubSeqProperties
    <2> HIDE DEF rest
    <2> QED BY <1>1, <1>2, <2>3
<1> HIDE DEF out, rest
<1>6. ASSUME NEW k \in 1..Len(all)
      PROVE  \/ \E j \in 1..Len(out) : out[j] = all[k]
             \/ \E j \in 1..Len(rest) : rest[j] = all[k]
    <2>1. CASE k <= n
        BY <1>1, <1>2, <1>4, <2>1
    <2>2. CASE n < k
        <3>1. PICK m \in 1..(Len(all) - n) : n + m = k
            <4>1. k - n \in 1..(Len(all) - n) /\ n + (k - n) = k
                BY <1>1, <1>2, <2>2
            <4> QED BY <4>1
        <3>2. rest[m] = all[k]
            BY <1>5, <3>1
        <3>3. m \in 1..Len(rest)
            BY <1>5, <3>1
        <3> QED BY <3>2, <3>3
    <2>3. k <= n \/ n < k
        BY <1>1, <1>2
    <2> QED BY <2>1, <2>2, <2>3
<1>7. ASSUME NEW x, x = e \/ (\E k \in 1..Len(s) : s[k] = x)
      PROVE  \E k \in 1..Len(all) : all[k] = x
    BY <1>1, <1>7
<1>8. out \in Seq(S) /\ rest \in Seq(S) /\ Split(s, e, out, rest)
    <2> SUFFICES ASSUME NEW x, x = e \/ (\E k \in 1..Len(s) : s[k] = x)
                 PROVE  \/ \E k \in 1..Len(out) : out[k] = x
                        \/ \E k \in 1..Len(rest) : rest[k] = x
        BY <1>4, <1>5 DEF Split
    <2>1. PICK k \in 1..Len(all) : all[k] = x
        BY <1>7
    <2> QED BY <1>6, <2>1
<1> QED BY <1>8, Zenon DEF out, rest, all
===============================================================================
