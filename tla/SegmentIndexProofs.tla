-------------------------- MODULE SegmentIndexProofs --------------------------
(***************************************************************************)
(* Theorems about SegmentIndex, for every set of lines, configurations,    *)
(* keywords and ranges: what was sealed is parsed, what the list says is   *)
(* true, and what a query answers and may not miss.                        *)
(***************************************************************************)
EXTENDS SegmentIndex, SegmentFormatProofs, SequenceTheorems

-----------------------------------------------------------------------------
(* Lists: sequences of anything.                                            *)

IsList(s) == Len(s) \in Nat /\ DOMAIN s = 1..Len(s) /\ s = [i \in 1..Len(s) |-> s[i]]

LEMMA FirstNumbers ==
    ASSUME NEW n \in Nat
    PROVE  IsFiniteSet(1..n) /\ Cardinality(1..n) = n
<1>1. /\ IsFiniteSet(1..n)
      /\ Cardinality(1..n) = IF 1 > n THEN 0 ELSE n - 1 + 1
    BY FS_Interval
<1> QED BY <1>1

LEMMA ListIsSeq ==
    ASSUME NEW s, IsList(s)
    PROVE  s \in Seq(ToSet(s))
<1>1. s \in [1..Len(s) -> ToSet(s)]
    BY DEF IsList, ToSet
<1>2. \A n \in Nat : [1..n -> ToSet(s)] \subseteq Seq(ToSet(s))
    BY SeqDef
<1> QED BY <1>1, <1>2 DEF IsList

LEMMA SeqIsList ==
    ASSUME NEW S, NEW s \in Seq(S)
    PROVE  IsList(s) /\ ToSet(s) \subseteq S
<1>1. Len(s) \in Nat /\ s \in [1..Len(s) -> S] /\ DOMAIN s = 1..Len(s)
    BY LenProperties
<1> QED BY <1>1 DEF IsList, ToSet

\* A function on 1..n is a list.
LEMMA ListIs ==
    ASSUME NEW n \in Nat, NEW s, s = [i \in 1..n |-> s[i]]
    PROVE  IsList(s) /\ Len(s) = n /\ DOMAIN s = 1..n
<1> DEFINE S == {s[i] : i \in 1..n}
<1>1. s \in [1..n -> S] /\ DOMAIN s = 1..n
    OBVIOUS
<1>2. s \in Seq(S)
    <2> HIDE DEF S
    <2> QED BY <1>1, SeqDef
<1>3. Len(s) \in Nat /\ DOMAIN s = 1..Len(s)
    <2> HIDE DEF S
    <2> QED BY <1>2, LenProperties
<1>4. Len(s) = n
    <2> DEFINE m == Len(s)
    <2>1. m \in Nat /\ 1..m = 1..n
        BY <1>1, <1>3
    <2> HIDE DEF m
    <2>2. \A x \in Int : x \in 1..m <=> x \in 1..n
        BY <2>1
    <2>3. m <= n /\ n <= m
        <3>1. m = 0 \/ m \in 1..m
            BY <2>1
        <3>2. n = 0 \/ n \in 1..n
            OBVIOUS
        <3> QED BY <2>1, <2>2, <3>1, <3>2
    <2>4. m = n
        BY <2>1, <2>3
    <2> QED BY <2>4 DEF m
<1> QED BY <1>1, <1>3, <1>4 DEF IsList

\* Two lists that are equal at every place.
LEMMA ListsEqual ==
    ASSUME NEW s, NEW t, IsList(s), IsList(t), Len(s) = Len(t),
           \A i \in 1..Len(s) : s[i] = t[i]
    PROVE  s = t
BY DEF IsList

LEMMA EmptyList ==
    /\ IsList(<<>>) /\ Len(<<>>) = 0 /\ DOMAIN <<>> = {}
    /\ \A s : IsList(s) /\ Len(s) = 0 => s = <<>>
<1>1. IsList(<<>>) /\ Len(<<>>) = 0
    BY DEF IsList
<1>2. ASSUME NEW s, IsList(s), Len(s) = 0 PROVE s = <<>>
    BY <1>1, <1>2, ListsEqual
<1> QED BY <1>1, <1>2 DEF IsList

LEMMA ConcatIs ==
    ASSUME NEW s, NEW t, IsList(s), IsList(t)
    PROVE  /\ IsList(s \o t) /\ Len(s \o t) = Len(s) + Len(t)
           /\ \A i \in 1..Len(s) : (s \o t)[i] = s[i]
           /\ \A i \in 1..Len(t) : (s \o t)[Len(s) + i] = t[i]
           /\ ToSet(s \o t) = ToSet(s) \cup ToSet(t)
<1> DEFINE S == ToSet(s) \cup ToSet(t)
           u == s \o t
<1>1. s \in Seq(S) /\ t \in Seq(S)
    <2>1. s \in Seq(ToSet(s)) /\ t \in Seq(ToSet(t))
        BY ListIsSeq
    <2> QED BY <2>1, SeqMonotonic
<1> HIDE DEF S
<1>2. /\ u \in Seq(S) /\ Len(u) = Len(s) + Len(t)
      /\ \A i \in 1..(Len(s) + Len(t)) : u[i] = IF i <= Len(s) THEN s[i] ELSE t[i - Len(s)]
    BY <1>1, ConcatProperties
<1>3. IsList(u)
    BY <1>2, SeqIsList
<1>4. Len(s) \in Nat /\ Len(t) \in Nat /\ DOMAIN s = 1..Len(s) /\ DOMAIN t = 1..Len(t)
      /\ DOMAIN u = 1..Len(u)
    BY <1>3 DEF IsList
<1> HIDE DEF u
<1>5. \A i \in 1..Len(s) : u[i] = s[i] /\ i \in 1..Len(u)
    BY <1>2, <1>4
<1>6. \A i \in 1..Len(t) : u[Len(s) + i] = t[i] /\ Len(s) + i \in 1..Len(u)
    <2> TAKE i \in 1..Len(t)
    <2>1. Len(s) + i \in 1..(Len(s) + Len(t)) /\ ~(Len(s) + i <= Len(s))
          /\ (Len(s) + i) - Len(s) = i
        BY <1>4
    <2> QED BY <1>2, <2>1
<1>7. ToSet(u) = ToSet(s) \cup ToSet(t)
    <2>1. ASSUME NEW x \in ToSet(u) PROVE x \in ToSet(s) \cup ToSet(t)
        <3>1. PICK i \in 1..Len(u) : x = u[i]
            BY <1>4 DEF ToSet
        <3>2. i \in 1..Len(s) \/ i - Len(s) \in 1..Len(t)
            BY <1>2, <1>4
        <3>3. CASE i \in 1..Len(s)
            BY <1>4, <1>5, <3>1, <3>3 DEF ToSet
        <3>4. CASE i - Len(s) \in 1..Len(t)
            <4>1. Len(s) + (i - Len(s)) = i
                BY <1>4
            <4> QED BY <1>4, <1>6, <3>1, <3>4, <4>1 DEF ToSet
        <3> QED BY <3>2, <3>3, <3>4
    <2>2. ASSUME NEW x \in ToSet(s) \cup ToSet(t) PROVE x \in ToSet(u)
        BY <1>4, <1>5, <1>6 DEF ToSet
    <2> QED BY <2>1, <2>2
<1> QED BY <1>2, <1>3, <1>5, <1>6, <1>7 DEF u

\* SubSeq of a list, inside of it.
LEMMA SubSeqIs ==
    ASSUME NEW s, IsList(s), NEW m \in Nat \ {0}, NEW n \in Nat, n <= Len(s), m <= n + 1
    PROVE  /\ IsList(SubSeq(s, m, n)) /\ Len(SubSeq(s, m, n)) = n - m + 1
           /\ \A i \in 1..(n - m + 1) : SubSeq(s, m, n)[i] = s[m + i - 1]
           /\ ToSet(SubSeq(s, m, n)) \subseteq ToSet(s)
<1>1. \A i \in m..n : s[i] \in ToSet(s)
    BY DEF IsList, ToSet
<1> DEFINE u == SubSeq(s, m, n)
<1>2. /\ u \in Seq(ToSet(s)) /\ Len(u) = IF m <= n THEN n - m + 1 ELSE 0
      /\ \A i \in 1..(n - m + 1) : u[i] = s[m + i - 1]
    BY <1>1, SubSeqProperties
<1>3. Len(u) = n - m + 1
    <2>1. ~(m <= n) => n - m + 1 = 0
        OBVIOUS
    <2> QED BY <1>2, <2>1
<1> QED BY <1>2, <1>3, SeqIsList

\* The first n of a list.
LEMMA TakeIs ==
    ASSUME NEW s, IsList(s), NEW n \in Nat
    PROVE  /\ IsList(Take(s, n)) /\ Len(Take(s, n)) = IF n <= Len(s) THEN n ELSE Len(s)
           /\ \A i \in 1..Len(Take(s, n)) : i \in 1..Len(s) /\ Take(s, n)[i] = s[i]
           /\ Len(s) <= n => Take(s, n) = s
<1> DEFINE m == Min({n, Len(s)})
           u == SubSeq(s, 1, m)
<1>1. Len(s) \in Nat
    BY DEF IsList
<1>2. m = IF n <= Len(s) THEN n ELSE Len(s)
    <2>1. \A x \in {n, Len(s)} : (\A y \in {n, Len(s)} : x =< y)
                                  => x = IF n <= Len(s) THEN n ELSE Len(s)
        BY <1>1
    <2>2. \E x \in {n, Len(s)} : \A y \in {n, Len(s)} : x =< y
        BY <1>1
    <2> QED BY <2>1, <2>2 DEF Min
<1> HIDE DEF m
<1>3. m \in Nat /\ m <= Len(s) /\ 1 <= m + 1
    BY <1>1, <1>2
<1>4. /\ IsList(u) /\ Len(u) = m - 1 + 1
      /\ \A i \in 1..(m - 1 + 1) : u[i] = s[1 + i - 1]
    BY <1>3, SubSeqIs
<1>5. Len(u) = m /\ \A i \in 1..m : i \in 1..Len(s) /\ u[i] = s[i]
    <2>1. m - 1 + 1 = m /\ \A i \in 1..m : 1 + i - 1 = i /\ i \in 1..Len(s)
        BY <1>1, <1>3
    <2> QED BY <1>4, <2>1
<1>6. Len(s) <= n => u = s
    <2>1. SUFFICES ASSUME Len(s) <= n PROVE u = s
        OBVIOUS
    <2>2. m = Len(s)
        BY <1>1, <1>2, <2>1
    <2> HIDE DEF u
    <2> QED BY <1>4, <1>5, <2>2, ListsEqual
<1>7. Take(s, n) = u
    BY DEF Take, m
<1> QED BY <1>2, <1>4, <1>5, <1>6, <1>7

-----------------------------------------------------------------------------
(* One list in another: every place of the first has a place of its own in  *)
(* the second, with the same element.                                       *)

Places(s, t, f) ==
    /\ f \in [DOMAIN s -> DOMAIN t]
    /\ \A i \in DOMAIN s : t[f[i]] = s[i]
    /\ \A i, j \in DOMAIN s : f[i] = f[j] => i = j
Into(s, t) == \E f : Places(s, t, f)

LEMMA IntoIs ==
    ASSUME NEW s, NEW t, NEW f, f = [i \in DOMAIN s |-> f[i]],
           \A i \in DOMAIN s : f[i] \in DOMAIN t /\ t[f[i]] = s[i],
           \A i, j \in DOMAIN s : f[i] = f[j] => i = j
    PROVE  Into(s, t)
BY DEF Into, Places

LEMMA IntoSame == ASSUME NEW s PROVE Into(s, s)
<1> DEFINE f == [i \in DOMAIN s |-> i]
<1>1. /\ f = [i \in DOMAIN s |-> f[i]]
      /\ \A i \in DOMAIN s : f[i] \in DOMAIN s /\ s[f[i]] = s[i]
      /\ \A i, j \in DOMAIN s : f[i] = f[j] => i = j
    OBVIOUS
<1> HIDE DEF f
<1> QED BY <1>1, IntoIs

LEMMA IntoInto ==
    ASSUME NEW s, NEW t, NEW u, Into(s, t), Into(t, u)
    PROVE  Into(s, u)
<1>1. PICK f : Places(s, t, f)
    BY DEF Into
<1>2. PICK g : Places(t, u, g)
    BY DEF Into
<1> DEFINE h == [i \in DOMAIN s |-> g[f[i]]]
<1>3. /\ h = [i \in DOMAIN s |-> h[i]]
      /\ \A i \in DOMAIN s : h[i] \in DOMAIN u /\ u[h[i]] = s[i]
      /\ \A i, j \in DOMAIN s : h[i] = h[j] => i = j
    BY <1>1, <1>2 DEF Places
<1> HIDE DEF h
<1> QED BY <1>3, IntoIs

LEMMA IntoTake ==
    ASSUME NEW s, IsList(s), NEW n \in Nat
    PROVE  Into(Take(s, n), s)
<1> DEFINE u == Take(s, n)
           f == [i \in DOMAIN u |-> i]
<1>1. IsList(u) /\ \A i \in 1..Len(u) : i \in 1..Len(s) /\ u[i] = s[i]
    BY TakeIs
<1> HIDE DEF u
<1>2. /\ f = [i \in DOMAIN u |-> f[i]]
      /\ \A i \in DOMAIN u : f[i] \in DOMAIN s /\ s[f[i]] = u[i]
      /\ \A i, j \in DOMAIN u : f[i] = f[j] => i = j
    BY <1>1 DEF IsList
<1> HIDE DEF f
<1>3. Into(u, s)
    BY <1>2, IntoIs
<1> QED BY <1>3 DEF u

LEMMA IntoConcat ==
    ASSUME NEW s, NEW t, NEW a, NEW b, IsList(s), IsList(t), IsList(a), IsList(b),
           Into(s, a), Into(t, b)
    PROVE  Into(s \o t, a \o b) /\ Into(s \o t, b \o a)
<1>1. PICK f : Places(s, a, f)
    BY DEF Into
<1>2. PICK g : Places(t, b, g)
    BY DEF Into
<1> DEFINE l == Len(s)
           m == Len(t)
           p == Len(a)
           q == Len(b)
           u == s \o t
           v == a \o b
           w == b \o a
           h == [i \in DOMAIN u |-> IF i <= l THEN f[i] ELSE p + g[i - l]]
           k == [i \in DOMAIN u |-> IF i <= l THEN q + f[i] ELSE g[i - l]]
<1>3. /\ l \in Nat /\ m \in Nat /\ p \in Nat /\ q \in Nat
      /\ DOMAIN s = 1..l /\ DOMAIN t = 1..m /\ DOMAIN a = 1..p /\ DOMAIN b = 1..q
    BY DEF IsList
<1>4. /\ DOMAIN u = 1..(l + m)
      /\ \A i \in 1..l : u[i] = s[i]
      /\ \A i \in 1..m : u[l + i] = t[i]
    BY ConcatIs DEF IsList
<1>5. /\ DOMAIN v = 1..(p + q)
      /\ \A i \in 1..p : v[i] = a[i]
      /\ \A i \in 1..q : v[p + i] = b[i]
    BY ConcatIs DEF IsList
<1>6. /\ DOMAIN w = 1..(q + p)
      /\ \A i \in 1..q : w[i] = b[i]
      /\ \A i \in 1..p : w[q + i] = a[i]
    BY ConcatIs DEF IsList
<1> HIDE DEF l, m, p, q, u, v, w
<1>7. /\ \A i \in 1..l : f[i] \in 1..p /\ a[f[i]] = s[i]
      /\ \A i, j \in 1..l : f[i] = f[j] => i = j
      /\ \A i \in 1..m : g[i] \in 1..q /\ b[g[i]] = t[i]
      /\ \A i, j \in 1..m : g[i] = g[j] => i = j
    BY <1>1, <1>2, <1>3 DEF Places
<1>8. \A i \in 1..(l + m) : \/ i \in 1..l /\ i <= l
                            \/ i - l \in 1..m /\ ~(i <= l) /\ l + (i - l) = i
    BY <1>3
<1>9. /\ \A i \in 1..l : h[i] = f[i] /\ k[i] = q + f[i] /\ i \in DOMAIN u
      /\ \A i \in 1..m : h[l + i] = p + g[i] /\ k[l + i] = g[i] /\ l + i \in DOMAIN u
    <2>1. ASSUME NEW i \in 1..m PROVE ~(l + i <= l) /\ (l + i) - l = i /\ l + i \in DOMAIN u
        BY <1>3, <1>4
    <2>2. \A i \in 1..l : i <= l /\ i \in DOMAIN u
        BY <1>3, <1>4
    <2> QED BY <2>1, <2>2
<1>10. h = [i \in DOMAIN u |-> h[i]] /\ k = [i \in DOMAIN u |-> k[i]]
    OBVIOUS
<1> HIDE DEF h, k
<1>11. \A i \in DOMAIN u : h[i] \in DOMAIN v /\ v[h[i]] = u[i]
    <2> TAKE i \in DOMAIN u
    <2>1. CASE i \in 1..l
        <3>1. f[i] \in 1..p /\ f[i] \in 1..(p + q)
            BY <1>3, <1>7, <2>1
        <3> QED BY <1>4, <1>5, <1>7, <1>9, <2>1, <3>1
    <2>2. CASE i - l \in 1..m /\ l + (i - l) = i
        <3>1. g[i - l] \in 1..q /\ p + g[i - l] \in 1..(p + q)
            BY <1>3, <1>7, <2>2
        <3>2. h[i] = p + g[i - l] /\ u[i] = t[i - l]
            BY <1>4, <1>9, <2>2
        <3> QED BY <1>5, <1>7, <2>2, <3>1, <3>2
    <2> QED BY <1>4, <1>8, <2>1, <2>2
<1>12. \A i \in DOMAIN u : k[i] \in DOMAIN w /\ w[k[i]] = u[i]
    <2> TAKE i \in DOMAIN u
    <2>1. CASE i \in 1..l
        <3>1. f[i] \in 1..p /\ q + f[i] \in 1..(q + p)
            BY <1>3, <1>7, <2>1
        <3>2. k[i] = q + f[i] /\ u[i] = s[i]
            BY <1>4, <1>9, <2>1
        <3> QED BY <1>6, <1>7, <2>1, <3>1, <3>2
    <2>2. CASE i - l \in 1..m /\ l + (i - l) = i
        <3>1. g[i - l] \in 1..q /\ g[i - l] \in 1..(q + p)
            BY <1>3, <1>7, <2>2
        <3>2. k[i] = g[i - l] /\ u[i] = t[i - l]
            BY <1>4, <1>9, <2>2
        <3> QED BY <1>6, <1>7, <2>2, <3>1, <3>2
    <2> QED BY <1>4, <1>8, <2>1, <2>2
<1>13. \A i, j \in DOMAIN u : (h[i] = h[j] => i = j) /\ (k[i] = k[j] => i = j)
    <2> TAKE i, j \in DOMAIN u
    <2>1. CASE i \in 1..l /\ j \in 1..l
        <3>1. f[i] \in Nat /\ f[j] \in Nat
            BY <1>7, <2>1
        <3>2. \A x, y \in Nat : q + x = q + y => x = y
            BY <1>3
        <3> QED BY <1>7, <1>9, <2>1, <3>1, <3>2
    <2>2. CASE i \in 1..l /\ j - l \in 1..m /\ l + (j - l) = j
        <3>1. /\ h[i] \in 1..p /\ h[j] = p + g[j - l] /\ g[j - l] \in 1..q
              /\ k[i] = q + f[i] /\ f[i] \in 1..p /\ k[j] = g[j - l]
            BY <1>7, <1>9, <2>2
        <3> QED BY <1>3, <3>1
    <2>3. CASE j \in 1..l /\ i - l \in 1..m /\ l + (i - l) = i
        <3>1. /\ h[j] \in 1..p /\ h[i] = p + g[i - l] /\ g[i - l] \in 1..q
              /\ k[j] = q + f[j] /\ f[j] \in 1..p /\ k[i] = g[i - l]
            BY <1>7, <1>9, <2>3
        <3> QED BY <1>3, <3>1
    <2>4. CASE i - l \in 1..m /\ l + (i - l) = i /\ j - l \in 1..m /\ l + (j - l) = j
        <3>1. /\ h[i] = p + g[i - l] /\ h[j] = p + g[j - l]
              /\ k[i] = g[i - l] /\ k[j] = g[j - l]
              /\ g[i - l] \in Nat /\ g[j - l] \in Nat
            BY <1>7, <1>9, <2>4
        <3>2. \A x, y \in Nat : p + x = p + y => x = y
            BY <1>3
        <3>3. g[i - l] = g[j - l] => i - l = j - l
            BY <1>7, <2>4
        <3> QED BY <2>4, <3>1, <3>2, <3>3
    <2> QED BY <1>4, <1>8, <2>1, <2>2, <2>3, <2>4
<1>14. Into(u, v) /\ Into(u, w)
    BY <1>10, <1>11, <1>12, <1>13, IntoIs
<1> QED BY <1>14 DEF u, v, w

\* A list in another one is not longer, and has no element more often.
LEMMA IntoCount ==
    ASSUME NEW s, NEW t, IsList(s), IsList(t), Into(s, t)
    PROVE  /\ Len(s) <= Len(t) /\ ToSet(s) \subseteq ToSet(t)
           /\ \A x : Count(x, s) <= Count(x, t)
<1>1. PICK f : Places(s, t, f)
    BY DEF Into
<1>2. ASSUME NEW x PROVE Count(x, s) <= Count(x, t)
    <2> DEFINE A == {i \in DOMAIN s : s[i] = x}
               B == {i \in DOMAIN t : t[i] = x}
               g == [i \in A |-> f[i]]
    <2>1. g \in [A -> B] /\ \A i, j \in A : g[i] = g[j] => i = j
        BY <1>1 DEF Places
    <2>2. IsFiniteSet(B)
        <3>1. IsFiniteSet(1..Len(t)) /\ DOMAIN t = 1..Len(t)
            BY FirstNumbers DEF IsList
        <3>2. B \in SUBSET (DOMAIN t)
            OBVIOUS
        <3> HIDE DEF B
        <3> QED BY <3>1, <3>2, FS_Subset
    <2> HIDE DEF A, B, g
    <2>3. g \in Injection(A, B)
        BY <2>1 DEF Injection, IsInjective
    <2>4. Cardinality(A) <= Cardinality(B)
        BY <2>2, <2>3, FS_Injection
    <2> QED BY <2>4 DEF Count, A, B
<1>3. Len(s) <= Len(t)
    <2>1. /\ IsFiniteSet(1..Len(t)) /\ Cardinality(1..Len(t)) = Len(t)
          /\ Cardinality(1..Len(s)) = Len(s)
        BY FirstNumbers DEF IsList
    <2>2. f \in Injection(1..Len(s), 1..Len(t))
        BY <1>1 DEF Injection, IsInjective, Places, IsList
    <2>3. Cardinality(1..Len(s)) <= Cardinality(1..Len(t))
        BY <2>1, <2>2, FS_Injection
    <2> QED BY <2>1, <2>3
<1>4. ToSet(s) \subseteq ToSet(t)
    BY <1>1 DEF Places, ToSet
<1> QED BY <1>2, <1>3, <1>4

-----------------------------------------------------------------------------
(* Lists one after the other.                                               *)

Flattens(seqs, n, h) ==
    h = [i \in 1..n |-> IF i = 1 THEN seqs[i] ELSE h[i - 1] \o seqs[i]]

\* The recursion of FlattenSeq has a solution, and that is what it gives.
LEMMA FlattenIs ==
    ASSUME NEW n \in Nat, NEW seqs, seqs = [i \in 1..n |-> seqs[i]]
    PROVE  /\ n = 0 => FlattenSeq(seqs) = <<>>
           /\ n > 0 => \E h : Flattens(seqs, n, h) /\ FlattenSeq(seqs) = h[n]
<1>1. IsList(seqs) /\ Len(seqs) = n
    BY ListIs
<1>2. n = 0 => FlattenSeq(seqs) = <<>>
    <2>1. n = 0 => seqs = <<>>
        BY <1>1, EmptyList
    <2> QED BY <1>1, <2>1 DEF FlattenSeq
<1>3. ASSUME n > 0 PROVE \E h : Flattens(seqs, n, h) /\ FlattenSeq(seqs) = h[n]
    <2> DEFINE Solved == {m \in Nat : \E h : Flattens(seqs, m, h)}
    <2>1. 0 \in Solved
        <3> DEFINE g == [i \in 1..0 |-> 0]
        <3>1. Flattens(seqs, 0, g)
            BY DEF Flattens
        <3> QED BY <3>1
    <2>2. ASSUME NEW m \in Nat, m \in Solved PROVE m + 1 \in Solved
        <3>1. PICK h : Flattens(seqs, m, h)
            BY <2>2
        <3> DEFINE g == [i \in 1..(m + 1) |-> IF i \in 1..m THEN h[i]
                            ELSE IF i = 1 THEN seqs[i] ELSE h[i - 1] \o seqs[i]]
        <3>2. \A i \in 1..m : h[i] = IF i = 1 THEN seqs[i] ELSE h[i - 1] \o seqs[i]
            BY <3>1 DEF Flattens
        <3>3. \A i \in 1..(m + 1) : i \notin 1..m \/ i \in 1..m
            OBVIOUS
        <3>4. \A i \in 1..(m + 1) : i # 1 => i - 1 \in 1..m /\ i - 1 \in 1..(m + 1)
            OBVIOUS
        <3>5. \A i \in 1..m : i \in 1..(m + 1)
            OBVIOUS
        <3>6. \A i \in 1..(m + 1) : g[i] = IF i = 1 THEN seqs[i] ELSE g[i - 1] \o seqs[i]
            BY <3>2, <3>4, <3>5
        <3>7. Flattens(seqs, m + 1, g)
            BY <3>6 DEF Flattens
        <3>8. \E u : Flattens(seqs, m + 1, u)
            <4> HIDE DEF g
            <4> QED BY <3>7
        <3>9. m + 1 \in Nat
            OBVIOUS
        <3> HIDE DEF g
        <3> QED BY <3>8, <3>9
    <2>3. n \in Solved
        <3> HIDE DEF Solved
        <3> QED BY <2>1, <2>2, NumbersUpTo
    <2> DEFINE flatten == CHOOSE h : Flattens(seqs, n, h)
    <2>4. Flattens(seqs, n, flatten)
        BY <2>3
    <2>5. FlattenSeq(seqs) = flatten[n]
        BY <1>1, <1>3 DEF FlattenSeq, Flattens
    <2> HIDE DEF flatten
    <2> QED BY <2>4, <2>5
<1> QED BY <1>2, <1>3

\* The places of the whole, and the list and the place that each comes from.
Origins(flat, seqs, n, g) ==
    /\ g \in [1..Len(flat) -> Nat \X Nat]
    /\ \A p \in 1..Len(flat) : /\ g[p][1] \in 1..n /\ g[p][2] \in 1..Len(seqs[g[p][1]])
                               /\ flat[p] = seqs[g[p][1]][g[p][2]]
    /\ \A p, q \in 1..Len(flat) : g[p] = g[q] => p = q
    /\ \A i \in 1..n : \A k \in 1..Len(seqs[i]) : \E p \in 1..Len(flat) : g[p] = <<i, k>>

LEMMA OriginsOfOne ==
    ASSUME NEW seqs, IsList(seqs[1])
    PROVE  \E g : Origins(seqs[1], seqs, 1, g)
<1> DEFINE s == seqs[1]
           g == [p \in 1..Len(s) |-> <<1, p>>]
<1>1. Len(s) \in Nat
    BY DEF IsList
<1>2. \A p \in 1..Len(s) : g[p] = <<1, p>> /\ g[p][1] = 1 /\ g[p][2] = p
    OBVIOUS
<1>3. g \in [1..Len(s) -> Nat \X Nat]
    BY <1>1
<1>4. \A p, q \in 1..Len(s) : g[p] = g[q] => p = q
    OBVIOUS
<1>5. \A i \in 1..1 : i = 1
    OBVIOUS
<1> HIDE DEF g
<1>6. \A p \in 1..Len(s) : /\ g[p][1] \in 1..1 /\ g[p][2] \in 1..Len(seqs[g[p][1]])
                           /\ s[p] = seqs[g[p][1]][g[p][2]]
    BY <1>2
<1>7. ASSUME NEW i \in 1..1, NEW k \in 1..Len(seqs[i]) PROVE \E p \in 1..Len(s) : g[p] = <<i, k>>
    BY <1>2, <1>5
<1> HIDE DEF s
<1>8. Origins(s, seqs, 1, g)
    BY <1>3, <1>4, <1>6, <1>7 DEF Origins
<1>9. \E u : Origins(s, seqs, 1, u)
    BY <1>8
<1> QED BY <1>9 DEF s

LEMMA OriginsOfMore ==
    ASSUME NEW seqs, NEW m \in Nat \ {0}, NEW flat, IsList(flat), IsList(seqs[m + 1]),
           NEW g, Origins(flat, seqs, m, g)
    PROVE  \E h : Origins(flat \o seqs[m + 1], seqs, m + 1, h)
<1> DEFINE s == seqs[m + 1]
           all == flat \o s
           l == Len(flat)
           h == [p \in 1..Len(all) |-> IF p <= l THEN g[p] ELSE <<m + 1, p - l>>]
<1>1. l \in Nat /\ Len(s) \in Nat
    BY DEF IsList
<1>2. /\ Len(all) = l + Len(s)
      /\ \A i \in 1..l : all[i] = flat[i]
      /\ \A i \in 1..Len(s) : all[l + i] = s[i]
    BY ConcatIs
<1>3. \A p \in 1..Len(all) : \/ p \in 1..l /\ p <= l
                             \/ p - l \in 1..Len(s) /\ ~(p <= l) /\ l + (p - l) = p
    BY <1>1, <1>2
<1>4. /\ \A p \in 1..l : p \in 1..Len(all) /\ h[p] = g[p]
      /\ \A k \in 1..Len(s) : /\ l + k \in 1..Len(all) /\ h[l + k] = <<m + 1, k>>
    <2>1. \A p \in 1..l : p \in 1..Len(all) /\ p <= l
        BY <1>1, <1>2
    <2>2. \A k \in 1..Len(s) : l + k \in 1..Len(all) /\ ~(l + k <= l) /\ (l + k) - l = k
        BY <1>1, <1>2
    <2> HIDE DEF all, l, s
    <2> QED BY <2>1, <2>2
<1>5. h = [p \in 1..Len(all) |-> h[p]]
    OBVIOUS
<1>6. /\ g \in [1..l -> Nat \X Nat]
      /\ \A p \in 1..l : /\ g[p][1] \in 1..m /\ g[p][2] \in 1..Len(seqs[g[p][1]])
                         /\ flat[p] = seqs[g[p][1]][g[p][2]]
      /\ \A p, q \in 1..l : g[p] = g[q] => p = q
      /\ \A i \in 1..m : \A k \in 1..Len(seqs[i]) : \E p \in 1..l : g[p] = <<i, k>>
    BY DEF Origins
<1>7. m + 1 \in Nat /\ m + 1 \in 1..(m + 1) /\ \A i \in 1..m : i \in 1..(m + 1) /\ i # m + 1
    OBVIOUS
<1>8. \A i \in 1..(m + 1) : i \in 1..m \/ i = m + 1
    OBVIOUS
<1> HIDE DEF h, l, all
<1>9. ASSUME NEW p \in 1..Len(all)
      PROVE  /\ h[p] \in Nat \X Nat
             /\ h[p][1] \in 1..(m + 1) /\ h[p][2] \in 1..Len(seqs[h[p][1]])
             /\ all[p] = seqs[h[p][1]][h[p][2]]
    <2>1. CASE p \in 1..l
        BY <1>2, <1>4, <1>6, <1>7, <2>1
    <2>2. CASE p - l \in 1..Len(s) /\ l + (p - l) = p
        <3>1. h[p] = <<m + 1, p - l>> /\ all[p] = s[p - l]
            BY <1>2, <1>4, <2>2
        <3>2. p - l \in Nat
            BY <1>1, <2>2
        <3> QED BY <1>7, <2>2, <3>1, <3>2
    <2> QED BY <1>3, <2>1, <2>2
<1>10. ASSUME NEW p \in 1..Len(all), NEW q \in 1..Len(all), h[p] = h[q] PROVE p = q
    <2>1. CASE p \in 1..l /\ q \in 1..l
        BY <1>4, <1>6, <1>10, <2>1
    <2>2. CASE p \in 1..l /\ q - l \in 1..Len(s) /\ l + (q - l) = q
        <3>1. h[p][1] \in 1..m /\ h[q] = <<m + 1, q - l>>
            BY <1>4, <1>6, <2>2
        <3> QED BY <1>7, <1>10, <3>1
    <2>3. CASE q \in 1..l /\ p - l \in 1..Len(s) /\ l + (p - l) = p
        <3>1. h[q][1] \in 1..m /\ h[p] = <<m + 1, p - l>>
            BY <1>4, <1>6, <2>3
        <3> QED BY <1>7, <1>10, <3>1
    <2>4. CASE /\ p - l \in 1..Len(s) /\ l + (p - l) = p
               /\ q - l \in 1..Len(s) /\ l + (q - l) = q
        <3>1. h[q] = <<m + 1, q - l>> /\ h[p] = <<m + 1, p - l>>
            BY <1>4, <2>4
        <3>2. p - l = q - l
            BY <1>10, <3>1
        <3> QED BY <2>4, <3>2
    <2> QED BY <1>3, <2>1, <2>2, <2>3, <2>4
<1>11. ASSUME NEW i \in 1..(m + 1), NEW k \in 1..Len(seqs[i])
       PROVE  \E p \in 1..Len(all) : h[p] = <<i, k>>
    <2>1. CASE i \in 1..m
        <3>1. PICK p \in 1..l : g[p] = <<i, k>>
            BY <1>6, <2>1
        <3> QED BY <1>4, <3>1
    <2>2. CASE i = m + 1
        BY <1>4, <2>2
    <2> QED BY <1>8, <2>1, <2>2
<1>12. Origins(all, seqs, m + 1, h)
    BY <1>5, <1>9, <1>10, <1>11 DEF Origins
<1>13. \E u : Origins(all, seqs, m + 1, u)
    BY <1>12
<1> QED BY <1>13 DEF all

\* Every place of the whole is one place of one list, and the other way round.
LEMMA FlattenPlaces ==
    ASSUME NEW n \in Nat, NEW seqs, seqs = [i \in 1..n |-> seqs[i]],
           \A i \in 1..n : IsList(seqs[i])
    PROVE  /\ IsList(FlattenSeq(seqs))
           /\ \E g : Origins(FlattenSeq(seqs), seqs, n, g)
<1>1. CASE n = 0
    <2>1. FlattenSeq(seqs) = <<>>
        BY <1>1, FlattenIs
    <2> DEFINE g == [p \in 1..0 |-> <<0, 0>>]
    <2>2. Origins(<<>>, seqs, n, g)
        BY <1>1, EmptyList DEF Origins
    <2>3. \E u : Origins(<<>>, seqs, n, u)
        <3> HIDE DEF g
        <3> QED BY <2>2
    <2> QED BY <2>1, <2>3, EmptyList
<1>2. CASE n > 0
    <2>1. PICK h : Flattens(seqs, n, h) /\ FlattenSeq(seqs) = h[n]
        BY <1>2, FlattenIs
    <2>2. \A i \in 1..n : h[i] = IF i = 1 THEN seqs[i] ELSE h[i - 1] \o seqs[i]
        BY <2>1 DEF Flattens
    <2> DEFINE Good == {m \in Nat : m + 1 \in 1..n =>
                          IsList(h[m + 1]) /\ \E g : Origins(h[m + 1], seqs, m + 1, g)}
    <2>3. 0 \in Good
        <3>1. 0 + 1 = 1 /\ 1 \in 1..n
            BY <1>2
        <3>2. h[1] = seqs[1] /\ IsList(seqs[1])
            BY <2>2, <3>1
        <3> QED BY <3>1, <3>2, OriginsOfOne
    <2>4. ASSUME NEW m \in Nat, m \in Good PROVE m + 1 \in Good
        <3>1. SUFFICES ASSUME (m + 1) + 1 \in 1..n
                       PROVE  /\ IsList(h[(m + 1) + 1])
                              /\ \E g : Origins(h[(m + 1) + 1], seqs, (m + 1) + 1, g)
            BY SMTT(40)
        <3> DEFINE k == m + 1
        <3>2. k \in Nat \ {0} /\ k \in 1..n /\ k + 1 \in 1..n /\ k + 1 # 1 /\ (k + 1) - 1 = k
            BY <3>1
        <3>3. IsList(h[k]) /\ \E g : Origins(h[k], seqs, k, g)
            BY <2>4, <3>2
        <3> HIDE DEF k
        <3>4. h[k + 1] = h[k] \o seqs[k + 1] /\ IsList(seqs[k + 1])
            BY <2>2, <3>2
        <3>5. PICK g : Origins(h[k], seqs, k, g)
            BY <3>3
        <3>6. \E u : Origins(h[k + 1], seqs, k + 1, u)
            BY <3>2, <3>3, <3>4, <3>5, OriginsOfMore
        <3>7. IsList(h[k + 1])
            BY <3>3, <3>4, ConcatIs
        <3> QED BY <3>6, <3>7 DEF k
    <2>5. n - 1 \in Good
        <3>1. n - 1 \in Nat
            BY <1>2
        <3> HIDE DEF Good
        <3> QED BY <2>3, <2>4, <3>1, NumbersUpTo
    <2> DEFINE k == (n - 1) + 1
    <2>6. k = n /\ k \in 1..n
        BY <1>2
    <2>7. IsList(h[k]) /\ \E g : Origins(h[k], seqs, k, g)
        BY <2>5, <2>6
    <2> HIDE DEF k
    <2>8. PICK g : Origins(h[k], seqs, k, g)
        BY <2>7
    <2>9. IsList(h[n]) /\ Origins(h[n], seqs, n, g)
        BY <2>6, <2>7, <2>8
    <2>10. IsList(FlattenSeq(seqs)) /\ Origins(FlattenSeq(seqs), seqs, n, g)
        BY <2>1, <2>9
    <2> HIDE DEF Good
    <2> QED BY <2>10
<1>3. n = 0 \/ n > 0
    OBVIOUS
<1> QED BY <1>1, <1>2, <1>3

-----------------------------------------------------------------------------
(* The invariant.                                                           *)

\* The chunks that write_segment_v2 makes of lists of lines.
ChunksFrom(lists, templates) ==
    [i \in 1..Len(lists) |->
        ChunkOf(lists[i], templates,
                [k \in 1..Len(lists[i]) |-> TemplateOf(lists[i][k], FlattenSeq(lists))])]

TemplatesOf(logs) == {TemplateOf(l, logs) : l \in ToSet(logs)}

\* A file of the second version, for any cut of the batch into chunks, any
\* order of its templates, and with a dictionary or without.
WrittenV2(file, id, lists, templates, dictLen) ==
    /\ lists \in Seq(Seq(Lines) \ {<<>>}) /\ lists # <<>>
    /\ templates \in SetToSeqs(TemplatesOf(FlattenSeq(lists)))
    /\ dictLen \in {0, 1024}
    /\ file = SegmentFile(id, templates, 16 * Len(templates), dictLen,
                          ChunksFrom(lists, templates))

LegacyChunk ==
    ChunkOf(LegacyLines, <<TemplateOf(LegacyLines[1], <<LegacyLines[1]>>)>>,
                         <<TemplateOf(LegacyLines[1], <<LegacyLines[1]>>)>>)

WrittenV1(file, id, lists) ==
    lists = <<LegacyLines>> /\ file = SegmentFileV1(id, LegacyChunk)

\* Every file is one that was written: of it, and what it was made of.
FilesAreWritten ==
    /\ IsFiniteSet(DOMAIN files) /\ DOMAIN files \subseteq Nat /\ DOMAIN sealed = DOMAIN files
    /\ \A id \in DOMAIN files :
          \/ WrittenV1(files[id], id, sealed[id])
          \/ \E templates \in {TemplatesIn(files[id])}, dictLen \in {0, 1024} :
                WrittenV2(files[id], id, sealed[id], templates, dictLen)

IsLegacy(file) == HeaderOf(file)[1].version = V1
TimesOf(lists) == {l.ts : l \in ToSet(FlattenSeq(lists))}

\* What is true of any entry of the list for a file; that and of one without
\* a wrong offset; and of one that has the whole range.
MetaIsTyped(m, file, lists) ==
    /\ m.line_count \in Nat /\ m.min_ts \in Int /\ m.max_ts \in Int
    /\ m.summary.has_summary = ~IsLegacy(file)
    /\ ~IsLegacy(file) =>
          /\ m.summary.level_mask = {l.level : l \in ToSet(FlattenSeq(lists))}
          /\ \A k \in 1..Len(TemplatesIn(file)) :
                k <= PatternBits => k - 1 \in m.summary.pattern_mask
MetaIsRead(m, lists) ==
    m.line_count = Len(FlattenSeq(lists)) /\ {m.min_ts, m.max_ts} \subseteq TimesOf(lists)
MetaIsWide(m, lists) ==
    m.min_ts = Min(TimesOf(lists)) /\ m.max_ts = Max(TimesOf(lists))
MetaIsTrue(m, file, lists, fromFile) ==
    /\ MetaIsTyped(m, file, lists)
    /\ ~(fromFile /\ HeaderOf(file)[1].dict_len > 0) =>
          /\ MetaIsRead(m, lists)
          /\ ~fromFile \/ (Len(lists) = 1 /\ InOrder(FlattenSeq(lists))) => MetaIsWide(m, lists)

\* The list has every file once, and what it says of each is true.
ListIsOf(list, fs, lists, fromFile) ==
    /\ IsList(list)
    /\ Ids(list) = DOMAIN fs /\ Len(list) = Cardinality(DOMAIN fs)
    /\ \A k \in 1..Len(list) :
          /\ list[k].id \in DOMAIN fs
          /\ MetaIsTrue(list[k], fs[list[k].id], lists[list[k].id], list[k].id \in fromFile)

\* The map has every word of every file's templates.
WordsAreMapped(map, templates) ==
    \A i \in 1..Len(templates) : \A x \in ToSet(Literals(templates[i])) :
        Lower[x] \in MapWords => i - 1 \in ToSet(map[Lower[x]])

IInv ==
    /\ TypeOK
    /\ FilesAreWritten
    /\ up => /\ ListIsOf(segments, files, sealed, scanned)
             /\ \A id \in DOMAIN files : WordsAreMapped(keywords, TemplatesIn(files[id]))
    /\ manifest.state = "listed" => ListIsOf(manifest.list, files, sealed, scanned)
    /\ manifest.state # "listed" => manifest.list = <<>>
    /\ TotalsSurvive

-----------------------------------------------------------------------------
(* Sorting.                                                                 *)

Sortable(P, key) == IsFiniteSet(P) /\ P \subseteq Int /\ \A p \in P : key[p] \in Int

\* at is P in order: every position once, none in front of an earlier one.
InOrderOf(P, key, at) ==
    /\ IsList(at) /\ Len(at) = Cardinality(P)
    /\ \A k \in 1..Len(at) : at[k] \in P
    /\ \A j, k \in 1..Len(at) : at[j] = at[k] => j = k
    /\ \A p \in P : \E k \in 1..Len(at) : at[k] = p
    /\ \A j, k \in 1..Len(at) : j < k => key[at[j]] <= key[at[k]]

LEMMA SortedIs ==
    ASSUME NEW P, NEW key, Sortable(P, key)
    PROVE  InOrderOf(P, key, SortedBy(P, key))
<1> DEFINE n == Cardinality(P)
           Before(p) == {q \in P : InFront(q, p, key)}
           rank == [p \in P |-> Cardinality(Before(p))]
           at == SortedBy(P, key)
<1>1. IsFiniteSet(P) /\ P \subseteq Int /\ \A p \in P : key[p] \in Int
    BY DEF Sortable
<1>2. n \in Nat
    BY <1>1, FS_CardinalityType
<1>3. \A p \in P : /\ IsFiniteSet(Before(p)) /\ Cardinality(Before(p)) \in Nat
                   /\ Cardinality(Before(p)) < n
    <2> TAKE p \in P
    <2>1. p \notin Before(p) /\ Before(p) \in SUBSET P
        <3>1. key[p] \in Int /\ p \in Int
            BY <1>1
        <3>2. ~InFront(p, p, key)
            BY <3>1 DEF InFront
        <3> QED BY <3>2
    <2> HIDE DEF Before
    <2>2. /\ IsFiniteSet(Before(p)) /\ Cardinality(Before(p)) <= n
          /\ Cardinality(Before(p)) # n
        BY <1>1, <2>1, FS_Subset
    <2>3. Cardinality(Before(p)) \in Nat
        BY <2>2, FS_CardinalityType
    <2> HIDE DEF n
    <2> QED BY <1>2, <2>2, <2>3
<1>4. \A p, q \in P : InFront(q, p, key) => rank[q] < rank[p]
    <2>1. SUFFICES ASSUME NEW p \in P, NEW q \in P, InFront(q, p, key)
                   PROVE  Cardinality(Before(q)) < Cardinality(Before(p))
        OBVIOUS
    <2>2. key[p] \in Int /\ p \in Int /\ key[q] \in Int /\ q \in Int
        BY <1>1
    <2>3. Before(q) \in SUBSET Before(p)
        <3>1. \A r \in P : InFront(r, q, key) => InFront(r, p, key)
            <4> TAKE r \in P
            <4>1. key[r] \in Int /\ r \in Int
                BY <1>1
            <4> QED BY <2>1, <2>2, <4>1 DEF InFront
        <3> QED BY <3>1
    <2>4. q \in Before(p) /\ q \notin Before(q)
        <3>1. ~InFront(q, q, key)
            BY <2>2 DEF InFront
        <3> QED BY <2>1, <3>1
    <2>5. /\ IsFiniteSet(Before(p)) /\ Cardinality(Before(p)) \in Nat
          /\ Cardinality(Before(q)) \in Nat
        BY <1>3
    <2> HIDE DEF Before
    <2>6. /\ Cardinality(Before(q)) <= Cardinality(Before(p))
          /\ Cardinality(Before(q)) # Cardinality(Before(p))
        BY <2>3, <2>4, <2>5, FS_Subset
    <2> QED BY <2>5, <2>6
<1>5. \A p, q \in P : p = q \/ InFront(q, p, key) \/ InFront(p, q, key)
    BY <1>1 DEF InFront
<1>6. rank \in [P -> 0..(n - 1)]
    <2>1. \A p \in P : Cardinality(Before(p)) \in 0..(n - 1)
        <3> HIDE DEF n, Before
        <3> QED BY <1>2, <1>3
    <2> HIDE DEF n, Before
    <2> QED BY <2>1
<1>7. \A p, q \in P : rank[p] = rank[q] => p = q
    <2>1. \A p \in P : rank[p] \in Int
        <3> HIDE DEF rank, n
        <3> QED BY <1>2, <1>6
    <2> HIDE DEF rank
    <2> QED BY <1>4, <1>5, <2>1
<1>8. \A k \in 1..n : \E p \in P : rank[p] = k - 1
    <2>1. IsFiniteSet(0..(n - 1)) /\ Cardinality(0..(n - 1)) = n
        <3>1. /\ IsFiniteSet(0..(n - 1))
              /\ Cardinality(0..(n - 1)) = IF 0 > n - 1 THEN 0 ELSE (n - 1) - 0 + 1
            <4> HIDE DEF n
            <4> QED BY <1>2, FS_Interval
        <3> HIDE DEF n
        <3> QED BY <1>2, <3>1
    <2>2. rank \in Injection(P, 0..(n - 1))
        <3> HIDE DEF rank, n
        <3> QED BY <1>6, <1>7 DEF Injection, IsInjective
    <2>3. rank \in Surjection(P, 0..(n - 1))
        <3>1. Cardinality(P) = Cardinality(0..(n - 1))
            BY <2>1
        <3> HIDE DEF rank, n
        <3> QED BY <2>1, <2>2, <3>1, FS_Injection
    <2>4. \A j \in 0..(n - 1) : \E p \in P : rank[p] = j
        <3> HIDE DEF rank, n
        <3> QED BY <2>3 DEF Surjection
    <2>5. \A k \in 1..n : k - 1 \in 0..(n - 1)
        <3> HIDE DEF n
        <3> QED BY <1>2
    <2> HIDE DEF rank, n
    <2> QED BY <2>4, <2>5
<1>9. at = [k \in 1..n |-> CHOOSE p \in P : Cardinality(Before(p)) = k - 1]
    BY DEF SortedBy
<1>10. \A k \in 1..n : at[k] \in P /\ rank[at[k]] = k - 1
    <2> TAKE k \in 1..n
    <2>1. \E p \in P : Cardinality(Before(p)) = k - 1
        <3>1. PICK p \in P : rank[p] = k - 1
            BY <1>8
        <3> QED BY <3>1
    <2>2. at[k] = CHOOSE p \in P : Cardinality(Before(p)) = k - 1
        BY <1>9
    <2> HIDE DEF Before, at
    <2>3. at[k] \in P /\ Cardinality(Before(at[k])) = k - 1
        BY <2>1, <2>2
    <2> QED BY <2>3
<1>11. IsList(at) /\ Len(at) = n
    <2>1. at = [k \in 1..n |-> at[k]]
        BY <1>9
    <2> HIDE DEF at, n
    <2> QED BY <1>2, <2>1, ListIs
<1> HIDE DEF at, rank, n, Before
<1>12. \A j, k \in 1..n : at[j] = at[k] => j = k
    <2> TAKE j, k \in 1..n
    <2>1. rank[at[j]] = j - 1 /\ rank[at[k]] = k - 1
        BY <1>10
    <2>2. j - 1 = k - 1 => j = k
        BY <1>2
    <2> QED BY <2>1, <2>2
<1>13. \A p \in P : \E k \in 1..n : at[k] = p
    <2> TAKE p \in P
    <2> DEFINE k == rank[p] + 1
    <2>1. k \in 1..n /\ k - 1 = rank[p]
        BY <1>2, <1>6
    <2> HIDE DEF k
    <2>2. at[k] = p
        BY <1>7, <1>10, <2>1
    <2> QED BY <2>1, <2>2
<1>14. \A j, k \in 1..n : j < k => key[at[j]] <= key[at[k]]
    <2> TAKE j, k \in 1..n
    <2>1. SUFFICES ASSUME j < k PROVE key[at[j]] <= key[at[k]]
        OBVIOUS
    <2>6. at[j] \in P /\ at[k] \in P /\ rank[at[j]] = j - 1 /\ rank[at[k]] = k - 1
        BY <1>10
    <2>2. /\ at[j] \in P /\ at[k] \in P /\ key[at[j]] \in Int /\ key[at[k]] \in Int
          /\ rank[at[j]] < rank[at[k]] /\ rank[at[j]] \in Int /\ rank[at[k]] \in Int
        <3>1. j \in Int /\ k \in Int /\ j - 1 < k - 1
            BY <1>2, <2>1
        <3>2. rank[at[j]] < rank[at[k]] /\ rank[at[j]] \in Int /\ rank[at[k]] \in Int
            BY <2>6, <3>1
        <3>3. key[at[j]] \in Int /\ key[at[k]] \in Int
            BY <1>1, <2>6
        <3> QED BY <2>6, <3>2, <3>3
    <2>3. ~InFront(at[k], at[j], key)
        BY <1>4, <2>2
    <2>4. at[j] # at[k]
        BY <2>2
    <2>5. InFront(at[j], at[k], key)
        BY <1>5, <2>2, <2>3, <2>4
    <2> QED BY <2>2, <2>5 DEF InFront
<1> QED BY <1>10, <1>11, <1>12, <1>13, <1>14 DEF InOrderOf, at, n

\* The elements at the positions in P, in the order of their keys.
Arranges(r, seq, P, key) ==
    \E at : /\ InOrderOf(P, key, at)
            /\ IsList(r) /\ Len(r) = Len(at) /\ \A k \in 1..Len(at) : r[k] = seq[at[k]]

LEMMA ArrangedIs ==
    ASSUME NEW seq, NEW P, NEW key, Sortable(P, key)
    PROVE  Arranges(Arranged(seq, P, key), seq, P, key)
<1> DEFINE at == SortedBy(P, key)
           n == Cardinality(P)
           r == Arranged(seq, P, key)
<1>1. InOrderOf(P, key, at)
    BY SortedIs
<1>2. r = [k \in 1..n |-> seq[at[k]]]
    BY DEF Arranged
<1>3. n \in Nat /\ n = Len(at)
    BY <1>1, FS_CardinalityType DEF InOrderOf, Sortable
<1> HIDE DEF at, n, r
<1>4. IsList(r) /\ Len(r) = n
    <2>1. r = [k \in 1..n |-> r[k]]
        BY <1>2
    <2> QED BY <1>3, <2>1, ListIs
<1>5. \A k \in 1..Len(at) : r[k] = seq[at[k]]
    BY <1>2, <1>3
<1>6. Arranges(r, seq, P, key)
    BY <1>1, <1>3, <1>4, <1>5 DEF Arranges
<1> QED BY <1>6 DEF r

LEMMA ArrangedHas ==
    ASSUME NEW r, NEW seq, NEW P, NEW key, Arranges(r, seq, P, key)
    PROVE  /\ IsList(r) /\ Len(r) = Cardinality(P) /\ ToSet(r) = {seq[p] : p \in P}
           /\ IsList(seq) /\ P \subseteq DOMAIN seq => Into(r, seq)
           /\ IsList(seq) /\ P = DOMAIN seq => Into(seq, r)
<1>1. PICK at : /\ InOrderOf(P, key, at)
                /\ IsList(r) /\ Len(r) = Len(at) /\ \A k \in 1..Len(at) : r[k] = seq[at[k]]
    BY DEF Arranges
<1>2. /\ Len(at) = Cardinality(P) /\ DOMAIN r = 1..Len(at)
      /\ \A k \in 1..Len(at) : at[k] \in P
      /\ \A j, k \in 1..Len(at) : at[j] = at[k] => j = k
      /\ \A p \in P : \E k \in 1..Len(at) : at[k] = p
    BY <1>1 DEF InOrderOf, IsList
<1>3. ToSet(r) = {seq[p] : p \in P}
    BY <1>1, <1>2 DEF ToSet
<1>4. ASSUME IsList(seq), P \subseteq DOMAIN seq PROVE Into(r, seq)
    <2> DEFINE f == [k \in DOMAIN r |-> at[k]]
    <2>1. /\ f = [k \in DOMAIN r |-> f[k]]
          /\ \A k \in DOMAIN r : f[k] \in DOMAIN seq /\ seq[f[k]] = r[k]
          /\ \A j, k \in DOMAIN r : f[j] = f[k] => j = k
        BY <1>1, <1>2, <1>4
    <2> HIDE DEF f
    <2> QED BY <2>1, IntoIs
<1>5. ASSUME IsList(seq), P = DOMAIN seq PROVE Into(seq, r)
    <2> DEFINE f == [p \in DOMAIN seq |-> CHOOSE k \in 1..Len(at) : at[k] = p]
    <2>1. \A p \in DOMAIN seq : f[p] \in 1..Len(at) /\ at[f[p]] = p
        BY <1>2, <1>5
    <2>2. f = [p \in DOMAIN seq |-> f[p]]
        OBVIOUS
    <2> HIDE DEF f
    <2>3. /\ \A p \in DOMAIN seq : f[p] \in DOMAIN r /\ r[f[p]] = seq[p]
          /\ \A p, q \in DOMAIN seq : f[p] = f[q] => p = q
        BY <1>1, <1>2, <2>1
    <2> QED BY <2>2, <2>3, IntoIs
<1> QED BY <1>1, <1>2, <1>3, <1>4, <1>5

\* The lines at some positions, in the order of the list.
LEMMA FilteredIs ==
    ASSUME NEW seq, IsList(seq), NEW P, P \subseteq DOMAIN seq
    PROVE  /\ IsList(Filtered(seq, P)) /\ Into(Filtered(seq, P), seq)
           /\ ToSet(Filtered(seq, P)) = {seq[p] : p \in P}
<1> DEFINE key == [i \in P |-> i]
           r == Filtered(seq, P)
<1>1. P \in SUBSET (1..Len(seq)) /\ IsFiniteSet(1..Len(seq))
    BY FirstNumbers DEF IsList
<1>2. Sortable(P, key)
    <2>1. IsFiniteSet(P)
        BY <1>1, FS_Subset
    <2> QED BY <1>1, <2>1 DEF Sortable
<1>3. r = Arranged(seq, P, key)
    BY DEF Filtered
<1> HIDE DEF key, r
<1>4. Arranges(r, seq, P, key)
    BY <1>2, <1>3, ArrangedIs
<1>5. IsList(r) /\ Into(r, seq) /\ ToSet(r) = {seq[p] : p \in P}
    BY <1>4, ArrangedHas
<1> QED BY <1>5 DEF r

\* Lines sorted by time, the latest first.
LEMMA LatestFirstIs ==
    ASSUME NEW lines, IsList(lines), \A i \in 1..Len(lines) : lines[i].ts \in Int
    PROVE  LET r == LatestFirst(lines)
           IN /\ IsList(r) /\ Len(r) = Len(lines) /\ ToSet(r) = ToSet(lines)
              /\ Into(r, lines)
              /\ \A i, j \in 1..Len(r) : i < j => r[i].ts >= r[j].ts
<1> DEFINE P == DOMAIN lines
           key == [i \in DOMAIN lines |-> -lines[i].ts]
           r == LatestFirst(lines)
<1>1. P = 1..Len(lines) /\ IsFiniteSet(P) /\ Cardinality(P) = Len(lines)
    BY FirstNumbers DEF IsList
<1>2. \A p \in P : key[p] = -lines[p].ts /\ lines[p].ts \in Int
    BY <1>1
<1>3. r = Arranged(lines, P, key)
    BY DEF LatestFirst
<1>4. P = DOMAIN lines /\ P \subseteq DOMAIN lines
    OBVIOUS
<1>5. ToSet(lines) = {lines[p] : p \in P}
    BY DEF ToSet
<1> HIDE DEF P, key, r
<1>6. Sortable(P, key)
    BY <1>1, <1>2 DEF Sortable
<1>7. Arranges(r, lines, P, key)
    BY <1>3, <1>6, ArrangedIs
<1>8. /\ IsList(r) /\ Len(r) = Cardinality(P) /\ ToSet(r) = {lines[p] : p \in P}
      /\ Into(r, lines)
    BY <1>4, <1>7, ArrangedHas
<1>9. ASSUME NEW i \in 1..Len(r), NEW j \in 1..Len(r), i < j PROVE r[i].ts >= r[j].ts
    <2>1. PICK at : /\ InOrderOf(P, key, at)
                    /\ IsList(r) /\ Len(r) = Len(at)
                    /\ \A k \in 1..Len(at) : r[k] = lines[at[k]]
        BY <1>7 DEF Arranges
    <2>2. at[i] \in P /\ at[j] \in P /\ key[at[i]] <= key[at[j]]
        BY <1>9, <2>1 DEF InOrderOf
    <2>3. /\ r[i] = lines[at[i]] /\ r[j] = lines[at[j]]
          /\ key[at[i]] = -r[i].ts /\ key[at[j]] = -r[j].ts
          /\ r[i].ts \in Int /\ r[j].ts \in Int
        BY <1>2, <2>1, <2>2
    <2>4. \A a, b \in Int : -a <= -b => a >= b
        OBVIOUS
    <2> QED BY <2>2, <2>3, <2>4
<1> QED BY <1>1, <1>5, <1>8, <1>9 DEF r

-----------------------------------------------------------------------------
(* More of lists one after the other.                                       *)

LEMMA FlattenHas ==
    ASSUME NEW n \in Nat, NEW seqs, seqs = [i \in 1..n |-> seqs[i]],
           \A i \in 1..n : IsList(seqs[i])
    PROVE  ToSet(FlattenSeq(seqs)) = UNION {ToSet(seqs[i]) : i \in 1..n}
<1> DEFINE flat == FlattenSeq(seqs)
<1>1. IsList(flat) /\ \E g : Origins(flat, seqs, n, g)
    BY FlattenPlaces
<1> HIDE DEF flat
<1>2. PICK g : Origins(flat, seqs, n, g)
    BY <1>1
<1>3. \A x \in ToSet(flat) : \E i \in 1..n : x \in ToSet(seqs[i])
    <2> TAKE x \in ToSet(flat)
    <2>1. PICK p \in 1..Len(flat) : x = flat[p]
        BY <1>1 DEF ToSet, IsList
    <2>2. /\ g[p][1] \in 1..n /\ g[p][2] \in 1..Len(seqs[g[p][1]])
          /\ x = seqs[g[p][1]][g[p][2]]
        BY <1>2, <2>1 DEF Origins
    <2>3. DOMAIN seqs[g[p][1]] = 1..Len(seqs[g[p][1]])
        BY <2>2 DEF IsList
    <2> QED BY <2>2, <2>3 DEF ToSet
<1>4. \A i \in 1..n : \A x \in ToSet(seqs[i]) : x \in ToSet(flat)
    <2> TAKE i \in 1..n
    <2> TAKE x \in ToSet(seqs[i])
    <2>1. PICK k \in 1..Len(seqs[i]) : x = seqs[i][k]
        BY DEF ToSet, IsList
    <2>2. PICK p \in 1..Len(flat) : g[p] = <<i, k>>
        BY <1>2, <2>1 DEF Origins
    <2>3. flat[p] = seqs[g[p][1]][g[p][2]] /\ p \in DOMAIN flat
        BY <1>1, <1>2, <2>2 DEF Origins, IsList
    <2>4. flat[p] = x
        BY <2>1, <2>2, <2>3
    <2> QED BY <2>3, <2>4 DEF ToSet
<1>5. ToSet(flat) = UNION {ToSet(seqs[i]) : i \in 1..n}
    BY <1>3, <1>4
<1> QED BY <1>5 DEF flat

\* Every list of a has a list of b of its own that it is in.
EachIsInto(a, m, b, n, f) ==
    /\ m \in Nat /\ a = [i \in 1..m |-> a[i]] /\ \A i \in 1..m : IsList(a[i])
    /\ n \in Nat /\ b = [i \in 1..n |-> b[i]] /\ \A i \in 1..n : IsList(b[i])
    /\ \A i \in 1..m : f[i] \in 1..n /\ Into(a[i], b[f[i]])
    /\ \A i, j \in 1..m : f[i] = f[j] => i = j

LEMMA FlattenInto ==
    ASSUME NEW a, NEW m, NEW b, NEW n, NEW f, EachIsInto(a, m, b, n, f)
    PROVE  Into(FlattenSeq(a), FlattenSeq(b))
<1> USE DEF EachIsInto
<1> DEFINE s == FlattenSeq(a)
           t == FlattenSeq(b)
<1>1. IsList(s) /\ \E g : Origins(s, a, m, g)
    BY FlattenPlaces
<1>2. IsList(t) /\ \E g : Origins(t, b, n, g)
    BY FlattenPlaces
<1> HIDE DEF s, t
<1>3. PICK g : Origins(s, a, m, g)
    BY <1>1
<1>4. PICK h : Origins(t, b, n, h)
    BY <1>2
<1> DEFINE place == [i \in 1..m |-> CHOOSE p : Places(a[i], b[f[i]], p)]
<1>5. \A i \in 1..m : Places(a[i], b[f[i]], place[i])
    BY DEF Into
<1> HIDE DEF place
<1>6. ASSUME NEW p \in 1..Len(s)
      PROVE  \E q \in 1..Len(t) : h[q] = <<f[g[p][1]], place[g[p][1]][g[p][2]]>> /\ t[q] = s[p]
    <2> DEFINE i == g[p][1]
               k == g[p][2]
               j == place[i][k]
    <2>1. i \in 1..m /\ k \in 1..Len(a[i]) /\ s[p] = a[i][k]
        BY <1>3 DEF Origins
    <2> HIDE DEF i, k, j
    <2>2. j \in 1..Len(b[f[i]]) /\ b[f[i]][j] = a[i][k] /\ f[i] \in 1..n
        <3>1. Places(a[i], b[f[i]], place[i]) /\ IsList(a[i]) /\ f[i] \in 1..n
            BY <1>5, <2>1
        <3>2. IsList(b[f[i]])
            BY <3>1
        <3>3. DOMAIN a[i] = 1..Len(a[i]) /\ DOMAIN b[f[i]] = 1..Len(b[f[i]])
            BY <3>1, <3>2 DEF IsList
        <3> QED BY <2>1, <3>1, <3>3 DEF Places, j
    <2>3. PICK q \in 1..Len(t) : h[q] = <<f[i], j>>
        BY <1>4, <2>2 DEF Origins
    <2>4. t[q] = b[h[q][1]][h[q][2]]
        BY <1>4 DEF Origins
    <2>5. t[q] = s[p]
        BY <2>1, <2>2, <2>3, <2>4
    <2> QED BY <2>3, <2>5 DEF i, k, j
<1> DEFINE goes(p) == CHOOSE q \in 1..Len(t) :
                          h[q] = <<f[g[p][1]], place[g[p][1]][g[p][2]]>> /\ t[q] = s[p]
           to == [p \in DOMAIN s |-> goes(p)]
<1>7. DOMAIN s = 1..Len(s) /\ DOMAIN t = 1..Len(t)
    BY <1>1, <1>2 DEF IsList
<1>8. \A p \in DOMAIN s : /\ to[p] \in DOMAIN t /\ t[to[p]] = s[p]
                          /\ h[to[p]] = <<f[g[p][1]], place[g[p][1]][g[p][2]]>>
    BY <1>6, <1>7
<1>9. to = [p \in DOMAIN s |-> to[p]]
    <2> HIDE DEF goes
    <2> QED OBVIOUS
<1> HIDE DEF to
<1>10. ASSUME NEW p \in DOMAIN s, NEW q \in DOMAIN s, to[p] = to[q] PROVE p = q
    <2> DEFINE i == g[p][1]
               j == g[q][1]
    <2>1. /\ i \in 1..m /\ g[p][2] \in 1..Len(a[i]) /\ g[p] \in Nat \X Nat
          /\ j \in 1..m /\ g[q][2] \in 1..Len(a[j]) /\ g[q] \in Nat \X Nat
        BY <1>3, <1>7 DEF Origins
    <2>2. <<f[i], place[i][g[p][2]]>> = <<f[j], place[j][g[q][2]]>>
        BY <1>8, <1>10
    <2> HIDE DEF i, j
    <2>3. f[i] = f[j] /\ place[i][g[p][2]] = place[j][g[q][2]]
        BY <2>2
    <2>4. i = j
        BY <2>1, <2>3
    <2>5. g[p][2] = g[q][2]
        BY SMTT(40), <1>5, <2>1, <2>3, <2>4 DEF Places, IsList
    <2>6. g[p] = <<g[p][1], g[p][2]>> /\ g[q] = <<g[q][1], g[q][2]>>
        BY SMTT(40), <2>1
    <2>7. g[p] = g[q]
        BY <2>4, <2>5, <2>6 DEF i, j
    <2> QED BY <1>3, <1>7, <2>7 DEF Origins
<1>11. Into(s, t)
    BY <1>8, <1>9, <1>10, IntoIs
<1> QED BY <1>11 DEF s, t

\* List i takes the places behind c[i - 1], up to c[i].
Spans(flat, seqs, n, c) ==
    /\ IsList(flat) /\ c[0] = 0 /\ c[n] = Len(flat)
    /\ \A i \in 0..n : c[i] \in Nat
    /\ \A i \in 1..n : c[i] = c[i - 1] + Len(seqs[i])
    /\ \A i \in 1..n : \A k \in 1..Len(seqs[i]) : flat[c[i - 1] + k] = seqs[i][k]

LEMMA SpansOfMore ==
    ASSUME NEW seqs, NEW m \in Nat, NEW flat, IsList(seqs[m + 1]),
           \A i \in 1..m : IsList(seqs[i]), NEW c, Spans(flat, seqs, m, c)
    PROVE  \E d : Spans(flat \o seqs[m + 1], seqs, m + 1, d)
<1> DEFINE s == seqs[m + 1]
           all == flat \o s
           d == [i \in 0..(m + 1) |-> IF i <= m THEN c[i] ELSE c[m] + Len(s)]
<1>1. IsList(flat) /\ c[0] = 0 /\ c[m] = Len(flat) /\ Len(flat) \in Nat /\ Len(s) \in Nat
    BY DEF Spans, IsList
<1>2. /\ IsList(all) /\ Len(all) = Len(flat) + Len(s)
      /\ \A i \in 1..Len(flat) : all[i] = flat[i]
      /\ \A i \in 1..Len(s) : all[Len(flat) + i] = s[i]
    BY <1>1, ConcatIs
<1>3. /\ \A i \in 0..m : c[i] \in Nat
      /\ \A i \in 1..m : c[i] = c[i - 1] + Len(seqs[i])
      /\ \A i \in 1..m : \A k \in 1..Len(seqs[i]) : flat[c[i - 1] + k] = seqs[i][k]
    BY DEF Spans
<1>4. \A i \in 0..m : i \in 0..(m + 1) /\ i <= m
    OBVIOUS
<1>5. m + 1 \in 0..(m + 1) /\ ~(m + 1 <= m)
    OBVIOUS
<1>6. (\A i \in 0..m : d[i] = c[i]) /\ d[m + 1] = c[m] + Len(s)
    BY <1>4, <1>5
<1> HIDE DEF d, all
<1>7. \A i \in 1..m : i \in 0..m /\ i - 1 \in 0..m
    OBVIOUS
<1>8. (m + 1) - 1 = m /\ m \in 0..m /\ 0 \in 0..m
    OBVIOUS
<1>9. \A i \in 1..(m + 1) : i \in 1..m \/ i = m + 1
    OBVIOUS
<1>10. \A i \in 0..(m + 1) : i \in 0..m \/ i = m + 1
    OBVIOUS
<1>11. \A i \in 0..(m + 1) : d[i] \in Nat
    <2>1. d[m + 1] \in Nat
        BY <1>1, <1>6
    <2> QED BY <1>3, <1>6, <1>10, <2>1
<1>12. \A i \in 1..(m + 1) : d[i] = d[i - 1] + Len(seqs[i])
    <2>1. d[m + 1] = d[(m + 1) - 1] + Len(seqs[m + 1])
        BY <1>6, <1>8
    <2>2. \A i \in 1..m : d[i] = d[i - 1] + Len(seqs[i])
        BY <1>3, <1>6, <1>7
    <2> QED BY <1>9, <2>1, <2>2
<1>13. ASSUME NEW i \in 1..m PROVE c[i] <= c[m]
    <2> DEFINE Good == {k \in Nat : i + k <= m => c[i] <= c[i + k]}
    <2>1. 0 \in Good
        BY <1>3, <1>7
    <2>2. ASSUME NEW k \in Nat, k \in Good PROVE k + 1 \in Good
        <3>1. SUFFICES ASSUME i + (k + 1) <= m PROVE c[i] <= c[i + (k + 1)]
            OBVIOUS
        <3>2. i + (k + 1) \in 1..m /\ i + (k + 1) - 1 = i + k /\ i + k <= m /\ i + k \in 0..m
            BY <3>1
        <3>3. c[i + (k + 1)] = c[i + k] + Len(seqs[i + (k + 1)])
            BY <1>3, <3>2
        <3>4. Len(seqs[i + (k + 1)]) \in Nat /\ c[i + k] \in Nat /\ c[i] \in Nat
            BY <1>3, <1>7, <3>2 DEF IsList
        <3>5. c[i] <= c[i + k]
            BY <2>2, <3>2
        <3> QED BY <3>3, <3>4, <3>5
    <2>3. m - i \in Nat /\ i + (m - i) = m
        OBVIOUS
    <2>4. m - i \in Good
        <3> HIDE DEF Good
        <3> QED BY <2>1, <2>2, <2>3, NumbersUpTo
    <2> QED BY <2>3, <2>4
<1>14. \A i \in 1..(m + 1) : \A k \in 1..Len(seqs[i]) : all[d[i - 1] + k] = seqs[i][k]
    <2>1. \A k \in 1..Len(seqs[m + 1]) : all[d[(m + 1) - 1] + k] = seqs[m + 1][k]
        BY <1>1, <1>2, <1>6, <1>8
    <2>2. ASSUME NEW i \in 1..m, NEW k \in 1..Len(seqs[i]) PROVE all[d[i - 1] + k] = seqs[i][k]
        <3>1. /\ c[i - 1] \in Nat /\ c[i] \in Nat /\ c[i] = c[i - 1] + Len(seqs[i])
              /\ c[i] <= Len(flat) /\ d[i - 1] = c[i - 1] /\ Len(seqs[i]) \in Nat
            BY <1>1, <1>3, <1>6, <1>7, <1>13 DEF IsList
        <3>2. c[i - 1] + k \in 1..Len(flat)
            BY SMTT(40), <1>1, <3>1
        <3> QED BY <1>2, <1>3, <3>1, <3>2
    <2> QED BY <1>9, <2>1, <2>2
<1>15. Spans(all, seqs, m + 1, d)
    <2>1. d[0] = 0 /\ d[m + 1] = Len(all)
        BY <1>1, <1>2, <1>6, <1>8
    <2> QED BY <1>2, <1>11, <1>12, <1>14, <2>1 DEF Spans
<1>16. \E u : Spans(all, seqs, m + 1, u)
    BY <1>15
<1> QED BY <1>16 DEF all

LEMMA FlattenSpans ==
    ASSUME NEW n \in Nat, NEW seqs, seqs = [i \in 1..n |-> seqs[i]],
           \A i \in 1..n : IsList(seqs[i])
    PROVE  \E c : Spans(FlattenSeq(seqs), seqs, n, c)
<1> DEFINE c0 == [i \in 0..0 |-> 0]
<1>1. Spans(<<>>, seqs, 0, c0)
    <2>1. c0[0] = 0 /\ \A i \in 0..0 : c0[i] \in Nat
        OBVIOUS
    <2> QED BY <2>1, EmptyList DEF Spans
<1> HIDE DEF c0
<1>2. CASE n = 0
    <2>1. FlattenSeq(seqs) = <<>>
        BY <1>2, FlattenIs
    <2>2. Spans(FlattenSeq(seqs), seqs, n, c0)
        BY <1>1, <1>2, <2>1
    <2> QED BY <2>2
<1>3. CASE n > 0
    <2>1. PICK h : Flattens(seqs, n, h) /\ FlattenSeq(seqs) = h[n]
        BY <1>3, FlattenIs
    <2>2. \A i \in 1..n : h[i] = IF i = 1 THEN seqs[i] ELSE h[i - 1] \o seqs[i]
        BY <2>1 DEF Flattens
    <2> DEFINE Good == {m \in Nat : m + 1 \in 1..n => \E c : Spans(h[m + 1], seqs, m + 1, c)}
    <2>3. 0 \in Good
        <3>1. 0 + 1 = 1 /\ 1 \in 1..n
            BY <1>3
        <3>2. h[1] = seqs[1] /\ IsList(seqs[1])
            BY <2>2, <3>1
        <3>3. <<>> \o seqs[1] = seqs[1]
            <4>1. /\ IsList(<<>> \o seqs[1]) /\ Len(<<>> \o seqs[1]) = 0 + Len(seqs[1])
                  /\ \A i \in 1..Len(seqs[1]) : (<<>> \o seqs[1])[0 + i] = seqs[1][i]
                BY <3>2, EmptyList, ConcatIs
            <4>2. /\ Len(<<>> \o seqs[1]) = Len(seqs[1])
                  /\ \A i \in 1..Len(seqs[1]) : (<<>> \o seqs[1])[i] = seqs[1][i]
                BY <3>2, <4>1 DEF IsList
            <4> QED BY <3>2, <4>1, <4>2, ListsEqual
        <3>4. \E d : Spans(<<>> \o seqs[0 + 1], seqs, 0 + 1, d)
            <4>1. \A i \in 1..0 : IsList(seqs[i])
                OBVIOUS
            <4> QED BY <1>1, <3>1, <3>2, <4>1, SpansOfMore
        <3> QED BY <3>1, <3>2, <3>3, <3>4
    <2>4. ASSUME NEW m \in Nat, m \in Good PROVE m + 1 \in Good
        <3>1. SUFFICES ASSUME (m + 1) + 1 \in 1..n
                       PROVE  \E c : Spans(h[(m + 1) + 1], seqs, (m + 1) + 1, c)
            OBVIOUS
        <3> DEFINE k == m + 1
        <3>2. k \in Nat /\ k \in 1..n /\ k + 1 \in 1..n /\ k + 1 # 1 /\ (k + 1) - 1 = k
            BY <3>1
        <3>3. \E c : Spans(h[k], seqs, k, c)
            BY <2>4, <3>2
        <3> HIDE DEF k
        <3>4. h[k + 1] = h[k] \o seqs[k + 1] /\ IsList(seqs[k + 1])
            BY <2>2, <3>2
        <3>5. PICK c : Spans(h[k], seqs, k, c)
            BY <3>3
        <3>6. \A i \in 1..k : IsList(seqs[i])
            BY <3>2
        <3>7. \E d : Spans(h[k + 1], seqs, k + 1, d)
            BY <3>2, <3>4, <3>5, <3>6, SpansOfMore
        <3> QED BY <3>7 DEF k
    <2>5. n - 1 \in Good
        <3>1. n - 1 \in Nat
            BY <1>3
        <3> HIDE DEF Good
        <3> QED BY <2>3, <2>4, <3>1, NumbersUpTo
    <2>6. (n - 1) + 1 = n /\ n \in 1..n
        BY <1>3
    <2>7. \E c : Spans(h[n], seqs, n, c)
        BY <2>5, <2>6
    <2> HIDE DEF Good
    <2>8. PICK c : Spans(h[n], seqs, n, c)
        BY <2>7
    <2>9. Spans(FlattenSeq(seqs), seqs, n, c)
        BY <2>1, <2>8
    <2> QED BY <2>9
<1>4. n = 0 \/ n > 0
    OBVIOUS
<1> QED BY <1>2, <1>3, <1>4

\* The whole is as long as its parts.
LEMMA SpansSum ==
    ASSUME NEW n \in Nat, NEW seqs, \A i \in 1..n : IsList(seqs[i]),
           NEW flat, NEW c, Spans(flat, seqs, n, c),
           NEW f, \A i \in 1..n : f[i] = Len(seqs[i])
    PROVE  SumFunctionOnSet(f, 1..n) = Len(flat)
<1>1. /\ c[0] = 0 /\ c[n] = Len(flat)
      /\ \A i \in 1..n : c[i] = c[i - 1] + Len(seqs[i])
    BY DEF Spans
<1> DEFINE Good == {m \in Nat : m <= n => SumFunctionOnSet(f, 1..m) = c[m]}
<1>2. 0 \in Good
    <2>1. 1..0 = {} /\ IsFiniteSet({})
        BY FS_EmptySet
    <2> QED BY <1>1, <2>1, SumPicks
<1>3. ASSUME NEW m \in Nat, m \in Good PROVE m + 1 \in Good
    <2>1. SUFFICES ASSUME m + 1 <= n PROVE SumFunctionOnSet(f, 1..(m + 1)) = c[m + 1]
        OBVIOUS
    <2>2. /\ m <= n /\ m + 1 \in 1..n /\ m + 1 \in 1..(m + 1) /\ (1..(m + 1)) \ {m + 1} = 1..m
          /\ (m + 1) - 1 = m
        BY <2>1
    <2>3. IsFiniteSet(1..(m + 1)) /\ \A i \in 1..(m + 1) : f[i] \in Int
        <3>1. \A i \in 1..(m + 1) : i \in 1..n
            BY <2>1
        <3> QED BY <3>1, FirstNumbers DEF IsList
    <2>4. SumFunctionOnSet(f, 1..(m + 1))
            = f[m + 1] + SumFunctionOnSet(f, (1..(m + 1)) \ {m + 1})
        BY <2>2, <2>3, SumTakesOut
    <2>5. SumFunctionOnSet(f, 1..m) = c[m]
        BY <1>3, <2>2
    <2>6. f[m + 1] = Len(seqs[m + 1]) /\ Len(seqs[m + 1]) \in Nat /\ c[m] \in Nat
        BY <2>2 DEF Spans, IsList
    <2>7. c[m + 1] = c[m] + Len(seqs[m + 1])
        BY <1>1, <2>2
    <2>8. SumFunctionOnSet(f, (1..(m + 1)) \ {m + 1}) = c[m]
        BY <2>2, <2>5
    <2>9. \A a, b \in Int : a + b = b + a
        OBVIOUS
    <2>10. f[m + 1] + c[m] = c[m] + Len(seqs[m + 1])
        BY <2>6, <2>9
    <2> QED BY <2>4, <2>7, <2>8, <2>10
<1>4. n \in Good
    <2> HIDE DEF Good
    <2> QED BY <1>2, <1>3, NumbersUpTo
<1> QED BY <1>1, <1>4

\* The parts of s between its n + 1 bounds b, which grow; put together, they are s.
IsCut(s, n, b, seqs) ==
    /\ n \in Nat \ {0} /\ b[0] = 0 /\ b[n] = Len(s)
    /\ \A i \in 0..n : b[i] \in Nat /\ b[i] <= Len(s)
    /\ \A i \in 1..n : b[i - 1] <= b[i]
    /\ seqs = [i \in 1..n |-> seqs[i]]
    /\ \A i \in 1..n : seqs[i] = SubSeq(s, b[i - 1] + 1, b[i])

LEMMA CutIsWhole ==
    ASSUME NEW s, IsList(s), NEW n, NEW b, NEW seqs, IsCut(s, n, b, seqs)
    PROVE  FlattenSeq(seqs) = s
<1> USE DEF IsCut
<1>1. Len(s) \in Nat
    BY DEF IsList
<1>2. \A i \in 1..n : i \in 0..n /\ i - 1 \in 0..n
    OBVIOUS
<1>3. PICK h : Flattens(seqs, n, h) /\ FlattenSeq(seqs) = h[n]
    <2>1. n \in Nat /\ n > 0
        OBVIOUS
    <2> QED BY <2>1, FlattenIs
<1>4. \A i \in 1..n : h[i] = IF i = 1 THEN seqs[i] ELSE h[i - 1] \o seqs[i]
    BY <1>3 DEF Flattens
<1> DEFINE first(k) == SubSeq(s, 1, k)
           Good == {m \in Nat : m + 1 \in 1..n => h[m + 1] = first(b[m + 1])}
<1>5. \A k \in 0..Len(s) : /\ IsList(first(k)) /\ Len(first(k)) = k
                           /\ \A i \in 1..k : first(k)[i] = s[i]
    <2> TAKE k \in 0..Len(s)
    <2>1. k \in Nat /\ k <= Len(s) /\ 1 <= k + 1 /\ 1 \in Nat \ {0}
        BY <1>1
    <2>2. /\ IsList(first(k)) /\ Len(first(k)) = k - 1 + 1
          /\ \A i \in 1..(k - 1 + 1) : first(k)[i] = s[1 + i - 1]
        <3>1. \A m \in Nat \ {0} : m <= k + 1 =>
                /\ IsList(SubSeq(s, m, k)) /\ Len(SubSeq(s, m, k)) = k - m + 1
                /\ \A i \in 1..(k - m + 1) : SubSeq(s, m, k)[i] = s[m + i - 1]
            BY <2>1, SubSeqIs
        <3> QED BY <2>1, <3>1
    <2> HIDE DEF first
    <2>3. k - 1 + 1 = k /\ \A i \in 1..k : 1 + i - 1 = i
        BY <2>1
    <2> QED BY <2>2, <2>3
<1>6. 0 \in Good
    <2>1. 1 \in 1..n /\ 0 + 1 = 1 /\ 1 - 1 = 0
        OBVIOUS
    <2>2. h[1] = SubSeq(s, b[0] + 1, b[1])
        BY <1>4, <2>1
    <2> QED BY <2>1, <2>2
<1>7. ASSUME NEW m \in Nat, m \in Good PROVE m + 1 \in Good
    <2>1. SUFFICES ASSUME (m + 1) + 1 \in 1..n PROVE h[(m + 1) + 1] = first(b[(m + 1) + 1])
        OBVIOUS
    <2> DEFINE k == m + 1
               x == b[k]
               y == b[k + 1]
               part == SubSeq(s, x + 1, y)
    <2>2. k \in 1..n /\ k + 1 \in 1..n /\ k + 1 # 1 /\ (k + 1) - 1 = k
        BY <2>1
    <2>3. h[k] = first(x)
        BY <1>7, <2>2
    <2>4. h[k + 1] = h[k] \o part
        <3> HIDE DEF k
        <3>1. h[k + 1] = h[k] \o seqs[k + 1] /\ seqs[k + 1] = SubSeq(s, b[(k + 1) - 1] + 1, b[k + 1])
            BY <1>4, <2>2
        <3> QED BY <2>2, <3>1
    <2>5. x \in 0..Len(s) /\ y \in 0..Len(s) /\ x <= y
        <3> HIDE DEF k
        <3>1. b[(k + 1) - 1] <= b[k + 1] /\ b[k] \in Nat /\ b[k] <= Len(s)
              /\ b[k + 1] \in Nat /\ b[k + 1] <= Len(s)
            BY <1>2, <2>2
        <3> QED BY <1>1, <2>2, <3>1
    <2> HIDE DEF k, x, y
    <2>6. /\ IsList(part) /\ Len(part) = y - (x + 1) + 1
          /\ \A i \in 1..(y - (x + 1) + 1) : part[i] = s[(x + 1) + i - 1]
        <3>1. x + 1 \in Nat \ {0} /\ y \in Nat /\ y <= Len(s) /\ x + 1 <= y + 1
            BY <1>1, <2>5
        <3> QED BY <3>1, SubSeqIs
    <2>7. y - (x + 1) + 1 = y - x /\ x \in Nat /\ y \in Nat /\ x + (y - x) = y
        BY <1>1, <2>5
    <2> HIDE DEF part
    <2>8. Len(part) = y - x /\ \A i \in 1..(y - x) : part[i] = s[x + i]
        <3>1. \A i \in 1..(y - x) : (x + 1) + i - 1 = x + i
            BY <2>7
        <3> QED BY <2>6, <2>7, <3>1
    <2>9. /\ IsList(first(x)) /\ Len(first(x)) = x /\ \A i \in 1..x : first(x)[i] = s[i]
          /\ IsList(first(y)) /\ Len(first(y)) = y /\ \A i \in 1..y : first(y)[i] = s[i]
        BY <1>5, <2>5
    <2> HIDE DEF first
    <2> DEFINE u == first(x) \o part
    <2>10. /\ IsList(u) /\ Len(u) = x + (y - x)
           /\ \A i \in 1..x : u[i] = first(x)[i]
           /\ \A i \in 1..(y - x) : u[x + i] = part[i]
        <3>1. /\ IsList(u) /\ Len(u) = Len(first(x)) + Len(part)
              /\ \A i \in 1..Len(first(x)) : u[i] = first(x)[i]
              /\ \A i \in 1..Len(part) : u[Len(first(x)) + i] = part[i]
            <4> DEFINE v == first(x)
            <4>1. IsList(v) /\ IsList(part)
                BY <2>6, <2>9
            <4> HIDE DEF v
            <4>2. /\ IsList(v \o part) /\ Len(v \o part) = Len(v) + Len(part)
                  /\ \A i \in 1..Len(v) : (v \o part)[i] = v[i]
                  /\ \A i \in 1..Len(part) : (v \o part)[Len(v) + i] = part[i]
                BY <4>1, ConcatIs
            <4> QED BY <4>2 DEF v
        <3> HIDE DEF u
        <3> QED BY <2>8, <2>9, <3>1
    <2> HIDE DEF u
    <2>11. \A i \in 1..y : u[i] = first(y)[i]
        <3> TAKE i \in 1..y
        <3>1. CASE i \in 1..x
            BY <2>9, <2>10, <3>1
        <3>2. CASE i \notin 1..x
            <4>1. i - x \in 1..(y - x) /\ x + (i - x) = i
                BY <2>7, <3>2
            <4>2. u[x + (i - x)] = part[i - x] /\ part[i - x] = s[x + (i - x)]
                BY <2>8, <2>10, <4>1
            <4> QED BY <2>9, <4>1, <4>2
        <3> QED BY <3>1, <3>2
    <2>12. u = first(y)
        BY <2>7, <2>9, <2>10, <2>11, ListsEqual
    <2>13. h[k + 1] = first(y)
        BY <2>3, <2>4, <2>12 DEF u
    <2> QED BY <2>13 DEF k, y
<1>8. n - 1 \in Good
    <2>1. n - 1 \in Nat
        OBVIOUS
    <2> HIDE DEF Good
    <2> QED BY <1>6, <1>7, <2>1, NumbersUpTo
<1>9. h[n] = first(Len(s))
    <2>1. (n - 1) + 1 = n /\ n \in 1..n
        OBVIOUS
    <2> QED BY <1>8, <2>1
<1>10. first(Len(s)) = s
    <2>1. Len(s) \in 0..Len(s)
        BY <1>1
    <2>2. /\ IsList(first(Len(s))) /\ Len(first(Len(s))) = Len(s)
          /\ \A i \in 1..Len(s) : first(Len(s))[i] = s[i]
        BY <1>5, <2>1
    <2> HIDE DEF first
    <2> QED BY <2>2, ListsEqual
<1> QED BY <1>3, <1>9, <1>10

LEMMA FlattenOne ==
    ASSUME NEW s, IsList(s)
    PROVE  FlattenSeq(<<s>>) = s
<1> DEFINE seqs == <<s>>
<1>1. /\ seqs = [i \in 1..1 |-> seqs[i]] /\ seqs[1] = s
    OBVIOUS
<1> HIDE DEF seqs
<1>2. PICK h : Flattens(seqs, 1, h) /\ FlattenSeq(seqs) = h[1]
    <2>1. 1 \in Nat /\ 1 > 0 /\ \A i \in 1..1 : IsList(seqs[i])
        BY <1>1
    <2> QED BY <1>1, <2>1, FlattenIs
<1>3. 1 \in 1..1
    OBVIOUS
<1>4. h[1] = seqs[1]
    BY <1>2, <1>3 DEF Flattens
<1> QED BY <1>1, <1>2, <1>4 DEF seqs

\* The least and the greatest of some numbers.
LEMMA ExtremesAre ==
    ASSUME NEW S, IsFiniteSet(S), S \subseteq Int, S # {}
    PROVE  /\ Min(S) \in S /\ Max(S) \in S
           /\ \A x \in S : Min(S) <= x /\ x <= Max(S)
<1> DEFINE key == [x \in S |-> x]
           at == SortedBy(S, key)
<1>1. \A x \in S : key[x] = x /\ x \in Int
    OBVIOUS
<1> HIDE DEF key
<1>2. Sortable(S, key)
    BY <1>1 DEF Sortable
<1>3. InOrderOf(S, key, at)
    BY <1>2, SortedIs
<1> HIDE DEF at
<1>4. /\ Len(at) \in Nat /\ \A k \in 1..Len(at) : at[k] \in S
      /\ \A p \in S : \E k \in 1..Len(at) : at[k] = p
      /\ \A j, k \in 1..Len(at) : j < k => key[at[j]] <= key[at[k]]
    BY <1>3 DEF InOrderOf, IsList
<1>5. 1 \in 1..Len(at) /\ Len(at) \in 1..Len(at)
    <2>1. PICK p \in S : TRUE
        OBVIOUS
    <2>2. PICK k \in 1..Len(at) : at[k] = p
        BY <1>4
    <2> QED BY <1>4, <2>2
<1>6. \A x \in S : at[1] <= x /\ x <= at[Len(at)]
    <2> TAKE x \in S
    <2>1. PICK k \in 1..Len(at) : at[k] = x
        BY <1>4
    <2>2. /\ key[at[1]] = at[1] /\ key[at[k]] = x /\ key[at[Len(at)]] = at[Len(at)]
          /\ at[1] \in Int /\ at[Len(at)] \in Int /\ x \in Int
        BY <1>1, <1>4, <1>5, <2>1
    <2>3. /\ 1 = k \/ 1 < k
          /\ k = Len(at) \/ k < Len(at)
        BY <1>4
    <2>4. at[1] <= x
        BY <1>4, <1>5, <2>1, <2>2, <2>3
    <2>5. x <= at[Len(at)]
        BY <1>4, <1>5, <2>1, <2>2, <2>3
    <2> QED BY <2>4, <2>5
<1>7. Min(S) \in S /\ \A x \in S : Min(S) <= x
    <2>1. \E x \in S : \A y \in S : x =< y
        BY <1>4, <1>5, <1>6
    <2> QED BY <2>1 DEF Min
<1>8. Max(S) \in S /\ \A x \in S : x <= Max(S)
    <2>1. \E x \in S : \A y \in S : x >= y
        BY <1>1, <1>4, <1>5, <1>6
    <2>2. Max(S) \in S /\ \A x \in S : Max(S) >= x
        BY <2>1 DEF Max
    <2> QED BY <1>1, <2>2
<1> QED BY <1>7, <1>8

-----------------------------------------------------------------------------
(* What a written file holds.                                               *)

\* The lists, the batch that they are parts of, and its templates.
BatchIs(lists, templates) ==
    LET logs == FlattenSeq(lists)
    IN /\ IsList(lists) /\ Len(lists) > 0
       /\ \A i \in 1..Len(lists) :
             IsList(lists[i]) /\ Len(lists[i]) > 0 /\ ToSet(lists[i]) \subseteq Lines
       /\ IsList(logs) /\ Len(logs) > 0 /\ ToSet(logs) \subseteq Lines
       /\ ToSet(logs) = UNION {ToSet(lists[i]) : i \in 1..Len(lists)}
       /\ IsList(templates) /\ Len(templates) > 0
       /\ ToSet(templates) = {TemplateOf(l, logs) : l \in ToSet(logs)}
       /\ \A j, k \in 1..Len(templates) : templates[j] = templates[k] => j = k

LEMMA SequencesOf ==
    ASSUME NEW S, IsFiniteSet(S), NEW s \in SetToSeqs(S)
    PROVE  /\ IsList(s) /\ Len(s) = Cardinality(S) /\ ToSet(s) = S
           /\ \A j, k \in 1..Len(s) : s[j] = s[k] => j = k
<1> DEFINE n == Cardinality(S)
<1>1. n \in Nat
    BY FS_CardinalityType
<1>2. s \in [1..n -> S] /\ \A i, j \in 1..n : i # j => s[i] # s[j]
    BY DEF SetToSeqs
<1> HIDE DEF n
<1>3. IsList(s) /\ Len(s) = n /\ DOMAIN s = 1..n
    <2>1. s = [i \in 1..n |-> s[i]]
        BY <1>2
    <2> QED BY <1>1, <2>1, ListIs
<1>4. s \in Surjection(1..n, S)
    <2>1. s \in Injection(1..n, S)
        BY <1>2 DEF Injection, IsInjective
    <2>2. Cardinality(1..n) = Cardinality(S)
        BY <1>1, FirstNumbers DEF n
    <2> QED BY <2>1, <2>2, FS_Injection
<1>5. ToSet(s) = S
    BY <1>2, <1>3, <1>4 DEF ToSet, Surjection
<1> QED BY <1>2, <1>3, <1>5 DEF n

\* The set of the templates of a batch.
LEMMA TemplatesAreFinite ==
    ASSUME NEW logs, IsList(logs)
    PROVE  /\ IsFiniteSet(TemplatesOf(logs))
           /\ Len(logs) > 0 => TemplatesOf(logs) # {}
<1> DEFINE f == [i \in 1..Len(logs) |-> TemplateOf(logs[i], logs)]
           T == TemplatesOf(logs)
<1>1. DOMAIN logs = 1..Len(logs) /\ Len(logs) \in Nat
    BY DEF IsList
<1>2. T = {TemplateOf(logs[i], logs) : i \in 1..Len(logs)}
    BY <1>1 DEF TemplatesOf, ToSet
<1>3. f \in Surjection(1..Len(logs), T)
    BY <1>2 DEF Surjection
<1>4. IsFiniteSet(1..Len(logs))
    BY <1>1, FirstNumbers
<1>5. Len(logs) > 0 => T # {}
    <2>1. Len(logs) > 0 => 1 \in 1..Len(logs)
        BY <1>1
    <2> QED BY <1>2, <2>1
<1> HIDE DEF f, T
<1>6. IsFiniteSet(T)
    BY <1>3, <1>4, FS_Surjection
<1> QED BY <1>5, <1>6 DEF T

LEMMA BatchOf ==
    ASSUME NEW file, NEW id, NEW lists, NEW templates, NEW dictLen,
           WrittenV2(file, id, lists, templates, dictLen)
    PROVE  BatchIs(lists, templates)
<1> DEFINE logs == FlattenSeq(lists)
           n == Len(lists)
<1>1. lists \in Seq(Seq(Lines) \ {<<>>}) /\ lists # <<>>
      /\ templates \in SetToSeqs(TemplatesOf(logs))
    BY DEF WrittenV2
<1>2. IsList(lists) /\ ToSet(lists) \subseteq Seq(Lines) \ {<<>>}
    BY <1>1, SeqIsList
<1>3. n \in Nat /\ n > 0 /\ lists = [i \in 1..n |-> lists[i]]
    BY <1>1, <1>2, EmptyList DEF IsList
<1> HIDE DEF n
<1>4. \A i \in 1..n : /\ IsList(lists[i]) /\ Len(lists[i]) > 0 /\ lists[i] # <<>>
                      /\ ToSet(lists[i]) \subseteq Lines
    <2> TAKE i \in 1..n
    <2>1. lists[i] \in Seq(Lines) /\ lists[i] # <<>>
        BY <1>2 DEF ToSet, IsList, n
    <2>2. IsList(lists[i]) /\ ToSet(lists[i]) \subseteq Lines
        BY <2>1, SeqIsList
    <2>3. Len(lists[i]) \in Nat /\ Len(lists[i]) # 0
        BY <2>1, <2>2, EmptyList DEF IsList
    <2> QED BY <2>1, <2>2, <2>3
<1>5. IsList(logs) /\ ToSet(logs) = UNION {ToSet(lists[i]) : i \in 1..n}
    <2>1. \A i \in 1..n : IsList(lists[i])
        BY <1>4
    <2> HIDE DEF logs
    <2> QED BY <1>3, <2>1, FlattenPlaces, FlattenHas DEF logs
<1> HIDE DEF logs
<1>6. ToSet(logs) \subseteq Lines /\ ToSet(logs) # {} /\ Len(logs) > 0
    <2>1. ToSet(logs) \subseteq Lines
        BY <1>4, <1>5
    <2>2. ToSet(lists[1]) # {} /\ 1 \in 1..n
        <3>1. 1 \in 1..n
            BY <1>3
        <3>2. IsList(lists[1]) /\ Len(lists[1]) > 0
            BY <1>4, <3>1
        <3>3. 1 \in DOMAIN lists[1]
            BY <3>2 DEF IsList
        <3> QED BY <3>1, <3>3 DEF ToSet
    <2>3. ToSet(logs) # {}
        BY <1>5, <2>2
    <2>4. Len(logs) \in Nat /\ Len(logs) # 0
        BY <1>5, <2>3 DEF ToSet, IsList
    <2> QED BY <2>1, <2>3, <2>4
<1>7. IsFiniteSet(TemplatesOf(logs)) /\ TemplatesOf(logs) # {}
    BY <1>5, <1>6, TemplatesAreFinite
<1>8. /\ IsList(templates) /\ ToSet(templates) = TemplatesOf(logs)
      /\ \A j, k \in 1..Len(templates) : templates[j] = templates[k] => j = k
    BY <1>1, <1>7, SequencesOf
<1>9. Len(templates) > 0
    <2>1. Len(templates) \in Nat /\ Len(templates) # 0
        BY <1>7, <1>8 DEF IsList, ToSet
    <2> QED BY <2>1
<1> QED BY <1>2, <1>3, <1>4, <1>5, <1>6, <1>8, <1>9 DEF BatchIs, TemplatesOf, logs, n

\* What one chunk says of its lines, and of the templates that they have.
EntryIsOf(chunk, lines) ==
    /\ DOMAIN chunk.entry = DOMAIN EntryWrites /\ chunk.lines = lines
    /\ chunk.entry.compressed_sz = 40 * Len(lines) /\ chunk.entry.original_sz = 100 * Len(lines)
    /\ chunk.entry.line_count = Len(lines)
    /\ chunk.entry.min_ts = lines[1].ts /\ chunk.entry.max_ts = lines[Len(lines)].ts
SummaryIsOf(chunk, lines, templates, logs) ==
    /\ chunk.summary.level_mask = {l.level : l \in ToSet(lines)}
    /\ chunk.summary.param_bloom = UNION {BloomOf(TextOf(l.message)) : l \in ToSet(lines)}
    /\ \A k \in 1..Len(templates) :
          k <= PatternBits /\ (\E l \in ToSet(lines) : templates[k] = TemplateOf(l, logs))
            => k - 1 \in chunk.summary.pattern_mask

LEMMA EntryOf ==
    ASSUME NEW lines, NEW templates, NEW text
    PROVE  EntryIsOf(ChunkOf(lines, templates, text), lines)
<1>1. DOMAIN ChunkOf(lines, templates, text).entry
        = {"offset", "compressed_sz", "original_sz", "line_count", "min_ts", "max_ts"}
    BY DEF ChunkOf
<1>2. DOMAIN EntryWrites
        = {"offset", "compressed_sz", "original_sz", "line_count", "min_ts", "max_ts"}
    BY EntryLayout
<1>3. LET chunk == ChunkOf(lines, templates, text)
      IN /\ chunk.lines = lines
         /\ chunk.entry.compressed_sz = 40 * Len(lines)
         /\ chunk.entry.original_sz = 100 * Len(lines)
         /\ chunk.entry.line_count = Len(lines)
         /\ chunk.entry.min_ts = lines[1].ts /\ chunk.entry.max_ts = lines[Len(lines)].ts
    BY DEF ChunkOf
<1> QED BY <1>1, <1>2, <1>3 DEF EntryIsOf

LEMMA SummaryOfChunk ==
    ASSUME NEW lines, IsList(lines), NEW templates, NEW logs, IsList(templates),
           \A j, k \in 1..Len(templates) : templates[j] = templates[k] => j = k
    PROVE  SummaryIsOf(ChunkOf(lines, templates,
                               [k \in 1..Len(lines) |-> TemplateOf(lines[k], logs)]),
                       lines, templates, logs)
<1> DEFINE text == [k \in 1..Len(lines) |-> TemplateOf(lines[k], logs)]
           chunk == ChunkOf(lines, templates, text)
           place(t) == CHOOSE i \in DOMAIN templates : templates[i] = t
<1>1. /\ chunk.summary.level_mask = {l.level : l \in ToSet(lines)}
      /\ chunk.summary.param_bloom = UNION {BloomOf(TextOf(l.message)) : l \in ToSet(lines)}
      /\ chunk.summary.pattern_mask
           = {i - 1 : i \in {place(t) : t \in ToSet(text)}} \cap 0..(PatternBits - 1)
    BY DEF ChunkOf
<1>2. DOMAIN lines = 1..Len(lines) /\ DOMAIN templates = 1..Len(templates)
      /\ Len(templates) \in Nat /\ DOMAIN text = 1..Len(lines)
    BY DEF IsList
<1> HIDE DEF chunk
<1>3. ASSUME NEW k \in 1..Len(templates), k <= PatternBits,
             NEW l \in ToSet(lines), templates[k] = TemplateOf(l, logs)
      PROVE  k - 1 \in chunk.summary.pattern_mask
    <2>1. TemplateOf(l, logs) \in ToSet(text)
        <3>1. PICK j \in 1..Len(lines) : l = lines[j]
            BY <1>2 DEF ToSet
        <3>2. text[j] = TemplateOf(l, logs) /\ j \in DOMAIN text
            BY <1>2, <3>1
        <3> HIDE DEF text
        <3> QED BY <3>2 DEF ToSet
    <2>2. place(templates[k]) = k
        BY <1>2
    <2>3. k - 1 \in 0..(PatternBits - 1)
        BY <1>2, <1>3, IndexAssumption
    <2>4. k \in {place(t) : t \in ToSet(text)}
        <3> HIDE DEF text, place
        <3> QED BY <1>3, <2>1, <2>2
    <2> HIDE DEF text, place
    <2> QED BY <1>1, <2>3, <2>4
<1>4. SummaryIsOf(chunk, lines, templates, logs)
    BY <1>1, <1>3 DEF SummaryIsOf
<1> QED BY <1>4 DEF chunk

\* All chunks of a batch.
ChunksAre(chunks, lists, templates) ==
    /\ Len(chunks) = Len(lists) /\ Shaped(chunks)
    /\ \A i \in 1..Len(lists) : /\ EntryIsOf(chunks[i], lists[i])
                                /\ SummaryIsOf(chunks[i], lists[i], templates, FlattenSeq(lists))

LEMMA ChunksOfBatch ==
    ASSUME NEW lists, NEW templates, BatchIs(lists, templates)
    PROVE  ChunksAre(ChunksFrom(lists, templates), lists, templates)
<1> DEFINE chunks == ChunksFrom(lists, templates)
           n == Len(lists)
           logs == FlattenSeq(lists)
<1>1. /\ n \in Nat /\ IsList(templates)
      /\ \A i \in 1..n : IsList(lists[i]) /\ Len(lists[i]) > 0
      /\ \A j, k \in 1..Len(templates) : templates[j] = templates[k] => j = k
    BY DEF BatchIs, IsList
<1>2. \A i \in 1..n :
        chunks[i] = ChunkOf(lists[i], templates,
                            [k \in 1..Len(lists[i]) |-> TemplateOf(lists[i][k], logs)])
    BY DEF ChunksFrom
<1>3. Len(chunks) = n
    <2>1. chunks = [i \in 1..n |-> chunks[i]]
        BY DEF ChunksFrom
    <2> HIDE DEF chunks, n
    <2> QED BY <1>1, <2>1, ListIs
<1> HIDE DEF chunks, n, logs
<1>4. \A i \in 1..n : EntryIsOf(chunks[i], lists[i])
    BY <1>2, EntryOf
<1>5. \A i \in 1..n : SummaryIsOf(chunks[i], lists[i], templates, logs)
    <2> TAKE i \in 1..n
    <2>1. IsList(lists[i])
        BY <1>1
    <2>2. SummaryIsOf(ChunkOf(lists[i], templates,
                              [k \in 1..Len(lists[i]) |-> TemplateOf(lists[i][k], logs)]),
                      lists[i], templates, logs)
        BY <1>1, <2>1, SummaryOfChunk
    <2> QED BY <1>2, <2>2
<1>6. Shaped(chunks)
    <2>1. \A i \in 1..n : chunks[i].entry.compressed_sz \in Nat \ {0}
        <3> TAKE i \in 1..n
        <3>1. Len(lists[i]) \in Nat \ {0}
            <4>1. IsList(lists[i]) /\ Len(lists[i]) > 0
                BY <1>1
            <4>2. Len(lists[i]) \in Nat
                BY <4>1 DEF IsList
            <4> QED BY <4>1, <4>2
        <3>2. chunks[i].entry.compressed_sz = 40 * Len(lists[i])
            BY <1>4 DEF EntryIsOf
        <3> QED BY <3>1, <3>2
    <2>2. \A i \in 1..n : DOMAIN chunks[i].entry = DOMAIN EntryWrites
        BY <1>4 DEF EntryIsOf
    <2> QED BY <1>1, <1>3, <2>1, <2>2 DEF Shaped, SizesOf
<1> QED BY <1>3, <1>4, <1>5, <1>6 DEF ChunksAre, chunks, n, logs

\* The file of a batch: what it was made of, and what is read from it.
LEMMA FileOfBatch ==
    ASSUME NEW file, NEW id, NEW lists, NEW templates, NEW dictLen,
           WrittenV2(file, id, lists, templates, dictLen)
    PROVE  LET chunks == ChunksFrom(lists, templates)
           IN /\ BatchIs(lists, templates) /\ ChunksAre(chunks, lists, templates)
              /\ 16 * Len(templates) \in Nat \ {0} /\ dictLen \in {0, 1024}
              /\ FileSays(file, id, templates, 16 * Len(templates), dictLen, chunks)
<1> DEFINE chunks == ChunksFrom(lists, templates)
           size == 16 * Len(templates)
<1>1. BatchIs(lists, templates) /\ ChunksAre(chunks, lists, templates)
    BY BatchOf, ChunksOfBatch
<1>2. Len(templates) \in Nat /\ Len(templates) > 0
    BY <1>1 DEF BatchIs, IsList
<1>3. size \in Nat \ {0}
    BY <1>2
<1>4. dictLen \in {0, 1024} /\ file = SegmentFile(id, templates, size, dictLen, chunks)
    BY DEF WrittenV2
<1> HIDE DEF chunks, size
<1>5. Shaped(chunks)
    BY <1>1 DEF ChunksAre
<1>6. dictLen \in Nat
    BY <1>4
<1>7. FileSays(SegmentFile(id, templates, size, dictLen, chunks),
               id, templates, size, dictLen, chunks)
    BY <1>3, <1>5, <1>6, WrittenIsRead
<1>8. FileSays(file, id, templates, size, dictLen, chunks)
    BY <1>4, <1>7
<1> QED BY <1>1, <1>3, <1>4, <1>8 DEF chunks, size

\* The file of the first version.
LEMMA FileOfLegacy ==
    ASSUME NEW file, NEW id, NEW lists, WrittenV1(file, id, lists)
    PROVE  /\ FileSaysV1(file, id, LegacyChunk) /\ EntryIsOf(LegacyChunk, LegacyLines)
           /\ lists = <<LegacyLines>> /\ FlattenSeq(lists) = LegacyLines
           /\ IsList(LegacyLines) /\ Len(LegacyLines) > 0
<1>1. IsList(LegacyLines) /\ Len(LegacyLines) \in Nat \ {0}
    <2>1. IsList(LegacyLines) /\ LegacyLines # <<>>
        BY LinesAssumption, SeqIsList
    <2> QED BY <2>1, EmptyList DEF IsList
<1>2. EntryIsOf(LegacyChunk, LegacyLines)
    BY EntryOf DEF LegacyChunk
<1>3. LegacyChunk.entry.compressed_sz \in Nat \ {0}
      /\ DOMAIN LegacyChunk.entry = DOMAIN EntryWrites
    <2>1. LegacyChunk.entry.compressed_sz = 40 * Len(LegacyLines)
          /\ DOMAIN LegacyChunk.entry = DOMAIN EntryWrites
        BY <1>2 DEF EntryIsOf
    <2> QED BY <1>1, <2>1
<1>4. lists = <<LegacyLines>> /\ file = SegmentFileV1(id, LegacyChunk)
    BY DEF WrittenV1
<1>5. FileSaysV1(file, id, LegacyChunk)
    BY <1>3, <1>4, WrittenIsReadV1
<1>6. FlattenSeq(lists) = LegacyLines
    BY <1>1, <1>4, FlattenOne
<1> QED BY <1>1, <1>2, <1>4, <1>5, <1>6

\* What is known of a file of each version.
IsV2(file, id, lists, dictLen) ==
    LET templates == TemplatesIn(file)
        header == HeaderOf(file)[1]
    IN /\ dictLen \in {0, 1024}
       /\ BatchIs(lists, templates)
       /\ ChunksAre(ChunksFrom(lists, templates), lists, templates)
       /\ 16 * Len(templates) \in Nat \ {0}
       /\ FileSays(file, id, templates, 16 * Len(templates), dictLen,
                   ChunksFrom(lists, templates))
       /\ HeaderOf(file) # None /\ header.version = V2 /\ header.version # V1
       /\ header.segment_id = id /\ header.dict_len = dictLen
IsV1(file, id, lists) ==
    LET header == HeaderOf(file)[1]
    IN /\ FileSaysV1(file, id, LegacyChunk) /\ EntryIsOf(LegacyChunk, LegacyLines)
       /\ lists = <<LegacyLines>> /\ FlattenSeq(lists) = LegacyLines
       /\ IsList(LegacyLines) /\ Len(LegacyLines) > 0
       /\ HeaderOf(file) # None /\ header.version = V1 /\ header.version # V2
       /\ header.segment_id = id /\ header.dict_len = 0
       /\ TemplatesIn(file) = <<>>

LEMMA V2Is ==
    ASSUME NEW file, NEW id, NEW lists, NEW templates, NEW dictLen,
           WrittenV2(file, id, lists, templates, dictLen)
    PROVE  IsV2(file, id, lists, dictLen) /\ TemplatesIn(file) = templates
<1> DEFINE chunks == ChunksFrom(lists, templates)
           size == 16 * Len(templates)
           header == HeaderOf(file)[1]
           meta == MetaOf(templates, size, dictLen, Len(chunks))
<1>1. /\ BatchIs(lists, templates) /\ ChunksAre(chunks, lists, templates)
      /\ size \in Nat \ {0} /\ dictLen \in {0, 1024}
      /\ FileSays(file, id, templates, size, dictLen, chunks)
    BY FileOfBatch
<1>2. HeaderSays(file, V2, id, Len(chunks), meta) /\ file.at[HeaderSize].v = templates
    <2> HIDE DEF chunks, size
    <2> QED BY <1>1 DEF FileSays
<1>3. meta["dict_len"] = dictLen
    BY DEF MetaOf
<1> HIDE DEF meta, chunks, size
<1>4. /\ HeaderOf(file) # None /\ header.version = V2 /\ header.segment_id = id
      /\ header.dict_len = dictLen
    BY <1>2, <1>3 DEF HeaderSays
<1>5. V2 # V1
    BY DEF V1, V2
<1>6. TemplatesIn(file) = templates
    BY <1>2, <1>4 DEF TemplatesIn
<1> QED BY <1>1, <1>4, <1>5, <1>6 DEF IsV2, chunks, size

LEMMA V1Is ==
    ASSUME NEW file, NEW id, NEW lists, WrittenV1(file, id, lists)
    PROVE  IsV1(file, id, lists)
<1> DEFINE header == HeaderOf(file)[1]
<1>1. /\ FileSaysV1(file, id, LegacyChunk) /\ EntryIsOf(LegacyChunk, LegacyLines)
      /\ lists = <<LegacyLines>> /\ FlattenSeq(lists) = LegacyLines
      /\ IsList(LegacyLines) /\ Len(LegacyLines) > 0
    BY FileOfLegacy
<1>2. HeaderSays(file, V1, id, 1, NoMeta)
    BY <1>1 DEF FileSaysV1
<1>3. NoMeta["dict_len"] = 0
    BY MetaLayout DEF NoMeta
<1>4. /\ HeaderOf(file) # None /\ header.version = V1 /\ header.segment_id = id
      /\ header.dict_len = 0
    BY <1>2, <1>3 DEF HeaderSays
<1>5. V1 # V2
    BY DEF V1, V2
<1>6. TemplatesIn(file) = <<>>
    BY <1>4, <1>5 DEF TemplatesIn
<1> QED BY <1>1, <1>4, <1>5, <1>6 DEF IsV1

LEMMA KindOf ==
    ASSUME FilesAreWritten, NEW id \in DOMAIN files
    PROVE  \/ IsV1(files[id], id, sealed[id])
           \/ \E dictLen \in {0, 1024} : IsV2(files[id], id, sealed[id], dictLen)
<1>1. CASE WrittenV1(files[id], id, sealed[id])
    BY <1>1, V1Is
<1>2. ASSUME NEW templates, NEW dictLen \in {0, 1024},
             WrittenV2(files[id], id, sealed[id], templates, dictLen)
      PROVE  \E d \in {0, 1024} : IsV2(files[id], id, sealed[id], d)
    BY <1>2, V2Is
<1> QED BY <1>1, <1>2 DEF FilesAreWritten

-----------------------------------------------------------------------------
(* What was sealed is parsed.                                               *)

LEMMA ChunkIsFound ==
    ASSUME NEW file, NEW id, NEW lists, NEW dictLen, IsV2(file, id, lists, dictLen)
    PROVE  LET parsed == Parse(file)[1]
           IN /\ Parse(file) # None
              /\ Len(parsed.chunks) = Len(lists) /\ Len(parsed.summaries) = Len(lists)
              /\ DOMAIN parsed.chunks = 1..Len(lists)
              /\ \A i \in 1..Len(lists) :
                    /\ ChunkData(file, parsed, i) = <<lists[i]>>
                    /\ parsed.chunks[i].line_count = Len(lists[i])
                    /\ parsed.summaries[i].level_mask = {l.level : l \in ToSet(lists[i])}
                    /\ parsed.summaries[i].param_bloom
                         = UNION {BloomOf(TextOf(l.message)) : l \in ToSet(lists[i])}
<1> DEFINE templates == TemplatesIn(file)
           size == 16 * Len(templates)
           chunks == ChunksFrom(lists, templates)
           parsed == Parse(file)[1]
           n == Len(lists)
           data == DataStart(size, dictLen, n)
<1>1. /\ dictLen \in {0, 1024} /\ size \in Nat \ {0} /\ BatchIs(lists, templates)
      /\ ChunksAre(chunks, lists, templates)
      /\ FileSays(file, id, templates, size, dictLen, chunks)
    BY DEF IsV2
<1> HIDE DEF size, chunks, templates
<1>2. Len(chunks) = n /\ Shaped(chunks) /\ n > 0 /\ n \in Nat /\ dictLen \in Nat
    BY <1>1 DEF ChunksAre, BatchIs, IsList
<1> HIDE DEF n
<1>3. ParseSays(file, size, dictLen, chunks)
    BY <1>1, <1>2, ParsedIs
<1>4. /\ Parse(file) # None
      /\ parsed.chunks = [i \in 1..n |-> EntryAt(file, TableStart(size, dictLen), i)]
      /\ parsed.summaries = [i \in 1..n |-> SummaryAt(file, SummaryStart(size, dictLen, n), i)]
      /\ parsed.data_offset = data
    BY <1>2, <1>3 DEF ParseSays
<1> HIDE DEF parsed
<1>5. Len(parsed.chunks) = n /\ Len(parsed.summaries) = n /\ DOMAIN parsed.chunks = 1..n
    <2>1. parsed.chunks = [i \in 1..n |-> parsed.chunks[i]]
          /\ parsed.summaries = [i \in 1..n |-> parsed.summaries[i]]
        BY <1>4
    <2> QED BY <1>2, <2>1, ListIs
<1>6. ASSUME NEW i \in 1..n
      PROVE  /\ ChunkData(file, parsed, i) = <<lists[i]>>
             /\ parsed.chunks[i].line_count = Len(lists[i])
             /\ parsed.summaries[i].level_mask = {l.level : l \in ToSet(lists[i])}
             /\ parsed.summaries[i].param_bloom
                  = UNION {BloomOf(TextOf(l.message)) : l \in ToSet(lists[i])}
    <2>1. /\ EntryIsOf(chunks[i], lists[i])
          /\ SummaryIsOf(chunks[i], lists[i], templates, FlattenSeq(lists))
        BY <1>1 DEF ChunksAre, n
    <2>2. ChunkSays(file, size, dictLen, chunks, i)
        BY <1>1, <1>2 DEF FileSays
    <2>3. /\ parsed.chunks[i] = EntryAt(file, TableStart(size, dictLen), i)
          /\ parsed.summaries[i] = SummaryAt(file, SummaryStart(size, dictLen, n), i)
        BY <1>4
    <2> DEFINE entry == parsed.chunks[i]
               summary == parsed.summaries[i]
               bytes == chunks[i].entry.compressed_sz
               before == DataBefore(chunks, i)
    <2>4. /\ entry.offset = before /\ entry.compressed_sz = bytes
          /\ entry.line_count = chunks[i].entry.line_count
          /\ summary.level_mask = chunks[i].summary.level_mask
          /\ summary.param_bloom = chunks[i].summary.param_bloom
          /\ LinesAt(file, data + before, bytes) = <<chunks[i].lines>>
        BY <1>2, <2>2, <2>3 DEF ChunkSays
    <2>5. /\ chunks[i].entry.line_count = Len(lists[i]) /\ chunks[i].lines = lists[i]
          /\ chunks[i].summary.level_mask = {l.level : l \in ToSet(lists[i])}
          /\ chunks[i].summary.param_bloom
               = UNION {BloomOf(TextOf(l.message)) : l \in ToSet(lists[i])}
        BY <2>1 DEF EntryIsOf, SummaryIsOf
    <2>6. /\ before \in Nat /\ DataBefore(chunks, n + 1) \in Nat
          /\ before + bytes <= DataBefore(chunks, n + 1) /\ bytes \in Nat
        <3>1. n + 1 \in 1..(n + 1) /\ i \in 1..(n + 1) /\ i \in 1..((n + 1) - 1)
            BY <1>2
        <3>2. SizesOf(chunks)
            BY <1>2 DEF Shaped
        <3>3. \A j \in 1..(n + 1) :
                /\ DataBefore(chunks, j) \in Nat
                /\ \A k \in 1..(j - 1) :
                     DataBefore(chunks, k) + chunks[k].entry.compressed_sz
                       <= DataBefore(chunks, j)
            BY <1>2, <3>2, DataIsApart
        <3>4. bytes \in Nat
            BY <1>2, <3>2 DEF SizesOf
        <3> QED BY <3>1, <3>3, <3>4
    <2>7. file.len = data + DataBefore(chunks, n + 1) + 8 /\ data \in Nat
        <3>1. file.len = data + DataBefore(chunks, n + 1) + 8
            BY <1>1, <1>2 DEF FileSays, Whole
        <3>2. data \in Nat
            BY <1>1, <1>2, PlacesAre
        <3> QED BY <3>1, <3>2
    <2> HIDE DEF entry, summary, bytes, before, data
    <2>8. ~(data + before + bytes > file.len)
        BY <2>6, <2>7
    <2>9. ChunkData(file, parsed, i) = <<lists[i]>>
        BY <1>4, <2>4, <2>5, <2>8 DEF ChunkData, entry
    <2> QED BY <2>4, <2>5, <2>9 DEF entry, summary
<1> QED BY <1>4, <1>5, <1>6 DEF parsed, n

LEMMA FilesAreParsed == ASSUME FilesAreWritten PROVE SealedIsParsed
<1>1. LayoutsAgree
    BY LayoutsDoAgree
<1>2. DOMAIN sealed = DOMAIN files
    BY DEF FilesAreWritten
<1>3. ASSUME NEW id \in DOMAIN files, IsV1(files[id], id, sealed[id])
      PROVE  Parse(files[id]) # None /\ HeaderOf(files[id])[1].version # V2
    BY <1>3, ParsedIsV1 DEF IsV1
<1>4. ASSUME NEW id \in DOMAIN files, NEW dictLen, IsV2(files[id], id, sealed[id], dictLen)
      PROVE  LET parsed == Parse(files[id])[1]
             IN /\ Parse(files[id]) # None
                /\ Len(parsed.summaries) = Len(parsed.chunks)
                /\ Len(parsed.chunks) = Len(sealed[id])
                /\ \A i \in DOMAIN parsed.chunks :
                      LET lines == sealed[id][i]
                          summary == parsed.summaries[i]
                      IN /\ ChunkData(files[id], parsed, i) = <<lines>>
                         /\ parsed.chunks[i].line_count = Len(lines)
                         /\ summary.level_mask = {l.level : l \in ToSet(lines)}
                         /\ \A l \in ToSet(lines) :
                               BloomOf(TextOf(l.message)) \subseteq summary.param_bloom
    <2> DEFINE file == files[id]
               lists == sealed[id]
               parsed == Parse(file)[1]
    <2>1. IsV2(file, id, lists, dictLen)
        BY <1>4
    <2> HIDE DEF file, lists
    <2>2. /\ Parse(file) # None
          /\ Len(parsed.chunks) = Len(lists) /\ Len(parsed.summaries) = Len(lists)
          /\ DOMAIN parsed.chunks = 1..Len(lists)
          /\ \A i \in 1..Len(lists) :
                /\ ChunkData(file, parsed, i) = <<lists[i]>>
                /\ parsed.chunks[i].line_count = Len(lists[i])
                /\ parsed.summaries[i].level_mask = {l.level : l \in ToSet(lists[i])}
                /\ parsed.summaries[i].param_bloom
                     = UNION {BloomOf(TextOf(l.message)) : l \in ToSet(lists[i])}
        BY <2>1, ChunkIsFound
    <2> HIDE DEF parsed
    <2>3. \A i \in 1..Len(lists) : \A l \in ToSet(lists[i]) :
            BloomOf(TextOf(l.message)) \subseteq parsed.summaries[i].param_bloom
        BY <2>2
    <2> QED BY <2>2, <2>3 DEF parsed, file, lists
<1> DEFINE Parsed(file, lists) ==
        LET parsed == Parse(file)[1]
        IN /\ Parse(file) # None
           /\ HeaderOf(file)[1].version = V2 =>
                /\ Len(parsed.summaries) = Len(parsed.chunks)
                /\ Len(parsed.chunks) = Len(lists)
                /\ \A i \in DOMAIN parsed.chunks :
                      LET lines == lists[i]
                          summary == parsed.summaries[i]
                      IN /\ ChunkData(file, parsed, i) = <<lines>>
                         /\ parsed.chunks[i].line_count = Len(lines)
                         /\ summary.level_mask = {l.level : l \in ToSet(lines)}
                         /\ \A l \in ToSet(lines) :
                               BloomOf(TextOf(l.message)) \subseteq summary.param_bloom
<1>5. ASSUME NEW id \in DOMAIN files, IsV1(files[id], id, sealed[id])
      PROVE  Parsed(files[id], sealed[id])
    BY <1>3, <1>5
<1>6. ASSUME NEW id \in DOMAIN files, NEW dictLen, IsV2(files[id], id, sealed[id], dictLen)
      PROVE  Parsed(files[id], sealed[id])
    BY <1>4, <1>6
<1>7. (\A id \in DOMAIN files : Parsed(files[id], sealed[id])) => SealedIsParsed
    BY <1>1 DEF SealedIsParsed
<1> HIDE DEF Parsed
<1> QED BY <1>5, <1>6, <1>7, KindOf

-----------------------------------------------------------------------------
(* What was damaged is not taken for good.                                  *)

Refused(f, range, keyword) == Parse(f) = None /\ Search(f, range, keyword).kind # "ok"

LEMMA UnverifiedIsNotFound ==
    ASSUME NEW f, ~Verified(f), NEW range, NEW keyword,
           HeaderOf(f) # None => HeaderOf(f)[1].version # V1
    PROVE  Refused(f, range, keyword)
<1>1. Parse(f) = None
    BY DEF Parse
<1>2. Failed.kind # "ok" /\ Panicked.kind # "ok"
    BY DEF Failed, Panicked
<1>3. ASSUME NEW header PROVE SearchV2(f, header, range, keyword) \in {Failed, Panicked}
    BY DEF SearchV2
<1>4. Search(f, range, keyword) \in {Failed, Panicked}
    BY <1>3 DEF Search
<1> QED BY <1>1, <1>2, <1>4 DEF Refused

LEMMA DamageIsSeen ==
    ASSUME NEW file, NEW id, NEW lists, NEW dictLen, IsV2(file, id, lists, dictLen),
           NEW range, NEW keyword
    PROVE  /\ \A o \in DOMAIN file.at \ {FooterStart(file)} : \A g :
                Refused(Damaged(file, o, g), range, keyword)
           /\ \A o \in DOMAIN file.at :
                Cut(file, o).len < MinSegmentSize \/ Refused(Cut(file, o), range, keyword)
<1> DEFINE templates == TemplatesIn(file)
           size == 16 * Len(templates)
           chunks == ChunksFrom(lists, templates)
           n == Len(chunks)
           end == DataStart(size, dictLen, n) + DataBefore(chunks, n + 1)
           meta == MetaOf(templates, size, dictLen, n)
<1>1. FileSays(file, id, templates, size, dictLen, chunks)
    BY DEF IsV2
<1> HIDE DEF templates, size, chunks
<1>2. end \in Nat /\ Whole(file, end) /\ HeaderSays(file, V2, id, n, meta)
    BY <1>1 DEF FileSays
<1> HIDE DEF n, end, meta
<1>3. HeaderOf(file) # None /\ Has(file, 4, 1) /\ file.at[4].v = V2
    BY <1>2 DEF HeaderSays
<1>4. FooterStart(file) = end /\ \A o \in DOMAIN file.at : Undamaged(file.at[o])
    BY <1>2 DEF Whole
<1>5. V2 # V1
    BY DEF V1, V2
<1>6. ASSUME NEW o \in DOMAIN file.at, o # end, NEW g
      PROVE  Refused(Damaged(file, o, g), range, keyword)
    <2> DEFINE f == Damaged(file, o, g)
    <2>1. /\ ~Verified(f) /\ DOMAIN f.at = DOMAIN file.at
          /\ \A q \in DOMAIN file.at : q # o => f.at[q] = file.at[q]
          /\ f.at[o].bad
        BY <1>2, <1>6, DamagedIsNot
    <2> HIDE DEF f
    <2>2. CASE o # 4
        <3>1. Has(f, 4, 1) /\ f.at[4].v = V2
            BY <1>3, <2>1, <2>2 DEF Has
        <3>2. HeaderOf(f) # None => HeaderOf(f)[1].version = V2
            BY <1>2, <3>1, VersionStays
        <3> QED BY <1>5, <2>1, <3>2, UnverifiedIsNotFound DEF f
    <2>3. CASE o = 4
        <3>1. /\ file.at[HeaderCrc].crc = [p \in {q \in DOMAIN file.at : q < HeaderCrc}
                                              |-> file.at[p]]
            BY <1>3 DEF HeaderOf
        <3>2. 4 < HeaderCrc /\ HeaderCrc # 4
            BY DEF HeaderCrc
        <3>3. 4 \in DOMAIN file.at
            BY <2>3
        <3>4. file.at[HeaderCrc].crc[4] = file.at[4]
            BY <3>1, <3>2, <3>3
        <3>5. HeaderOf(f) = None
            <4>1. SUFFICES ASSUME f.at[HeaderCrc].crc
                                    = [p \in {q \in DOMAIN f.at : q < HeaderCrc} |-> f.at[p]]
                           PROVE  FALSE
                BY DEF HeaderOf
            <4>2. f.at[HeaderCrc].crc[4] = f.at[4]
                BY <2>1, <3>2, <3>3, <4>1
            <4>3. f.at[HeaderCrc] = file.at[HeaderCrc]
                <5>1. HeaderCrc \in DOMAIN file.at
                    BY <1>2, <1>3 DEF HeaderSays
                <5> QED BY <2>1, <2>3, <3>2, <5>1
            <4>4. f.at[4] = file.at[4]
                BY <3>4, <4>2, <4>3
            <4> QED BY <1>4, <2>1, <2>3, <3>3, <4>4 DEF Undamaged
        <3> QED BY <2>1, <3>5, UnverifiedIsNotFound DEF f
    <2> QED BY <2>2, <2>3
<1>7. ASSUME NEW o \in DOMAIN file.at, ~(Cut(file, o).len < MinSegmentSize)
      PROVE  Refused(Cut(file, o), range, keyword)
    <2> DEFINE f == Cut(file, o)
    <2>1. f.len = o
        BY DEF Cut
    <2>2. o \in Int /\ MinSegmentSize = 104
        BY <1>2 DEF Whole, MinSegmentSize, HeaderSize, EntrySize, FooterSize
    <2>3. MinSegmentSize <= o
        BY <1>7, <2>1, <2>2
    <2>4. /\ ~Verified(f) /\ DOMAIN f.at = {q \in DOMAIN file.at : q < o}
          /\ \A q \in DOMAIN file.at : q < o => f.at[q] = file.at[q]
        BY <1>2, <2>3, CutIsNot
    <2> HIDE DEF f
    <2>5. Has(f, 4, 1) /\ f.at[4].v = V2
        <3>1. 4 < o
            BY <2>2, <2>3
        <3> QED BY <1>3, <2>4, <3>1 DEF Has
    <2>6. HeaderOf(f) # None => HeaderOf(f)[1].version = V2
        BY <1>2, <2>5, VersionStays
    <2> QED BY <1>5, <2>4, <2>6, UnverifiedIsNotFound DEF f
<1> QED BY <1>4, <1>6, <1>7

LEMMA DamageIsAlwaysCaught == ASSUME FilesAreWritten PROVE DamageIsCaught
<1>1. ASSUME NEW id \in DOMAIN files, HeaderOf(files[id])[1].version = V2
      PROVE  \E dictLen : IsV2(files[id], id, sealed[id], dictLen)
    BY <1>1, KindOf DEF IsV1
<1>2. ASSUME NEW id \in DOMAIN files, HeaderOf(files[id])[1].version = V2, NEW range
      PROVE  /\ \A o \in DOMAIN files[id].at \ {FooterStart(files[id])} : \A g :
                  Refused(Damaged(files[id], o, g), range, NoText)
             /\ \A o \in DOMAIN files[id].at :
                  \/ Cut(files[id], o).len < MinSegmentSize
                  \/ Refused(Cut(files[id], o), range, NoText)
    <2>1. PICK dictLen : IsV2(files[id], id, sealed[id], dictLen)
        BY <1>1, <1>2
    <2> QED BY <2>1, DamageIsSeen
<1>3. ASSUME NEW id \in DOMAIN files, HeaderOf(files[id])[1].version = V2,
             NEW o \in DOMAIN files[id].at
      PROVE  Refuses(Cut(files[id], o))
    BY <1>2, <1>3 DEF Refused, Refuses
<1>4. ASSUME NEW id \in DOMAIN files, HeaderOf(files[id])[1].version = V2,
             NEW o \in DOMAIN files[id].at, o # FooterStart(files[id]), NEW g
      PROVE  Refuses(Damaged(files[id], o, g))
    BY <1>2, <1>4 DEF Refused, Refuses
<1> QED BY <1>3, <1>4 DEF DamageIsCaught

-----------------------------------------------------------------------------
(* What the index and a query find in a file of the second version.         *)
SizeOf(file) == 16 * Len(TemplatesIn(file))
DataEnd(file, lists, dictLen) ==
    DataStart(SizeOf(file), dictLen, Len(lists))
        + DataBefore(ChunksFrom(lists, TemplatesIn(file)), Len(lists) + 1)

FileTells(file, id, lists, dictLen) ==
    LET size == SizeOf(file)
        n == Len(lists)
        header == HeaderOf(file)[1]
    IN /\ n \in Nat \ {0} /\ dictLen \in {0, 1024} /\ size \in Nat \ {0}
       /\ DataStart(size, dictLen, n) \in Nat /\ DataEnd(file, lists, dictLen) \in Nat
       /\ 64 + size + dictLen + n * 32 + n * 80 <= DataStart(size, dictLen, n)
       /\ DataStart(size, dictLen, n) <= DataEnd(file, lists, dictLen)
       /\ file.len = DataEnd(file, lists, dictLen) + 8 /\ Verified(file)
       /\ FooterStart(file) = DataEnd(file, lists, dictLen)
       /\ HeaderOf(file) # None /\ header.version = V2 /\ header.segment_id = id
       /\ header.chunk_count = n /\ header.pattern_table_len = size
       /\ header.pattern_count = Len(TemplatesIn(file))
       /\ header.summary_offset = SummaryStart(size, dictLen, n)
       /\ header.data_offset = DataStart(size, dictLen, n) /\ header.dict_len = dictLen
       /\ Has(file, HeaderSize, size) /\ file.at[HeaderSize].v = TemplatesIn(file)
       /\ DictAlone(file, size, dictLen)

ChunkTells(file, lists, dictLen, i) ==
    LET start == SummaryStart(SizeOf(file), dictLen, Len(lists))
        data == DataStart(SizeOf(file), dictLen, Len(lists))
        entry == EntryAt(file, 64 + SizeOf(file) + dictLen, i)
        summary == SummaryAt(file, start, i)
        templates == TemplatesIn(file)
    IN /\ entry.offset \in Nat /\ entry.compressed_sz = 40 * Len(lists[i])
       /\ entry.original_sz = 100 * Len(lists[i]) /\ entry.line_count = Len(lists[i])
       /\ entry.min_ts = lists[i][1].ts /\ entry.max_ts = lists[i][Len(lists[i])].ts
       /\ summary.level_mask = {l.level : l \in ToSet(lists[i])}
       /\ \A k \in 1..Len(templates) :
             k <= PatternBits
             /\ (\E l \in ToSet(lists[i]) : templates[k] = TemplateOf(l, FlattenSeq(lists)))
                => k - 1 \in summary.pattern_mask
       /\ data + entry.offset + entry.compressed_sz <= DataEnd(file, lists, dictLen)
       /\ LinesAt(file, data + entry.offset, entry.compressed_sz) = <<lists[i]>>

LEMMA WhatFilesTell ==
    ASSUME NEW file, NEW id, NEW lists, NEW dictLen, IsV2(file, id, lists, dictLen)
    PROVE  /\ FileTells(file, id, lists, dictLen)
           /\ \A i \in 1..Len(lists) : ChunkTells(file, lists, dictLen, i)
<1> DEFINE templates == TemplatesIn(file)
           size == SizeOf(file)
           chunks == ChunksFrom(lists, templates)
           n == Len(lists)
           data == DataStart(size, dictLen, n)
           end == data + DataBefore(chunks, n + 1)
           header == HeaderOf(file)[1]
<1>1. /\ dictLen \in {0, 1024} /\ size \in Nat \ {0} /\ BatchIs(lists, templates)
      /\ ChunksAre(chunks, lists, templates)
      /\ FileSays(file, id, templates, size, dictLen, chunks)
    BY DEF IsV2, SizeOf
<1>2. end = DataEnd(file, lists, dictLen)
    BY DEF DataEnd
<1> HIDE DEF size, chunks, templates
<1>3. Len(chunks) = n /\ Shaped(chunks) /\ n \in Nat \ {0} /\ dictLen \in Nat
    BY <1>1 DEF ChunksAre, BatchIs, IsList
<1> HIDE DEF n
<1>4. /\ TableStart(size, dictLen) = 64 + size + dictLen /\ data \in Nat
      /\ data >= 64 + size + dictLen + n * 32 + n * 80
    BY <1>1, <1>3, PlacesAre
<1>5. SizesOf(chunks)
    BY <1>3 DEF Shaped
<1>6. \A j \in 1..(n + 1) :
         /\ DataBefore(chunks, j) \in Nat
         /\ \A k \in 1..(j - 1) :
              DataBefore(chunks, k) + chunks[k].entry.compressed_sz <= DataBefore(chunks, j)
    BY <1>3, <1>5, DataIsApart
<1>7. DataBefore(chunks, n + 1) \in Nat /\ end \in Nat /\ data <= end
    <2>1. n + 1 \in 1..(n + 1)
        BY <1>3
    <2>2. DataBefore(chunks, n + 1) \in Nat
        BY <1>6, <2>1
    <2> HIDE DEF data
    <2> QED BY <1>4, <2>2
<1>8. /\ HeaderSays(file, V2, id, n, MetaOf(templates, size, dictLen, n)) /\ Whole(file, end)
      /\ Has(file, HeaderSize, size) /\ file.at[HeaderSize].v = templates
      /\ DictAlone(file, size, dictLen)
    BY <1>1, <1>3 DEF FileSays
<1>9. /\ MetaOf(templates, size, dictLen, n)["summary_offset"] = SummaryStart(size, dictLen, n)
      /\ MetaOf(templates, size, dictLen, n)["data_offset"] = data
      /\ MetaOf(templates, size, dictLen, n)["dict_len"] = dictLen
      /\ MetaOf(templates, size, dictLen, n)["pattern_count"] = Len(templates)
      /\ MetaOf(templates, size, dictLen, n)["pattern_table_len"] = size
    BY DEF MetaOf
<1>10. /\ HeaderOf(file) # None /\ header.version = V2 /\ header.segment_id = id
       /\ header.chunk_count = n /\ header.pattern_table_len = size
       /\ header.pattern_count = Len(templates)
       /\ header.summary_offset = SummaryStart(size, dictLen, n)
       /\ header.data_offset = data /\ header.dict_len = dictLen
    BY <1>8, <1>9 DEF HeaderSays
<1>11. file.len = end + 8 /\ Verified(file) /\ FooterStart(file) = end
    BY <1>8 DEF Whole
<1> HIDE DEF data, end, header
<1>12. FileTells(file, id, lists, dictLen)
    BY <1>1, <1>2, <1>3, <1>4, <1>7, <1>8, <1>10, <1>11
       DEF FileTells, n, size, templates, data, header
<1>13. ASSUME NEW i \in 1..n
       PROVE  ChunkTells(file, lists, dictLen, i)
    <2> DEFINE entry == EntryAt(file, TableStart(size, dictLen), i)
               summary == SummaryAt(file, SummaryStart(size, dictLen, n), i)
    <2>1. /\ EntryIsOf(chunks[i], lists[i])
          /\ SummaryIsOf(chunks[i], lists[i], templates, FlattenSeq(lists))
        BY <1>1 DEF ChunksAre, n
    <2>2. ChunkSays(file, size, dictLen, chunks, i)
        BY <1>1, <1>3 DEF FileSays
    <2>3. /\ entry.offset = DataBefore(chunks, i)
          /\ entry.compressed_sz = chunks[i].entry.compressed_sz
          /\ entry.original_sz = chunks[i].entry.original_sz
          /\ entry.line_count = chunks[i].entry.line_count
          /\ entry.min_ts = chunks[i].entry.min_ts /\ entry.max_ts = chunks[i].entry.max_ts
          /\ summary.level_mask = chunks[i].summary.level_mask
          /\ summary.pattern_mask = chunks[i].summary.pattern_mask
          /\ LinesAt(file, data + DataBefore(chunks, i), chunks[i].entry.compressed_sz)
               = <<chunks[i].lines>>
        BY <1>3, <2>2 DEF ChunkSays, data
    <2>4. /\ chunks[i].entry.compressed_sz = 40 * Len(lists[i])
          /\ chunks[i].entry.original_sz = 100 * Len(lists[i])
          /\ chunks[i].entry.line_count = Len(lists[i]) /\ chunks[i].lines = lists[i]
          /\ chunks[i].entry.min_ts = lists[i][1].ts
          /\ chunks[i].entry.max_ts = lists[i][Len(lists[i])].ts
        BY <2>1 DEF EntryIsOf
    <2>5. /\ chunks[i].summary.level_mask = {l.level : l \in ToSet(lists[i])}
          /\ \A k \in 1..Len(templates) :
                k <= PatternBits
                /\ (\E l \in ToSet(lists[i]) : templates[k] = TemplateOf(l, FlattenSeq(lists)))
                   => k - 1 \in chunks[i].summary.pattern_mask
        BY <2>1 DEF SummaryIsOf
    <2>6. /\ DataBefore(chunks, i) \in Nat /\ chunks[i].entry.compressed_sz \in Nat
          /\ DataBefore(chunks, i) + chunks[i].entry.compressed_sz <= DataBefore(chunks, n + 1)
        <3>1. n + 1 \in 1..(n + 1) /\ i \in 1..(n + 1) /\ i \in 1..((n + 1) - 1)
            BY <1>3
        <3>2. chunks[i].entry.compressed_sz \in Nat
            BY <1>3, <1>5 DEF SizesOf
        <3> QED BY <1>6, <3>1, <3>2
    <2>7. data + DataBefore(chunks, i) + chunks[i].entry.compressed_sz <= end
        BY <1>4, <1>7, <2>6 DEF end
    <2>8. /\ entry.offset \in Nat /\ entry.compressed_sz = 40 * Len(lists[i])
          /\ entry.original_sz = 100 * Len(lists[i]) /\ entry.line_count = Len(lists[i])
          /\ entry.min_ts = lists[i][1].ts /\ entry.max_ts = lists[i][Len(lists[i])].ts
          /\ summary.level_mask = {l.level : l \in ToSet(lists[i])}
          /\ data + entry.offset + entry.compressed_sz <= end
          /\ LinesAt(file, data + entry.offset, entry.compressed_sz) = <<lists[i]>>
        <3> HIDE DEF entry, summary
        <3> QED BY <2>3, <2>4, <2>5, <2>6, <2>7
    <2>9. \A k \in 1..Len(templates) :
            k <= PatternBits
            /\ (\E l \in ToSet(lists[i]) : templates[k] = TemplateOf(l, FlattenSeq(lists)))
               => k - 1 \in summary.pattern_mask
        <3> HIDE DEF entry, summary
        <3> QED BY <2>3, <2>5
    <2>10. entry = EntryAt(file, 64 + size + dictLen, i)
        BY <1>4
    <2> HIDE DEF entry
    <2> QED BY <1>2, <2>8, <2>9, <2>10 DEF ChunkTells, n, size, templates, data, summary
<1> QED BY <1>12, <1>13 DEF n

\* The reader of sizes and of the list looks behind the pattern table.  With a
\* dictionary there it reads Garbage, or an entry from 32 before.
EntryIsNumbers(entry) ==
    /\ entry.line_count \in Nat /\ entry.original_sz \in Nat /\ entry.compressed_sz \in Nat
    /\ entry.min_ts \in Nat /\ entry.max_ts \in Nat

LEMMA ListsAreLines ==
    ASSUME NEW file, NEW id, NEW lists, NEW dictLen, IsV2(file, id, lists, dictLen)
    PROVE  /\ IsList(FlattenSeq(lists)) /\ Len(FlattenSeq(lists)) > 0
           /\ ToSet(FlattenSeq(lists)) \subseteq Lines
           /\ IsList(lists) /\ Len(lists) \in Nat \ {0}
           /\ \A i \in 1..Len(lists) :
                /\ IsList(lists[i]) /\ Len(lists[i]) \in Nat \ {0}
                /\ ToSet(lists[i]) \subseteq ToSet(FlattenSeq(lists))
                /\ \A k \in 1..Len(lists[i]) : lists[i][k] \in Lines /\ lists[i][k].ts \in Nat
<1>1. BatchIs(lists, TemplatesIn(file))
    BY DEF IsV2
<1>2. /\ IsList(FlattenSeq(lists)) /\ Len(FlattenSeq(lists)) > 0
      /\ ToSet(FlattenSeq(lists)) \subseteq Lines /\ IsList(lists) /\ Len(lists) > 0
      /\ ToSet(FlattenSeq(lists)) = UNION {ToSet(lists[i]) : i \in 1..Len(lists)}
      /\ \A i \in 1..Len(lists) : IsList(lists[i]) /\ Len(lists[i]) > 0
    BY <1>1 DEF BatchIs
<1>3. Len(lists) \in Nat \ {0} /\ \A i \in 1..Len(lists) : Len(lists[i]) \in Nat \ {0}
    BY <1>2 DEF IsList
<1>4. \A i \in 1..Len(lists) : ToSet(lists[i]) \subseteq ToSet(FlattenSeq(lists))
    BY <1>2
<1>5. ASSUME NEW i \in 1..Len(lists), NEW k \in 1..Len(lists[i])
      PROVE  lists[i][k] \in Lines /\ lists[i][k].ts \in Nat
    <2>1. lists[i][k] \in ToSet(lists[i])
        BY <1>2 DEF IsList, ToSet
    <2>2. lists[i][k] \in Lines
        BY <1>2, <1>4, <2>1
    <2> QED BY <2>2, LinesAssumption
<1> QED BY <1>2, <1>3, <1>4, <1>5

LEMMA EntriesAsScanned ==
    ASSUME NEW file, NEW id, NEW lists, NEW dictLen, IsV2(file, id, lists, dictLen),
           NEW i \in 1..Len(lists)
    PROVE  LET entry == EntryAt(file, 64 + SizeOf(file), i)
           IN /\ EntryIsNumbers(entry)
              /\ dictLen = 0 =>
                   /\ entry.line_count = Len(lists[i])
                   /\ entry.original_sz = 100 * Len(lists[i])
                   /\ entry.compressed_sz = 40 * Len(lists[i])
                   /\ entry.min_ts = lists[i][1].ts
                   /\ entry.max_ts = lists[i][Len(lists[i])].ts
<1> DEFINE size == SizeOf(file)
           n == Len(lists)
           right(k) == EntryAt(file, 64 + size + dictLen, k)
           entry == EntryAt(file, 64 + size, i)
<1>1. /\ n \in Nat \ {0} /\ dictLen \in {0, 1024} /\ size \in Nat \ {0}
      /\ DictAlone(file, size, dictLen)
    BY WhatFilesTell DEF FileTells
<1>2. ASSUME NEW k \in 1..n
      PROVE  /\ EntryIsNumbers(right(k)) /\ right(k).line_count = Len(lists[k])
             /\ right(k).original_sz = 100 * Len(lists[k])
             /\ right(k).compressed_sz = 40 * Len(lists[k])
             /\ right(k).min_ts = lists[k][1].ts
             /\ right(k).max_ts = lists[k][Len(lists[k])].ts
    <2>1. ChunkTells(file, lists, dictLen, k)
        BY WhatFilesTell
    <2>2. /\ right(k).line_count = Len(lists[k])
          /\ right(k).original_sz = 100 * Len(lists[k])
          /\ right(k).compressed_sz = 40 * Len(lists[k])
          /\ right(k).min_ts = lists[k][1].ts /\ right(k).max_ts = lists[k][Len(lists[k])].ts
        BY <2>1 DEF ChunkTells
    <2>3. Len(lists[k]) \in Nat \ {0} /\ \A j \in 1..Len(lists[k]) : lists[k][j].ts \in Nat
        BY ListsAreLines
    <2>4. 1 \in 1..Len(lists[k]) /\ Len(lists[k]) \in 1..Len(lists[k])
          /\ 100 * Len(lists[k]) \in Nat /\ 40 * Len(lists[k]) \in Nat
        BY <2>3
    <2> HIDE DEF right
    <2> QED BY <2>2, <2>3, <2>4 DEF EntryIsNumbers
<1>3. CASE dictLen = 0
    <2>1. entry = right(i)
        BY <1>1, <1>3
    <2> HIDE DEF right, entry, n
    <2> QED BY <1>2, <1>3, <2>1 DEF entry, n, size
<1>4. CASE dictLen = 1024 /\ i > 32
    <2>1. i - 32 \in 1..n /\ 64 + size + dictLen + ((i - 32) - 1) * 32 = 64 + size + (i - 1) * 32
        BY <1>1, <1>4
    <2>2. entry = right(i - 32)
        BY <2>1 DEF EntryAt, EntrySize
    <2>3. EntryIsNumbers(entry)
        <3> HIDE DEF right, entry, n
        <3> QED BY <1>2, <2>1, <2>2
    <2> QED BY <1>4, <2>3
<1>5. CASE dictLen = 1024 /\ ~(i > 32)
    <2> DEFINE base == 64 + size + (i - 1) * 32
    <2>1. /\ Has(file, 64 + size, 1024)
          /\ \A o \in (64 + size + 1)..(64 + size + 1024 - 1) : o \notin DOMAIN file.at
        BY <1>1, <1>5 DEF DictAlone, HeaderSize
    <2>2. i \in Int /\ i >= 1 /\ i <= 32 /\ base \in Int /\ base >= 64 + size
          /\ base <= 64 + size + 31 * 32
        BY <1>1, <1>5
    <2> HIDE DEF base
    <2>3. ASSUME NEW a \in 0..24, NEW w \in 1..8 PROVE ~Has(file, base + a, w)
        <3>1. CASE base + a = 64 + size
            <4>1. file.at[64 + size].w = 1024
                BY <2>1 DEF Has
            <4>2. w # 1024
                BY <2>3
            <4> QED BY <3>1, <4>1, <4>2 DEF Has
        <3>2. CASE base + a # 64 + size
            <4>1. \A b, s, x \in Int :
                    b >= 64 + s /\ b <= 64 + s + 31 * 32 /\ x >= 0 /\ x <= 24 /\ b + x # 64 + s
                      => b + x \in (64 + s + 1)..(64 + s + 1024 - 1)
                OBVIOUS
            <4>2. size \in Int /\ a \in Int /\ a >= 0 /\ a <= 24
                BY <1>1, <2>3
            <4> HIDE DEF size
            <4>3. base + a \in (64 + size + 1)..(64 + size + 1024 - 1)
                BY <2>2, <3>2, <4>1, <4>2
            <4> QED BY <2>1, <4>3 DEF Has
        <3> QED BY <3>1, <3>2
    <2>4. entry = Get(file, base, EntryReads)
        BY DEF EntryAt, EntrySize, base
    <2>5. ASSUME NEW f \in DOMAIN EntryReads
          PROVE  Get(file, base, EntryReads)[f] = Garbage
        <3>1. EntryReads[f][1] \in 0..24 /\ EntryReads[f][2] \in 1..8
            <4>1. DOMAIN EntryReads = {"offset", "compressed_sz", "original_sz", "line_count",
                                       "min_ts", "max_ts"}
                BY DEF EntryReads
            <4>2. /\ EntryReads["offset"] = <<0, 4>> /\ EntryReads["compressed_sz"] = <<4, 4>>
                  /\ EntryReads["original_sz"] = <<8, 4>>
                  /\ EntryReads["line_count"] = <<12, 4>>
                  /\ EntryReads["min_ts"] = <<16, 8>> /\ EntryReads["max_ts"] = <<24, 8>>
                BY DEF EntryReads
            <4>3. \E x \in {0, 4, 8, 12, 16, 24} : \E w \in {4, 8} : EntryReads[f] = <<x, w>>
                BY <4>1, <4>2
            <4>4. \E x \in 0..24 : \E w \in 1..8 : EntryReads[f] = <<x, w>>
                <5>1. {0, 4, 8, 12, 16, 24} \subseteq 0..24 /\ {4, 8} \subseteq 1..8
                    OBVIOUS
                <5> QED BY <4>3, <5>1
            <4> QED BY <4>4
        <3>2. ~Has(file, base + EntryReads[f][1], EntryReads[f][2])
            BY <2>3, <3>1
        <3> QED BY <3>2 DEF Get
    <2>6. {"line_count", "original_sz", "compressed_sz", "min_ts", "max_ts"}
             \subseteq DOMAIN EntryReads
        BY DEF EntryReads
    <2> HIDE DEF entry
    <2>7. /\ entry.line_count = Garbage /\ entry.original_sz = Garbage
          /\ entry.compressed_sz = Garbage /\ entry.min_ts = Garbage /\ entry.max_ts = Garbage
        BY <2>4, <2>5, <2>6
    <2>8. EntryIsNumbers(entry)
        BY <2>7, FormatAssumption DEF EntryIsNumbers
    <2> QED BY <1>5, <2>8 DEF entry
<1> QED BY <1>1, <1>3, <1>4, <1>5

\* Sums over the chunks of a batch.
LEMMA LengthsAdd ==
    ASSUME NEW lists, IsList(lists), \A i \in 1..Len(lists) : IsList(lists[i]),
           NEW c \in Nat, NEW f, \A i \in 1..Len(lists) : f[i] = c * Len(lists[i])
    PROVE  SumFunctionOnSet(f, 1..Len(lists)) = c * Len(FlattenSeq(lists))
<1> DEFINE n == Len(lists)
           lens == [i \in 1..n |-> Len(lists[i])]
<1>1. n \in Nat /\ IsFiniteSet(1..n) /\ lists = [i \in 1..n |-> lists[i]]
    BY FirstNumbers DEF IsList
<1>2. PICK spans : Spans(FlattenSeq(lists), lists, n, spans)
    BY <1>1, FlattenSpans
<1>3. \A i \in 1..n : lens[i] = Len(lists[i]) /\ lens[i] \in Int /\ f[i] = c * lens[i]
    BY DEF IsList
<1> HIDE DEF lens, n
<1>4. SumFunctionOnSet(lens, 1..n) = Len(FlattenSeq(lists))
    BY <1>1, <1>2, <1>3, SpansSum DEF n
<1>5. SumFunctionOnSet(f, 1..n) = c * SumFunctionOnSet(lens, 1..n)
    <2> DEFINE T == 1..n
    <2>1. c \in Int /\ IsFiniteSet(T) /\ \A x \in T : lens[x] \in Int /\ f[x] = c * lens[x]
        BY <1>1, <1>3
    <2> HIDE DEF T
    <2>2. SumFunctionOnSet(f, T) = c * SumFunctionOnSet(lens, T)
        BY <2>1, SumScales
    <2> QED BY <2>2 DEF T
<1> QED BY <1>4, <1>5 DEF n

\* The sizes of chunks, c for each line, add up.
Weigh(f, lists, c) == \A i \in 1..Len(lists) : f[i] = c * Len(lists[i])
Sums(f, lists, c) == SumFunctionOnSet(f, 1..Len(lists)) = c * Len(FlattenSeq(lists))

LEMMA SizesAdd ==
    ASSUME NEW lists, IsList(lists), \A i \in 1..Len(lists) : IsList(lists[i]),
           NEW f, NEW g, Weigh(f, lists, 100), Weigh(g, lists, 40)
    PROVE  Sums(f, lists, 100) /\ Sums(g, lists, 40)
<1>1. ASSUME NEW c \in Nat, NEW h, Weigh(h, lists, c) PROVE Sums(h, lists, c)
    <2>1. \A i \in 1..Len(lists) : h[i] = c * Len(lists[i])
        BY <1>1 DEF Weigh
    <2>2. SumFunctionOnSet(h, 1..Len(lists)) = c * Len(FlattenSeq(lists))
        BY <2>1, LengthsAdd
    <2> QED BY <2>2 DEF Sums
<1>2. 100 \in Nat /\ 40 \in Nat
    OBVIOUS
<1> QED BY <1>1, <1>2

LEMMA RestAdds ==
    ASSUME NEW lists, IsList(lists), \A i \in 1..Len(lists) : IsList(lists[i]), Len(lists) > 0,
           NEW f, \A i \in 2..Len(lists) : f[i] = Len(lists[i])
    PROVE  Len(lists[1]) + SumFunctionOnSet(f, 2..Len(lists)) = Len(FlattenSeq(lists))
<1> DEFINE n == Len(lists)
           lens == [i \in 1..n |-> Len(lists[i])]
<1>1. n \in Nat /\ IsFiniteSet(1..n) /\ 1 \in 1..n /\ (1..n) \ {1} = 2..n
    BY FirstNumbers DEF IsList
<1>2. \A i \in 1..n : lens[i] = Len(lists[i]) /\ lens[i] \in Int /\ lens[i] = 1 * Len(lists[i])
    BY DEF IsList
<1>3. \A i \in 2..n : lens[i] \in Int /\ f[i] = lens[i]
    BY <1>2
<1> HIDE DEF lens, n
<1>4. SumFunctionOnSet(lens, 1..n) = 1 * Len(FlattenSeq(lists))
    BY <1>2, LengthsAdd DEF n
<1>5. SumFunctionOnSet(lens, 1..n) = lens[1] + SumFunctionOnSet(lens, 2..n)
    <2> DEFINE T == 1..n
    <2>1. IsFiniteSet(T) /\ 1 \in T /\ \A x \in T : lens[x] \in Int
        BY <1>1, <1>2
    <2> HIDE DEF T
    <2>2. SumFunctionOnSet(lens, T) = lens[1] + SumFunctionOnSet(lens, T \ {1})
        BY <2>1, SumTakesOut
    <2> QED BY <1>1, <2>2 DEF T
<1>6. IsFiniteSet(2..n)
    BY <1>1, FS_Interval
<1>7. SumFunctionOnSet(f, 2..n) = SumFunctionOnSet(lens, 2..n)
    BY <1>3, <1>6, SumsAreEqual
<1>8. lens[1] = Len(lists[1])
    BY <1>1, <1>2
<1>9. SumFunctionOnSet(lens, 1..n) \in Int
    BY <1>1, <1>2, SumIsNumber
<1>10. Len(FlattenSeq(lists)) \in Int
    BY <1>1, FlattenPlaces DEF IsList, n
<1>11. \A x, y \in Int : x = 1 * y => x = y
    OBVIOUS
<1>12. SumFunctionOnSet(lens, 1..n) = Len(FlattenSeq(lists))
    BY <1>4, <1>9, <1>10, <1>11
<1> QED BY <1>5, <1>7, <1>8, <1>12 DEF n

\* The times of lines in order lie between the first and the last one.
LEMMA OrderGivesRange ==
    ASSUME NEW flat, IsList(flat), Len(flat) > 0, InOrder(flat),
           \A l \in ToSet(flat) : l.ts \in Int
    PROVE  LET times == {l.ts : l \in ToSet(flat)}
           IN /\ Min(times) = flat[1].ts /\ Max(times) = flat[Len(flat)].ts
<1> DEFINE times == {l.ts : l \in ToSet(flat)}
           n == Len(flat)
<1>1. n \in Nat \ {0} /\ DOMAIN flat = 1..n /\ 1 \in 1..n /\ n \in 1..n
    BY DEF IsList
<1>2. \A i \in 1..n : flat[i] \in ToSet(flat) /\ flat[i].ts \in times /\ flat[i].ts \in Int
    BY <1>1 DEF ToSet
<1>3. \A x \in times : \E i \in 1..n : x = flat[i].ts
    BY <1>1 DEF ToSet
<1>4. IsFiniteSet(times) /\ times \subseteq Int
    <2> DEFINE f == [i \in 1..n |-> flat[i].ts]
    <2>1. times = {f[i] : i \in 1..n}
        BY <1>2, <1>3
    <2>2. IsFiniteSet(1..n)
        BY <1>1, FirstNumbers
    <2>3. f \in Surjection(1..n, times)
        <3>1. \A i \in 1..n : f[i] \in times
            BY <1>2
        <3>2. \A x \in times : \E i \in 1..n : f[i] = x
            BY <1>3
        <3>3. f = [i \in 1..n |-> f[i]]
            OBVIOUS
        <3> HIDE DEF f, times, n
        <3> QED BY <3>1, <3>2, <3>3 DEF Surjection
    <2> QED BY <1>2, <1>3, <2>2, <2>3, FS_Surjection
<1>5. \A i \in 1..n : flat[1].ts <= flat[i].ts /\ flat[i].ts <= flat[n].ts
    <2> TAKE i \in 1..n
    <2>1. flat[i].ts <= flat[i].ts
        BY <1>2
    <2> HIDE DEF n
    <2>2. (1 = i \/ 1 < i) /\ (i = n \/ i < n)
        BY <1>1
    <2> QED BY <1>1, <2>1, <2>2 DEF InOrder
<1> HIDE DEF times, n
<1>6. /\ Min(times) \in times /\ Max(times) \in times
      /\ \A x \in times : Min(times) <= x /\ x <= Max(times)
    <2>1. times # {}
        BY <1>1, <1>2
    <2> QED BY <1>4, <2>1, ExtremesAre
<1>7. /\ \A x \in times : flat[1].ts <= x /\ x <= flat[n].ts
      /\ flat[1].ts \in times /\ flat[n].ts \in times
    BY <1>1, <1>2, <1>3, <1>5
<1>8. \A x, y \in Int : x <= y /\ y <= x => x = y
    OBVIOUS
<1>9. Min(times) = flat[1].ts /\ Max(times) = flat[n].ts
    BY <1>4, <1>6, <1>7, <1>8
<1> QED BY <1>9 DEF times, n

\* The summary of a segment has what the summaries of its chunks have.
LEMMA SummaryHas ==
    ASSUME NEW s
    PROVE  /\ SummaryOf(s).has_summary = TRUE
           /\ SummaryOf(s).level_mask = UNION {s[i].level_mask : i \in DOMAIN s}
           /\ SummaryOf(s).pattern_mask = UNION {s[i].pattern_mask : i \in DOMAIN s}
BY DEF SummaryOf

\* Summaries of all chunks of a batch, taken together.
Covers(summary, file, lists, lines) ==
    /\ summary.level_mask = {l.level : l \in ToSet(lines)}
    /\ \A k \in 1..Len(TemplatesIn(file)) :
          k <= PatternBits
          /\ (\E l \in ToSet(lines) : TemplatesIn(file)[k] = TemplateOf(l, FlattenSeq(lists)))
             => k - 1 \in summary.pattern_mask

LEMMA SummariesCover ==
    ASSUME NEW file, NEW id, NEW lists, NEW dictLen, IsV2(file, id, lists, dictLen),
           NEW s, s = [i \in 1..Len(lists) |-> s[i]],
           \A i \in 1..Len(lists) : Covers(s[i], file, lists, lists[i])
    PROVE  /\ SummaryOf(s).has_summary = TRUE
           /\ SummaryOf(s).level_mask = {l.level : l \in ToSet(FlattenSeq(lists))}
           /\ \A k \in 1..Len(TemplatesIn(file)) :
                k <= PatternBits => k - 1 \in SummaryOf(s).pattern_mask
<1> DEFINE n == Len(lists)
           templates == TemplatesIn(file)
           logs == FlattenSeq(lists)
<1>1. BatchIs(lists, templates)
    BY DEF IsV2
<1>2. /\ ToSet(logs) = UNION {ToSet(lists[i]) : i \in 1..n} /\ IsList(templates)
      /\ ToSet(templates) = {TemplateOf(l, logs) : l \in ToSet(logs)}
    BY <1>1 DEF BatchIs
<1>3. DOMAIN s = 1..n
    OBVIOUS
<1> HIDE DEF n, templates, logs
<1>4. SummaryOf(s).level_mask = {l.level : l \in ToSet(logs)}
    <2>1. SummaryOf(s).level_mask = UNION {s[i].level_mask : i \in 1..n}
        BY <1>3, SummaryHas
    <2>2. UNION {s[i].level_mask : i \in 1..n} \subseteq {l.level : l \in ToSet(logs)}
        BY <1>2 DEF n, Covers
    <2>3. ASSUME NEW l \in ToSet(logs) PROVE l.level \in UNION {s[i].level_mask : i \in 1..n}
        <3>1. PICK i \in 1..n : l \in ToSet(lists[i])
            BY <1>2
        <3>2. l.level \in s[i].level_mask
            BY <3>1 DEF n, Covers
        <3> QED BY <3>2
    <2>4. {l.level : l \in ToSet(logs)} \subseteq UNION {s[i].level_mask : i \in 1..n}
        BY <2>3
    <2> QED BY <2>1, <2>2, <2>4
<1>5. ASSUME NEW k \in 1..Len(templates), k <= PatternBits
      PROVE  k - 1 \in SummaryOf(s).pattern_mask
    <2>1. templates[k] \in ToSet(templates)
        BY <1>2 DEF IsList, ToSet
    <2>2. PICK l \in ToSet(logs) : templates[k] = TemplateOf(l, logs)
        BY <1>2, <2>1
    <2>3. PICK i \in 1..n : l \in ToSet(lists[i])
        BY <1>2
    <2>4. k - 1 \in s[i].pattern_mask
        BY <1>5, <2>2, <2>3 DEF n, templates, logs, Covers
    <2>5. k - 1 \in UNION {s[j].pattern_mask : j \in DOMAIN s}
        BY <1>3, <2>4
    <2> QED BY <2>5, SummaryHas
<1> QED BY <1>4, <1>5, SummaryHas DEF templates, logs

\* The same of the summary as a whole.
AreCovered(s, file, lists) ==
    /\ s = [i \in 1..Len(lists) |-> s[i]]
    /\ \A i \in 1..Len(lists) : Covers(s[i], file, lists, lists[i])
CoversAll(summary, file, lists) ==
    /\ summary.has_summary = TRUE
    /\ summary.level_mask = {l.level : l \in ToSet(FlattenSeq(lists))}
    /\ \A k \in 1..Len(TemplatesIn(file)) : k <= PatternBits => k - 1 \in summary.pattern_mask

LEMMA SummaryCovers ==
    ASSUME NEW file, NEW id, NEW lists, NEW dictLen, IsV2(file, id, lists, dictLen),
           NEW s, AreCovered(s, file, lists)
    PROVE  CoversAll(SummaryOf(s), file, lists)
BY SummariesCover DEF AreCovered, CoversAll

LEMMA ScannedV2 ==
    ASSUME NEW file, NEW id, NEW lists, NEW dictLen, IsV2(file, id, lists, dictLen)
    PROVE  ScannedMeta(file).id = id /\ MetaIsTrue(ScannedMeta(file), file, lists, TRUE)
<1> DEFINE size == SizeOf(file)
           n == Len(lists)
           header == HeaderOf(file)[1]
           entry(i) == EntryAt(file, 64 + size, i)
           counts == [i \in 2..n |-> entry(i).line_count]
           summaries == [i \in 1..n |-> SummaryAt(file, SummaryStart(size, dictLen, n), i)]
           m == ScannedMeta(file)
<1>1. FileTells(file, id, lists, dictLen)
    BY WhatFilesTell
<1>2. /\ n \in Nat \ {0} /\ dictLen \in {0, 1024} /\ size \in Nat \ {0}
      /\ 64 + size + dictLen + n * 32 + n * 80 <= FooterStart(file)
      /\ header.version = V2 /\ header.segment_id = id /\ header.chunk_count = n
      /\ header.pattern_table_len = size
      /\ header.summary_offset = SummaryStart(size, dictLen, n) /\ header.dict_len = dictLen
      /\ FooterStart(file) \in Nat
    <2>1. /\ n \in Nat \ {0} /\ dictLen \in {0, 1024} /\ size \in Nat \ {0}
          /\ DataStart(size, dictLen, n) \in Nat /\ DataEnd(file, lists, dictLen) \in Nat
          /\ 64 + size + dictLen + n * 32 + n * 80 <= DataStart(size, dictLen, n)
          /\ DataStart(size, dictLen, n) <= DataEnd(file, lists, dictLen)
          /\ header.version = V2 /\ header.segment_id = id /\ header.chunk_count = n
          /\ header.pattern_table_len = size
          /\ header.summary_offset = SummaryStart(size, dictLen, n)
          /\ header.dict_len = dictLen /\ FooterStart(file) = DataEnd(file, lists, dictLen)
        BY <1>1 DEF FileTells
    <2> HIDE DEF size, n, header
    <2>2. 64 + size + dictLen + n * 32 + n * 80 \in Nat
        BY <2>1
    <2>3. \A a, b, c \in Nat : a <= b /\ b <= c => a <= c
        OBVIOUS
    <2> QED BY <2>1, <2>2, <2>3
<1> HIDE DEF header, size
<1>3. {i \in 2..n : HeaderSize + size + i * EntrySize <= FooterStart(file)} = 2..n
    <2>1. ASSUME NEW i \in 2..n PROVE 64 + size + i * 32 <= FooterStart(file)
        <3>1. i * 32 <= n * 32 /\ i * 32 \in Nat /\ n * 32 \in Nat /\ n * 80 \in Nat
            BY <1>2
        <3> QED BY <1>2, <3>1
    <2> QED BY <2>1 DEF HeaderSize, EntrySize
<1>4. /\ m.id = id /\ m.min_ts = entry(1).min_ts /\ m.max_ts = entry(1).max_ts
      /\ m.line_count = entry(1).line_count + SumFunction(counts)
      /\ m.summary = SummaryOf(summaries)
    <2> DEFINE start == HeaderSize + header.pattern_table_len
               inside == {i \in 2..header.chunk_count :
                             start + i * EntrySize <= FooterStart(file)}
               raw == [i \in inside |-> EntryAt(file, start, i).line_count]
               all == [i \in 1..header.chunk_count
                         |-> SummaryAt(file, header.summary_offset, i)]
    <2>1. m = [id |-> header.segment_id, min_ts |-> EntryAt(file, start, 1).min_ts,
               max_ts |-> EntryAt(file, start, 1).max_ts,
               line_count |-> EntryAt(file, start, 1).line_count + SumFunction(raw),
               summary |-> IF header.version = V2 /\ header.chunk_count > 0
                           THEN SummaryOf(all) ELSE NoSegmentSummary]
        BY DEF ScannedMeta, header
    <2>2. start = 64 + size /\ inside = 2..n /\ all = summaries /\ n > 0
        BY <1>2, <1>3 DEF HeaderSize
    <2>3. raw = counts
        BY <2>2
    <2> HIDE DEF m, raw, all, counts, summaries, start
    <2>4. /\ m.id = header.segment_id /\ m.min_ts = EntryAt(file, start, 1).min_ts
          /\ m.max_ts = EntryAt(file, start, 1).max_ts
          /\ m.line_count = EntryAt(file, start, 1).line_count + SumFunction(raw)
          /\ m.summary = SummaryOf(all)
        BY <1>2, <2>1, <2>2
    <2> QED BY <1>2, <2>2, <2>3, <2>4
<1>5. ASSUME NEW i \in 1..n
      PROVE  /\ EntryIsNumbers(entry(i))
             /\ dictLen = 0 =>
                  /\ entry(i).line_count = Len(lists[i])
                  /\ entry(i).min_ts = lists[i][1].ts
                  /\ entry(i).max_ts = lists[i][Len(lists[i])].ts
    BY EntriesAsScanned DEF size
<1> HIDE DEF entry, m
<1>6. SumFunction(counts) = SumFunctionOnSet(counts, 2..n)
    BY DEF SumFunction
<1>7. \A i \in 2..n : counts[i] = entry(i).line_count /\ counts[i] \in Nat
    <2>1. \A i \in 2..n : i \in 1..n
        OBVIOUS
    <2> QED BY <1>5, <2>1 DEF EntryIsNumbers
<1> HIDE DEF counts
<1>8. m.line_count \in Nat /\ m.min_ts \in Int /\ m.max_ts \in Int
    <2>1. IsFiniteSet(2..n)
        BY <1>2, FS_Interval
    <2>2. SumFunctionOnSet(counts, 2..n) \in Nat
        BY <1>7, <2>1, SumOfNats
    <2>3. 1 \in 1..n
        BY <1>2
    <2> QED BY <1>4, <1>5, <1>6, <2>2, <2>3 DEF EntryIsNumbers
<1>9. \A i \in 1..n : Covers(summaries[i], file, lists, lists[i])
    BY WhatFilesTell DEF ChunkTells, Covers, size
<1>10. /\ m.summary.has_summary = TRUE
       /\ m.summary.level_mask = {l.level : l \in ToSet(FlattenSeq(lists))}
       /\ \A k \in 1..Len(TemplatesIn(file)) : k <= PatternBits => k - 1 \in m.summary.pattern_mask
    <2>1. summaries = [i \in 1..n |-> summaries[i]]
        OBVIOUS
    <2>2. \A i \in 1..Len(lists) : Covers(summaries[i], file, lists, lists[i])
        BY <1>9
    <2> HIDE DEF summaries
    <2>3. /\ SummaryOf(summaries).has_summary = TRUE
          /\ SummaryOf(summaries).level_mask = {l.level : l \in ToSet(FlattenSeq(lists))}
          /\ \A k \in 1..Len(TemplatesIn(file)) :
                k <= PatternBits => k - 1 \in SummaryOf(summaries).pattern_mask
        BY <2>1, <2>2, SummariesCover
    <2> QED BY <1>4, <2>3
<1>11. MetaIsTyped(m, file, lists)
    <2>1. ~IsLegacy(file)
        BY <1>2 DEF IsLegacy, V1, V2, header
    <2> QED BY <1>8, <1>10, <2>1 DEF MetaIsTyped
<1>12. ASSUME dictLen = 0
       PROVE  /\ MetaIsRead(m, lists)
              /\ Len(lists) = 1 /\ InOrder(FlattenSeq(lists)) => MetaIsWide(m, lists)
    <2>1. m.min_ts = lists[1][1].ts /\ m.max_ts = lists[1][Len(lists[1])].ts
        <3>1. 1 \in 1..n
            BY <1>2
        <3> QED BY <1>4, <1>5, <1>12, <3>1
    <2> DEFINE flat == FlattenSeq(lists)
    <2>2. /\ IsList(flat) /\ Len(flat) > 0 /\ ToSet(flat) \subseteq Lines
          /\ IsList(lists) /\ \A i \in 1..n : IsList(lists[i]) /\ Len(lists[i]) \in Nat \ {0}
                                             /\ ToSet(lists[i]) \subseteq ToSet(flat)
        BY ListsAreLines
    <2>3. m.line_count = Len(flat)
        <3>1. \A i \in 2..n : counts[i] = Len(lists[i])
            <4>1. \A i \in 2..n : i \in 1..n
                OBVIOUS
            <4> QED BY <1>5, <1>7, <1>12, <4>1
        <3>2. Len(lists[1]) + SumFunctionOnSet(counts, 2..n) = Len(flat)
            <4>1. Len(lists) > 0 /\ \A i \in 1..Len(lists) : IsList(lists[i])
                BY <1>2, <2>2
            <4> HIDE DEF flat
            <4>2. Len(lists[1]) + SumFunctionOnSet(counts, 2..Len(lists)) = Len(FlattenSeq(lists))
                BY <2>2, <3>1, <4>1, RestAdds
            <4> QED BY <4>2 DEF flat
        <3>3. 1 \in 1..n
            BY <1>2
        <3> QED BY <1>4, <1>5, <1>6, <1>12, <3>2, <3>3
    <2>4. lists[1][1] \in ToSet(flat) /\ lists[1][Len(lists[1])] \in ToSet(flat)
        <3>1. 1 \in 1..n /\ 1 \in 1..Len(lists[1]) /\ Len(lists[1]) \in 1..Len(lists[1])
            BY SMTT(40), <1>2, <2>2
        <3>2. lists[1][1] \in ToSet(lists[1]) /\ lists[1][Len(lists[1])] \in ToSet(lists[1])
            BY <2>2, <3>1 DEF IsList, ToSet
        <3> QED BY <2>2, <3>1, <3>2
    <2>5. MetaIsRead(m, lists)
        BY <2>1, <2>3, <2>4 DEF MetaIsRead, TimesOf
    <2>6. ASSUME Len(lists) = 1, InOrder(flat)
          PROVE  MetaIsWide(m, lists)
        <3>1. flat = lists[1]
            <4>1. lists = <<lists[1]>>
                BY <2>2, <2>6 DEF IsList
            <4>2. IsList(lists[1])
                BY SMTT(40), <1>2, <2>2
            <4> QED BY <4>1, <4>2, FlattenOne
        <3> HIDE DEF flat
        <3>2. m.min_ts = flat[1].ts /\ m.max_ts = flat[Len(flat)].ts
            BY <2>1, <3>1
        <3>3. \A l \in ToSet(flat) : l.ts \in Int
            BY <2>2, LinesAssumption
        <3> DEFINE times == {l.ts : l \in ToSet(flat)}
        <3>4. Min(times) = flat[1].ts /\ Max(times) = flat[Len(flat)].ts
            BY <2>2, <2>6, <3>3, OrderGivesRange
        <3>5. times = TimesOf(lists)
            BY DEF TimesOf, flat
        <3> HIDE DEF times
        <3> QED BY <3>2, <3>4, <3>5 DEF MetaIsWide
    <2> QED BY <2>5, <2>6
<1>13. IsLegacy(file) = FALSE /\ (~(TRUE /\ HeaderOf(file)[1].dict_len > 0) => dictLen = 0)
    BY <1>2 DEF IsLegacy, V1, V2, header
<1>14. MetaIsTrue(m, file, lists, TRUE)
    BY <1>11, <1>12, <1>13 DEF MetaIsTrue
<1> QED BY <1>4, <1>14 DEF m

LEMMA ScannedV1 ==
    ASSUME NEW file, NEW id, NEW lists, IsV1(file, id, lists)
    PROVE  ScannedMeta(file).id = id /\ MetaIsTrue(ScannedMeta(file), file, lists, TRUE)
<1> DEFINE header == HeaderOf(file)[1]
           entry == EntryAt(file, 64, 1)
           start == HeaderSize + header.pattern_table_len
           inside == {i \in 2..header.chunk_count : start + i * EntrySize <= FooterStart(file)}
           raw == [i \in inside |-> EntryAt(file, start, i).line_count]
           flat == FlattenSeq(lists)
           n == Len(LegacyLines)
           m == ScannedMeta(file)
<1>1. /\ FileSaysV1(file, id, LegacyChunk) /\ EntryIsOf(LegacyChunk, LegacyLines)
      /\ lists = <<LegacyLines>> /\ flat = LegacyLines /\ IsList(LegacyLines) /\ n > 0
      /\ header.version = V1 /\ header.version # V2 /\ header.segment_id = id
      /\ header.dict_len = 0
    BY DEF IsV1
<1>2. header.chunk_count = 1 /\ header.pattern_table_len = 0
    <2>1. HeaderSays(file, V1, id, 1, NoMeta)
        BY <1>1 DEF FileSaysV1
    <2>2. NoMeta["pattern_table_len"] = 0
        BY MetaLayout DEF NoMeta
    <2> QED BY <2>1, <2>2 DEF HeaderSays
<1>3. /\ entry.line_count = n /\ entry.min_ts = LegacyLines[1].ts
      /\ entry.max_ts = LegacyLines[n].ts
    <2>1. /\ EntryAt(file, HeaderSize, 1).line_count = LegacyChunk.entry.line_count
          /\ EntryAt(file, HeaderSize, 1).min_ts = LegacyChunk.entry.min_ts
          /\ EntryAt(file, HeaderSize, 1).max_ts = LegacyChunk.entry.max_ts
        BY <1>1 DEF FileSaysV1
    <2>2. HeaderSize = 64
        BY DEF HeaderSize
    <2> QED BY <1>1, <2>1, <2>2 DEF EntryIsOf
<1>4. start = 64 /\ inside = {} /\ SumFunction(raw) = 0
    <2>1. start = 64 /\ inside = {}
        BY <1>2 DEF HeaderSize
    <2>2. DOMAIN raw = {}
        BY <2>1
    <2> HIDE DEF raw
    <2> QED BY <2>1, <2>2, SumPicks, FS_EmptySet DEF SumFunction
<1>5. /\ m.id = id /\ m.min_ts = entry.min_ts /\ m.max_ts = entry.max_ts
      /\ m.line_count = entry.line_count + SumFunction(raw)
      /\ m.summary = NoSegmentSummary
    <2>1. m = [id |-> header.segment_id, min_ts |-> EntryAt(file, start, 1).min_ts,
               max_ts |-> EntryAt(file, start, 1).max_ts,
               line_count |-> EntryAt(file, start, 1).line_count + SumFunction(raw),
               summary |-> IF header.version = V2 /\ header.chunk_count > 0
                           THEN SummaryOf([i \in 1..header.chunk_count
                                            |-> SummaryAt(file, header.summary_offset, i)])
                           ELSE NoSegmentSummary]
        BY DEF ScannedMeta
    <2>2. header.version # V2
        BY <1>1
    <2> HIDE DEF m, raw, start, header
    <2> QED BY <1>1, <1>4, <2>1, <2>2
<1> HIDE DEF m, raw, entry, flat, n, header
<1>6. n \in Nat \ {0} /\ 1 \in 1..n /\ n \in 1..n
    BY <1>1 DEF IsList, n
<1>7. \A i \in 1..n : LegacyLines[i] \in ToSet(LegacyLines) /\ LegacyLines[i].ts \in Nat
    <2>1. \A i \in 1..n : LegacyLines[i] \in ToSet(LegacyLines)
        BY <1>1 DEF IsList, ToSet, n
    <2> QED BY <2>1, LinesAssumption
<1>8. /\ m.line_count = n /\ m.min_ts = LegacyLines[1].ts /\ m.max_ts = LegacyLines[n].ts
    BY <1>3, <1>4, <1>5, <1>6
<1>9. IsLegacy(file) /\ m.summary.has_summary = FALSE
    BY <1>1, <1>5 DEF IsLegacy, NoSegmentSummary, header
<1>10. MetaIsTyped(m, file, lists)
    <2>1. m.summary.has_summary = ~IsLegacy(file)
        BY <1>9
    <2>2. m.line_count \in Nat /\ m.min_ts \in Int /\ m.max_ts \in Int
        BY <1>6, <1>7, <1>8
    <2> QED BY <1>9, <2>1, <2>2 DEF MetaIsTyped
<1>11. MetaIsRead(m, lists)
    BY <1>1, <1>6, <1>7, <1>8 DEF MetaIsRead, TimesOf, flat, n
<1>12. ASSUME InOrder(flat) PROVE MetaIsWide(m, lists)
    <2>1. IsList(flat) /\ Len(flat) > 0 /\ InOrder(flat) /\ Len(flat) = n
        BY <1>1, <1>12 DEF n
    <2>2. \A l \in ToSet(flat) : l.ts \in Int
        BY <1>1, LinesAssumption
    <2> DEFINE times == {l.ts : l \in ToSet(flat)}
    <2>3. Min(times) = flat[1].ts /\ Max(times) = flat[Len(flat)].ts
        BY <2>1, <2>2, OrderGivesRange
    <2>4. times = TimesOf(lists)
        BY DEF TimesOf, flat
    <2> HIDE DEF times
    <2> QED BY <1>1, <1>8, <2>1, <2>3, <2>4 DEF MetaIsWide
<1>13. MetaIsTrue(m, file, lists, TRUE)
    BY <1>10, <1>11, <1>12 DEF MetaIsTrue, flat
<1> QED BY <1>5, <1>13 DEF m

\* The sizes of a file, and what they are where they are read at the right place.
StatsAre(file, lists) ==
    /\ SizeStats(file) \in Nat \X Nat
    /\ HeaderOf(file)[1].dict_len = 0 =>
         SizeStats(file) = <<100 * Len(FlattenSeq(lists)), 40 * Len(FlattenSeq(lists))>>

LEMMA StatsOfV2 ==
    ASSUME NEW file, NEW id, NEW lists, NEW dictLen, IsV2(file, id, lists, dictLen)
    PROVE  StatsAre(file, lists)
<1> DEFINE size == SizeOf(file)
           n == Len(lists)
           header == HeaderOf(file)[1]
           start == HeaderSize + header.pattern_table_len
           inside == {i \in 1..header.chunk_count : start + i * EntrySize <= FooterStart(file)}
           entry(i) == EntryAt(file, start, i)
           originals == [i \in inside |-> entry(i).original_sz]
           bytes == [i \in inside |-> entry(i).compressed_sz]
<1>1. /\ n \in Nat \ {0} /\ dictLen \in {0, 1024} /\ size \in Nat \ {0}
      /\ DataStart(size, dictLen, n) \in Nat /\ DataEnd(file, lists, dictLen) \in Nat
      /\ 64 + size + dictLen + n * 32 + n * 80 <= DataStart(size, dictLen, n)
      /\ DataStart(size, dictLen, n) <= DataEnd(file, lists, dictLen)
      /\ header.chunk_count = n /\ header.pattern_table_len = size
      /\ header.dict_len = dictLen /\ FooterStart(file) = DataEnd(file, lists, dictLen)
      /\ HeaderOf(file) # None /\ file.len = DataEnd(file, lists, dictLen) + 8
    BY WhatFilesTell DEF FileTells
<1> HIDE DEF n, size, header
<1>2. 64 + size + dictLen + n * 32 + n * 80 <= FooterStart(file) /\ FooterStart(file) \in Nat
    <2>1. 64 + size + dictLen + n * 32 + n * 80 \in Nat
        BY <1>1
    <2>2. \A a, b, c \in Nat : a <= b /\ b <= c => a <= c
        OBVIOUS
    <2> QED BY <1>1, <2>1, <2>2
<1>3. start = 64 + size /\ inside = 1..n
    <2>1. start = 64 + size
        BY <1>1 DEF HeaderSize
    <2>2. ASSUME NEW i \in 1..n PROVE 64 + size + i * 32 <= FooterStart(file)
        <3>1. i * 32 <= n * 32 /\ i * 32 \in Nat /\ n * 32 \in Nat /\ n * 80 \in Nat
            BY <1>1
        <3> QED BY <1>1, <1>2, <3>1
    <2> QED BY <1>1, <2>1, <2>2 DEF EntrySize
<1>4. SizeStats(file) = <<SumFunction(originals), SumFunction(bytes)>>
    <2>1. ~(file.len < HeaderSize + FooterSize \/ HeaderOf(file) = None)
        BY <1>1, <1>2 DEF HeaderSize, FooterSize
    <2> QED BY <2>1 DEF SizeStats, header
<1>5. ASSUME NEW i \in 1..n
      PROVE  /\ EntryIsNumbers(entry(i))
             /\ dictLen = 0 => /\ entry(i).original_sz = 100 * Len(lists[i])
                               /\ entry(i).compressed_sz = 40 * Len(lists[i])
    BY <1>3, EntriesAsScanned DEF size, n
<1>6. DOMAIN originals = 1..n /\ DOMAIN bytes = 1..n
    BY <1>3
<1>7. \A i \in 1..n : originals[i] = entry(i).original_sz /\ bytes[i] = entry(i).compressed_sz
    BY <1>3
<1> HIDE DEF originals, bytes, entry, start, inside
<1>8. SumFunction(originals) = SumFunctionOnSet(originals, 1..n)
      /\ SumFunction(bytes) = SumFunctionOnSet(bytes, 1..n)
    BY <1>6 DEF SumFunction
<1>9. IsFiniteSet(1..n)
    BY <1>1, FirstNumbers
<1>10. \A i \in 1..n : originals[i] \in Nat /\ bytes[i] \in Nat
    BY <1>5, <1>7 DEF EntryIsNumbers
<1>11. SumFunctionOnSet(originals, 1..n) \in Nat /\ SumFunctionOnSet(bytes, 1..n) \in Nat
    BY <1>9, <1>10, SumOfNats
<1>12. ASSUME dictLen = 0
       PROVE  /\ SumFunctionOnSet(originals, 1..n) = 100 * Len(FlattenSeq(lists))
              /\ SumFunctionOnSet(bytes, 1..n) = 40 * Len(FlattenSeq(lists))
    <2>1. IsList(lists) /\ \A i \in 1..Len(lists) : IsList(lists[i])
        BY ListsAreLines
    <2>2. \A i \in 1..Len(lists) :
            originals[i] = 100 * Len(lists[i]) /\ bytes[i] = 40 * Len(lists[i])
        BY <1>5, <1>7, <1>12 DEF n
    <2>3. Weigh(originals, lists, 100) /\ Weigh(bytes, lists, 40)
        BY <2>2 DEF Weigh
    <2>4. Sums(originals, lists, 100) /\ Sums(bytes, lists, 40)
        BY <2>1, <2>3, SizesAdd
    <2> QED BY <2>4 DEF n, Sums
<1> QED BY <1>1, <1>4, <1>8, <1>11, <1>12 DEF StatsAre, header

LEMMA StatsOfV1 ==
    ASSUME NEW file, NEW id, NEW lists, IsV1(file, id, lists)
    PROVE  StatsAre(file, lists)
<1> DEFINE header == HeaderOf(file)[1]
           start == HeaderSize + header.pattern_table_len
           inside == {i \in 1..header.chunk_count : start + i * EntrySize <= FooterStart(file)}
           entry(i) == EntryAt(file, start, i)
           originals == [i \in inside |-> entry(i).original_sz]
           bytes == [i \in inside |-> entry(i).compressed_sz]
           n == Len(LegacyLines)
           end == DataOffsetV1(1) + LegacyChunk.entry.compressed_sz
<1>1. /\ FileSaysV1(file, id, LegacyChunk) /\ EntryIsOf(LegacyChunk, LegacyLines)
      /\ FlattenSeq(lists) = LegacyLines /\ n \in Nat /\ HeaderOf(file) # None
    BY DEF IsV1, IsList
<1>2. header.chunk_count = 1 /\ header.pattern_table_len = 0
    <2>1. HeaderSays(file, V1, id, 1, NoMeta)
        BY <1>1 DEF FileSaysV1
    <2>2. NoMeta["pattern_table_len"] = 0
        BY MetaLayout DEF NoMeta
    <2> QED BY <2>1, <2>2 DEF HeaderSays
<1>3. end \in Nat /\ end >= 96 /\ file.len = end + 8 /\ FooterStart(file) = end
    BY <1>1 DEF FileSaysV1, Whole
<1>4. start = 64 /\ inside = {1}
    <2>1. start = 64 /\ HeaderSize = 64 /\ EntrySize = 32 /\ start + 1 * EntrySize = 96
        BY <1>2 DEF HeaderSize, EntrySize
    <2> HIDE DEF start, end
    <2>2. \A i \in 1..1 : i = 1
        OBVIOUS
    <2> QED BY <1>2, <1>3, <2>1, <2>2
<1>5. entry(1).original_sz = 100 * n /\ entry(1).compressed_sz = 40 * n
    <2>1. /\ EntryAt(file, HeaderSize, 1).original_sz = LegacyChunk.entry.original_sz
          /\ EntryAt(file, HeaderSize, 1).compressed_sz = LegacyChunk.entry.compressed_sz
        BY <1>1 DEF FileSaysV1
    <2>2. HeaderSize = start
        BY <1>4 DEF HeaderSize
    <2> QED BY <1>1, <2>1, <2>2 DEF EntryIsOf
<1>6. SizeStats(file) = <<SumFunction(originals), SumFunction(bytes)>>
    <2>1. ~(file.len < HeaderSize + FooterSize \/ HeaderOf(file) = None)
        BY <1>1, <1>3 DEF HeaderSize, FooterSize
    <2> QED BY <2>1 DEF SizeStats
<1>7. ASSUME NEW f, DOMAIN f = {1}, f[1] \in Nat PROVE SumFunction(f) = f[1]
    <2>1. IsFiniteSet({1}) /\ {1} \ {1} = {}
        BY FS_Singleton
    <2>2. SumFunctionOnSet(f, {1}) = f[1] + SumFunctionOnSet(f, {1} \ {1})
        <3> DEFINE T == {1}
        <3>1. IsFiniteSet(T) /\ 1 \in T /\ \A x \in T : f[x] \in Int
            BY <1>7, <2>1
        <3> HIDE DEF T
        <3>2. SumFunctionOnSet(f, T) = f[1] + SumFunctionOnSet(f, T \ {1})
            BY <3>1, SumTakesOut
        <3> QED BY <3>2 DEF T
    <2>3. SumFunctionOnSet(f, {}) = 0
        BY SumPicks, FS_EmptySet
    <2> QED BY <1>7, <2>1, <2>2, <2>3 DEF SumFunction
<1>8. /\ DOMAIN originals = {1} /\ originals[1] = 100 * n
      /\ DOMAIN bytes = {1} /\ bytes[1] = 40 * n
    BY <1>4, <1>5
<1>9. 100 * n \in Nat /\ 40 * n \in Nat
    BY <1>1
<1> HIDE DEF originals, bytes, n
<1>10. SumFunction(originals) = 100 * n /\ SumFunction(bytes) = 40 * n
    BY <1>7, <1>8, <1>9
<1> QED BY <1>1, <1>6, <1>9, <1>10 DEF StatsAre, n

\* All that is used of a file later on.
FileIs(file, id, lists) ==
    IsV1(file, id, lists) \/ \E dictLen \in {0, 1024} : IsV2(file, id, lists, dictLen)

FileSaysAll(file, id, lists) ==
    /\ HeaderOf(file) # None /\ HeaderOf(file)[1].dict_len \in {0, 1024}
    /\ ScannedMeta(file).id = id /\ MetaIsTrue(ScannedMeta(file), file, lists, TRUE)
    /\ StatsAre(file, lists)
    /\ IsList(FlattenSeq(lists)) /\ Len(FlattenSeq(lists)) > 0

LEMMA FileIsKnown ==
    ASSUME NEW file, NEW id, NEW lists, FileIs(file, id, lists)
    PROVE  FileSaysAll(file, id, lists)
<1>1. CASE IsV1(file, id, lists)
    <2>1. /\ HeaderOf(file) # None /\ HeaderOf(file)[1].dict_len \in {0, 1024}
          /\ IsList(FlattenSeq(lists)) /\ Len(FlattenSeq(lists)) > 0
        BY <1>1 DEF IsV1
    <2>2. ScannedMeta(file).id = id /\ MetaIsTrue(ScannedMeta(file), file, lists, TRUE)
        BY <1>1, ScannedV1
    <2>3. StatsAre(file, lists)
        BY <1>1, StatsOfV1
    <2> QED BY ZenonT(60), <2>1, <2>2, <2>3 DEF FileSaysAll
<1>2. ASSUME NEW dictLen, IsV2(file, id, lists, dictLen)
      PROVE  FileSaysAll(file, id, lists)
    <2>1. HeaderOf(file) # None /\ HeaderOf(file)[1].dict_len \in {0, 1024}
        BY <1>2 DEF IsV2
    <2>2. IsList(FlattenSeq(lists)) /\ Len(FlattenSeq(lists)) > 0
        BY <1>2, ListsAreLines
    <2>3. ScannedMeta(file).id = id /\ MetaIsTrue(ScannedMeta(file), file, lists, TRUE)
        BY <1>2, ScannedV2
    <2>4. StatsAre(file, lists)
        BY <1>2, StatsOfV2
    <2> QED BY ZenonT(60), <2>1, <2>2, <2>3, <2>4 DEF FileSaysAll
<1> QED BY <1>1, <1>2 DEF FileIs

LEMMA FilesAreKnown ==
    ASSUME FilesAreWritten, NEW id \in DOMAIN files
    PROVE  FileIs(files[id], id, sealed[id]) /\ FileSaysAll(files[id], id, sealed[id])
<1>1. FileIs(files[id], id, sealed[id])
    BY KindOf DEF FileIs
<1> QED BY <1>1, FileIsKnown

\* The totals that open computes from the files.
LEMMA TotalsOfFiles ==
    ASSUME FilesAreWritten
    PROVE  /\ AllTotals \in Nat \X Nat
           /\ (\A id \in DOMAIN files : ~HasDict(id)) =>
                LET sum == SumFunction([id \in DOMAIN files |-> Len(LinesIn(id))])
                IN AllTotals = <<100 * sum, 40 * sum>>
<1> DEFINE D == DOMAIN files
           originals == [id \in D |-> SizeStats(files[id])[1]]
           bytes == [id \in D |-> SizeStats(files[id])[2]]
           lens == [id \in D |-> Len(LinesIn(id))]
<1>1. IsFiniteSet(D)
    BY DEF FilesAreWritten
<1>2. AllTotals = <<SumFunctionOnSet(originals, D), SumFunctionOnSet(bytes, D)>>
    BY DEF AllTotals, SumFunction
<1>3. \A id \in D : StatsAre(files[id], sealed[id]) /\ Len(LinesIn(id)) \in Nat
                    /\ HeaderOf(files[id])[1].dict_len \in {0, 1024}
    <2> TAKE id \in D
    <2>1. FileSaysAll(files[id], id, sealed[id])
        BY FilesAreKnown
    <2>2. /\ StatsAre(files[id], sealed[id]) /\ IsList(FlattenSeq(sealed[id]))
          /\ HeaderOf(files[id])[1].dict_len \in {0, 1024}
        BY <2>1 DEF FileSaysAll
    <2> QED BY <2>2 DEF IsList, LinesIn
<1>4. \A id \in D : originals[id] \in Nat /\ bytes[id] \in Nat /\ lens[id] \in Nat
    BY <1>3 DEF StatsAre
<1>5. ASSUME \A id \in D : ~HasDict(id)
      PROVE  \A id \in D : originals[id] = 100 * lens[id] /\ bytes[id] = 40 * lens[id]
    <2> TAKE id \in D
    <2>1. HeaderOf(files[id])[1].dict_len = 0
        BY <1>3, <1>5 DEF HasDict
    <2> QED BY <1>3, <2>1 DEF StatsAre, LinesIn
<1> HIDE DEF originals, bytes, lens, D
<1>6. SumFunctionOnSet(originals, D) \in Nat /\ SumFunctionOnSet(bytes, D) \in Nat
    BY <1>1, <1>4, SumOfNats
<1>7. ASSUME \A id \in D : ~HasDict(id)
      PROVE  /\ SumFunctionOnSet(originals, D) = 100 * SumFunctionOnSet(lens, D)
             /\ SumFunctionOnSet(bytes, D) = 40 * SumFunctionOnSet(lens, D)
    <2>1. 100 \in Int /\ 40 \in Int
        OBVIOUS
    <2>2. \A id \in D : lens[id] \in Int
        BY <1>4
    <2>3. \A c \in Int : (\A id \in D : originals[id] = c * lens[id]) =>
            SumFunctionOnSet(originals, D) = c * SumFunctionOnSet(lens, D)
        BY <1>1, <2>2, SumScales
    <2>4. \A c \in Int : (\A id \in D : bytes[id] = c * lens[id]) =>
            SumFunctionOnSet(bytes, D) = c * SumFunctionOnSet(lens, D)
        BY <1>1, <2>2, SumScales
    <2> QED BY <1>5, <1>7, <2>1, <2>3, <2>4
<1>8. SumFunction([id \in DOMAIN files |-> Len(LinesIn(id))]) = SumFunctionOnSet(lens, D)
    BY DEF SumFunction, lens, D
<1> QED BY <1>2, <1>6, <1>7, <1>8 DEF D

-----------------------------------------------------------------------------
(* The list, the next id and the keyword map, read from the files.          *)
LEMMA ScanAllIs ==
    ASSUME FilesAreWritten
    PROVE  ListIsOf(ScanAll, files, sealed, Ids(ScanAll))
<1> DEFINE D == DOMAIN files
           P == {id \in D : HeaderOf(files[id]) # None}
           metas == [id \in P |-> ScannedMeta(files[id])]
           key == [id \in P |-> ScannedMeta(files[id]).id]
           r == ScanAll
<1>1. IsFiniteSet(D) /\ D \subseteq Nat
    BY DEF FilesAreWritten
<1>2. \A id \in D : FileSaysAll(files[id], id, sealed[id])
    BY FilesAreKnown
<1>3. \A id \in D : /\ HeaderOf(files[id]) # None /\ ScannedMeta(files[id]).id = id
                    /\ MetaIsTrue(ScannedMeta(files[id]), files[id], sealed[id], TRUE)
    <2> TAKE id \in D
    <2>1. FileSaysAll(files[id], id, sealed[id])
        BY <1>2
    <2> QED BY ZenonT(60), <2>1 DEF FileSaysAll
<1>4. P = D
    BY <1>3
<1>5. r = Arranged(metas, P, key)
    BY DEF ScanAll
<1>6. /\ \A id \in D : key[id] = id /\ metas[id] = ScannedMeta(files[id])
      /\ Sortable(P, key)
    <2>1. \A id \in P : key[id] = ScannedMeta(files[id]).id /\ metas[id] = ScannedMeta(files[id])
        OBVIOUS
    <2> HIDE DEF key, metas, P
    <2>2. \A id \in D : key[id] = id /\ metas[id] = ScannedMeta(files[id])
        BY <1>3, <1>4, <2>1
    <2>3. \A id \in D : id \in Int
        BY <1>1
    <2>4. Sortable(D, key)
        BY <1>1, <2>2, <2>3 DEF Sortable
    <2> QED BY <1>4, <2>2, <2>4
<1> HIDE DEF r, metas, key, P
<1>7. Arranges(r, metas, P, key)
    BY <1>5, <1>6, ArrangedIs
<1>8. PICK at : /\ InOrderOf(P, key, at) /\ IsList(r) /\ Len(r) = Len(at)
                /\ \A k \in 1..Len(at) : r[k] = metas[at[k]]
    BY <1>7 DEF Arranges
<1>9. /\ Len(at) = Cardinality(P) /\ \A k \in 1..Len(at) : at[k] \in P
      /\ \A p \in P : \E k \in 1..Len(at) : at[k] = p
    BY <1>8 DEF InOrderOf
<1>10. \A k \in 1..Len(r) :
         /\ r[k].id = at[k] /\ at[k] \in D
         /\ MetaIsTrue(r[k], files[r[k].id], sealed[r[k].id], TRUE)
    <2> TAKE k \in 1..Len(r)
    <2>1. at[k] \in D /\ r[k] = metas[at[k]]
        BY <1>4, <1>8, <1>9
    <2>2. r[k] = ScannedMeta(files[at[k]]) /\ r[k].id = at[k]
        BY <1>3, <1>6, <2>1
    <2> QED BY <1>3, <2>1, <2>2
<1>11. Ids(r) = D
    <2>1. \A k \in DOMAIN r : r[k].id \in D
        BY <1>8, <1>10 DEF IsList
    <2>2. ASSUME NEW id \in D PROVE \E k \in DOMAIN r : r[k].id = id
        <3>1. PICK k \in 1..Len(at) : at[k] = id
            BY <1>4, <1>9, <2>2
        <3> QED BY <1>8, <1>10, <3>1 DEF IsList
    <2> QED BY <2>1, <2>2 DEF Ids
<1>12. \A k \in 1..Len(r) :
         MetaIsTrue(r[k], files[r[k].id], sealed[r[k].id], r[k].id \in Ids(r))
    <2> TAKE k \in 1..Len(r)
    <2>1. (r[k].id \in Ids(r)) = TRUE
        BY <1>10, <1>11
    <2> QED BY <1>10, <2>1
<1> HIDE DEF D
<1>13. ListIsOf(r, files, sealed, Ids(r))
    BY <1>4, <1>8, <1>9, <1>10, <1>11, <1>12 DEF ListIsOf, D
<1> QED BY <1>13 DEF r

LEMMA NextAfterIs ==
    ASSUME NEW list, IsList(list), IsFiniteSet(Ids(list)), Ids(list) \subseteq Nat
    PROVE  NextAfter(list) \in Nat /\ \A id \in Ids(list) : id < NextAfter(list)
<1>1. CASE list = <<>>
    <2>1. Ids(list) = {}
        BY <1>1, EmptyList DEF Ids
    <2> QED BY <1>1, <2>1 DEF NextAfter
<1>2. CASE list # <<>>
    <2>1. Len(list) # 0 /\ Len(list) \in Nat /\ DOMAIN list = 1..Len(list)
        BY <1>2, EmptyList DEF IsList
    <2>2. list[1].id \in Ids(list)
        BY <2>1 DEF Ids
    <2>3. Max(Ids(list)) \in Nat /\ \A id \in Ids(list) : id \in Nat /\ id <= Max(Ids(list))
        <3>1. Ids(list) # {} /\ Ids(list) \subseteq Int
            BY <2>2
        <3> QED BY <3>1, ExtremesAre
    <2>4. NextAfter(list) = Max(Ids(list)) + 1
        BY <1>2 DEF NextAfter
    <2> HIDE DEF NextAfter
    <2> QED BY <2>3, <2>4
<1> QED BY <1>1, <1>2

-----------------------------------------------------------------------------
(* The keyword map.                                                         *)

\* Templates whose literals are lists of words.
AreRead(templates) ==
    /\ IsList(templates)
    /\ \A i \in 1..Len(templates) :
          IsList(Literals(templates[i])) /\ ToSet(Literals(templates[i])) \subseteq DOMAIN Lower

LEMMA LiteralsAre ==
    ASSUME NEW line, line.message.words \in Seq(DOMAIN Lower),
           line.message.par \in DOMAIN Lower \cup {NoText}, NEW logs
    PROVE  /\ IsList(Literals(TemplateOf(line, logs)))
           /\ ToSet(Literals(TemplateOf(line, logs))) \subseteq DOMAIN Lower
<1> DEFINE t == TemplateOf(line, logs)
           more == IF t.par \in {NoText, "*"} THEN <<>> ELSE <<t.par>>
<1>1. t.words = line.message.words /\ (t.par = line.message.par \/ t.par = "*")
    BY DEF TemplateOf
<1>2. IsList(t.words) /\ ToSet(t.words) \subseteq DOMAIN Lower
    BY <1>1, SeqIsList
<1>3. IsList(more) /\ ToSet(more) \subseteq DOMAIN Lower
    <2>1. CASE t.par \in {NoText, "*"}
        <3>1. more = <<>>
            BY <2>1
        <3>2. ToSet(<<>>) = {}
            BY EmptyList DEF ToSet
        <3> HIDE DEF more
        <3> QED BY <3>1, <3>2, EmptyList
    <2>2. CASE t.par \notin {NoText, "*"}
        <3>1. more = <<t.par>> /\ t.par \in DOMAIN Lower
            BY <1>1, <2>2
        <3>2. \A T : \A x \in T : <<x>> \in Seq(T)
            OBVIOUS
        <3>3. more \in Seq(DOMAIN Lower)
            BY <3>1, <3>2
        <3> HIDE DEF more
        <3> QED BY <3>3, SeqIsList
    <2> QED BY <2>1, <2>2
<1>4. Literals(t) = t.words \o more
    BY DEF Literals
<1> HIDE DEF t, more
<1>5. IsList(Literals(t)) /\ ToSet(Literals(t)) = ToSet(t.words) \cup ToSet(more)
    BY <1>2, <1>3, <1>4, ConcatIs
<1>6. ToSet(Literals(t)) \subseteq DOMAIN Lower
    BY <1>2, <1>3, <1>5
<1> QED BY <1>5, <1>6 DEF t

LEMMA TemplatesAreRead ==
    ASSUME NEW templates, IsList(templates), NEW logs, ToSet(logs) \subseteq Lines,
           ToSet(templates) = {TemplateOf(l, logs) : l \in ToSet(logs)}
    PROVE  AreRead(templates)
<1>1. ASSUME NEW i \in 1..Len(templates)
      PROVE  /\ IsList(Literals(templates[i]))
             /\ ToSet(Literals(templates[i])) \subseteq DOMAIN Lower
    <2>1. templates[i] \in ToSet(templates)
        BY DEF IsList, ToSet
    <2>2. PICK l \in ToSet(logs) : templates[i] = TemplateOf(l, logs)
        BY <2>1
    <2>3. l.message.words \in Seq(DOMAIN Lower) /\ l.message.par \in DOMAIN Lower \cup {NoText}
        BY LinesAssumption
    <2>4. /\ IsList(Literals(TemplateOf(l, logs)))
          /\ ToSet(Literals(TemplateOf(l, logs))) \subseteq DOMAIN Lower
        BY <2>3, LiteralsAre
    <2> QED BY <2>2, <2>4
<1> QED BY <1>1 DEF AreRead

LEMMA FilesTemplatesAreRead ==
    ASSUME FilesAreWritten, NEW id \in DOMAIN files
    PROVE  AreRead(TemplatesIn(files[id]))
<1> DEFINE templates == TemplatesIn(files[id])
<1>1. CASE IsV1(files[id], id, sealed[id])
    <2>1. templates = <<>>
        BY <1>1 DEF IsV1
    <2>2. IsList(templates) /\ 1..Len(templates) = {}
        BY <2>1, EmptyList
    <2> HIDE DEF templates
    <2>3. AreRead(templates)
        BY <2>2 DEF AreRead
    <2> QED BY <2>3 DEF templates
<1>2. ASSUME NEW dictLen, IsV2(files[id], id, sealed[id], dictLen)
      PROVE  AreRead(templates)
    <2> DEFINE logs == FlattenSeq(sealed[id])
    <2>1. BatchIs(sealed[id], templates)
        BY <1>2 DEF IsV2
    <2> HIDE DEF templates
    <2>2. /\ IsList(templates) /\ ToSet(logs) \subseteq Lines
          /\ ToSet(templates) = {TemplateOf(l, logs) : l \in ToSet(logs)}
        BY <2>1 DEF BatchIs
    <2> HIDE DEF logs
    <2> QED BY <2>2, TemplatesAreRead
<1> QED BY <1>1, <1>2, KindOf

\* One entry, at least, for each template that has one of the words.
LEMMA OccurrencesAre ==
    ASSUME NEW templates, AreRead(templates), NEW words
    PROVE  /\ IsList(Occurrences(templates, words))
           /\ ToSet(Occurrences(templates, words)) \subseteq Nat
           /\ \A i \in 1..Len(templates) :
                ToSet(Literals(templates[i])) \cap words # {}
                  => i - 1 \in ToSet(Occurrences(templates, words))
<1> DEFINE n == Len(templates)
           places(i) == {j \in DOMAIN Literals(templates[i]) : Literals(templates[i])[j] \in words}
           seqs == [i \in DOMAIN templates |-> [k \in 1..Cardinality(places(i)) |-> i - 1]]
           flat == FlattenSeq(seqs)
<1>1. n \in Nat /\ DOMAIN templates = 1..n
    BY DEF AreRead, IsList
<1>2. ASSUME NEW i \in 1..n
      PROVE  /\ Cardinality(places(i)) \in Nat
             /\ ToSet(Literals(templates[i])) \cap words # {} => Cardinality(places(i)) > 0
    <2> DEFINE lits == Literals(templates[i])
    <2>1. IsList(lits)
        BY <1>2 DEF AreRead
    <2>2. IsFiniteSet(DOMAIN lits)
        BY <2>1, FirstNumbers DEF IsList
    <2>3. IsFiniteSet(places(i))
        BY <2>2, FS_Subset
    <2>4. Cardinality(places(i)) \in Nat
        BY <2>3, FS_CardinalityType
    <2>5. ASSUME ToSet(lits) \cap words # {} PROVE places(i) # {}
        BY <2>5 DEF ToSet
    <2>6. places(i) # {} => Cardinality(places(i)) # 0
        BY <2>3, FS_EmptySet
    <2> HIDE DEF places
    <2> QED BY <2>4, <2>5, <2>6
<1>3. \A i \in 1..n : seqs[i] = [k \in 1..Cardinality(places(i)) |-> i - 1]
    BY <1>1
<1>4. seqs = [i \in 1..n |-> seqs[i]]
    BY <1>1
<1>5. flat = Occurrences(templates, words)
    BY DEF Occurrences
<1> HIDE DEF places, seqs, flat, n
<1>6. ASSUME NEW i \in 1..n
      PROVE  /\ IsList(seqs[i]) /\ ToSet(seqs[i]) \subseteq {i - 1}
             /\ ToSet(Literals(templates[i])) \cap words # {} => i - 1 \in ToSet(seqs[i])
    <2> DEFINE c == Cardinality(places(i))
               s == seqs[i]
    <2>1. c \in Nat /\ s = [k \in 1..c |-> i - 1] /\ s = [k \in 1..c |-> s[k]]
          /\ \A k \in 1..c : s[k] = i - 1
        BY <1>2, <1>3
    <2>2. ToSet(Literals(templates[i])) \cap words # {} => c > 0
        BY <1>2
    <2> HIDE DEF c, s
    <2>3. IsList(s) /\ DOMAIN s = 1..c
        BY <2>1, ListIs
    <2>4. ToSet(s) \subseteq {i - 1} /\ (c > 0 => i - 1 \in ToSet(s))
        <3>1. c > 0 => 1 \in 1..c
            BY <2>1
        <3> QED BY <2>1, <2>3, <3>1 DEF ToSet
    <2> QED BY <2>2, <2>3, <2>4 DEF s
<1>7. IsList(flat) /\ ToSet(flat) = UNION {ToSet(seqs[i]) : i \in 1..n}
    <2>1. \A i \in 1..n : IsList(seqs[i])
        BY <1>6
    <2>2. IsList(flat)
        BY <1>1, <1>4, <2>1, FlattenPlaces DEF flat
    <2>3. ToSet(flat) = UNION {ToSet(seqs[i]) : i \in 1..n}
        BY <1>1, <1>4, <2>1, FlattenHas DEF flat
    <2> QED BY <2>2, <2>3
<1>8. \A i \in 1..n : i - 1 \in Nat
    BY <1>1
<1>9. ToSet(flat) \subseteq Nat
    BY <1>6, <1>7, <1>8
<1>10. \A i \in 1..n : ToSet(Literals(templates[i])) \cap words # {} => i - 1 \in ToSet(flat)
    BY <1>6, <1>7
<1> QED BY <1>5, <1>7, <1>9, <1>10 DEF n

IsMap(map) == map \in [MapWords -> Seq(Nat)]

LEMMA SeqOfNats ==
    ASSUME NEW s, IsList(s), ToSet(s) \subseteq Nat
    PROVE  s \in Seq(Nat)
<1>1. s \in Seq(ToSet(s))
    BY ListIsSeq
<1> QED BY <1>1

\* The words of templates are added to what the map has.
LEMMA WithKeywordsIs ==
    ASSUME NEW map, IsMap(map), NEW templates, AreRead(templates)
    PROVE  /\ IsMap(WithKeywords(map, templates))
           /\ WordsAreMapped(WithKeywords(map, templates), templates)
           /\ \A w \in MapWords : ToSet(map[w]) \subseteq ToSet(WithKeywords(map, templates)[w])
<1> DEFINE new == WithKeywords(map, templates)
           more(w) == Occurrences(templates, {x \in DOMAIN Lower : Lower[x] = w})
<1>1. \A w \in MapWords : new[w] = map[w] \o more(w)
      /\ new = [v \in MapWords |-> new[v]]
    BY DEF WithKeywords
<1>2. \A w \in MapWords : IsList(map[w]) /\ ToSet(map[w]) \subseteq Nat
    <2> TAKE w \in MapWords
    <2>1. map[w] \in Seq(Nat)
        BY DEF IsMap
    <2> QED BY <2>1, SeqIsList
<1>3. \A w \in MapWords :
        /\ IsList(more(w)) /\ ToSet(more(w)) \subseteq Nat
        /\ \A i \in 1..Len(templates) :
             ToSet(Literals(templates[i])) \cap {x \in DOMAIN Lower : Lower[x] = w} # {}
               => i - 1 \in ToSet(more(w))
    BY OccurrencesAre
<1> HIDE DEF new, more
<1>4. ASSUME NEW w \in MapWords
      PROVE  /\ new[w] \in Seq(Nat) /\ ToSet(new[w]) = ToSet(map[w]) \cup ToSet(more(w))
    <2>1. IsList(map[w]) /\ IsList(more(w)) /\ new[w] = map[w] \o more(w)
        BY <1>1, <1>2, <1>3
    <2>2. IsList(new[w]) /\ ToSet(new[w]) = ToSet(map[w]) \cup ToSet(more(w))
        BY <2>1, ConcatIs
    <2>3. ToSet(new[w]) \subseteq Nat
        BY <1>2, <1>3, <2>2
    <2> QED BY <2>2, <2>3, SeqOfNats
<1>5. IsMap(new)
    <2>1. new = [v \in MapWords |-> new[v]]
        BY DEF new, WithKeywords
    <2> QED BY <1>4, <2>1 DEF IsMap
<1>6. ASSUME NEW i \in 1..Len(templates), NEW x \in ToSet(Literals(templates[i])),
             Lower[x] \in MapWords
      PROVE  i - 1 \in ToSet(new[Lower[x]])
    <2>1. x \in DOMAIN Lower
        BY DEF AreRead
    <2>2. ToSet(Literals(templates[i])) \cap {y \in DOMAIN Lower : Lower[y] = Lower[x]} # {}
        BY <2>1
    <2>3. i - 1 \in ToSet(more(Lower[x]))
        BY <1>3, <1>6, <2>2
    <2> QED BY <1>4, <1>6, <2>3
<1>7. WordsAreMapped(new, templates)
    BY <1>6 DEF WordsAreMapped
<1>8. \A w \in MapWords : ToSet(map[w]) \subseteq ToSet(new[w])
    BY <1>4
<1> QED BY <1>5, <1>7, <1>8 DEF new

\* The words of files, one file after the other.
LEMMA KeywordsOfFilesIs ==
    ASSUME FilesAreWritten, NEW map, IsMap(map), NEW ids, ids \subseteq DOMAIN files,
           \A id \in DOMAIN files \ ids : TemplatesIn(files[id]) = <<>>
    PROVE  /\ IsMap(KeywordsOfFiles(map, ids))
           /\ \A id \in DOMAIN files :
                WordsAreMapped(KeywordsOfFiles(map, ids), TemplatesIn(files[id]))
<1> DEFINE order == SortedBy(ids, [id \in ids |-> id])
           n == Cardinality(ids)
           added(k) == WithKeywords(NoKeywords, TemplatesIn(files[order[k]]))
           parts(w) == [k \in 1..n |-> added(k)[w]]
           new == KeywordsOfFiles(map, ids)
<1>1. IsFiniteSet(ids) /\ ids \subseteq Nat /\ n \in Nat
    BY FS_Subset, FS_CardinalityType DEF FilesAreWritten
<1>2. InOrderOf(ids, [id \in ids |-> id], order)
    <2> DEFINE key == [id \in ids |-> id]
    <2>1. \A id \in ids : key[id] \in Int
        BY <1>1
    <2> HIDE DEF key
    <2>2. Sortable(ids, key)
        BY <1>1, <2>1 DEF Sortable
    <2>3. InOrderOf(ids, key, SortedBy(ids, key))
        BY <2>2, SortedIs
    <2> QED BY <2>3 DEF key
<1> HIDE DEF order, n
<1>3. /\ \A k \in 1..n : order[k] \in ids
      /\ \A id \in ids : \E k \in 1..n : order[k] = id
    BY <1>2 DEF InOrderOf, n
<1>4. IsMap(NoKeywords)
    <2>1. <<>> \in Seq(Nat)
        OBVIOUS
    <2> QED BY <2>1 DEF IsMap, NoKeywords
<1>5. ASSUME NEW k \in 1..n
      PROVE  IsMap(added(k)) /\ WordsAreMapped(added(k), TemplatesIn(files[order[k]]))
    <2>1. AreRead(TemplatesIn(files[order[k]]))
        BY <1>3, FilesTemplatesAreRead
    <2> QED BY <1>4, <2>1, WithKeywordsIs
<1> HIDE DEF added
<1>6. \A w \in MapWords : new[w] = map[w] \o FlattenSeq(parts(w))
    <2>1. new = [w \in MapWords |-> map[w] \o FlattenSeq(parts(w))]
        BY DEF KeywordsOfFiles, added, order, n
    <2> HIDE DEF new, parts
    <2> QED BY <2>1
<1>7. new = [w \in MapWords |-> new[w]]
    BY DEF KeywordsOfFiles
<1> HIDE DEF new
<1>8. ASSUME NEW w \in MapWords
      PROVE  /\ new[w] \in Seq(Nat)
             /\ \A k \in 1..n : ToSet(added(k)[w]) \subseteq ToSet(new[w])
    <2> DEFINE ps == parts(w)
               flat == FlattenSeq(ps)
    <2>1. ps = [k \in 1..n |-> ps[k]] /\ \A k \in 1..n : ps[k] = added(k)[w]
        OBVIOUS
    <2>2. \A k \in 1..n : ps[k] \in Seq(Nat)
        BY <1>5, <2>1 DEF IsMap
    <2> HIDE DEF ps
    <2>3. \A k \in 1..n : IsList(ps[k]) /\ ToSet(ps[k]) \subseteq Nat
        BY <2>2, SeqIsList
    <2>4. IsList(flat)
        BY <1>1, <2>1, <2>3, FlattenPlaces
    <2>5. ToSet(flat) = UNION {ToSet(ps[k]) : k \in 1..n}
        BY <1>1, <2>1, <2>3, FlattenHas
    <2>6. new[w] = map[w] \o flat
        BY <1>6 DEF ps
    <2>7. IsList(map[w]) /\ ToSet(map[w]) \subseteq Nat
        <3>1. map[w] \in Seq(Nat)
            BY DEF IsMap
        <3> QED BY <3>1, SeqIsList
    <2> HIDE DEF flat
    <2>8. IsList(new[w]) /\ ToSet(new[w]) = ToSet(map[w]) \cup ToSet(flat)
        BY <2>4, <2>6, <2>7, ConcatIs
    <2>9. ToSet(new[w]) \subseteq Nat
        BY <2>3, <2>5, <2>7, <2>8
    <2>10. new[w] \in Seq(Nat)
        BY <2>8, <2>9, SeqOfNats
    <2>11. \A k \in 1..n : ToSet(added(k)[w]) \subseteq ToSet(new[w])
        BY <2>1, <2>5, <2>8
    <2> QED BY <2>10, <2>11
<1>9. IsMap(new)
    BY <1>7, <1>8 DEF IsMap
<1>10. ASSUME NEW id \in DOMAIN files PROVE WordsAreMapped(new, TemplatesIn(files[id]))
    <2> DEFINE templates == TemplatesIn(files[id])
    <2>1. CASE id \in ids
        <3>1. PICK k \in 1..n : order[k] = id
            BY <1>3, <2>1
        <3>2. WordsAreMapped(added(k), templates)
            BY <1>5, <3>1
        <3> HIDE DEF templates
        <3>3. ASSUME NEW i \in 1..Len(templates), NEW x \in ToSet(Literals(templates[i])),
                     Lower[x] \in MapWords
              PROVE  i - 1 \in ToSet(new[Lower[x]])
            BY <1>8, <3>2, <3>3 DEF WordsAreMapped
        <3>4. WordsAreMapped(new, templates)
            BY <3>3 DEF WordsAreMapped
        <3> QED BY <3>4 DEF templates
    <2>2. CASE id \notin ids
        <3>1. 1..Len(templates) = {}
            BY <2>2, EmptyList
        <3> HIDE DEF templates
        <3>2. WordsAreMapped(new, templates)
            BY <3>1 DEF WordsAreMapped
        <3> QED BY <3>2 DEF templates
    <2> QED BY <2>1, <2>2
<1> QED BY <1>9, <1>10 DEF new

-----------------------------------------------------------------------------
(* A flush.                                                                 *)

LEMMA TimesGrow ==
    ASSUME NEW a \in Nat, NEW b \in Nat, NEW c \in Nat, a <= b
    PROVE  a * c \in Nat /\ b * c \in Nat /\ a * c <= b * c
<1> DEFINE d == b - a
<1>1. d \in Nat /\ b = a + d
    OBVIOUS
<1> HIDE DEF d
<1>2. (a + d) * c = a * c + d * c
    BY <1>1
<1>3. a * c \in Nat /\ d * c \in Nat
    BY <1>1
<1> QED BY <1>1, <1>2, <1>3

\* How many chunks of some size a batch has, and where they end.
LEMMA ChunksEnd ==
    ASSUME NEW len \in Nat \ {0}, NEW size \in Nat \ {0}
    PROVE  LET n == (len + size - 1) \div size
           IN n \in Nat \ {0} /\ len <= n * size /\ (n - 1) * size < len
<1> DEFINE n == (len + size - 1) \div size
           r == (len + size - 1) % size
<1>1. /\ n \in Nat /\ r \in 0..(size - 1)
      /\ len + size - 1 = size * n + r
    OBVIOUS
<1> HIDE DEF n, r
<1>2. size * n = n * size /\ n * size \in Nat
    BY <1>1
<1>3. len <= n * size
    BY <1>1, <1>2
<1>4. n # 0
    BY <1>3
<1>5. (n - 1) * size = n * size - size
    BY <1>1, <1>2
<1>6. (n - 1) * size < len
    BY <1>1, <1>2, <1>5
<1> QED BY <1>1, <1>3, <1>4, <1>6 DEF n

\* What a flush makes of a batch: lists that are the batch again when they are
\* put together, and their chunks.
Cuts(logs, templates, lists) ==
    /\ lists \in Seq(Seq(Lines) \ {<<>>}) /\ lists # <<>> /\ FlattenSeq(lists) = logs
    /\ IsList(lists) /\ \A k \in 1..Len(lists) : IsList(lists[k])
    /\ ChunksOf(logs, templates) = ChunksFrom(lists, templates)

LEMMA BatchIsCut ==
    ASSUME NEW logs \in Seq(Lines), logs # <<>>, config \in Configs, NEW templates
    PROVE  \E lists : Cuts(logs, templates, lists)
<1> DEFINE len == Len(logs)
           size == IF len <= config.single THEN len ELSE config.chunk
           n == (len + size - 1) \div size
           end(k) == Min({k * size, len})
           part(s, k) == SubSeq(s, (k - 1) * size + 1, end(k))
           text == [i \in DOMAIN logs |-> TemplateOf(logs[i], logs)]
           lists == [k \in 1..n |-> part(logs, k)]
           b == [k \in 0..n |-> IF k = n THEN len ELSE k * size]
<1>1. /\ IsList(logs) /\ ToSet(logs) \subseteq Lines /\ len \in Nat \ {0}
      /\ DOMAIN logs = 1..len
    <2>1. IsList(logs) /\ ToSet(logs) \subseteq Lines
        BY SeqIsList
    <2>2. len # 0
        BY <2>1, EmptyList
    <2> QED BY <2>1, <2>2 DEF IsList
<1>2. size \in Nat \ {0}
    BY <1>1, IndexAssumption
<1>3. ChunksOf(logs, templates)
        = [k \in 1..n |-> ChunkOf(part(logs, k), templates, part(text, k))]
    <2> DEFINE piece(s, k) == SubSeq(s, (k - 1) * size + 1, Min({k * size, Len(s)}))
    <2>1. ChunksOf(logs, templates)
            = [k \in 1..n |-> ChunkOf(piece(logs, k), templates, piece(text, k))]
        BY DEF ChunksOf
    <2>2. Len(text) = len
        <3>1. text = [i \in 1..len |-> text[i]]
            BY <1>1
        <3> HIDE DEF text
        <3> QED BY <1>1, <3>1, ListIs
    <2>3. \A k : piece(logs, k) = part(logs, k) /\ piece(text, k) = part(text, k)
        BY <2>2
    <2> HIDE DEF piece, part, n, text
    <2> QED BY <2>1, <2>3
<1> HIDE DEF len, size
<1>4. n \in Nat \ {0} /\ len <= n * size /\ (n - 1) * size < len
    BY <1>1, <1>2, ChunksEnd
<1> HIDE DEF n
<1>5. ASSUME NEW k \in 1..n
      PROVE  /\ (k - 1) * size = b[k - 1] /\ end(k) = b[k]
             /\ b[k - 1] \in Nat /\ b[k] \in Nat /\ b[k - 1] < b[k] /\ b[k] <= len
    <2>1. k \in Nat /\ k - 1 \in Nat /\ k - 1 \in 0..n /\ k \in 0..n /\ k - 1 <= n - 1 /\ k - 1 # n
          /\ n - 1 \in Nat
        BY <1>4
    <2>2. (k - 1) * size \in Nat /\ (k - 1) * size <= (n - 1) * size /\ (n - 1) * size \in Nat
        BY <1>2, <2>1, TimesGrow
    <2>3. k * size = (k - 1) * size + size /\ k * size \in Nat
        BY <1>2, <2>1
    <2>4. (k - 1) * size < len
        BY <1>1, <1>4, <2>2
    <2>5. b[k - 1] = (k - 1) * size /\ b[k] = IF k = n THEN len ELSE k * size
        BY <2>1
    <2>6. end(k) = b[k]
        <3> DEFINE x == k * size
        <3>1. Min({x, len}) = IF x <= len THEN x ELSE len
            <4>1. x \in Int /\ len \in Int
                BY <1>1, <2>3
            <4> HIDE DEF x
            <4>2. {x, len} \subseteq Int /\ {x, len} # {} /\ IsFiniteSet({x, len})
                <5>1. {x, len} = {x} \cup {len}
                    OBVIOUS
                <5>2. IsFiniteSet({x})
                    BY FS_Singleton
                <5>3. IsFiniteSet({x} \cup {len})
                    BY <5>2, FS_AddElement
                <5>4. IsFiniteSet({x, len})
                    BY <5>1, <5>3
                <5> QED BY <4>1, <5>4
            <4>3. /\ Min({x, len}) \in {x, len}
                  /\ \A y \in {x, len} : Min({x, len}) <= y
                BY <4>2, ExtremesAre
            <4> QED BY <4>1, <4>3
        <3>2. CASE k = n
            BY <1>1, <1>4, <2>3, <2>5, <3>1, <3>2
        <3>3. CASE k # n
            <4>1. k \in Nat /\ k <= n - 1
                BY <1>4, <2>1, <3>3
            <4>2. k * size <= (n - 1) * size
                BY <1>2, <2>1, <4>1, TimesGrow
            <4> QED BY <1>1, <1>4, <2>2, <2>3, <2>5, <3>1, <3>3, <4>2
        <3> QED BY <3>2, <3>3
    <2>7. b[k] \in Nat /\ b[k - 1] < b[k] /\ b[k] <= len
        <3>1. CASE k = n
            BY <1>1, <2>2, <2>4, <2>5, <3>1
        <3>2. CASE k # n
            <4>1. k \in Nat /\ k <= n - 1
                BY <1>4, <2>1, <3>2
            <4>2. k * size <= (n - 1) * size
                BY <1>2, <2>1, <4>1, TimesGrow
            <4> QED BY SMTT(40), <1>1, <1>2, <1>4, <2>2, <2>3, <2>5, <3>2, <4>2
        <3> QED BY <3>1, <3>2
    <2> QED BY <2>2, <2>5, <2>6, <2>7
<1>6. b[0] = 0 /\ b[n] = len
    BY <1>2, <1>4
<1> HIDE DEF b, end
<1>7. ASSUME NEW k \in 1..n
      PROVE  /\ lists[k] = SubSeq(logs, b[k - 1] + 1, b[k])
             /\ IsList(lists[k]) /\ Len(lists[k]) = b[k] - b[k - 1]
             /\ ToSet(lists[k]) \subseteq Lines /\ lists[k] # <<>>
             /\ part(text, k) = [j \in 1..Len(lists[k]) |-> TemplateOf(lists[k][j], logs)]
    <2> DEFINE low == b[k - 1] + 1
               high == b[k]
    <2>1. lists[k] = SubSeq(logs, low, high)
        BY <1>5
    <2>2. low \in Nat \ {0} /\ high \in Nat /\ high <= len /\ low <= high /\ low <= high + 1
          /\ high - low + 1 = high - b[k - 1] /\ high - low + 1 \in Nat \ {0}
        BY SMTT(40), <1>5
    <2>3. part(text, k) = SubSeq(text, low, high)
        BY <1>5
    <2>4. IsList(text) /\ Len(text) = len
        <3>1. text = [i \in 1..len |-> text[i]]
            BY <1>1
        <3> HIDE DEF text
        <3> QED BY <1>1, <3>1, ListIs
    <2> HIDE DEF low, high, lists, text
    <2>5. /\ IsList(SubSeq(logs, low, high)) /\ Len(SubSeq(logs, low, high)) = high - low + 1
          /\ \A j \in 1..(high - low + 1) : SubSeq(logs, low, high)[j] = logs[low + j - 1]
          /\ ToSet(SubSeq(logs, low, high)) \subseteq ToSet(logs)
        BY <1>1, <2>2, SubSeqIs DEF len
    <2>6. /\ IsList(SubSeq(text, low, high)) /\ Len(SubSeq(text, low, high)) = high - low + 1
          /\ \A j \in 1..(high - low + 1) : SubSeq(text, low, high)[j] = text[low + j - 1]
        BY <2>2, <2>4, SubSeqIs
    <2>7. lists[k] # <<>>
        BY <2>1, <2>2, <2>5, EmptyList
    <2> DEFINE m == high - low + 1
               of == [j \in 1..m |-> TemplateOf(lists[k][j], logs)]
    <2>8. SubSeq(text, low, high) = of
        <3>1. of = [j \in 1..m |-> of[j]] /\ m \in Nat
            BY <2>2
        <3>2. \A j \in 1..m : SubSeq(text, low, high)[j] = of[j]
            <4> TAKE j \in 1..m
            <4>1. low + j - 1 \in 1..len
                BY <1>1, <2>2
            <4>2. text[low + j - 1] = TemplateOf(logs[low + j - 1], logs)
                BY <1>1, <4>1 DEF text
            <4>3. of[j] = TemplateOf(lists[k][j], logs) /\ lists[k][j] = logs[low + j - 1]
                BY <2>1, <2>5
            <4> QED BY <2>6, <4>2, <4>3
        <3> HIDE DEF of, m
        <3>3. IsList(of) /\ Len(of) = m
            BY <3>1, ListIs
        <3> QED BY <2>6, <3>2, <3>3, ListsEqual DEF m
    <2>9. Len(lists[k]) = m
        BY <2>1, <2>5
    <2>10. part(text, k) = [j \in 1..Len(lists[k]) |-> TemplateOf(lists[k][j], logs)]
        BY <2>3, <2>8, <2>9
    <2> QED BY <1>1, <2>1, <2>2, <2>5, <2>7, <2>9, <2>10 DEF low, high
<1>8. lists = [k \in 1..n |-> lists[k]]
    OBVIOUS
<1> DEFINE texts == [k \in 1..n |-> part(text, k)]
<1>9. \A k \in 1..n : lists[k] = part(logs, k) /\ texts[k] = part(text, k)
    OBVIOUS
<1> HIDE DEF lists, texts, part
<1>10. IsList(lists) /\ Len(lists) = n
    BY <1>4, <1>8, ListIs
<1>11. FlattenSeq(lists) = logs
    <2>1. \A i \in 0..n : b[i] \in Nat /\ b[i] <= Len(logs)
        <3> TAKE i \in 0..n
        <3>1. i = 0 \/ i \in 1..n
            BY <1>4
        <3> QED BY <1>1, <1>5, <1>6, <3>1 DEF len
    <2>2. \A i \in 1..n : b[i - 1] <= b[i] /\ lists[i] = SubSeq(logs, b[i - 1] + 1, b[i])
        <3> TAKE i \in 1..n
        <3>1. b[i - 1] \in Nat /\ b[i] \in Nat /\ b[i - 1] < b[i]
            BY <1>5
        <3>2. b[i - 1] <= b[i]
            BY <3>1
        <3>3. lists[i] = SubSeq(logs, b[i - 1] + 1, b[i])
            BY <1>7
        <3> QED BY <3>2, <3>3
    <2>3. b[n] = Len(logs)
        BY <1>6 DEF len
    <2>4. b[0] = 0 /\ n \in Nat \ {0} /\ IsList(logs)
        BY <1>1, <1>4, <1>6
    <2>5. \A i \in 1..n : b[i - 1] <= b[i]
        BY <2>2
    <2>6. \A i \in 1..n : lists[i] = SubSeq(logs, b[i - 1] + 1, b[i])
        BY <2>2
    <2>7. IsCut(logs, n, b, lists)
        BY <1>8, <2>1, <2>3, <2>4, <2>5, <2>6 DEF IsCut
    <2> QED BY <2>4, <2>7, CutIsWhole
<1>12. lists \in Seq(Seq(Lines) \ {<<>>}) /\ lists # <<>>
    <2>1. ASSUME NEW k \in 1..n PROVE lists[k] \in Seq(Lines) \ {<<>>}
        <3>1. lists[k] \in Seq(ToSet(lists[k]))
            BY <1>7, ListIsSeq
        <3>2. \A S, T : S \subseteq T => Seq(S) \subseteq Seq(T)
            OBVIOUS
        <3> QED BY <1>7, <3>1, <3>2
    <2>2. lists # <<>>
        BY <1>4, <1>10, EmptyList
    <2> DEFINE T == Seq(Lines) \ {<<>>}
    <2>3. \A k \in 1..n : lists[k] \in T
        BY <2>1
    <2> HIDE DEF T
    <2>4. lists \in Seq(T)
        BY <1>4, <1>8, <2>3
    <2> QED BY <2>2, <2>4 DEF T
<1>13. ChunksOf(logs, templates) = ChunksFrom(lists, templates)
    <2> DEFINE from == [i \in 1..n |-> ChunkOf(lists[i], templates,
                            [k \in 1..Len(lists[i]) |-> TemplateOf(lists[i][k], logs)])]
    <2>1. ChunksFrom(lists, templates) = from
        BY <1>10, <1>11 DEF ChunksFrom
    <2>2. \A i \in 1..n : part(logs, i) = lists[i]
            /\ part(text, i) = [j \in 1..Len(lists[i]) |-> TemplateOf(lists[i][j], logs)]
        BY <1>7, <1>9
    <2>3. [k \in 1..n |-> ChunkOf(part(logs, k), templates, part(text, k))] = from
        BY <2>2
    <2> HIDE DEF from
    <2> QED BY <1>3, <2>1, <2>3
<1> HIDE DEF text
<1>14. Cuts(logs, templates, lists)
    BY <1>7, <1>10, <1>11, <1>12, <1>13 DEF Cuts
<1> QED BY <1>14

\* The times of a list, and the first and last of them.
LEMMA TimesAre ==
    ASSUME NEW flat, IsList(flat), Len(flat) > 0, \A l \in ToSet(flat) : l.ts \in Int
    PROVE  LET times == {l.ts : l \in ToSet(flat)}
           IN /\ times \subseteq Int /\ Min(times) \in times /\ Max(times) \in times
              /\ \A l \in ToSet(flat) : Min(times) <= l.ts /\ l.ts <= Max(times)
<1> DEFINE times == {l.ts : l \in ToSet(flat)}
           n == Len(flat)
           f == [i \in 1..n |-> flat[i].ts]
<1>1. n \in Nat /\ DOMAIN flat = 1..n /\ 1 \in 1..n
    BY DEF IsList
<1>2. /\ \A i \in 1..n : f[i] \in times
      /\ \A x \in times : \E i \in 1..n : f[i] = x
      /\ f = [i \in 1..n |-> f[i]]
    BY <1>1 DEF ToSet
<1>3. times \subseteq Int
    OBVIOUS
<1>4. \A l \in ToSet(flat) : l.ts \in times
    OBVIOUS
<1> HIDE DEF f, times, n
<1>5. f \in Surjection(1..n, times) /\ IsFiniteSet(1..n)
    BY <1>1, <1>2, FirstNumbers DEF Surjection
<1>6. IsFiniteSet(times)
    BY <1>5, FS_Surjection
<1>7. times # {}
    BY <1>1, <1>2
<1>8. /\ Min(times) \in times /\ Max(times) \in times
      /\ \A x \in times : Min(times) <= x /\ x <= Max(times)
    BY <1>3, <1>6, <1>7, ExtremesAre
<1> QED BY <1>3, <1>4, <1>8 DEF times

\* What a flush makes of the buffer: the file, the lists of lines in it, the
\* entry of the list, and what is added to the totals.
Made(chunks, logs, templates, id, dictLen) ==
    LET file == SegmentFile(id, templates, 16 * Len(templates), dictLen, chunks)
        lists == [i \in DOMAIN chunks |-> chunks[i].lines]
        times == {l.ts : l \in ToSet(logs)}
        meta == [id |-> id, min_ts |-> Min(times), max_ts |-> Max(times),
                 line_count |-> Len(logs),
                 summary |-> SummaryOf([i \in DOMAIN chunks |-> chunks[i].summary])]
    IN /\ WrittenV2(file, id, lists, templates, dictLen) /\ IsV2(file, id, lists, dictLen)
       /\ TemplatesIn(file) = templates /\ FlattenSeq(lists) = logs
       /\ HeaderOf(file)[1].dict_len = dictLen /\ AreRead(templates)
       /\ MetaIsTrue(meta, file, lists, FALSE)
       /\ SumFunction([i \in DOMAIN chunks |-> chunks[i].entry.original_sz]) = 100 * Len(logs)
       /\ SumFunction([i \in DOMAIN chunks |-> chunks[i].entry.compressed_sz]) = 40 * Len(logs)

LEMMA FlushMakes ==
    ASSUME NEW logs \in Seq(Lines), logs # <<>>, config \in Configs,
           NEW templates \in SetToSeqs(TemplatesOf(logs)), NEW id \in Nat,
           NEW dictLen \in {0, 1024}
    PROVE  Made(ChunksOf(logs, templates), logs, templates, id, dictLen)
<1> DEFINE chunks == ChunksOf(logs, templates)
           file == SegmentFile(id, templates, 16 * Len(templates), dictLen, chunks)
           made == [i \in DOMAIN chunks |-> chunks[i].lines]
           times == {l.ts : l \in ToSet(logs)}
           s == [i \in DOMAIN chunks |-> chunks[i].summary]
           meta == [id |-> id, min_ts |-> Min(times), max_ts |-> Max(times),
                    line_count |-> Len(logs), summary |-> SummaryOf(s)]
           original == [i \in DOMAIN chunks |-> chunks[i].entry.original_sz]
           compressed == [i \in DOMAIN chunks |-> chunks[i].entry.compressed_sz]
<1>1. PICK lists : Cuts(logs, templates, lists)
    BY BatchIsCut
<1>2. /\ lists \in Seq(Seq(Lines) \ {<<>>}) /\ lists # <<>> /\ FlattenSeq(lists) = logs
      /\ IsList(lists) /\ \A k \in 1..Len(lists) : IsList(lists[k])
      /\ chunks = ChunksFrom(lists, templates)
    BY <1>1 DEF Cuts
<1> DEFINE n == Len(lists)
<1>3. n \in Nat /\ DOMAIN chunks = 1..n /\ lists = [i \in 1..n |-> lists[i]]
    BY <1>2 DEF ChunksFrom, IsList
<1>4. WrittenV2(file, id, lists, templates, dictLen)
    BY <1>2 DEF WrittenV2
<1> HIDE DEF file
<1>5. IsV2(file, id, lists, dictLen) /\ TemplatesIn(file) = templates
    BY <1>4, V2Is
<1>6. /\ BatchIs(lists, templates) /\ HeaderOf(file)[1].dict_len = dictLen
      /\ ~IsLegacy(file) /\ ChunksAre(chunks, lists, templates)
    BY <1>2, <1>5 DEF IsV2, IsLegacy
<1> HIDE DEF chunks
<1>7. \A i \in 1..n : /\ chunks[i].lines = lists[i] /\ EntryIsOf(chunks[i], lists[i])
                      /\ SummaryIsOf(chunks[i], lists[i], templates, logs)
    <2>1. \A i \in 1..n :
            /\ EntryIsOf(chunks[i], lists[i])
            /\ SummaryIsOf(chunks[i], lists[i], templates, FlattenSeq(lists))
        BY <1>6 DEF ChunksAre
    <2>2. \A i \in 1..n : chunks[i].lines = lists[i]
        BY <2>1 DEF EntryIsOf
    <2> QED BY <1>2, <2>1, <2>2
<1>8. made = lists
    BY <1>3, <1>7
<1>9. /\ IsList(logs) /\ Len(logs) > 0 /\ ToSet(logs) \subseteq Lines
      /\ IsList(templates) /\ ToSet(templates) = {TemplateOf(l, logs) : l \in ToSet(logs)}
      /\ \A l \in ToSet(logs) : l.ts \in Nat
    <2>1. LET of == FlattenSeq(lists)
          IN /\ IsList(of) /\ Len(of) > 0 /\ ToSet(of) \subseteq Lines
             /\ IsList(templates) /\ ToSet(templates) = {TemplateOf(l, of) : l \in ToSet(of)}
        BY <1>6 DEF BatchIs
    <2>2. \A l \in Lines : l.ts \in Nat
        BY LinesAssumption
    <2> QED BY <1>2, <2>1, <2>2
<1>10. AreRead(templates)
    BY <1>9, TemplatesAreRead
<1>11. MetaIsTrue(meta, file, lists, FALSE)
    <2>1. times \subseteq Int /\ Min(times) \in times /\ Max(times) \in times
        <3>1. \A l \in ToSet(logs) : l.ts \in Int
            BY <1>9
        <3> QED BY ZenonT(60), <1>9, <3>1, TimesAre
    <2>2. s = [i \in 1..n |-> s[i]] /\ \A i \in 1..n : s[i] = chunks[i].summary
        BY <1>3
    <2> HIDE DEF s, chunks
    <2>3. \A i \in 1..n : Covers(s[i], file, lists, lists[i])
        <3> TAKE i \in 1..n
        <3>1. SummaryIsOf(chunks[i], lists[i], templates, logs) /\ s[i] = chunks[i].summary
            BY <1>7, <2>2
        <3> QED BY ZenonT(60), <1>2, <1>5, <3>1 DEF Covers, SummaryIsOf
    <2>4. /\ SummaryOf(s).has_summary = TRUE
          /\ SummaryOf(s).level_mask = {l.level : l \in ToSet(FlattenSeq(lists))}
          /\ \A k \in 1..Len(TemplatesIn(file)) :
                k <= PatternBits => k - 1 \in SummaryOf(s).pattern_mask
        <3>1. s = [i \in 1..Len(lists) |-> s[i]]
            BY <2>2
        <3>2. \A i \in 1..Len(lists) : Covers(s[i], file, lists, lists[i])
            BY <2>3
        <3>3. IsV2(file, id, lists, dictLen)
            BY <1>5
        <3>4. AreCovered(s, file, lists)
            BY <3>1, <3>2 DEF AreCovered
        <3>5. CoversAll(SummaryOf(s), file, lists)
            BY <3>3, <3>4, SummaryCovers
        <3> QED BY <3>5 DEF CoversAll
    <2>5. /\ meta.line_count = Len(logs) /\ meta.min_ts = Min(times)
          /\ meta.max_ts = Max(times) /\ meta.summary = SummaryOf(s)
        OBVIOUS
    <2>6. times = TimesOf(lists) /\ Len(logs) \in Nat
        BY <1>2, <1>9 DEF TimesOf, IsList
    <2> HIDE DEF meta, times
    <2>7. MetaIsTyped(meta, file, lists)
        <3>1. meta.line_count \in Nat /\ meta.min_ts \in Int /\ meta.max_ts \in Int
            BY <2>1, <2>5, <2>6
        <3>2. meta.summary.has_summary = ~IsLegacy(file)
            BY ZenonT(60), <1>6, <2>4, <2>5
        <3>3. /\ meta.summary.level_mask = {l.level : l \in ToSet(FlattenSeq(lists))}
              /\ \A k \in 1..Len(TemplatesIn(file)) :
                    k <= PatternBits => k - 1 \in meta.summary.pattern_mask
            BY <2>4, <2>5
        <3> QED BY <3>1, <3>2, <3>3 DEF MetaIsTyped
    <2>8. MetaIsRead(meta, lists) /\ MetaIsWide(meta, lists)
        BY <1>2, <2>1, <2>5, <2>6 DEF MetaIsRead, MetaIsWide
    <2> QED BY <2>7, <2>8 DEF MetaIsTrue
<1>12. SumFunction(original) = 100 * Len(logs) /\ SumFunction(compressed) = 40 * Len(logs)
    <2>1. \A i \in 1..n : original[i] = 100 * Len(lists[i])
                       /\ compressed[i] = 40 * Len(lists[i])
        BY <1>3, <1>7 DEF EntryIsOf
    <2>2. DOMAIN original = 1..n /\ DOMAIN compressed = 1..n
        BY <1>3
    <2> HIDE DEF original, compressed
    <2>7. IsList(lists) /\ \A i \in 1..Len(lists) : IsList(lists[i])
        BY <1>2
    <2>3. Weigh(original, lists, 100) /\ Weigh(compressed, lists, 40)
        BY <2>1 DEF Weigh
    <2>5. Sums(original, lists, 100) /\ Sums(compressed, lists, 40)
        BY <2>3, <2>7, SizesAdd
    <2>6. /\ SumFunctionOnSet(original, 1..n) = 100 * Len(logs)
          /\ SumFunctionOnSet(compressed, 1..n) = 40 * Len(logs)
        BY <1>2, <2>5 DEF Sums
    <2> QED BY <2>2, <2>6 DEF SumFunction
<1> HIDE DEF made, meta, original, compressed
<1>13. /\ WrittenV2(file, id, made, templates, dictLen) /\ IsV2(file, id, made, dictLen)
       /\ FlattenSeq(made) = logs /\ MetaIsTrue(meta, file, made, FALSE)
    BY ZenonT(60), <1>2, <1>4, <1>5, <1>8, <1>11
<1>14. TemplatesIn(file) = templates /\ HeaderOf(file)[1].dict_len = dictLen
    BY <1>5, <1>6
<1>15. Made(chunks, logs, templates, id, dictLen)
    BY ZenonT(60), <1>10, <1>12, <1>13, <1>14 DEF Made, made, meta, file, original, compressed
<1> QED BY <1>15 DEF chunks

LEMMA AppendIs ==
    ASSUME NEW s, IsList(s), NEW x
    PROVE  /\ IsList(Append(s, x)) /\ Len(Append(s, x)) = Len(s) + 1
           /\ \A i \in 1..Len(s) : Append(s, x)[i] = s[i]
           /\ Append(s, x)[Len(s) + 1] = x
<1> DEFINE S == ToSet(s) \cup {x}
<1>1. s \in Seq(ToSet(s))
    BY ListIsSeq
<1>2. \A T : ToSet(s) \subseteq T => s \in Seq(T)
    BY <1>1
<1>3. s \in Seq(S) /\ x \in S
    BY <1>2
<1> HIDE DEF S
<1>4. Append(s, x) \in Seq(S)
    BY <1>3
<1>5. IsList(Append(s, x))
    BY <1>4, SeqIsList
<1> QED BY <1>3, <1>5

\* An entry for a new file is added to a true list.
HaveGrown(gs, more, fs, lists, id) ==
    /\ IsFiniteSet(DOMAIN fs) /\ DOMAIN fs \subseteq Nat /\ id \in Nat \ DOMAIN fs
    /\ DOMAIN gs = DOMAIN fs \cup {id}
    /\ \A x \in DOMAIN fs : gs[x] = fs[x] /\ more[x] = lists[x]

LEMMA ListGrows ==
    ASSUME NEW list, NEW fs, NEW lists, NEW fromFile, ListIsOf(list, fs, lists, fromFile),
           NEW meta, NEW gs, NEW more, HaveGrown(gs, more, fs, lists, meta.id),
           MetaIsTrue(meta, gs[meta.id], more[meta.id], FALSE)
    PROVE  ListIsOf(ById(Append(list, meta)), gs, more, fromFile \ {meta.id})
<1> USE DEF HaveGrown
<1> DEFINE id == meta.id
           s == Append(list, meta)
           n == Len(list)
           key == [i \in DOMAIN s |-> s[i].id]
           r == ById(s)
<1>1. /\ IsList(list) /\ Ids(list) = DOMAIN fs /\ n = Cardinality(DOMAIN fs)
      /\ \A k \in 1..n :
            /\ list[k].id \in DOMAIN fs
            /\ MetaIsTrue(list[k], fs[list[k].id], lists[list[k].id], list[k].id \in fromFile)
    BY DEF ListIsOf
<1>2. n \in Nat /\ DOMAIN list = 1..n
    BY <1>1 DEF IsList
<1>3. /\ IsList(s) /\ Len(s) = n + 1 /\ s[n + 1] = meta
      /\ \A i \in 1..n : s[i] = list[i]
    BY <1>1, AppendIs
<1> HIDE DEF s
<1>4. DOMAIN s = 1..(n + 1)
    BY <1>3 DEF IsList
<1>5. \A i \in 1..(n + 1) : (i \in 1..n /\ s[i] = list[i]) \/ (i = n + 1 /\ s[i] = meta)
    BY <1>2, <1>3
<1>6. \A i \in 1..(n + 1) : s[i].id \in Nat
    BY <1>1, <1>5
<1>7. r = Arranged(s, DOMAIN s, key) /\ \A i \in DOMAIN s : key[i] = s[i].id
    BY DEF ById
<1> HIDE DEF r, key
<1>8. Sortable(DOMAIN s, key)
    <2>1. IsFiniteSet(1..(n + 1))
        BY <1>2, FirstNumbers
    <2>2. \A p \in 1..(n + 1) : p \in Int /\ key[p] \in Int
        BY <1>2, <1>4, <1>6, <1>7
    <2> QED BY <1>4, <2>1, <2>2 DEF Sortable
<1>9. Arranges(r, s, DOMAIN s, key)
    BY <1>7, <1>8, ArrangedIs
<1>10. /\ IsList(r) /\ Len(r) = Cardinality(DOMAIN s)
       /\ ToSet(r) = {s[p] : p \in DOMAIN s}
    BY <1>9, ArrangedHas
<1>11. Len(r) = Cardinality(DOMAIN gs)
    <2>1. Cardinality(1..(n + 1)) = n + 1
        BY <1>2, FirstNumbers
    <2>2. Cardinality(DOMAIN fs \cup {id}) = Cardinality(DOMAIN fs) + 1
        BY FS_AddElement
    <2> QED BY <1>1, <1>4, <1>10, <2>1, <2>2
<1>12. DOMAIN r = 1..Len(r) /\ \A k \in 1..Len(r) : \E p \in 1..(n + 1) : r[k] = s[p]
    <2>1. DOMAIN r = 1..Len(r)
        BY <1>10 DEF IsList
    <2>2. ASSUME NEW k \in 1..Len(r) PROVE \E p \in 1..(n + 1) : r[k] = s[p]
        <3>1. r[k] \in ToSet(r)
            BY <2>1 DEF ToSet
        <3> QED BY <1>4, <1>10, <3>1
    <2> QED BY <2>1, <2>2
<1>13. ASSUME NEW k \in 1..Len(r)
       PROVE  /\ r[k].id \in DOMAIN gs
              /\ MetaIsTrue(r[k], gs[r[k].id], more[r[k].id], r[k].id \in fromFile \ {id})
    <2>1. PICK p \in 1..(n + 1) : r[k] = s[p]
        BY <1>12
    <2>2. CASE p \in 1..n /\ s[p] = list[p]
        <3>1. r[k] = list[p] /\ list[p].id \in DOMAIN fs /\ list[p].id # id
            BY <1>1, <2>1, <2>2
        <3>2. (r[k].id \in fromFile \ {id}) = (r[k].id \in fromFile)
            BY <3>1
        <3>3. gs[r[k].id] = fs[r[k].id] /\ more[r[k].id] = lists[r[k].id]
            BY <3>1
        <3>4. MetaIsTrue(r[k], fs[r[k].id], lists[r[k].id], r[k].id \in fromFile)
            BY <1>1, <2>2, <3>1
        <3> QED BY <3>1, <3>2, <3>3, <3>4
    <2>3. CASE p = n + 1 /\ s[p] = meta
        <3>1. (r[k].id \in fromFile \ {id}) = FALSE /\ r[k] = meta /\ r[k].id \in DOMAIN gs
            BY <2>1, <2>3
        <3> QED BY <3>1
    <2> QED BY <1>5, <2>2, <2>3
<1>14. Ids(r) = DOMAIN gs
    <2>1. Ids(r) \subseteq DOMAIN gs
        BY <1>12, <1>13 DEF Ids
    <2>2. ASSUME NEW x \in DOMAIN gs PROVE x \in Ids(r)
        <3>1. \E p \in 1..(n + 1) : s[p].id = x
            <4>1. CASE x = id
                BY <1>2, <1>3, <4>1
            <4>2. CASE x \in DOMAIN fs
                <5>0. Ids(list) = DOMAIN fs /\ x \in Ids(list)
                    BY <1>1, <4>2
                <5>1. PICK i \in 1..n : list[i].id = x
                    BY <1>2, <5>0 DEF Ids
                <5>2. i \in 1..(n + 1)
                    BY <1>2
                <5> QED BY <1>3, <5>1, <5>2
            <4> QED BY <4>1, <4>2
        <3>2. PICK p \in 1..(n + 1) : s[p].id = x
            BY <3>1
        <3>3. s[p] \in ToSet(r)
            BY <1>4, <1>10
        <3>4. PICK k \in DOMAIN r : r[k] = s[p]
            BY <3>3 DEF ToSet
        <3> QED BY <3>2, <3>4 DEF Ids
    <2> QED BY <2>1, <2>2
<1>15. ListIsOf(r, gs, more, fromFile \ {id})
    BY <1>10, <1>11, <1>13, <1>14 DEF ListIsOf
<1> QED BY <1>15 DEF r, s

\* A sum over one more.
LEMMA SumGrows ==
    ASSUME NEW f, IsFiniteSet(DOMAIN f), NEW e, e \notin DOMAIN f,
           NEW g, DOMAIN g = DOMAIN f \cup {e}, g[e] \in Nat,
           \A x \in DOMAIN f : f[x] \in Nat /\ g[x] = f[x]
    PROVE  SumFunction(f) \in Nat /\ SumFunction(g) = g[e] + SumFunction(f)
<1> DEFINE D == DOMAIN f
           S == D \cup {e}
<1>1. IsFiniteSet(S) /\ \A x \in S : g[x] \in Int
    BY FS_AddElement
<1>2. e \in S /\ S \ {e} = D
    OBVIOUS
<1>3. \A x \in D : f[x] \in Int /\ g[x] = f[x] /\ f[x] \in Nat
    OBVIOUS
<1>4. SumFunction(f) = SumFunctionOnSet(f, D) /\ SumFunction(g) = SumFunctionOnSet(g, S)
    BY DEF SumFunction
<1> HIDE DEF S, D
<1>5. SumFunctionOnSet(g, S) = g[e] + SumFunctionOnSet(g, S \ {e})
    BY <1>1, <1>2, SumTakesOut
<1>6. IsFiniteSet(D)
    BY DEF D
<1>7. SumFunctionOnSet(g, D) = SumFunctionOnSet(f, D)
    BY <1>3, <1>6, SumsAreEqual
<1>8. SumFunctionOnSet(f, D) \in Nat
    BY <1>3, <1>6, SumOfNats
<1> QED BY <1>2, <1>4, <1>5, <1>7, <1>8

\* A file more, in what is kept of the files, and its part in the totals.
FileIsAdded(id, file, lists) ==
    /\ files' = [x \in DOMAIN files \cup {id} |-> IF x = id THEN file ELSE files[x]]
    /\ sealed' = [x \in DOMAIN files \cup {id} |-> IF x = id THEN lists ELSE sealed[x]]

LEMMA FilesStayWritten ==
    ASSUME FilesAreWritten, NEW id, id \in Nat \ DOMAIN files, NEW file, NEW lists,
           NEW dictLen, WrittenV2(file, id, lists, TemplatesIn(file), dictLen),
           FileIsAdded(id, file, lists)
    PROVE  FilesAreWritten'
<1> DEFINE templates == TemplatesIn(file)
<1> HIDE DEF templates
<1>0. WrittenV2(file, id, lists, templates, dictLen) /\ TemplatesIn(file) = templates
      /\ dictLen \in {0, 1024}
    BY DEF WrittenV2, templates
<1>1. /\ IsFiniteSet(DOMAIN files) /\ DOMAIN files \subseteq Nat
      /\ \A x \in DOMAIN files :
            \/ WrittenV1(files[x], x, sealed[x])
            \/ \E ts \in {TemplatesIn(files[x])}, n \in {0, 1024} :
                  WrittenV2(files[x], x, sealed[x], ts, n)
    BY DEF FilesAreWritten
<1>2. /\ DOMAIN files' = DOMAIN files \cup {id} /\ DOMAIN sealed' = DOMAIN files'
      /\ files'[id] = file /\ sealed'[id] = lists
      /\ \A x \in DOMAIN files : files'[x] = files[x] /\ sealed'[x] = sealed[x]
    BY DEF FileIsAdded
<1>3. IsFiniteSet(DOMAIN files \cup {id})
    BY <1>1, FS_AddElement
<1>4. ASSUME NEW x \in DOMAIN files'
      PROVE  \/ WrittenV1(files'[x], x, sealed'[x])
             \/ \E ts \in {TemplatesIn(files'[x])}, n \in {0, 1024} :
                   WrittenV2(files'[x], x, sealed'[x], ts, n)
    <2>1. CASE x = id
        BY <1>0, <1>2, <2>1
    <2>2. CASE x \in DOMAIN files
        <3>1. files'[x] = files[x] /\ sealed'[x] = sealed[x]
            BY <1>2, <2>2
        <3> QED BY <1>1, <2>2, <3>1
    <2> QED BY <1>2, <2>1, <2>2
<1>5. FilesAreWritten'
    BY <1>1, <1>2, <1>3, <1>4 DEF FilesAreWritten
<1> QED BY <1>5

LEMMA TotalsGrow ==
    ASSUME FilesAreWritten, TotalsSurvive, up, totals \in Nat \X Nat,
           NEW id \in Nat \ DOMAIN files, NEW file, NEW lists, FileIsAdded(id, file, lists),
           NEW n \in Nat, Len(FlattenSeq(lists)) = n,
           totals' = <<totals[1] + 100 * n, totals[2] + 40 * n>>
    PROVE  TotalsSurvive' /\ (totals \in Nat \X Nat)'
<1> DEFINE f == [x \in DOMAIN files |-> Len(LinesIn(x))]
           g == [x \in DOMAIN files' |-> Len(FlattenSeq(sealed'[x]))]
<1>1. /\ IsFiniteSet(DOMAIN files) /\ DOMAIN files' = DOMAIN files \cup {id}
      /\ files'[id] = file /\ sealed'[id] = lists
      /\ \A x \in DOMAIN files : files'[x] = files[x] /\ sealed'[x] = sealed[x]
    BY DEF FilesAreWritten, FileIsAdded
<1>2. \A x \in DOMAIN files : f[x] \in Nat
    <2> TAKE x \in DOMAIN files
    <2>1. FileSaysAll(files[x], x, sealed[x])
        BY FilesAreKnown
    <2> QED BY <2>1 DEF FileSaysAll, IsList, LinesIn
<1>3. DOMAIN f = DOMAIN files /\ DOMAIN g = DOMAIN files \cup {id} /\ g[id] = n
    BY <1>1
<1>4. \A x \in DOMAIN files : g[x] = f[x]
    BY <1>1 DEF LinesIn
<1>5. /\ SumFunction([x \in DOMAIN files |-> Len(LinesIn(x))]) = SumFunction(f)
      /\ SumFunction([x \in DOMAIN files' |-> Len(FlattenSeq(sealed'[x]))]) = SumFunction(g)
    OBVIOUS
<1> HIDE DEF f, g
<1>6. SumFunction(f) \in Nat /\ SumFunction(g) = n + SumFunction(f)
    <2>1. /\ IsFiniteSet(DOMAIN f) /\ id \notin DOMAIN f /\ DOMAIN g = DOMAIN f \cup {id}
          /\ g[id] \in Nat
        BY <1>1, <1>3
    <2>2. \A x \in DOMAIN f : f[x] \in Nat /\ g[x] = f[x]
        BY <1>2, <1>3, <1>4
    <2>3. SumFunction(f) \in Nat /\ SumFunction(g) = g[id] + SumFunction(f)
        BY <2>1, <2>2, SumGrows
    <2> QED BY <1>3, <2>3
<1>7. ASSUME \A x \in DOMAIN files' : ~(HeaderOf(files'[x])[1].dict_len > 0)
      PROVE  totals' = <<100 * SumFunction(g), 40 * SumFunction(g)>>
    <2>1. \A x \in DOMAIN files : ~HasDict(x)
        BY <1>1, <1>7 DEF HasDict
    <2>2. totals = <<100 * SumFunction(f), 40 * SumFunction(f)>>
        BY <1>5, <2>1 DEF TotalsSurvive
    <2>3. totals' = <<100 * SumFunction(f) + 100 * n, 40 * SumFunction(f) + 40 * n>>
        BY <2>2
    <2> QED BY SMTT(40), <1>6, <2>3
<1>8. TotalsSurvive'
    BY <1>5, <1>7 DEF TotalsSurvive, HasDict, LinesIn
<1>9. totals[1] \in Nat /\ totals[2] \in Nat
    OBVIOUS
<1> QED BY <1>8, <1>9

\* What a flush does, of the file that it writes.
Flushes(file, lists, templates, dictLen, meta) ==
    /\ FileIsAdded(next_id, file, lists) /\ dictLen \in {0, 1024}
    /\ WrittenV2(file, next_id, lists, templates, dictLen)
    /\ TemplatesIn(file) = templates /\ AreRead(templates) /\ FlattenSeq(lists) = buffer
    /\ meta.id = next_id /\ MetaIsTrue(meta, file, lists, FALSE)
    /\ segments' = ById(Append(segments, meta))
    /\ keywords' = WithKeywords(keywords, templates)
    /\ totals' = <<totals[1] + 100 * Len(buffer), totals[2] + 40 * Len(buffer)>>

LEMMA FlushIs ==
    ASSUME IInv, Flush
    PROVE  \E file, lists, templates, dictLen, meta :
                Flushes(file, lists, templates, dictLen, meta)
<1>1. /\ TypeOK /\ FilesAreWritten /\ TotalsSurvive /\ up /\ buffer # <<>>
      /\ ListIsOf(segments, files, sealed, scanned)
      /\ \A id \in DOMAIN files : WordsAreMapped(keywords, TemplatesIn(files[id]))
    BY DEF IInv, Flush
<1>2. /\ config \in Configs /\ buffer \in Seq(Lines) /\ next_id \in Nat \ DOMAIN files
      /\ IsMap(keywords) /\ totals \in Nat \X Nat /\ scanned \subseteq DOMAIN files
      /\ DOMAIN files \subseteq Nat /\ IsFiniteSet(DOMAIN files)
      /\ \A id \in DOMAIN files : id < next_id
    BY <1>1 DEF TypeOK, IsMap, FilesAreWritten
<1>3. PICK templates \in SetToSeqs({TemplateOf(l, buffer) : l \in ToSet(buffer)}) :
        LET chunks == ChunksOf(buffer, templates)
            dictLen == IF Len(chunks) >= config.dict /\ Len(chunks) >= 2 THEN 1024 ELSE 0
            times == {l.ts : l \in ToSet(buffer)}
            meta == [id |-> next_id, min_ts |-> Min(times), max_ts |-> Max(times),
                     line_count |-> Len(buffer),
                     summary |-> SummaryOf([i \in DOMAIN chunks |-> chunks[i].summary])]
            original == [i \in DOMAIN chunks |-> chunks[i].entry.original_sz]
            compressed == [i \in DOMAIN chunks |-> chunks[i].entry.compressed_sz]
        IN /\ files' = [id \in DOMAIN files \cup {next_id} |->
                           IF id = next_id
                           THEN SegmentFile(id, templates, 16 * Len(templates), dictLen, chunks)
                           ELSE files[id]]
           /\ sealed' = [id \in DOMAIN files \cup {next_id} |->
                            IF id = next_id
                            THEN [i \in DOMAIN chunks |-> chunks[i].lines]
                            ELSE sealed[id]]
           /\ segments' = ById(Append(segments, meta))
           /\ totals' = <<totals[1] + SumFunction(original),
                          totals[2] + SumFunction(compressed)>>
           /\ keywords' = WithKeywords(keywords, templates)
    BY DEF Flush
<1> DEFINE chunks == ChunksOf(buffer, templates)
           dictLen == IF Len(chunks) >= config.dict /\ Len(chunks) >= 2 THEN 1024 ELSE 0
           file == SegmentFile(next_id, templates, 16 * Len(templates), dictLen, chunks)
           lists == [i \in DOMAIN chunks |-> chunks[i].lines]
           times == {l.ts : l \in ToSet(buffer)}
           meta == [id |-> next_id, min_ts |-> Min(times), max_ts |-> Max(times),
                    line_count |-> Len(buffer),
                    summary |-> SummaryOf([i \in DOMAIN chunks |-> chunks[i].summary])]
           n == Len(buffer)
<1>4. /\ files' = [id \in DOMAIN files \cup {next_id} |-> IF id = next_id THEN file ELSE files[id]]
      /\ sealed' = [id \in DOMAIN files \cup {next_id} |-> IF id = next_id THEN lists ELSE sealed[id]]
    BY <1>3
<1>5. /\ segments' = ById(Append(segments, meta)) /\ keywords' = WithKeywords(keywords, templates)
      /\ totals' = <<totals[1] + SumFunction([i \in DOMAIN chunks |-> chunks[i].entry.original_sz]),
                     totals[2] + SumFunction([i \in DOMAIN chunks |-> chunks[i].entry.compressed_sz])>>
    BY <1>3
<1>6. meta.id = next_id /\ dictLen \in {0, 1024}
    OBVIOUS
<1> HIDE DEF dictLen
<1>7. Made(chunks, buffer, templates, next_id, dictLen)
    <2>1. templates \in SetToSeqs(TemplatesOf(buffer))
        BY DEF TemplatesOf
    <2> HIDE DEF chunks
    <2> QED BY <1>1, <1>2, <1>6, <2>1, FlushMakes DEF chunks
<1> HIDE DEF chunks
<1>8. /\ WrittenV2(file, next_id, lists, templates, dictLen) /\ IsV2(file, next_id, lists, dictLen)
      /\ TemplatesIn(file) = templates /\ FlattenSeq(lists) = buffer /\ AreRead(templates)
      /\ MetaIsTrue(meta, file, lists, FALSE)
      /\ SumFunction([i \in DOMAIN chunks |-> chunks[i].entry.original_sz]) = 100 * n
      /\ SumFunction([i \in DOMAIN chunks |-> chunks[i].entry.compressed_sz]) = 40 * n
    BY <1>7 DEF Made
<1>9. totals' = <<totals[1] + 100 * n, totals[2] + 40 * n>>
    BY <1>5, <1>8
<1>10. n \in Nat
    BY <1>2
<1> HIDE DEF file, lists, meta, n
<1>11. FileIsAdded(next_id, file, lists)
    BY <1>4 DEF FileIsAdded
<1>12. Flushes(file, lists, templates, dictLen, meta)
    BY ZenonT(60), <1>5, <1>6, <1>8, <1>9, <1>11 DEF Flushes, n
<1> QED BY <1>12

LEMMA FlushKeeps == ASSUME IInv, Flush PROVE IInv'
<1>1. /\ TypeOK /\ FilesAreWritten /\ TotalsSurvive /\ up /\ buffer # <<>>
      /\ ListIsOf(segments, files, sealed, scanned)
      /\ \A id \in DOMAIN files : WordsAreMapped(keywords, TemplatesIn(files[id]))
    BY DEF IInv, Flush
<1>2. /\ config \in Configs /\ buffer \in Seq(Lines) /\ next_id \in Nat \ DOMAIN files
      /\ IsMap(keywords) /\ totals \in Nat \X Nat /\ scanned \subseteq DOMAIN files
      /\ DOMAIN files \subseteq Nat /\ IsFiniteSet(DOMAIN files)
      /\ \A id \in DOMAIN files : id < next_id
    BY <1>1 DEF TypeOK, IsMap, FilesAreWritten
<1>3. PICK file, lists, templates, dictLen, meta :
          Flushes(file, lists, templates, dictLen, meta)
    BY FlushIs
<1> DEFINE n == Len(buffer)
<1>8. /\ WrittenV2(file, next_id, lists, templates, dictLen)
      /\ TemplatesIn(file) = templates /\ FlattenSeq(lists) = buffer /\ AreRead(templates)
      /\ MetaIsTrue(meta, file, lists, FALSE) /\ meta.id = next_id /\ dictLen \in {0, 1024}
    BY ZenonT(60), <1>3 DEF Flushes
<1>5. segments' = ById(Append(segments, meta)) /\ keywords' = WithKeywords(keywords, templates)
    BY <1>3 DEF Flushes
<1>9. totals' = <<totals[1] + 100 * n, totals[2] + 40 * n>>
    BY <1>3 DEF Flushes
<1>10. n \in Nat
    BY <1>2
<1>11. FileIsAdded(next_id, file, lists)
    BY <1>3 DEF Flushes
<1>12. /\ FilesAreWritten'
       /\ DOMAIN files' = DOMAIN files \cup {next_id} /\ DOMAIN sealed' = DOMAIN files'
       /\ files'[next_id] = file /\ sealed'[next_id] = lists
       /\ \A x \in DOMAIN files : files'[x] = files[x] /\ sealed'[x] = sealed[x]
    <2>1. FilesAreWritten /\ next_id \in Nat \ DOMAIN files /\ dictLen \in {0, 1024}
        BY <1>1, <1>2, <1>8
    <2>2. WrittenV2(file, next_id, lists, templates, dictLen) /\ TemplatesIn(file) = templates
        BY <1>8
    <2>3. FilesAreWritten'
        <3>1. next_id \in Nat \ DOMAIN files
            BY <2>1
        <3>2. WrittenV2(file, next_id, lists, TemplatesIn(file), dictLen)
            BY <2>2
        <3> QED BY <1>11, <2>1, <3>1, <3>2, FilesStayWritten
    <2>4. /\ DOMAIN files' = DOMAIN files \cup {next_id} /\ DOMAIN sealed' = DOMAIN files'
          /\ files'[next_id] = file /\ sealed'[next_id] = lists
          /\ \A x \in DOMAIN files : files'[x] = files[x] /\ sealed'[x] = sealed[x]
        BY <1>11, <2>1 DEF FileIsAdded
    <2> QED BY <2>3, <2>4
<1>13. TotalsSurvive' /\ (totals \in Nat \X Nat)'
    BY <1>1, <1>2, <1>8, <1>9, <1>10, <1>11, TotalsGrow DEF n
<1>14. ListIsOf(segments', files', sealed', scanned')
    <2>1. MetaIsTrue(meta, files'[meta.id], sealed'[meta.id], FALSE)
        BY ZenonT(60), <1>8, <1>8, <1>12
    <2>2. meta.id \in Nat \ DOMAIN files /\ DOMAIN files' = DOMAIN files \cup {meta.id}
        BY <1>2, <1>8, <1>12
    <2>3. ListIsOf(ById(Append(segments, meta)), files', sealed', scanned \ {meta.id})
        <3>1. /\ ListIsOf(segments, files, sealed, scanned)
              /\ IsFiniteSet(DOMAIN files) /\ DOMAIN files \subseteq Nat
            BY <1>1, <1>2
        <3>2. \A x \in DOMAIN files : files'[x] = files[x] /\ sealed'[x] = sealed[x]
            BY <1>12
        <3> DEFINE fs == files'
                   ls == sealed'
        <3>3. /\ DOMAIN fs = DOMAIN files \cup {meta.id}
              /\ \A x \in DOMAIN files : fs[x] = files[x] /\ ls[x] = sealed[x]
              /\ MetaIsTrue(meta, fs[meta.id], ls[meta.id], FALSE)
            BY <2>1, <2>2, <3>2
        <3> HIDE DEF fs, ls
        <3>4. HaveGrown(fs, ls, files, sealed, meta.id)
            BY <2>2, <3>1, <3>3 DEF HaveGrown
        <3>5. ListIsOf(ById(Append(segments, meta)), fs, ls, scanned \ {meta.id})
            BY <3>1, <3>3, <3>4, ListGrows
        <3> QED BY <3>5 DEF fs, ls
    <2>4. scanned' = scanned \ {meta.id}
        BY <1>8 DEF Flush
    <2> QED BY <1>5, <2>3, <2>4
<1>15. /\ IsMap(WithKeywords(keywords, templates))
       /\ WordsAreMapped(WithKeywords(keywords, templates), templates)
       /\ \A w \in MapWords :
             ToSet(keywords[w]) \subseteq ToSet(WithKeywords(keywords, templates)[w])
    BY <1>2, <1>8, WithKeywordsIs
<1>16. IsMap(keywords') /\ \A id \in DOMAIN files' : WordsAreMapped(keywords', TemplatesIn(files'[id]))
    <2>1. WordsAreMapped(keywords', TemplatesIn(files'[next_id]))
        BY <1>5, <1>8, <1>12, <1>15
    <2>2. ASSUME NEW id \in DOMAIN files PROVE WordsAreMapped(keywords', TemplatesIn(files'[id]))
        <3>1. files'[id] = files[id] /\ WordsAreMapped(keywords, TemplatesIn(files[id]))
            BY <1>1, <1>12
        <3>2. \A w \in MapWords : ToSet(keywords[w]) \subseteq ToSet(keywords'[w])
            BY <1>5, <1>15
        <3> DEFINE of == TemplatesIn(files[id])
        <3>3. WordsAreMapped(keywords, of)
            BY <3>1
        <3> HIDE DEF of
        <3>4. WordsAreMapped(keywords', of)
            BY <3>2, <3>3 DEF WordsAreMapped
        <3> QED BY <3>1, <3>4 DEF of
    <2> QED BY <1>5, <1>12, <1>15, <2>1, <2>2
<1>17. /\ manifest' = Listed(segments') /\ next_id' = next_id + 1 /\ buffer' = <<>>
       /\ scanned' = scanned \ {next_id} /\ config' = config /\ up' = up
    BY DEF Flush
<1>18. manifest'.state = "listed" /\ manifest'.list = segments'
    BY <1>17 DEF Listed
<1>19. TypeOK'
    <2>1. up' => \A id \in DOMAIN files' : id < next_id'
        BY <1>2, <1>12, <1>17
    <2>2. Ids(segments') = DOMAIN files'
        BY <1>14 DEF ListIsOf
    <2>3. \A list \in {segments', manifest'.list} : Ids(list) \subseteq DOMAIN files'
        BY <1>18, <2>2
    <2>4. /\ config' \in Configs /\ up' \in BOOLEAN /\ DOMAIN files' \subseteq Nat
          /\ next_id' \in Nat /\ buffer' \in Seq(Lines) /\ scanned' \subseteq DOMAIN files'
          /\ manifest'.state \in {"missing", "unreadable", "listed"}
        BY <1>1, <1>2, <1>12, <1>17, <1>18 DEF TypeOK
    <2>5. keywords' \in [MapWords -> Seq(Nat)]
        BY <1>16 DEF IsMap
    <2> QED BY <1>12, <1>13, <2>1, <2>3, <2>4, <2>5 DEF TypeOK
<1>20. ListIsOf(manifest'.list, files', sealed', scanned')
    BY <1>14, <1>18
<1> QED BY <1>12, <1>13, <1>14, <1>16, <1>18, <1>19, <1>20 DEF IInv

-----------------------------------------------------------------------------
(* The other actions.                                                       *)

LEMMA InitHas == ASSUME Init PROVE IInv
<1>1. /\ config \in Configs /\ up = FALSE /\ segments = <<>> /\ manifest = Missing
      /\ next_id = 1 /\ keywords = NoKeywords /\ buffer = <<>> /\ totals = <<0, 0>>
      /\ scanned = {}
    BY DEF Init
<1>2. \/ files = <<>> /\ sealed = <<>>
      \/ /\ files = [id \in {1} |-> SegmentFileV1(1, LegacyChunk)]
         /\ sealed = [id \in {1} |-> <<LegacyLines>>]
    BY DEF Init, LegacyChunk
<1>3. FilesAreWritten
    <2>1. CASE files = <<>> /\ sealed = <<>>
        <3>1. DOMAIN files = {} /\ DOMAIN sealed = {} /\ IsFiniteSet({})
            BY <2>1, EmptyList, FS_EmptySet
        <3> QED BY <3>1 DEF FilesAreWritten
    <2>2. CASE /\ files = [id \in {1} |-> SegmentFileV1(1, LegacyChunk)]
               /\ sealed = [id \in {1} |-> <<LegacyLines>>]
        <3>0. DOMAIN files = {1} /\ DOMAIN sealed = {1}
            BY <2>2
        <3>f. IsFiniteSet({1})
            BY FS_Singleton
        <3>1. DOMAIN files = {1} /\ DOMAIN sealed = {1} /\ IsFiniteSet({1}) /\ {1} \subseteq Nat
            BY <3>0, <3>f
        <3>2. files[1] = SegmentFileV1(1, LegacyChunk) /\ sealed[1] = <<LegacyLines>>
            BY <2>2
        <3>3. WrittenV1(files[1], 1, sealed[1])
            BY <3>2 DEF WrittenV1
        <3>4. \A id \in DOMAIN files : WrittenV1(files[id], id, sealed[id])
            BY <3>1, <3>3
        <3> QED BY <3>1, <3>4 DEF FilesAreWritten
    <2> QED BY <1>2, <2>1, <2>2
<1>4. manifest.list = <<>> /\ manifest.state = "missing"
    BY <1>1 DEF Missing
<1>5. \A list \in {segments, manifest.list} : Ids(list) \subseteq DOMAIN files
    BY <1>1, <1>4, EmptyList DEF Ids
<1>6. keywords \in [MapWords -> Seq(Nat)]
    BY <1>1 DEF NoKeywords
<1>7. TypeOK
    <2>1. buffer \in Seq(Lines) /\ totals \in Nat \X Nat /\ next_id \in Nat
          /\ scanned \subseteq DOMAIN files
        BY <1>1
    <2>2. up = FALSE /\ config \in Configs
        BY <1>1
    <2>3. DOMAIN files \subseteq Nat /\ DOMAIN sealed = DOMAIN files
        BY <1>3 DEF FilesAreWritten
    <2> QED BY <1>4, <1>5, <1>6, <2>1, <2>2, <2>3 DEF TypeOK
<1> QED BY <1>1, <1>3, <1>4, <1>7 DEF IInv, TotalsSurvive

\* An engine that has a true list of the files, from wherever it was read.
Opens(list, from) ==
    /\ ListIsOf(list, files, sealed, from) /\ from \subseteq DOMAIN files
    /\ up' = TRUE /\ segments' = list /\ next_id' = NextAfter(list) /\ scanned' = from
    /\ IsMap(keywords')
    /\ \A id \in DOMAIN files : WordsAreMapped(keywords', TemplatesIn(files[id]))
    /\ manifest'.state \in {"missing", "unreadable", "listed"}
    /\ manifest'.state = "listed" => manifest'.list = list
    /\ manifest'.state # "listed" => manifest'.list = <<>>
    /\ UNCHANGED <<config, files, buffer, sealed>>
    /\ totals' = AllTotals \/ (up /\ totals' = totals)

LEMMA TotalsStay ==
    ASSUME FilesAreWritten, TypeOK, TotalsSurvive, UNCHANGED <<files, sealed>>,
           totals' = AllTotals \/ (up /\ totals' = totals)
    PROVE  TotalsSurvive' /\ (totals \in Nat \X Nat)'
<1> DEFINE sum == SumFunction([id \in DOMAIN files |-> Len(LinesIn(id))])
<1>1. totals' \in Nat \X Nat
    <2>1. AllTotals \in Nat \X Nat
        BY TotalsOfFiles
    <2>2. totals \in Nat \X Nat
        BY DEF TypeOK
    <2> QED BY <2>1, <2>2
<1>2. (\A id \in DOMAIN files : ~HasDict(id)) => totals' = <<100 * sum, 40 * sum>>
    <2>1. CASE totals' = AllTotals
        BY <2>1, TotalsOfFiles
    <2>2. CASE up /\ totals' = totals
        BY <2>2 DEF TotalsSurvive
    <2> QED BY <2>1, <2>2
<1>3. TotalsSurvive'
    BY <1>2 DEF TotalsSurvive, HasDict, LinesIn
<1> QED BY <1>1, <1>3

LEMMA OpensKeeps ==
    ASSUME IInv, NEW list, NEW from, Opens(list, from)
    PROVE  IInv'
<1>1. /\ ListIsOf(list, files, sealed, from) /\ from \subseteq DOMAIN files
      /\ up' = TRUE /\ segments' = list /\ next_id' = NextAfter(list) /\ scanned' = from
      /\ IsMap(keywords')
      /\ \A id \in DOMAIN files : WordsAreMapped(keywords', TemplatesIn(files[id]))
      /\ manifest'.state \in {"missing", "unreadable", "listed"}
      /\ manifest'.state = "listed" => manifest'.list = list
      /\ manifest'.state # "listed" => manifest'.list = <<>>
      /\ config' = config /\ files' = files /\ buffer' = buffer /\ sealed' = sealed
    BY DEF Opens
<1>2. /\ FilesAreWritten /\ TypeOK /\ TotalsSurvive
      /\ IsFiniteSet(DOMAIN files) /\ DOMAIN files \subseteq Nat /\ DOMAIN sealed = DOMAIN files
      /\ config \in Configs /\ buffer \in Seq(Lines)
    BY DEF IInv, TypeOK, FilesAreWritten
<1>3. IsList(list) /\ Ids(list) = DOMAIN files
    BY <1>1 DEF ListIsOf
<1>4. NextAfter(list) \in Nat /\ \A id \in Ids(list) : id < NextAfter(list)
    BY <1>2, <1>3, NextAfterIs
<1>5. TotalsSurvive' /\ (totals \in Nat \X Nat)'
    BY <1>2, TotalsStay DEF Opens
<1>6. FilesAreWritten'
    BY <1>1, <1>2 DEF FilesAreWritten
<1>7. Ids(<<>>) = {}
    BY EmptyList DEF Ids
<1>8. \A l \in {segments', manifest'.list} : Ids(l) \subseteq DOMAIN files'
    BY <1>1, <1>3, <1>7
<1>9. keywords' \in [MapWords -> Seq(Nat)]
    BY <1>1 DEF IsMap
<1>10. TypeOK'
    BY <1>1, <1>2, <1>3, <1>4, <1>5, <1>8, <1>9 DEF TypeOK
<1>11. ListIsOf(segments', files', sealed', scanned')
    BY <1>1
<1>12. manifest'.state = "listed" => ListIsOf(manifest'.list, files', sealed', scanned')
    BY <1>1
<1>13. \A id \in DOMAIN files' : WordsAreMapped(keywords', TemplatesIn(files'[id]))
    BY <1>1
<1> QED BY <1>1, <1>5, <1>6, <1>10, <1>11, <1>12, <1>13 DEF IInv

LEMMA NoKeywordsIs == IsMap(NoKeywords)
BY DEF IsMap, NoKeywords

\* The files without a summary in the list have no templates.
LEMMA SummaryOrNone ==
    ASSUME FilesAreWritten, NEW list, NEW from, ListIsOf(list, files, sealed, from)
    PROVE  LET ids == {m.id : m \in {x \in ToSet(list) : x.summary.has_summary}}
           IN /\ ids \subseteq DOMAIN files
              /\ \A id \in DOMAIN files \ ids : TemplatesIn(files[id]) = <<>>
<1> DEFINE ids == {m.id : m \in {x \in ToSet(list) : x.summary.has_summary}}
<1>1. /\ DOMAIN list = 1..Len(list) /\ Ids(list) = DOMAIN files
      /\ \A k \in 1..Len(list) : MetaIsTrue(list[k], files[list[k].id], sealed[list[k].id],
                                            list[k].id \in from)
    BY DEF ListIsOf, IsList
<1>2. ids \subseteq Ids(list)
    BY DEF Ids, ToSet
<1>3. ASSUME NEW id \in DOMAIN files \ ids PROVE TemplatesIn(files[id]) = <<>>
    <2>1. id \in Ids(list)
        BY <1>1
    <2>2. PICK k \in DOMAIN list : list[k].id = id
        BY <2>1 DEF Ids
    <2>3. list[k] \in ToSet(list)
        BY DEF ToSet
    <2>4. ~list[k].summary.has_summary
        BY <1>3, <2>2, <2>3
    <2>5. list[k].summary.has_summary = ~IsLegacy(files[id])
        BY <1>1, <2>2 DEF MetaIsTrue, MetaIsTyped
    <2>6. IsLegacy(files[id])
        BY <2>4, <2>5
    <2>7. \/ IsV1(files[id], id, sealed[id])
          \/ \E dictLen \in {0, 1024} : IsV2(files[id], id, sealed[id], dictLen)
        BY KindOf
    <2>8. ASSUME NEW dictLen, IsV2(files[id], id, sealed[id], dictLen) PROVE ~IsLegacy(files[id])
        BY <2>8 DEF IsV2, IsLegacy
    <2>9. IsV1(files[id], id, sealed[id])
        BY <2>6, <2>7, <2>8
    <2> QED BY <2>9 DEF IsV1
<1> QED BY <1>1, <1>2, <1>3

LEMMA OpenListedKeeps == ASSUME IInv, OpenListed PROVE IInv'
<1> DEFINE list == manifest.list
           ids == {m.id : m \in {n \in ToSet(list) : n.summary.has_summary}}
<1>1. /\ FilesAreWritten /\ ListIsOf(list, files, sealed, scanned)
      /\ scanned \subseteq DOMAIN files /\ manifest.state = "listed"
    BY DEF IInv, TypeOK, OpenListed
<1>2. /\ ids \subseteq DOMAIN files
      /\ \A id \in DOMAIN files \ ids : TemplatesIn(files[id]) = <<>>
    BY <1>1, SummaryOrNone
<1>3. /\ up' = TRUE /\ segments' = list /\ next_id' = NextAfter(list)
      /\ keywords' = KeywordsOfFiles(NoKeywords, ids) /\ totals' = AllTotals
      /\ UNCHANGED <<config, files, manifest, buffer, sealed, scanned>>
    BY DEF OpenListed
<1> HIDE DEF list, ids
<1>4. /\ IsMap(KeywordsOfFiles(NoKeywords, ids))
      /\ \A id \in DOMAIN files :
            WordsAreMapped(KeywordsOfFiles(NoKeywords, ids), TemplatesIn(files[id]))
    BY <1>1, <1>2, NoKeywordsIs, KeywordsOfFilesIs
<1>5. IsMap(keywords') /\ \A id \in DOMAIN files : WordsAreMapped(keywords', TemplatesIn(files[id]))
    BY <1>3, <1>4
<1>6. /\ manifest'.state \in {"missing", "unreadable", "listed"}
      /\ manifest'.state = "listed" => manifest'.list = list
      /\ manifest'.state # "listed" => manifest'.list = <<>>
    BY <1>1, <1>3 DEF list
<1>7. Opens(list, scanned)
    BY <1>1, <1>3, <1>5, <1>6 DEF Opens
<1> QED BY <1>7, OpensKeeps

\* What the scan of the files gives, for any map that is added to.
LEMMA ScanOpens ==
    ASSUME FilesAreWritten, NEW map, IsMap(map)
    PROVE  /\ ListIsOf(ScanAll, files, sealed, Ids(ScanAll)) /\ Ids(ScanAll) \subseteq DOMAIN files
           /\ IsMap(KeywordsOfFiles(map, Ids(ScanAll)))
           /\ \A id \in DOMAIN files :
                WordsAreMapped(KeywordsOfFiles(map, Ids(ScanAll)), TemplatesIn(files[id]))
<1>1. ListIsOf(ScanAll, files, sealed, Ids(ScanAll))
    BY ScanAllIs
<1>2. Ids(ScanAll) = DOMAIN files
    BY <1>1 DEF ListIsOf
<1> DEFINE ids == Ids(ScanAll)
<1>3. ids \subseteq DOMAIN files /\ \A id \in DOMAIN files \ ids : TemplatesIn(files[id]) = <<>>
    BY <1>2
<1> HIDE DEF ids
<1>4. /\ IsMap(KeywordsOfFiles(map, ids))
      /\ \A id \in DOMAIN files : WordsAreMapped(KeywordsOfFiles(map, ids), TemplatesIn(files[id]))
    BY <1>3, KeywordsOfFilesIs
<1> QED BY <1>1, <1>3, <1>4 DEF ids

LEMMA OpenScannedKeeps == ASSUME IInv, OpenScanned PROVE IInv'
<1> DEFINE list == ScanAll
<1>1. /\ FilesAreWritten /\ manifest.state # "listed" /\ manifest.list = <<>>
      /\ manifest.state \in {"missing", "unreadable", "listed"}
    BY DEF IInv, TypeOK, OpenScanned
<1>2. /\ up' = TRUE /\ segments' = list /\ next_id' = NextAfter(list) /\ scanned' = Ids(list)
      /\ keywords' = KeywordsOfFiles(NoKeywords, Ids(list)) /\ totals' = AllTotals
      /\ manifest' = IF manifest = Missing /\ segments' # <<>> THEN Listed(segments') ELSE manifest
      /\ UNCHANGED <<config, files, buffer, sealed>>
    BY DEF OpenScanned
<1>3. /\ ListIsOf(list, files, sealed, Ids(list)) /\ Ids(list) \subseteq DOMAIN files
      /\ IsMap(KeywordsOfFiles(NoKeywords, Ids(list)))
      /\ \A id \in DOMAIN files :
            WordsAreMapped(KeywordsOfFiles(NoKeywords, Ids(list)), TemplatesIn(files[id]))
    BY <1>1, NoKeywordsIs, ScanOpens
<1> HIDE DEF list
<1>4. /\ manifest'.state \in {"missing", "unreadable", "listed"}
      /\ manifest'.state = "listed" => manifest'.list = list
      /\ manifest'.state # "listed" => manifest'.list = <<>>
    <2>1. CASE manifest' = Listed(list)
        BY <2>1 DEF Listed
    <2>2. CASE manifest' = manifest
        BY <1>1, <2>2
    <2> QED BY <1>2, <2>1, <2>2
<1>5. IsMap(keywords') /\ \A id \in DOMAIN files : WordsAreMapped(keywords', TemplatesIn(files[id]))
    BY <1>2, <1>3
<1>6. Opens(list, Ids(list))
    BY <1>2, <1>3, <1>4, <1>5 DEF Opens
<1> QED BY <1>6, OpensKeeps

LEMMA RebuildKeeps == ASSUME IInv, Rebuild PROVE IInv'
<1> DEFINE list == ScanAll
<1>1. FilesAreWritten /\ IsMap(keywords) /\ up = TRUE
    BY DEF IInv, TypeOK, Rebuild, IsMap
<1>2. /\ up' = TRUE /\ segments' = list /\ next_id' = NextAfter(list) /\ scanned' = Ids(list)
      /\ keywords' = KeywordsOfFiles(keywords, Ids(list)) /\ manifest' = Listed(list)
      /\ UNCHANGED <<config, files, buffer, sealed>> /\ totals' = totals
    BY <1>1 DEF Rebuild
<1>3. /\ ListIsOf(list, files, sealed, Ids(list)) /\ Ids(list) \subseteq DOMAIN files
      /\ IsMap(KeywordsOfFiles(keywords, Ids(list)))
      /\ \A id \in DOMAIN files :
            WordsAreMapped(KeywordsOfFiles(keywords, Ids(list)), TemplatesIn(files[id]))
    BY <1>1, ScanOpens
<1> HIDE DEF list
<1>4. manifest'.state = "listed" /\ manifest'.list = list
    BY <1>2 DEF Listed
<1>5. IsMap(keywords') /\ \A id \in DOMAIN files : WordsAreMapped(keywords', TemplatesIn(files[id]))
    BY <1>2, <1>3
<1>6. Opens(list, Ids(list))
    BY <1>1, <1>2, <1>3, <1>4, <1>5 DEF Opens
<1> QED BY <1>6, OpensKeeps


LEMMA CloseKeeps == ASSUME IInv, Close PROVE IInv'
<1>1. /\ up' = FALSE
      /\ UNCHANGED <<config, files, segments, manifest, next_id, keywords, buffer, totals,
                     sealed, scanned>>
    BY DEF Close
<1>2. TypeOK'
    BY <1>1 DEF IInv, TypeOK
<1>3. FilesAreWritten'
    BY <1>1 DEF IInv, FilesAreWritten
<1>4. TotalsSurvive'
    BY <1>1 DEF TotalsSurvive
<1>5. /\ manifest'.state = "listed" => ListIsOf(manifest'.list, files', sealed', scanned')
      /\ manifest'.state # "listed" => manifest'.list = <<>>
    BY <1>1 DEF IInv
<1> QED BY <1>1, <1>2, <1>3, <1>4, <1>5 DEF IInv

LEMMA LoseManifestKeeps == ASSUME IInv, LoseManifest PROVE IInv'
<1>1. /\ ~up /\ manifest' \in {Missing, [Missing EXCEPT !.state = "unreadable"]}
      /\ UNCHANGED <<config, up, files, segments, next_id, keywords, buffer, totals,
                     sealed, scanned>>
    BY DEF LoseManifest
<1>2. manifest'.state \in {"missing", "unreadable"} /\ manifest'.list = <<>>
    BY <1>1 DEF Missing
<1>3. Ids(<<>>) = {}
    BY EmptyList DEF Ids
<1>4. TypeOK'
    <2>1. \A list \in {segments', manifest'.list} : Ids(list) \subseteq DOMAIN files'
        BY <1>1, <1>2, <1>3 DEF IInv, TypeOK
    <2>2. manifest'.state \in {"missing", "unreadable", "listed"}
        BY <1>2
    <2> QED BY <1>1, <2>1, <2>2 DEF IInv, TypeOK
<1>5. FilesAreWritten'
    BY <1>1 DEF IInv, FilesAreWritten
<1>6. TotalsSurvive'
    BY <1>1 DEF TotalsSurvive
<1> QED BY <1>1, <1>2, <1>4, <1>5, <1>6 DEF IInv

LEMMA AppendLineKeeps == ASSUME IInv, NEW line \in Lines, AppendLine(line) PROVE IInv'
<1>1. /\ up /\ buffer' = Append(buffer, line)
      /\ UNCHANGED <<config, up, files, segments, manifest, next_id, keywords, totals,
                     sealed, scanned>>
    BY DEF AppendLine
<1>2. buffer' \in Seq(Lines)
    BY <1>1 DEF IInv, TypeOK
<1>3. TypeOK'
    BY <1>1, <1>2 DEF IInv, TypeOK
<1>4. FilesAreWritten'
    BY <1>1 DEF IInv, FilesAreWritten
<1>5. TotalsSurvive'
    BY <1>1 DEF IInv, TotalsSurvive, HasDict, LinesIn
<1>6. /\ ListIsOf(segments', files', sealed', scanned')
      /\ \A id \in DOMAIN files' : WordsAreMapped(keywords', TemplatesIn(files'[id]))
    BY <1>1 DEF IInv
<1>7. /\ manifest'.state = "listed" => ListIsOf(manifest'.list, files', sealed', scanned')
      /\ manifest'.state # "listed" => manifest'.list = <<>>
    BY <1>1 DEF IInv
<1> QED BY <1>3, <1>4, <1>5, <1>6, <1>7 DEF IInv

LEMMA StutterKeeps == ASSUME IInv, UNCHANGED vars PROVE IInv'
<1>1. UNCHANGED <<config, up, files, segments, manifest, next_id, keywords, buffer, totals,
                  sealed, scanned>>
    BY DEF vars
<1>2. TypeOK'
    BY <1>1 DEF IInv, TypeOK
<1>3. FilesAreWritten'
    BY <1>1 DEF IInv, FilesAreWritten
<1>4. TotalsSurvive'
    BY <1>1 DEF IInv, TotalsSurvive, HasDict, LinesIn
<1>5. up' => /\ ListIsOf(segments', files', sealed', scanned')
             /\ \A id \in DOMAIN files' : WordsAreMapped(keywords', TemplatesIn(files'[id]))
    BY <1>1 DEF IInv
<1>6. /\ manifest'.state = "listed" => ListIsOf(manifest'.list, files', sealed', scanned')
      /\ manifest'.state # "listed" => manifest'.list = <<>>
    BY <1>1 DEF IInv
<1> QED BY <1>2, <1>3, <1>4, <1>5, <1>6 DEF IInv

\* The invariant holds in every state of every execution: each file is one
\* that a flush has written (or a legacy one), and whatever the list, the
\* manifest, the keyword map and the totals say of the files is true, after
\* any mixture of flushes, opens, closes, lost manifests and rebuilds.
THEOREM IInvHolds == Spec => []IInv
<1>1. Init => IInv
    BY InitHas
<1>2. IInv /\ [Next]_vars => IInv'
    <2> SUFFICES ASSUME IInv, [Next]_vars PROVE IInv'
        OBVIOUS
    <2>1. CASE OpenListed
        BY <2>1, OpenListedKeeps
    <2>2. CASE OpenScanned
        BY <2>2, OpenScannedKeeps
    <2>3. CASE Close
        BY <2>3, CloseKeeps
    <2>4. CASE LoseManifest
        BY <2>4, LoseManifestKeeps
    <2>5. ASSUME NEW line \in Lines, AppendLine(line) PROVE IInv'
        BY <2>5, AppendLineKeeps
    <2>6. CASE Flush
        BY <2>6, FlushKeeps
    <2>7. CASE Rebuild
        BY <2>7, RebuildKeeps
    <2>8. CASE UNCHANGED vars
        BY <2>8, StutterKeeps
    <2> QED BY <2>1, <2>2, <2>3, <2>4, <2>5, <2>6, <2>7, <2>8 DEF Next
<1> QED BY <1>1, <1>2, PTL DEF Spec

\* Whatever is in the segment files, ParsedSegment reads back what was sealed.
THEOREM SealedIsAlwaysParsed == Spec => []SealedIsParsed
<1>1. IInv => SealedIsParsed
    BY FilesAreParsed DEF IInv
<1> QED BY <1>1, IInvHolds, PTL

\* A file with a changed field, or one that was cut, is never taken for a good one.
THEOREM DamageIsNeverMissed == Spec => []DamageIsCaught
<1>1. IInv => DamageIsCaught
    BY DamageIsAlwaysCaught DEF IInv
<1> QED BY <1>1, IInvHolds, PTL

LEMMA ListTells == ASSUME IInv PROVE EntriesAreTrue
<1> SUFFICES ASSUME up PROVE EntriesAreTrue
    BY DEF EntriesAreTrue
<1>1. /\ FilesAreWritten /\ IsList(segments)
      /\ Ids(segments) = DOMAIN files /\ Len(segments) = Cardinality(DOMAIN files)
      /\ \A k \in 1..Len(segments) :
            /\ segments[k].id \in DOMAIN files
            /\ MetaIsTrue(segments[k], files[segments[k].id], sealed[segments[k].id],
                          segments[k].id \in scanned)
    BY DEF IInv, ListIsOf
<1>2. DOMAIN segments = 1..Len(segments)
    BY <1>1 DEF IsList
<1>3. ASSUME NEW k \in DOMAIN segments
      PROVE  LET m == segments[k]
                 lines == LinesIn(m.id)
                 times == {l.ts : l \in ToSet(lines)}
                 legacy == HeaderOf(files[m.id])[1].version = V1
                 narrow == Len(sealed[m.id]) > 1 \/ ~InOrder(lines)
             IN (m.id \in scanned => ~HasDict(m.id)) =>
                /\ m.line_count = Len(lines)
                /\ m.summary.has_summary = ~legacy
                /\ ~legacy => m.summary.level_mask = {l.level : l \in ToSet(lines)}
                /\ {m.min_ts, m.max_ts} \subseteq times
                /\ (m.id \notin scanned \/ ~narrow) =>
                     /\ m.min_ts = Min(times) /\ m.max_ts = Max(times)
    <2> DEFINE m == segments[k]
               file == files[m.id]
               lists == sealed[m.id]
               lines == LinesIn(m.id)
               times == {l.ts : l \in ToSet(lines)}
               legacy == HeaderOf(file)[1].version = V1
               narrow == Len(lists) > 1 \/ ~InOrder(lines)
    <2>1. m.id \in DOMAIN files /\ MetaIsTrue(m, file, lists, m.id \in scanned)
        BY <1>1, <1>2
    <2>2. lines = FlattenSeq(lists) /\ TimesOf(lists) = times
        BY DEF LinesIn, TimesOf
    <2>3. Len(lists) \in Nat /\ Len(lists) > 0
        <3>1. \/ IsV1(file, m.id, lists)
              \/ \E dictLen \in {0, 1024} : IsV2(file, m.id, lists, dictLen)
            BY <1>1, <2>1, KindOf
        <3>2. ASSUME IsV1(file, m.id, lists) PROVE Len(lists) = 1
            BY <3>2 DEF IsV1
        <3>3. ASSUME NEW dictLen, IsV2(file, m.id, lists, dictLen) PROVE Len(lists) \in Nat \ {0}
            BY <3>3, ListsAreLines
        <3> QED BY <3>1, <3>2, <3>3
    <2>4. MetaIsTyped(m, file, lists)
        BY <2>1 DEF MetaIsTrue
    <2>5. /\ m.summary.has_summary = ~legacy
          /\ ~legacy => m.summary.level_mask = {l.level : l \in ToSet(lines)}
        BY <2>2, <2>4 DEF MetaIsTyped, IsLegacy
    <2>6. ASSUME m.id \in scanned => ~HasDict(m.id)
          PROVE  /\ MetaIsRead(m, lists)
                 /\ (m.id \notin scanned \/ ~narrow) => MetaIsWide(m, lists)
        <3>1. ~(m.id \in scanned /\ HeaderOf(file)[1].dict_len > 0)
            BY <2>6 DEF HasDict
        <3>2. /\ MetaIsRead(m, lists)
              /\ ~(m.id \in scanned) \/ (Len(lists) = 1 /\ InOrder(FlattenSeq(lists)))
                    => MetaIsWide(m, lists)
            BY <2>1, <3>1 DEF MetaIsTrue
        <3>3. ~narrow => Len(lists) = 1 /\ InOrder(FlattenSeq(lists))
            <4>1. ~narrow => ~(Len(lists) > 1) /\ InOrder(FlattenSeq(lists))
                BY DEF LinesIn
            <4>2. ~(Len(lists) > 1) => Len(lists) = 1
                <5>1. \A x \in Nat : x > 0 /\ ~(x > 1) => x = 1
                    OBVIOUS
                <5> HIDE DEF lists
                <5> QED BY <2>3, <5>1
            <4> QED BY <4>1, <4>2
        <3> QED BY <3>2, <3>3
    <2> HIDE DEF m, lists
    <2>7. (m.id \in scanned => ~HasDict(m.id)) =>
            /\ m.line_count = Len(lines) /\ {m.min_ts, m.max_ts} \subseteq times
            /\ (m.id \notin scanned \/ ~narrow) => m.min_ts = Min(times) /\ m.max_ts = Max(times)
        BY <2>2, <2>6 DEF MetaIsRead, MetaIsWide
    <2> QED BY <2>5, <2>7 DEF m, lists
<1> QED BY <1>1, <1>3 DEF EntriesAreTrue

\* The list, the next id and the totals of an open engine say what is true of
\* the files, however the list came to be.
THEOREM ListIsAlwaysTrue == Spec => []ListIsTrue
<1>1. IInv => ListIsTrue
    BY ListTells DEF IInv, ListIsTrue
<1> QED BY <1>1, IInvHolds, PTL

-----------------------------------------------------------------------------
(* The answers without a file.                                              *)

LEMMA MaskedPatsAre ==
    ASSUME IsMap(keywords), NEW entry, NEW keyword
    PROVE  /\ MaskedPats(entry, keyword) \in Nat
           /\ \A x \in ToSet(MapPats(keyword)) :
                x < PatternBits /\ x \in entry.summary.pattern_mask
                    => MaskedPats(entry, keyword) > 0
<1> DEFINE pats == MapPats(keyword)
           K == {k \in DOMAIN pats : pats[k] < PatternBits
                                     /\ pats[k] \in entry.summary.pattern_mask}
<1>1. IsList(pats)
    <2>1. CASE keyword \in MapWords
        <3>1. pats = keywords[keyword] /\ keywords[keyword] \in Seq(Nat)
            BY <2>1 DEF MapPats, IsMap
        <3> QED BY <3>1, SeqIsList
    <2>2. CASE keyword \notin MapWords
        BY <2>2, EmptyList DEF MapPats
    <2> QED BY <2>1, <2>2
<1>2. MaskedPats(entry, keyword) = Cardinality(K)
    BY DEF MaskedPats
<1> HIDE DEF pats
<1>3. IsFiniteSet(DOMAIN pats)
    <2>1. DOMAIN pats = 1..Len(pats) /\ Len(pats) \in Nat
        BY <1>1 DEF IsList
    <2>2. IsFiniteSet(1..Len(pats))
        BY <2>1, FirstNumbers
    <2> QED BY <2>1, <2>2
<1>4. K \subseteq DOMAIN pats
    OBVIOUS
<1>5. ASSUME NEW x \in ToSet(pats), x < PatternBits, x \in entry.summary.pattern_mask
      PROVE  K # {}
    <2>1. PICK k \in DOMAIN pats : pats[k] = x
        BY DEF ToSet
    <2>2. k \in K
        BY <1>5, <2>1
    <2> QED BY <2>2
<1> HIDE DEF K
<1>6. IsFiniteSet(K)
    BY <1>3, <1>4, FS_Subset
<1>7. Cardinality(K) \in Nat /\ (K # {} => Cardinality(K) > 0)
    <2>1. Cardinality(K) \in Nat /\ (Cardinality(K) = 0 <=> K = {})
        BY <1>6, FS_CardinalityType, FS_EmptySet
    <2> QED BY <2>1
<1> QED BY <1>2, <1>5, <1>7 DEF pats

LEMMA WordsAreKept == ASSUME IInv PROVE MayExistKeepsWords
<1> SUFFICES ASSUME up, NEW range \in Ranges, NEW keyword \in Keywords
             PROVE  /\ (\E k \in DOMAIN segments :
                           /\ Meets(segments[k], range)
                           /\ \/ \E l \in ToSet(LinesIn(segments[k].id)) : l.level = LevelOf[keyword]
                              \/ LET templates == TemplatesIn(files[segments[k].id])
                                 IN \E i \in DOMAIN templates :
                                      /\ i <= PatternBits /\ keyword \in MapWords
                                      /\ keyword \in {Lower[w] : w \in ToSet(Literals(templates[i]))})
                          => MayExist(range, keyword)
                    /\ CountAtLeast(range, keyword) > 0 => MayExist(range, keyword)
    BY DEF MayExistKeepsWords
<1>1. /\ FilesAreWritten /\ IsList(segments) /\ IsMap(keywords)
      /\ \A k \in 1..Len(segments) :
            /\ segments[k].id \in DOMAIN files
            /\ MetaIsTrue(segments[k], files[segments[k].id], sealed[segments[k].id],
                          segments[k].id \in scanned)
      /\ \A id \in DOMAIN files : WordsAreMapped(keywords, TemplatesIn(files[id]))
    BY DEF IInv, ListIsOf, TypeOK, IsMap
<1>2. DOMAIN segments = 1..Len(segments) /\ Len(segments) \in Nat
    BY <1>1 DEF IsList
<1>3. ASSUME NEW k \in DOMAIN segments, Meets(segments[k], range),
             \/ ~segments[k].summary.has_summary \/ HasLevel(segments[k], keyword)
             \/ MaskedPats(segments[k], keyword) > 0
      PROVE  MayExist(range, keyword)
    BY <1>3 DEF MayExist
<1>4. ASSUME NEW k \in DOMAIN segments
      PROVE  MetaIsTyped(segments[k], files[segments[k].id], sealed[segments[k].id])
    BY <1>1, <1>2 DEF MetaIsTrue
<1>5. ASSUME NEW k \in DOMAIN segments, Meets(segments[k], range),
             NEW l \in ToSet(LinesIn(segments[k].id)), l.level = LevelOf[keyword]
      PROVE  MayExist(range, keyword)
    <2> DEFINE m == segments[k]
    <2>1. CASE IsLegacy(files[m.id])
        <3>1. ~m.summary.has_summary
            BY <1>4, <2>1 DEF MetaIsTyped
        <3> QED BY <1>3, <1>5, <3>1
    <2>2. CASE ~IsLegacy(files[m.id])
        <3>1. m.summary.level_mask = {x.level : x \in ToSet(LinesIn(m.id))}
            BY <1>4, <2>2 DEF MetaIsTyped, LinesIn
        <3>2. HasLevel(m, keyword)
            BY <1>5, <3>1 DEF HasLevel
        <3> QED BY <1>3, <1>5, <3>2
    <2> QED BY <2>1, <2>2
<1>6. ASSUME NEW k \in DOMAIN segments, Meets(segments[k], range),
             NEW i \in DOMAIN TemplatesIn(files[segments[k].id]), i <= PatternBits,
             keyword \in MapWords,
             NEW w \in ToSet(Literals(TemplatesIn(files[segments[k].id])[i])),
             keyword = Lower[w]
      PROVE  MayExist(range, keyword)
    <2> DEFINE m == segments[k]
               templates == TemplatesIn(files[m.id])
    <2>1. m.id \in DOMAIN files /\ IsList(templates)
        <3>1. m.id \in DOMAIN files
            BY <1>1, <1>2
        <3>2. AreRead(templates)
            BY <1>1, <3>1, FilesTemplatesAreRead
        <3> QED BY <3>1, <3>2 DEF AreRead
    <2>2. i \in 1..Len(templates)
        BY <2>1 DEF IsList
    <2>3. WordsAreMapped(keywords, templates)
        BY <1>1, <2>1
    <2>4. i - 1 \in ToSet(keywords[keyword])
        <3> HIDE DEF templates
        <3> QED BY <1>6, <2>2, <2>3 DEF WordsAreMapped, templates
    <2>5. MapPats(keyword) = keywords[keyword]
        BY <1>6 DEF MapPats
    <2>6. CASE IsLegacy(files[m.id])
        <3>1. ~m.summary.has_summary
            BY <1>4, <2>6 DEF MetaIsTyped
        <3> QED BY <1>3, <1>6, <3>1
    <2>7. CASE ~IsLegacy(files[m.id])
        <3>1. i - 1 \in m.summary.pattern_mask
            BY <1>4, <1>6, <2>2, <2>7 DEF MetaIsTyped
        <3>2. i - 1 < PatternBits
            <4>1. i \in Nat
                BY <2>1, <2>2 DEF IsList
            <4>2. PatternBits \in Nat
                BY IndexAssumption
            <4> QED BY <1>6, <4>1, <4>2
        <3>3. MaskedPats(m, keyword) > 0
            BY <1>1, <2>4, <2>5, <3>1, <3>2, MaskedPatsAre
        <3> QED BY <1>3, <1>6, <3>3
    <2> QED BY <2>6, <2>7
<1>7. ASSUME CountAtLeast(range, keyword) > 0 PROVE MayExist(range, keyword)
    <2> DEFINE counted == {i \in DOMAIN segments : /\ Meets(segments[i], range)
                                                   /\ segments[i].summary.has_summary}
               share(i) ==
                   LET pats == MaskedPats(segments[i], keyword)
                   IN IF Cardinality(segments[i].summary.pattern_mask) = 1 /\ pats = 1
                      THEN segments[i].line_count
                      ELSE IF pats > 0 THEN pats
                      ELSE IF HasLevel(segments[i], keyword) THEN 1 ELSE 0
               f == [i \in counted |-> share(i)]
    <2>1. CountAtLeast(range, keyword) = SumFunction(f)
        BY DEF CountAtLeast
    <2>2. DOMAIN f = counted
        OBVIOUS
    <2>3. ASSUME NEW i \in counted
          PROVE  f[i] \in Nat /\ (f[i] > 0 => MaskedPats(segments[i], keyword) > 0
                                              \/ HasLevel(segments[i], keyword))
        <3> DEFINE pats == MaskedPats(segments[i], keyword)
        <3>1. pats \in Nat
            BY <1>1, MaskedPatsAre
        <3>2. segments[i].line_count \in Nat
            BY <1>4 DEF MetaIsTyped
        <3>3. f[i] = share(i)
            OBVIOUS
        <3> HIDE DEF pats, f
        <3>4. share(i) = IF Cardinality(segments[i].summary.pattern_mask) = 1 /\ pats = 1
                         THEN segments[i].line_count
                         ELSE IF pats > 0 THEN pats
                         ELSE IF HasLevel(segments[i], keyword) THEN 1 ELSE 0
            BY DEF pats
        <3> HIDE DEF share
        <3>5. f[i] \in Nat /\ (f[i] > 0 => pats > 0 \/ HasLevel(segments[i], keyword))
            BY <3>1, <3>2, <3>3, <3>4
        <3> QED BY <3>5 DEF pats
    <2>4. IsFiniteSet(counted)
        <3>1. IsFiniteSet(1..Len(segments))
            BY <1>2, FirstNumbers
        <3>2. counted \subseteq 1..Len(segments)
            BY <1>2
        <3> QED BY <3>1, <3>2, FS_Subset
    <2> HIDE DEF f
    <2>5. \A i \in counted : f[i] \in Nat
        BY <2>3
    <2>6. SumFunctionOnSet(f, counted) > 0
        BY <1>7, <2>1, <2>2 DEF SumFunction
    <2>7. \A i \in counted : Meets(segments[i], range) /\ i \in DOMAIN segments
        OBVIOUS
    <2> HIDE DEF counted
    <2>8. PICK i \in counted : f[i] > 0
        BY <2>4, <2>5, <2>6, SumOfNats
    <2> QED BY <1>3, <2>3, <2>7, <2>8
<1> QED BY <1>5, <1>6, <1>7

\* No answer without a file denies a segment that has the keyword as a mapped
\* word or as a level, and what count_at_least counts, may_exist admits.
THEOREM WordsAreAlwaysKept == Spec => []MayExistKeepsWords
<1>1. IInv => MayExistKeepsWords
    BY WordsAreKept
<1> QED BY <1>1, IInvHolds, PTL

-----------------------------------------------------------------------------
(* What a search of one file finds.                                         *)

LEMMA OneIsSome == \A x : <<x>> # None /\ <<x>>[1] = x
BY DEF None

LEMMA SearchV1Is ==
    ASSUME NEW file, NEW id, NEW lists, IsV1(file, id, lists), NEW range, NEW keyword
    PROVE  LET entry == EntryAt(file, HeaderSize, 1)
           IN /\ entry.min_ts = LegacyLines[1].ts
              /\ entry.max_ts = LegacyLines[Len(LegacyLines)].ts
              /\ Search(file, range, keyword).lines
                   = IF Meets(entry, range) THEN Hits(LegacyLines, range, keyword) ELSE <<>>
<1> DEFINE entry == EntryAt(file, HeaderSize, 1)
           header == HeaderOf(file)
           size == LegacyChunk.entry.compressed_sz
           end == DataOffsetV1(1) + size
           found == LinesAt(file, entry.offset, entry.compressed_sz)
<1>1. /\ FileSaysV1(file, id, LegacyChunk) /\ EntryIsOf(LegacyChunk, LegacyLines)
      /\ header # None /\ header[1].version = V1
    BY DEF IsV1
<1>2. /\ DataOffsetV1(1) \in Nat /\ end \in Nat /\ end >= 96 /\ Whole(file, end)
      /\ entry.offset = DataOffsetV1(1) /\ entry.compressed_sz = size
      /\ entry.min_ts = LegacyChunk.entry.min_ts /\ entry.max_ts = LegacyChunk.entry.max_ts
      /\ LinesAt(file, DataOffsetV1(1), size) = <<LegacyChunk.lines>>
    BY <1>1 DEF FileSaysV1
<1>3. /\ LegacyChunk.lines = LegacyLines /\ entry.min_ts = LegacyLines[1].ts
      /\ entry.max_ts = LegacyLines[Len(LegacyLines)].ts
    BY <1>1, <1>2 DEF EntryIsOf
<1>4. file.len = end + 8 /\ FooterStart(file) = end /\ Verified(file)
    BY <1>2 DEF Whole
<1>5. found = <<LegacyLines>> /\ found # None /\ found[1] = LegacyLines
    BY <1>2, <1>3, OneIsSome
<1>6. entry.offset + entry.compressed_sz = FooterStart(file)
    BY <1>2, <1>4
<1> HIDE DEF end, size
<1>7. ~(file.len < MinSegmentSize)
    BY <1>2, <1>4 DEF MinSegmentSize, HeaderSize, EntrySize, FooterSize
<1>8. ~(entry.offset + entry.compressed_sz > FooterStart(file))
    <2>1. \A x \in Nat : ~(x > x)
        OBVIOUS
    <2> QED BY <1>2, <1>4, <1>6, <2>1
<1>9. Search(file, range, keyword) = SearchV1(file, range, keyword)
    BY <1>1, <1>7 DEF Search
<1>10. SearchV1(file, range, keyword)
         = IF ~Meets(entry, range) THEN Found(<<>>)
           ELSE IF ~Verified(file) \/ found = None
                   \/ entry.offset + entry.compressed_sz > FooterStart(file) THEN Failed
           ELSE Found(Hits(found[1], range, keyword))
    BY DEF SearchV1
<1> HIDE DEF entry, found
<1>11. Search(file, range, keyword)
         = IF ~Meets(entry, range) THEN Found(<<>>) ELSE Found(Hits(LegacyLines, range, keyword))
    BY <1>4, <1>5, <1>8, <1>9, <1>10
<1>12. \A lines : Found(lines).lines = lines
    BY DEF Found
<1>13. Search(file, range, keyword).lines
         = IF Meets(entry, range) THEN Hits(LegacyLines, range, keyword) ELSE <<>>
    BY <1>11, <1>12
<1> QED BY <1>3, <1>13 DEF entry

\* The chunks that a search reads, and what it finds in them.
ChunkIsWanted(file, lists, dictLen, range, keyword, i) ==
    ChunkWanted(EntryAt(file, 64 + SizeOf(file) + dictLen, i),
                SummaryAt(file, SummaryStart(SizeOf(file), dictLen, Len(lists)), i),
                TemplatesIn(file), range, keyword)
WantedChunks(file, lists, dictLen, range, keyword) ==
    {i \in 1..Len(lists) : ChunkIsWanted(file, lists, dictLen, range, keyword, i)}
ChosenChunks(file, lists, dictLen, range, keyword) ==
    Filtered([i \in 1..Len(lists) |-> i], WantedChunks(file, lists, dictLen, range, keyword))

LEMMA ChosenAre ==
    ASSUME NEW file, NEW lists, IsList(lists), NEW dictLen, NEW range, NEW keyword
    PROVE  LET chosen == ChosenChunks(file, lists, dictLen, range, keyword)
           IN /\ IsList(chosen)
              /\ ToSet(chosen) = WantedChunks(file, lists, dictLen, range, keyword)
              /\ \A j, k \in 1..Len(chosen) : chosen[j] = chosen[k] => j = k
<1> DEFINE n == Len(lists)
           all == [i \in 1..n |-> i]
           W == WantedChunks(file, lists, dictLen, range, keyword)
           chosen == ChosenChunks(file, lists, dictLen, range, keyword)
<1>1. n \in Nat /\ all = [i \in 1..n |-> all[i]] /\ \A i \in 1..n : all[i] = i
    BY DEF IsList
<1>2. W \subseteq 1..n
    BY DEF WantedChunks
<1>3. chosen = Filtered(all, W)
    BY DEF ChosenChunks
<1> HIDE DEF n, all, W, chosen
<1>4. IsList(all) /\ DOMAIN all = 1..n
    BY <1>1, ListIs
<1>5. /\ IsList(chosen) /\ Into(chosen, all)
      /\ ToSet(chosen) = {all[p] : p \in W}
    BY <1>2, <1>3, <1>4, FilteredIs
<1>6. ToSet(chosen) = W
    BY <1>1, <1>2, <1>5
<1>7. PICK f : Places(chosen, all, f)
    BY <1>5 DEF Into
<1>8. DOMAIN chosen = 1..Len(chosen)
    BY <1>5 DEF IsList
<1>9. ASSUME NEW j \in 1..Len(chosen), NEW k \in 1..Len(chosen), chosen[j] = chosen[k]
      PROVE  j = k
    <2>1. /\ f[j] \in 1..n /\ f[k] \in 1..n /\ all[f[j]] = chosen[j] /\ all[f[k]] = chosen[k]
        BY <1>4, <1>7, <1>8 DEF Places
    <2>2. f[j] = f[k]
        BY <1>1, <1>9, <2>1
    <2> QED BY <1>7, <1>8, <2>2 DEF Places
<1> QED BY <1>5, <1>6, <1>9 DEF chosen, W

LEMMA SearchV2Is ==
    ASSUME NEW file, NEW id, NEW lists, NEW dictLen, IsV2(file, id, lists, dictLen),
           NEW range, NEW keyword
    PROVE  LET chosen == ChosenChunks(file, lists, dictLen, range, keyword)
           IN Search(file, range, keyword).lines
                = FlattenSeq([k \in 1..Len(chosen) |-> Hits(lists[chosen[k]], range, keyword)])
<1> DEFINE size == SizeOf(file)
           n == Len(lists)
           found == HeaderOf(file)
           header == found[1]
           chosen == ChosenChunks(file, lists, dictLen, range, keyword)
           end == DataEnd(file, lists, dictLen)
           data == DataStart(size, dictLen, n)
<1>1. FileTells(file, id, lists, dictLen) /\ \A i \in 1..n : ChunkTells(file, lists, dictLen, i)
    BY WhatFilesTell
<1>2. /\ n \in Nat \ {0} /\ dictLen \in Nat /\ size \in Nat \ {0}
      /\ data \in Nat /\ end \in Nat
      /\ 64 + size + dictLen + n * 32 + n * 80 <= data /\ data <= end
      /\ file.len = end + 8 /\ Verified(file) /\ FooterStart(file) = end
      /\ found # None /\ header.version = V2
      /\ header.chunk_count = n /\ header.pattern_table_len = size
      /\ header.pattern_count = Len(TemplatesIn(file))
      /\ header.summary_offset = SummaryStart(size, dictLen, n)
      /\ header.data_offset = data /\ header.dict_len = dictLen
      /\ Has(file, HeaderSize, size) /\ file.at[HeaderSize].v = TemplatesIn(file)
    BY <1>1 DEF FileTells
<1>3. Len(TemplatesIn(file)) \in Nat /\ Len(TemplatesIn(file)) > 0
    BY DEF IsV2, BatchIs, IsList
<1>4. SummaryStart(size, dictLen, n) = 64 + size + dictLen + n * 32
    <2> HIDE DEF size, n
    <2> QED BY <1>2, PlacesAre
<1>5. V1 # V2
    BY DEF V1, V2
<1> DEFINE start == HeaderSize + size + dictLen
           entry(i) == EntryAt(file, start, i)
           summary(i) == SummaryAt(file, SummaryStart(size, dictLen, n), i)
           wanted(i) == /\ ChunkWanted(entry(i), summary(i), TemplatesIn(file), range, keyword)
                        /\ data + entry(i).offset + entry(i).compressed_sz <= FooterStart(file)
           picked == Filtered([i \in 1..n |-> i], {i \in 1..n : wanted(i)})
           lines(i) == LinesAt(file, data + entry(i).offset, entry(i).compressed_sz)
<1>6. Search(file, range, keyword) = SearchV2(file, header, range, keyword)
    <2> HIDE DEF end, data
    <2>2. ~(file.len < MinSegmentSize)
        <3>1. n * 32 \in Nat /\ n * 32 >= 32 /\ n * 80 \in Nat
            BY <1>2
        <3> QED BY <1>2, <3>1 DEF MinSegmentSize, HeaderSize, EntrySize, FooterSize
    <2> QED BY <1>2, <1>5, <2>2 DEF Search
<1>7. SearchV2(file, header, range, keyword)
        = IF HeaderSize + size > file.len THEN Panicked
          ELSE IF ~Has(file, HeaderSize, size) THEN Failed
          ELSE IF \/ start + n * EntrySize > file.len
                  \/ SummaryStart(size, dictLen, n) + n * SummarySize > file.len THEN Panicked
          ELSE IF ~Verified(file) THEN Failed
          ELSE IF \E k \in DOMAIN picked : lines(picked[k]) = None THEN Failed
          ELSE Found(FlattenSeq([k \in DOMAIN picked |-> Hits(lines(picked[k])[1], range, keyword)]))
    <2> DEFINE tableEnd == HeaderSize + header.pattern_table_len
               parsed == header.pattern_count > 0 /\ header.pattern_table_len > 0
               templates == IF parsed THEN file.at[HeaderSize].v ELSE <<>>
               begin == tableEnd + header.dict_len
               e(i) == EntryAt(file, begin, i)
               w(i) ==
                   /\ ChunkWanted(e(i), SummaryAt(file, header.summary_offset, i), templates,
                                  range, keyword)
                   /\ header.data_offset + e(i).offset + e(i).compressed_sz
                          <= FooterStart(file)
               c == Filtered([i \in 1..header.chunk_count |-> i],
                             {i \in 1..header.chunk_count : w(i)})
               l(i) == LinesAt(file, header.data_offset + e(i).offset, e(i).compressed_sz)
    <2>1. SearchV2(file, header, range, keyword)
            = IF parsed /\ tableEnd > file.len THEN Panicked
              ELSE IF parsed /\ ~Has(file, HeaderSize, header.pattern_table_len) THEN Failed
              ELSE IF \/ begin + header.chunk_count * EntrySize > file.len
                      \/ /\ header.chunk_count > 0
                         /\ header.summary_offset + header.chunk_count * SummarySize > file.len
                   THEN Panicked
              ELSE IF ~Verified(file) THEN Failed
              ELSE IF \E k \in DOMAIN c : l(c[k]) = None THEN Failed
              ELSE Found(FlattenSeq([k \in DOMAIN c |-> Hits(l(c[k])[1], range, keyword)]))
        BY DEF SearchV2
    <2>2. parsed = TRUE /\ tableEnd = HeaderSize + size /\ begin = start
        BY <1>2, <1>3
    <2> HIDE DEF parsed, tableEnd, begin
    <2>3. templates = TemplatesIn(file) /\ header.chunk_count > 0
        BY <1>2, <2>2
    <2> HIDE DEF templates, start
    <2>4. \A i : e(i) = entry(i) /\ l(i) = lines(i) /\ w(i) = wanted(i)
        BY <1>2, <2>2, <2>3
    <2> HIDE DEF e, entry, l, lines, w, wanted
    <2>5. {i \in 1..n : w(i)} = {i \in 1..n : wanted(i)}
        BY <2>4
    <2>6. c = picked
        BY <1>2, <2>5
    <2> HIDE DEF c, picked
    <2>7. [k \in DOMAIN c |-> Hits(l(c[k])[1], range, keyword)]
            = [k \in DOMAIN picked |-> Hits(lines(picked[k])[1], range, keyword)]
        BY <2>4, <2>6
    <2>8. (\E k \in DOMAIN c : l(c[k]) = None) <=> \E k \in DOMAIN picked : lines(picked[k]) = None
        BY <2>4, <2>6
    <2> QED BY <1>2, <2>1, <2>2, <2>3, <2>7, <2>8
<1>8. \A i \in 1..n : /\ data + entry(i).offset + entry(i).compressed_sz <= FooterStart(file)
                      /\ lines(i) = <<lists[i]>>
    <2> TAKE i \in 1..n
    <2>1. ChunkTells(file, lists, dictLen, i)
        BY <1>1
    <2>2. start = 64 + SizeOf(file) + dictLen
        BY DEF HeaderSize
    <2> HIDE DEF start
    <2> QED BY <1>2, <2>1, <2>2 DEF ChunkTells
<1>9. picked = chosen
    <2>1. start = 64 + SizeOf(file) + dictLen
        BY DEF HeaderSize
    <2> HIDE DEF start
    <2>2. \A i \in 1..n : wanted(i) <=> ChunkIsWanted(file, lists, dictLen, range, keyword, i)
        BY <1>8, <2>1 DEF ChunkIsWanted
    <2>3. {i \in 1..n : wanted(i)} = WantedChunks(file, lists, dictLen, range, keyword)
        BY <2>2 DEF WantedChunks
    <2> QED BY <2>3 DEF ChosenChunks
<1>10. /\ DOMAIN chosen = 1..Len(chosen)
       /\ \A k \in 1..Len(chosen) : chosen[k] \in 1..n
    <2>1. IsList(lists)
        BY ListsAreLines
    <2>2. IsList(chosen) /\ ToSet(chosen) = WantedChunks(file, lists, dictLen, range, keyword)
        BY <2>1, ChosenAre
    <2> HIDE DEF chosen
    <2>3. DOMAIN chosen = 1..Len(chosen)
        BY <2>2 DEF IsList
    <2>4. ToSet(chosen) \subseteq 1..n
        BY <2>2 DEF WantedChunks
    <2> QED BY <2>3, <2>4 DEF ToSet
<1>11. ~(HeaderSize + size > file.len) /\ ~(start + n * EntrySize > file.len)
       /\ ~(SummaryStart(size, dictLen, n) + n * SummarySize > file.len)
    <2> HIDE DEF size, n, end, data
    <2>1. n * 32 \in Nat /\ n * 80 \in Nat
        <3>1. \A x \in Nat : x * 32 \in Nat /\ x * 80 \in Nat
            OBVIOUS
        <3>2. n \in Nat
            BY <1>2
        <3> QED BY <3>1, <3>2
    <2> QED BY <1>2, <1>4, <2>1 DEF HeaderSize, EntrySize, SummarySize
<1> HIDE DEF picked, chosen, start, lines, size, n, data, end
<1>12. /\ ~\E k \in DOMAIN picked : lines(picked[k]) = None
       /\ [k \in DOMAIN picked |-> Hits(lines(picked[k])[1], range, keyword)]
            = [k \in 1..Len(chosen) |-> Hits(lists[chosen[k]], range, keyword)]
    <2>1. \A k \in 1..Len(chosen) : lines(chosen[k]) # None /\ lines(chosen[k])[1] = lists[chosen[k]]
        BY <1>8, <1>10, OneIsSome
    <2> QED BY <1>9, <1>10, <2>1
<1>13. Search(file, range, keyword)
         = Found(FlattenSeq([k \in 1..Len(chosen) |-> Hits(lists[chosen[k]], range, keyword)]))
    BY <1>2, <1>6, <1>7, <1>11, <1>12
<1>14. \A ls : Found(ls).lines = ls
    BY DEF Found
<1>15. Search(file, range, keyword).lines
         = FlattenSeq([k \in 1..Len(chosen) |-> Hits(lists[chosen[k]], range, keyword)])
    BY <1>13, <1>14
<1> QED BY <1>15 DEF chosen

LEMMA HitsAre ==
    ASSUME NEW lines, IsList(lines), NEW range, NEW keyword
    PROVE  LET hits == Hits(lines, range, keyword)
           IN /\ IsList(hits) /\ Into(hits, lines)
              /\ \A l : l \in ToSet(hits)
                          <=> l \in ToSet(lines) /\ InRange(l, range) /\ Matches(l, keyword)
<1> DEFINE P == {i \in DOMAIN lines : InRange(lines[i], range) /\ Matches(lines[i], keyword)}
           hits == Hits(lines, range, keyword)
<1>1. hits = Filtered(lines, P) /\ P \subseteq DOMAIN lines
    BY DEF Hits
<1>2. \A i : i \in P <=> /\ i \in DOMAIN lines
                         /\ InRange(lines[i], range) /\ Matches(lines[i], keyword)
    OBVIOUS
<1> HIDE DEF P, hits
<1>3. IsList(hits) /\ Into(hits, lines) /\ ToSet(hits) = {lines[p] : p \in P}
    BY <1>1, FilteredIs
<1>4. ASSUME NEW l
      PROVE  l \in ToSet(hits)
               <=> l \in ToSet(lines) /\ InRange(l, range) /\ Matches(l, keyword)
    <2>1. ASSUME l \in ToSet(hits)
          PROVE  l \in ToSet(lines) /\ InRange(l, range) /\ Matches(l, keyword)
        <3>1. PICK p \in P : l = lines[p]
            BY <1>3, <2>1
        <3> QED BY <1>2, <3>1 DEF ToSet
    <2>2. ASSUME l \in ToSet(lines), InRange(l, range), Matches(l, keyword)
          PROVE  l \in ToSet(hits)
        <3>1. PICK p \in DOMAIN lines : lines[p] = l
            BY <2>2 DEF ToSet
        <3>2. p \in P
            BY <1>2, <2>2, <3>1
        <3> QED BY <1>3, <3>1, <3>2
    <2> QED BY <2>1, <2>2
<1> QED BY <1>3, <1>4 DEF hits

\* What is true of anything that a search finds among some lines.
FoundIn(found, lines, range, keyword) ==
    /\ IsList(found) /\ Into(found, lines)
    /\ \A l \in ToSet(found) : InRange(l, range) /\ Matches(l, keyword)

LEMMA NoneIsFound == ASSUME NEW lines, NEW range, NEW keyword
                     PROVE  FoundIn(<<>>, lines, range, keyword)
<1> DEFINE e == <<>>
<1>1. IsList(e) /\ Len(e) = 0 /\ DOMAIN e = {}
    BY EmptyList
<1>2. ToSet(e) = {}
    BY <1>1 DEF ToSet
<1> DEFINE f == [i \in DOMAIN e |-> 0]
<1>3. f = [i \in DOMAIN e |-> f[i]]
    OBVIOUS
<1> HIDE DEF e, f
<1>4. Into(e, lines)
    BY <1>1, <1>3, IntoIs
<1> QED BY <1>1, <1>2, <1>4 DEF FoundIn, e

LEMMA FoundInV2 ==
    ASSUME NEW file, NEW id, NEW lists, NEW dictLen, IsV2(file, id, lists, dictLen),
           NEW range, NEW keyword
    PROVE  FoundIn(Search(file, range, keyword).lines, FlattenSeq(lists), range, keyword)
<1> DEFINE n == Len(lists)
           chosen == ChosenChunks(file, lists, dictLen, range, keyword)
           m == Len(chosen)
           a == [k \in 1..m |-> Hits(lists[chosen[k]], range, keyword)]
           found == Search(file, range, keyword).lines
<1>1. found = FlattenSeq(a)
    BY SearchV2Is
<1>2. /\ IsList(lists) /\ n \in Nat /\ lists = [i \in 1..n |-> lists[i]]
      /\ \A i \in 1..n : IsList(lists[i])
    BY ListsAreLines DEF IsList
<1>3. /\ IsList(chosen) /\ ToSet(chosen) = WantedChunks(file, lists, dictLen, range, keyword)
      /\ \A j, k \in 1..m : chosen[j] = chosen[k] => j = k
    BY <1>2, ChosenAre
<1>4. m \in Nat /\ \A k \in 1..m : chosen[k] \in 1..n
    <2> HIDE DEF chosen
    <2>1. m \in Nat /\ DOMAIN chosen = 1..m
        BY <1>3 DEF IsList
    <2>2. ToSet(chosen) \subseteq 1..n
        BY <1>3 DEF WantedChunks
    <2> QED BY <2>1, <2>2 DEF ToSet
<1>5. a = [k \in 1..m |-> a[k]] /\ \A k \in 1..m : a[k] = Hits(lists[chosen[k]], range, keyword)
    OBVIOUS
<1> HIDE DEF a, m, n, chosen, found
<1>6. ASSUME NEW k \in 1..m
      PROVE  /\ IsList(a[k]) /\ Into(a[k], lists[chosen[k]])
             /\ \A l \in ToSet(a[k]) : InRange(l, range) /\ Matches(l, keyword)
    <2>1. IsList(lists[chosen[k]])
        BY <1>2, <1>4
    <2>2. LET hits == Hits(lists[chosen[k]], range, keyword)
          IN /\ IsList(hits) /\ Into(hits, lists[chosen[k]])
             /\ \A l \in ToSet(hits) : InRange(l, range) /\ Matches(l, keyword)
        BY <2>1, HitsAre
    <2> QED BY <1>5, <2>2
<1>7. IsList(FlattenSeq(a)) /\ ToSet(FlattenSeq(a)) = UNION {ToSet(a[k]) : k \in 1..m}
    <2>1. \A k \in 1..m : IsList(a[k])
        BY <1>6
    <2>2. IsList(FlattenSeq(a))
        BY <1>4, <1>5, <2>1, FlattenPlaces
    <2>3. ToSet(FlattenSeq(a)) = UNION {ToSet(a[k]) : k \in 1..m}
        BY <1>4, <1>5, <2>1, FlattenHas
    <2> QED BY <2>2, <2>3
<1>8. Into(FlattenSeq(a), FlattenSeq(lists))
    <2>1. a = [k \in 1..m |-> a[k]] /\ \A k \in 1..m : IsList(a[k])
        BY <1>5, <1>6
    <2>2. \A k \in 1..m : chosen[k] \in 1..n /\ Into(a[k], lists[chosen[k]])
        BY <1>4, <1>6
    <2>3. \A j, k \in 1..m : chosen[j] = chosen[k] => j = k
        BY <1>3 DEF m
    <2>4. m \in Nat /\ n \in Nat /\ lists = [i \in 1..n |-> lists[i]] /\ \A i \in 1..n : IsList(lists[i])
        BY <1>2, <1>4
    <2>5. EachIsInto(a, m, lists, n, chosen)
        BY <2>1, <2>2, <2>3, <2>4 DEF EachIsInto
    <2> QED BY <2>5, FlattenInto
<1>9. FoundIn(found, FlattenSeq(lists), range, keyword)
    <2>1. \A l \in ToSet(FlattenSeq(a)) : InRange(l, range) /\ Matches(l, keyword)
        BY <1>6, <1>7
    <2> QED BY <1>1, <1>7, <1>8, <2>1 DEF FoundIn
<1> QED BY <1>9 DEF found

LEMMA FoundInV1 ==
    ASSUME NEW file, NEW id, NEW lists, IsV1(file, id, lists), NEW range, NEW keyword
    PROVE  FoundIn(Search(file, range, keyword).lines, FlattenSeq(lists), range, keyword)
<1> DEFINE found == Search(file, range, keyword).lines
           hits == Hits(LegacyLines, range, keyword)
<1>1. FlattenSeq(lists) = LegacyLines /\ IsList(LegacyLines)
    BY DEF IsV1
<1>2. found = hits \/ found = <<>>
    BY SearchV1Is
<1>3. FoundIn(hits, LegacyLines, range, keyword)
    BY <1>1, HitsAre DEF FoundIn
<1> QED BY <1>1, <1>2, <1>3, NoneIsFound

\* The lines of a file, and what a search of it finds.
LEMMA SearchIs ==
    ASSUME FilesAreWritten, NEW id \in DOMAIN files, NEW range, NEW keyword
    PROVE  /\ FoundIn(Search(files[id], range, keyword).lines, LinesIn(id), range, keyword)
           /\ IsList(LinesIn(id)) /\ \A l \in ToSet(LinesIn(id)) : l.ts \in Nat
<1>1. CASE IsV1(files[id], id, sealed[id])
    <2>1. FlattenSeq(sealed[id]) = LegacyLines /\ IsList(LegacyLines)
        BY <1>1 DEF IsV1
    <2>2. \A l \in ToSet(LegacyLines) : l.ts \in Nat
        BY LinesAssumption
    <2> QED BY <1>1, <2>1, <2>2, FoundInV1 DEF LinesIn
<1>2. ASSUME NEW dictLen, IsV2(files[id], id, sealed[id], dictLen)
      PROVE  /\ FoundIn(Search(files[id], range, keyword).lines, LinesIn(id), range, keyword)
             /\ IsList(LinesIn(id)) /\ \A l \in ToSet(LinesIn(id)) : l.ts \in Nat
    <2>1. IsList(FlattenSeq(sealed[id])) /\ ToSet(FlattenSeq(sealed[id])) \subseteq Lines
        BY <1>2, ListsAreLines
    <2>2. \A l \in Lines : l.ts \in Nat
        BY LinesAssumption
    <2> QED BY <1>2, <2>1, <2>2, FoundInV2 DEF LinesIn
<1> QED BY <1>1, <1>2, KindOf

-----------------------------------------------------------------------------
(* Queries.                                                                 *)

\* All that is in the segments of the list, and all that a query finds there.
InSegments == FlattenSeq([k \in DOMAIN segments |-> LinesIn(segments[k].id)])

LEMMA FilesAreSearched ==
    ASSUME IInv, up, NEW range, NEW keyword
    PROVE  /\ FoundIn(HitsInFiles(range, keyword), InSegments, range, keyword)
           /\ IsList(InSegments) /\ \A l \in ToSet(InSegments) : l.ts \in Nat
           /\ \A k \in DOMAIN segments : Meets(segments[k], range) =>
                 ToSet(Search(files[segments[k].id], range, keyword).lines)
                     \subseteq ToSet(HitsInFiles(range, keyword))
<1> DEFINE n == Len(segments)
           P == {i \in DOMAIN segments : Meets(segments[i], range)}
           key == [i \in DOMAIN segments |-> -segments[i].max_ts]
           entries == QueryRange(range)
           m == Len(entries)
           a == [i \in DOMAIN entries |-> Search(files[entries[i].id], range, keyword).lines]
           b == [k \in DOMAIN segments |-> LinesIn(segments[k].id)]
<1>1. /\ FilesAreWritten /\ IsList(segments)
      /\ \A k \in 1..n : /\ segments[k].id \in DOMAIN files
                         /\ MetaIsTrue(segments[k], files[segments[k].id],
                                       sealed[segments[k].id], segments[k].id \in scanned)
    BY DEF IInv, ListIsOf
<1>2. n \in Nat /\ DOMAIN segments = 1..n
    BY <1>1 DEF IsList
<1>3. entries = Arranged(segments, P, key)
    BY DEF QueryRange
<1>4. Sortable(P, key)
    <2>1. IsFiniteSet(1..n)
        BY <1>2, FirstNumbers
    <2>2. P \subseteq 1..n /\ P \subseteq Int
        BY <1>2
    <2>3. IsFiniteSet(P)
        BY <2>1, <2>2, FS_Subset
    <2>4. \A i \in 1..n : segments[i].max_ts \in Int
        BY <1>1 DEF MetaIsTrue, MetaIsTyped
    <2>5. \A i \in P : key[i] \in Int
        BY <1>2, <2>2, <2>4
    <2> QED BY <2>2, <2>3, <2>5 DEF Sortable
<1>5. \A p : p \in P <=> p \in 1..n /\ Meets(segments[p], range)
    BY <1>2
<1>6. HitsInFiles(range, keyword) = FlattenSeq(a)
    BY DEF HitsInFiles
<1> HIDE DEF P, key, entries
<1>7. Arranges(entries, segments, P, key)
    BY <1>3, <1>4, ArrangedIs
<1>8. PICK at : /\ InOrderOf(P, key, at) /\ IsList(entries) /\ m = Len(at)
                /\ \A k \in 1..Len(at) : entries[k] = segments[at[k]]
    BY <1>7 DEF Arranges
<1>9. /\ m \in Nat /\ DOMAIN entries = 1..m
      /\ \A k \in 1..m : at[k] \in P /\ entries[k] = segments[at[k]]
      /\ \A j, k \in 1..m : at[j] = at[k] => j = k
      /\ \A p \in P : \E k \in 1..m : at[k] = p
    BY <1>8 DEF InOrderOf, IsList
<1>10. /\ a = [i \in 1..m |-> a[i]] /\ b = [k \in 1..n |-> b[k]]
       /\ \A i \in 1..m : a[i] = Search(files[entries[i].id], range, keyword).lines
       /\ \A k \in 1..n : b[k] = LinesIn(segments[k].id)
    BY <1>2, <1>9
<1>11. InSegments = FlattenSeq(b)
    BY DEF InSegments
<1> HIDE DEF a, b, m, n
<1>12. ASSUME NEW k \in 1..n
       PROVE  /\ FoundIn(Search(files[segments[k].id], range, keyword).lines, b[k], range, keyword)
              /\ IsList(b[k]) /\ \A l \in ToSet(b[k]) : l.ts \in Nat
    <2>1. segments[k].id \in DOMAIN files
        BY <1>1 DEF n
    <2> DEFINE id == segments[k].id
    <2>2. id \in DOMAIN files
        BY <2>1
    <2> HIDE DEF id
    <2>3. /\ FoundIn(Search(files[id], range, keyword).lines, LinesIn(id), range, keyword)
          /\ IsList(LinesIn(id)) /\ \A l \in ToSet(LinesIn(id)) : l.ts \in Nat
        BY <1>1, <2>2, SearchIs
    <2>4. b[k] = LinesIn(id)
        BY <1>10 DEF id
    <2> QED BY <2>3, <2>4 DEF id
<1>13. ASSUME NEW i \in 1..m
       PROVE  at[i] \in 1..n /\ FoundIn(a[i], b[at[i]], range, keyword)
    <2>1. at[i] \in 1..n /\ entries[i] = segments[at[i]]
        BY <1>5, <1>9
    <2>2. a[i] = Search(files[segments[at[i]].id], range, keyword).lines
        BY <1>10, <2>1
    <2> QED BY <1>12, <2>1, <2>2
<1>14. Into(FlattenSeq(a), FlattenSeq(b))
    <2>1. \A i \in 1..m : IsList(a[i]) /\ at[i] \in 1..n /\ Into(a[i], b[at[i]])
        BY <1>13 DEF FoundIn
    <2>2. \A k \in 1..n : IsList(b[k])
        BY <1>12
    <2>3. EachIsInto(a, m, b, n, at)
        <3>1. n \in Nat
            BY <1>2 DEF n
        <3> QED BY <1>9, <1>10, <2>1, <2>2, <3>1 DEF EachIsInto
    <2> QED BY <2>3, FlattenInto
<1>15. /\ IsList(FlattenSeq(a)) /\ ToSet(FlattenSeq(a)) = UNION {ToSet(a[i]) : i \in 1..m}
    <2>1. \A i \in 1..m : IsList(a[i])
        BY <1>13 DEF FoundIn
    <2>2. IsList(FlattenSeq(a))
        BY <1>9, <1>10, <2>1, FlattenPlaces
    <2>3. ToSet(FlattenSeq(a)) = UNION {ToSet(a[i]) : i \in 1..m}
        BY SMTT(40), <1>9, <1>10, <2>1, FlattenHas
    <2> QED BY <2>2, <2>3
<1>16. /\ IsList(FlattenSeq(b)) /\ ToSet(FlattenSeq(b)) = UNION {ToSet(b[k]) : k \in 1..n}
    <2>1. \A k \in 1..n : IsList(b[k])
        BY <1>12
    <2>0. n \in Nat
        BY <1>2 DEF n
    <2>2. IsList(FlattenSeq(b))
        BY <1>10, <2>0, <2>1, FlattenPlaces
    <2>3. ToSet(FlattenSeq(b)) = UNION {ToSet(b[k]) : k \in 1..n}
        BY <1>10, <2>0, <2>1, FlattenHas
    <2> QED BY <2>2, <2>3
<1>17. FoundIn(FlattenSeq(a), FlattenSeq(b), range, keyword)
    <2>1. \A i \in 1..m : \A l \in ToSet(a[i]) : InRange(l, range) /\ Matches(l, keyword)
        BY <1>13 DEF FoundIn
    <2>2. \A l \in ToSet(FlattenSeq(a)) : InRange(l, range) /\ Matches(l, keyword)
        BY <1>15, <2>1
    <2> QED BY <1>14, <1>15, <2>2 DEF FoundIn
<1>18. \A l \in ToSet(FlattenSeq(b)) : l.ts \in Nat
    BY <1>12, <1>16
<1>19. ASSUME NEW k \in DOMAIN segments, Meets(segments[k], range)
       PROVE  ToSet(Search(files[segments[k].id], range, keyword).lines) \subseteq ToSet(FlattenSeq(a))
    <2>1. k \in P
        BY <1>2, <1>5, <1>19 DEF n
    <2>2. PICK i \in 1..m : at[i] = k
        BY <1>9, <2>1
    <2>3. a[i] = Search(files[segments[k].id], range, keyword).lines
        BY <1>9, <1>10, <2>2
    <2> QED BY <1>15, <2>3
<1> QED BY <1>6, <1>11, <1>16, <1>17, <1>18, <1>19

\* All lines that a query without a limit answers with.
Answer(range, keyword) == HitsInFiles(range, keyword) \o Hits(buffer, range, keyword)

LEMMA AnswerIs ==
    ASSUME IInv, up, NEW range, NEW keyword
    PROVE  /\ IsList(Stored) /\ FoundIn(Answer(range, keyword), Stored, range, keyword)
           /\ \A l \in ToSet(Answer(range, keyword)) : l.ts \in Int
           /\ Query(range, keyword, Len(Stored)) = LatestFirst(Answer(range, keyword))
           /\ ToSet(Answer(range, keyword)) = ToSet(HitsInFiles(range, keyword))
                                                  \cup ToSet(Hits(buffer, range, keyword))
           /\ IsList(HitsInFiles(range, keyword)) /\ IsList(Hits(buffer, range, keyword))
<1> DEFINE f == HitsInFiles(range, keyword)
           h == Hits(buffer, range, keyword)
           all == Answer(range, keyword)
           L == Len(Stored)
<1>1. /\ FoundIn(f, InSegments, range, keyword)
      /\ IsList(InSegments) /\ \A l \in ToSet(InSegments) : l.ts \in Nat
    BY FilesAreSearched
<1>2. IsList(buffer) /\ \A l \in ToSet(buffer) : l.ts \in Nat
    <2>1. buffer \in Seq(Lines)
        BY DEF IInv, TypeOK
    <2>2. IsList(buffer) /\ ToSet(buffer) \subseteq Lines
        BY <2>1, SeqIsList
    <2>3. \A l \in Lines : l.ts \in Nat
        BY LinesAssumption
    <2> QED BY <2>2, <2>3
<1>3. FoundIn(h, buffer, range, keyword)
    BY <1>2, HitsAre DEF FoundIn
<1>4. Stored = buffer \o InSegments /\ all = f \o h
    BY DEF Stored, InSegments, Answer
<1> HIDE DEF f, h, all
<1>5. /\ IsList(f) /\ IsList(h) /\ Into(f, InSegments) /\ Into(h, buffer)
      /\ \A l \in ToSet(f) \cup ToSet(h) : InRange(l, range) /\ Matches(l, keyword)
    BY <1>1, <1>3 DEF FoundIn
<1>6. IsList(all) /\ ToSet(all) = ToSet(f) \cup ToSet(h) /\ Len(all) = Len(f) + Len(h)
    BY <1>4, <1>5, ConcatIs
<1>7. IsList(Stored) /\ ToSet(Stored) = ToSet(buffer) \cup ToSet(InSegments)
    BY <1>1, <1>2, <1>4, ConcatIs
<1>8. Into(all, Stored)
    BY <1>1, <1>2, <1>4, <1>5, IntoConcat
<1>9. Len(all) <= L /\ ToSet(all) \subseteq ToSet(Stored)
    BY <1>6, <1>7, <1>8, IntoCount
<1>10. \A l \in ToSet(all) : l.ts \in Int
    BY <1>1, <1>2, <1>7, <1>9
<1>11. L \in Nat /\ Len(all) \in Nat /\ Len(f) \in Nat /\ Len(h) \in Nat
    BY <1>5, <1>6, <1>7 DEF IsList
<1>12. Query(range, keyword, L) = LatestFirst(Take(Take(f, L) \o h, L))
    BY DEF Query, f, h
<1>13. Take(f, L) = f
    <2>1. Len(f) <= L
        <3> HIDE DEF L
        <3> QED BY <1>6, <1>9, <1>11
    <2> QED BY <1>5, <1>11, <2>1, TakeIs
<1>14. Take(all, L) = all
    BY <1>6, <1>9, <1>11, TakeIs
<1>15. Query(range, keyword, L) = LatestFirst(all)
    BY <1>4, <1>12, <1>13, <1>14
<1>16. FoundIn(all, Stored, range, keyword)
    BY <1>5, <1>6, <1>8 DEF FoundIn
<1> QED BY <1>5, <1>6, <1>7, <1>10, <1>15, <1>16 DEF f, h, all

LEMMA MinOfTwo ==
    ASSUME NEW x \in Int, NEW y \in Int
    PROVE  Min({x, y}) = IF x <= y THEN x ELSE y
<1>1. {x, y} = {x} \cup {y}
    OBVIOUS
<1>2. IsFiniteSet({x})
    BY FS_Singleton
<1>3. IsFiniteSet({x} \cup {y})
    BY <1>2, FS_AddElement
<1>4. IsFiniteSet({x, y}) /\ {x, y} \subseteq Int /\ {x, y} # {}
    BY <1>1, <1>3
<1>5. Min({x, y}) \in {x, y} /\ \A z \in {x, y} : Min({x, y}) <= z
    BY <1>4, ExtremesAre
<1> QED BY <1>5

LEMMA QueriesAreSound == ASSUME IInv PROVE QueryIsSound
<1> SUFFICES ASSUME up, NEW range \in Ranges, NEW keyword \in Keywords
             PROVE  LET all == Query(range, keyword, Len(Stored))
                        few == Query(range, keyword, 1)
                    IN /\ \A l \in ToSet(all) :
                             /\ InRange(l, range) /\ Matches(l, keyword)
                             /\ Count(l, all) <= Count(l, Stored)
                       /\ \A i, j \in DOMAIN all : i < j => all[i].ts >= all[j].ts
                       /\ Len(few) = Min({1, Len(all)}) /\ ToSet(few) \subseteq ToSet(all)
    BY DEF QueryIsSound
<1> DEFINE f == HitsInFiles(range, keyword)
           h == Hits(buffer, range, keyword)
           given == Answer(range, keyword)
           all == Query(range, keyword, Len(Stored))
           few == Query(range, keyword, 1)
           t == Take(f, 1)
           u == t \o h
           c == Take(u, 1)
<1>1. /\ IsList(Stored) /\ FoundIn(given, Stored, range, keyword)
      /\ \A l \in ToSet(given) : l.ts \in Int
      /\ all = LatestFirst(given) /\ ToSet(given) = ToSet(f) \cup ToSet(h)
      /\ IsList(f) /\ IsList(h)
    BY AnswerIs
<1>2. few = LatestFirst(c)
    BY DEF Query
<1>3. given = f \o h
    BY DEF Answer
<1> HIDE DEF given, f, h, all, few
<1>4. /\ IsList(given) /\ Into(given, Stored)
      /\ \A l \in ToSet(given) : InRange(l, range) /\ Matches(l, keyword)
    BY <1>1 DEF FoundIn
<1>5. DOMAIN given = 1..Len(given) /\ Len(given) \in Nat /\ Len(f) \in Nat /\ Len(h) \in Nat
    BY <1>1, <1>4 DEF IsList
<1>6. /\ IsList(all) /\ Len(all) = Len(given) /\ ToSet(all) = ToSet(given) /\ Into(all, given)
      /\ \A i, j \in 1..Len(all) : i < j => all[i].ts >= all[j].ts
    <2>1. \A i \in 1..Len(given) : given[i].ts \in Int
        BY <1>1, <1>5 DEF ToSet
    <2>2. LET r == LatestFirst(given)
          IN /\ IsList(r) /\ Len(r) = Len(given) /\ ToSet(r) = ToSet(given) /\ Into(r, given)
             /\ \A i, j \in 1..Len(r) : i < j => r[i].ts >= r[j].ts
        BY <1>4, <2>1, LatestFirstIs
    <2> QED BY <1>1, <2>2
<1>7. Into(all, Stored)
    BY <1>4, <1>6, IntoInto
<1>8. \A l : Count(l, all) <= Count(l, Stored)
    BY <1>1, <1>6, <1>7, IntoCount
<1>9. \A i, j \in DOMAIN all : i < j => all[i].ts >= all[j].ts
    <2>1. DOMAIN all = 1..Len(all)
        BY <1>6 DEF IsList
    <2> QED BY <1>6, <2>1
<1>10. Len(all) = Len(f) + Len(h)
    BY <1>1, <1>3, <1>6, ConcatIs
<1>11. /\ IsList(t) /\ Len(t) = (IF 1 <= Len(f) THEN 1 ELSE Len(f))
       /\ ToSet(t) \subseteq ToSet(f)
    <2>1. 1 \in Nat
        OBVIOUS
    <2>2. IsList(t) /\ Len(t) = (IF 1 <= Len(f) THEN 1 ELSE Len(f))
        BY <1>1, <2>1, TakeIs
    <2>3. Into(t, f)
        BY <1>1, <2>1, IntoTake
    <2> QED BY <1>1, <2>2, <2>3, IntoCount
<1> HIDE DEF t
<1>12. IsList(u) /\ Len(u) = Len(t) + Len(h) /\ ToSet(u) = ToSet(t) \cup ToSet(h)
    BY <1>1, <1>11, ConcatIs
<1> HIDE DEF u
<1>13. /\ IsList(c) /\ Len(c) = (IF 1 <= Len(u) THEN 1 ELSE Len(u))
       /\ ToSet(c) \subseteq ToSet(u)
    <2>1. 1 \in Nat
        OBVIOUS
    <2>2. IsList(c) /\ Len(c) = (IF 1 <= Len(u) THEN 1 ELSE Len(u))
        BY <1>12, <2>1, TakeIs
    <2>3. Into(c, u)
        BY <1>12, <2>1, IntoTake
    <2> QED BY <1>12, <2>2, <2>3, IntoCount
<1> HIDE DEF c
<1>14. ToSet(c) \subseteq ToSet(given)
    BY <1>1, <1>11, <1>12, <1>13
<1>15. Len(few) = Len(c) /\ ToSet(few) = ToSet(c)
    <2>1. DOMAIN c = 1..Len(c)
        BY <1>13 DEF IsList
    <2>2. \A i \in 1..Len(c) : c[i] \in ToSet(c)
        BY <2>1 DEF ToSet
    <2>3. \A i \in 1..Len(c) : c[i].ts \in Int
        BY <1>1, <1>14, <2>2
    <2>4. Len(LatestFirst(c)) = Len(c) /\ ToSet(LatestFirst(c)) = ToSet(c)
        BY <1>13, <2>3, LatestFirstIs
    <2> QED BY <1>2, <2>4
<1>16. Len(few) = Min({1, Len(all)})
    <2>1. Len(all) \in Int /\ 1 \in Int
        BY <1>5, <1>6
    <2>2. Min({1, Len(all)}) = IF 1 <= Len(all) THEN 1 ELSE Len(all)
        BY <2>1, MinOfTwo
    <2>3. Len(c) = IF 1 <= Len(f) + Len(h) THEN 1 ELSE Len(f) + Len(h)
        <3>1. CASE 1 <= Len(f)
            BY <1>5, <1>11, <1>12, <1>13, <3>1
        <3>2. CASE ~(1 <= Len(f))
            BY <1>5, <1>11, <1>12, <1>13, <3>2
        <3> QED BY <3>1, <3>2
    <2> QED BY <1>10, <1>15, <2>2, <2>3
<1>17. \A l \in ToSet(all) :
         InRange(l, range) /\ Matches(l, keyword) /\ Count(l, all) <= Count(l, Stored)
    BY <1>4, <1>6, <1>8
<1>18. ToSet(few) \subseteq ToSet(all)
    BY <1>6, <1>14, <1>15
<1> QED BY <1>9, <1>16, <1>17, <1>18 DEF all, few

\* A query answers with stored lines that match, none more often than it was
\* stored, the latest first, and with no more than the limit.
THEOREM QueriesAreAlwaysSound == Spec => []QueryIsSound
<1>1. IInv => QueryIsSound
    BY QueriesAreSound
<1> QED BY <1>1, IInvHolds, PTL

-----------------------------------------------------------------------------
(* What a query may not miss.                                               *)

LEMMA SpansEnd ==
    ASSUME NEW n \in Nat, NEW seqs, \A i \in 1..n : IsList(seqs[i]),
           NEW flat, NEW c, Spans(flat, seqs, n, c), NEW i \in 0..n
    PROVE  c[i] <= Len(flat)
<1>1. /\ c[n] = Len(flat) /\ \A j \in 0..n : c[j] \in Nat
      /\ \A j \in 1..n : c[j] = c[j - 1] + Len(seqs[j]) /\ Len(seqs[j]) \in Nat
    BY DEF Spans, IsList
<1> DEFINE Good == {k \in Nat : i + k <= n => c[i] <= c[i + k]}
<1>2. 0 \in Good
    <2>1. i + 0 = i /\ c[i] \in Nat
        BY <1>1
    <2>2. c[i] <= c[i + 0]
        BY <2>1
    <2> QED BY <2>2
<1>3. ASSUME NEW k \in Nat, k \in Good PROVE k + 1 \in Good
    <2>1. SUFFICES ASSUME i + (k + 1) <= n PROVE c[i] <= c[i + (k + 1)]
        OBVIOUS
    <2>2. i + k <= n /\ i + k \in 0..n /\ i + (k + 1) \in 1..n /\ (i + (k + 1)) - 1 = i + k
        BY <2>1
    <2>3. c[i + (k + 1)] = c[i + k] + Len(seqs[i + (k + 1)]) /\ Len(seqs[i + (k + 1)]) \in Nat
        BY <1>1, <2>2
    <2>4. c[i + k] \in Nat /\ c[i] \in Nat /\ c[i] <= c[i + k]
        BY <1>1, <1>3, <2>2
    <2> QED BY <2>3, <2>4
<1>4. n - i \in Nat /\ i + (n - i) = n
    OBVIOUS
<1>5. n - i \in Good
    <2> HIDE DEF Good
    <2> QED BY <1>2, <1>3, <1>4, NumbersUpTo
<1>6. c[i] <= c[n]
    BY <1>4, <1>5
<1> QED BY <1>1, <1>6

\* The parts of what is in order are in order.
LEMMA PartsInOrder ==
    ASSUME NEW n \in Nat, NEW seqs, seqs = [i \in 1..n |-> seqs[i]],
           \A i \in 1..n : IsList(seqs[i]), InOrder(FlattenSeq(seqs)), NEW i \in 1..n,
           NEW j \in 1..Len(seqs[i]), NEW k \in 1..Len(seqs[i]), j < k
    PROVE  seqs[i][j].ts <= seqs[i][k].ts
<1> DEFINE flat == FlattenSeq(seqs)
<1>0. InOrder(flat)
    OBVIOUS
<1>1. PICK c : Spans(flat, seqs, n, c)
    BY FlattenSpans
<1> HIDE DEF flat
<1>2. /\ IsList(flat) /\ c[i] \in Nat /\ c[i - 1] \in Nat /\ c[i] = c[i - 1] + Len(seqs[i])
      /\ flat[c[i - 1] + j] = seqs[i][j] /\ flat[c[i - 1] + k] = seqs[i][k]
    BY SMTT(40), <1>1 DEF Spans
<1>3. c[i] <= Len(flat)
    <2>1. i \in 0..n
        OBVIOUS
    <2> QED BY <1>1, <2>1, SpansEnd
<1>4. Len(seqs[i]) \in Nat /\ Len(flat) \in Nat /\ DOMAIN flat = 1..Len(flat)
    BY <1>2 DEF IsList
<1>5. /\ c[i - 1] + j \in DOMAIN flat /\ c[i - 1] + k \in DOMAIN flat
      /\ c[i - 1] + j < c[i - 1] + k
    <2>1. \A x, y, z, u, v \in Nat :
             /\ u \in 1..z /\ v \in 1..z /\ u < v /\ x + z <= y
             => x + u \in 1..y /\ x + v \in 1..y /\ x + u < x + v
        OBVIOUS
    <2>2. j \in Nat /\ k \in Nat
        BY <1>4
    <2>3. c[i - 1] + Len(seqs[i]) <= Len(flat)
        BY <1>2, <1>3
    <2> QED BY <1>2, <1>4, <2>1, <2>2, <2>3
<1> QED BY <1>0, <1>2, <1>5 DEF InOrder

\* What lies between the first and the last of lines in order meets the range.
LEMMA RangeIsMet ==
    ASSUME NEW lines, IsList(lines), Len(lines) > 0,
           \A k \in 1..Len(lines) : lines[k].ts \in Int,
           \A j, k \in 1..Len(lines) : j < k => lines[j].ts <= lines[k].ts,
           NEW range, range[1] \in Int, range[2] \in Int,
           NEW l \in ToSet(lines), InRange(l, range),
           NEW entry, entry.min_ts = lines[1].ts, entry.max_ts = lines[Len(lines)].ts
    PROVE  Meets(entry, range)
<1> DEFINE n == Len(lines)
<1>1. n \in Nat /\ DOMAIN lines = 1..n
    BY DEF IsList
<1>2. PICK p \in 1..n : lines[p] = l
    BY <1>1 DEF ToSet
<1>3. 1 \in 1..n /\ n \in 1..n
    BY <1>1
<1>4. lines[1].ts <= l.ts
    <2>1. CASE p = 1
        BY <1>2, <1>3, <2>1
    <2>2. CASE p # 1
        <3>1. 1 < p
            BY <1>1, <2>2
        <3> QED BY <1>2, <1>3, <3>1
    <2> QED BY <2>1, <2>2
<1>5. l.ts <= lines[n].ts
    <2>1. CASE p = n
        BY <1>2, <1>3, <2>1
    <2>2. CASE p # n
        <3>1. p < n
            <4>1. \A x \in Nat : \A y \in 1..x : y # x => y < x
                OBVIOUS
            <4> QED BY <1>1, <2>2, <4>1
        <3> QED BY <1>2, <1>3, <3>1
    <2> QED BY <2>1, <2>2
<1>6. lines[1].ts \in Int /\ lines[n].ts \in Int /\ l.ts \in Int
    BY <1>2, <1>3
<1>7. range[1] <= l.ts /\ l.ts <= range[2]
    BY DEF InRange
<1>8. entry.max_ts >= range[1] /\ entry.min_ts <= range[2]
    BY <1>4, <1>5, <1>6, <1>7
<1> QED BY <1>8 DEF Meets

\* The template has the keyword in a literal part.
Names(template, keyword) ==
    \E k \in DOMAIN Literals(template) : TokenHas(Literals(template)[k], keyword)

LEMMA PatsAre ==
    ASSUME NEW templates, IsList(templates), NEW keyword
    PROVE  \A p : p \in KeywordPats(templates, keyword)
                    <=> \E j \in 1..Len(templates) : p = j - 1 /\ Names(templates[j], keyword)
<1>1. DOMAIN templates = 1..Len(templates)
    BY DEF IsList
<1>2. KeywordPats(templates, keyword)
        = {i - 1 : i \in {j \in DOMAIN templates : Names(templates[j], keyword)}}
    BY DEF KeywordPats, Names
<1> QED BY <1>1, <1>2

\* The pattern filter lets a chunk through that has a line whose template has
\* the keyword, and the only chunk of a segment.
LEMMA PatternsAdmit ==
    ASSUME NEW file, NEW id, NEW lists, NEW dictLen, IsV2(file, id, lists, dictLen),
           NEW i \in 1..Len(lists), NEW l \in ToSet(lists[i]), NEW keyword,
           \/ ~(Len(lists) > 1)
           \/ KeywordPats(TemplatesIn(file), keyword) = {}
           \/ KeywordPats(<<TemplateOf(l, FlattenSeq(lists))>>, keyword) # {}
    PROVE  LET pats == KeywordPats(TemplatesIn(file), keyword)
               summary == SummaryAt(file, SummaryStart(SizeOf(file), dictLen, Len(lists)), i)
           IN pats = {} \/ \E p \in pats : MayContainPattern(summary, p)
<1> DEFINE templates == TemplatesIn(file)
           pats == KeywordPats(templates, keyword)
           summary == SummaryAt(file, SummaryStart(SizeOf(file), dictLen, Len(lists)), i)
           logs == FlattenSeq(lists)
           own == TemplateOf(l, logs)
<1>1. /\ IsList(lists) /\ Len(lists) \in Nat \ {0}
      /\ \A k \in 1..Len(lists) : ToSet(lists[k]) \subseteq ToSet(logs)
      /\ ToSet(logs) = UNION {ToSet(lists[k]) : k \in 1..Len(lists)}
      /\ IsList(templates) /\ ToSet(templates) = {TemplateOf(x, logs) : x \in ToSet(logs)}
    BY ListsAreLines DEF IsV2, BatchIs
<1>2. \A k \in 1..Len(templates) :
         k <= PatternBits /\ (\E x \in ToSet(lists[i]) : templates[k] = TemplateOf(x, logs))
           => k - 1 \in summary.pattern_mask
    BY WhatFilesTell DEF ChunkTells
<1>3. \A p : p \in pats <=> \E j \in 1..Len(templates) : p = j - 1 /\ Names(templates[j], keyword)
    BY <1>1, PatsAre
<1>4. pats = {} \/ ~(Len(lists) > 1) \/ KeywordPats(<<own>>, keyword) # {}
    OBVIOUS
<1>5. DOMAIN templates = 1..Len(templates) /\ Len(templates) \in Nat
    BY <1>1 DEF IsList
<1> HIDE DEF templates, pats, summary, logs
<1>6. ASSUME NEW j \in 1..Len(templates), Names(templates[j], keyword),
             NEW x \in ToSet(lists[i]), templates[j] = TemplateOf(x, logs)
      PROVE  \E p \in pats : MayContainPattern(summary, p)
    <2>1. j - 1 \in pats
        BY <1>3, <1>6
    <2>2. j - 1 >= PatternBits \/ j - 1 \in summary.pattern_mask
        <3>1. j <= PatternBits => j - 1 \in summary.pattern_mask
            BY <1>2, <1>6
        <3>2. PatternBits \in Nat
            BY IndexAssumption
        <3>3. j \in Nat
            BY <1>5
        <3>4. j <= PatternBits \/ j - 1 >= PatternBits
            BY <3>2, <3>3
        <3> QED BY <3>1, <3>4
    <2> QED BY <2>1, <2>2 DEF MayContainPattern
<1>7. CASE KeywordPats(<<own>>, keyword) # {}
    <2> DEFINE o == <<own>>
    <2>1. IsList(o) /\ Len(o) = 1 /\ o[1] = own
        BY DEF IsList
    <2> HIDE DEF own
    <2>2. Names(own, keyword)
        <3> HIDE DEF o
        <3>1. PICK p : p \in KeywordPats(o, keyword)
            BY <1>7 DEF o
        <3>2. PICK j \in 1..Len(o) : Names(o[j], keyword)
            BY <2>1, <3>1, PatsAre
        <3>3. j = 1
            BY <2>1, <3>2
        <3> QED BY <2>1, <3>2, <3>3
    <2>3. l \in ToSet(logs)
        BY <1>1
    <2>4. own \in ToSet(templates)
        BY <1>1, <2>3 DEF own
    <2>5. PICK j \in 1..Len(templates) : templates[j] = own
        BY <1>5, <2>4 DEF ToSet
    <2>6. \E p \in pats : MayContainPattern(summary, p)
        BY <1>6, <2>2, <2>5 DEF own
    <2> QED BY <2>6 DEF pats, summary, templates
<1>8. CASE ~(Len(lists) > 1) /\ pats # {}
    <2>1. Len(lists) = 1 /\ i = 1
        <3>1. \A n \in Nat \ {0} : ~(n > 1) => n = 1 /\ \A k \in 1..n : k = 1
            OBVIOUS
        <3>2. ~(Len(lists) > 1) /\ Len(lists) \in Nat \ {0}
            BY <1>1, <1>8
        <3> QED BY <3>1, <3>2
    <2>2. PICK p \in pats : TRUE
        BY <1>8
    <2>3. PICK j \in 1..Len(templates) : Names(templates[j], keyword)
        BY <1>3, <2>2
    <2>4. templates[j] \in ToSet(templates)
        BY <1>5 DEF ToSet
    <2>5. PICK x \in ToSet(logs) : templates[j] = TemplateOf(x, logs)
        BY <1>1, <2>4
    <2>6. x \in ToSet(lists[i])
        <3>1. PICK k \in 1..Len(lists) : x \in ToSet(lists[k])
            BY <1>1
        <3>2. k = i
            BY <2>1, <3>1
        <3> QED BY <3>1, <3>2
    <2>7. \E q \in pats : MayContainPattern(summary, q)
        BY <1>6, <2>3, <2>5, <2>6
    <2> QED BY <2>7 DEF pats, summary, templates
<1>9. CASE pats = {}
    BY <1>9 DEF pats, summary, templates
<1> QED BY <1>4, <1>7, <1>8, <1>9

\* The pattern filter may hide the line from a search for the keyword.
Misled(id, l, keyword) ==
    LET templates == TemplatesIn(files[id])
        own == TemplateOf(l, LinesIn(id))
    IN /\ Len(sealed[id]) > 1
       /\ KeywordPats(templates, keyword) # {}
       /\ KeywordPats(<<own>>, keyword) = {}

LEMMA SearchFindsV2 ==
    ASSUME NEW file, NEW id, NEW lists, NEW dictLen, IsV2(file, id, lists, dictLen),
           InOrder(FlattenSeq(lists)),
           NEW range, range[1] \in Int, range[2] \in Int, NEW keyword,
           NEW l \in ToSet(FlattenSeq(lists)), InRange(l, range), Matches(l, keyword),
           \/ ~(Len(lists) > 1)
           \/ KeywordPats(TemplatesIn(file), keyword) = {}
           \/ KeywordPats(<<TemplateOf(l, FlattenSeq(lists))>>, keyword) # {}
    PROVE  l \in ToSet(Search(file, range, keyword).lines)
<1> DEFINE n == Len(lists)
           chosen == ChosenChunks(file, lists, dictLen, range, keyword)
           m == Len(chosen)
           a == [k \in 1..m |-> Hits(lists[chosen[k]], range, keyword)]
<1>1. /\ IsList(lists) /\ n \in Nat \ {0} /\ lists = [i \in 1..n |-> lists[i]]
      /\ \A i \in 1..n : /\ IsList(lists[i]) /\ Len(lists[i]) \in Nat \ {0}
                         /\ \A k \in 1..Len(lists[i]) : lists[i][k].ts \in Int
    BY ListsAreLines DEF IsList
<1>2. PICK i \in 1..n : l \in ToSet(lists[i])
    <2>1. ToSet(FlattenSeq(lists)) = UNION {ToSet(lists[i]) : i \in 1..Len(lists)}
        BY DEF IsV2, BatchIs
    <2> QED BY <2>1
<1> DEFINE entry == EntryAt(file, 64 + SizeOf(file) + dictLen, i)
<1>3. entry.min_ts = lists[i][1].ts /\ entry.max_ts = lists[i][Len(lists[i])].ts
    <2>1. ChunkTells(file, lists, dictLen, i)
        BY WhatFilesTell
    <2> QED BY <2>1 DEF ChunkTells
<1>4. \A j, k \in 1..Len(lists[i]) : j < k => lists[i][j].ts <= lists[i][k].ts
    <2>1. n \in Nat /\ i \in 1..n
        BY <1>1
    <2> HIDE DEF n
    <2> QED BY <1>1, <2>1, PartsInOrder
<1>5. Meets(entry, range)
    <2>1. IsList(lists[i]) /\ Len(lists[i]) > 0 /\ \A k \in 1..Len(lists[i]) : lists[i][k].ts \in Int
        BY <1>1
    <2> HIDE DEF entry
    <2> QED BY <1>2, <1>3, <1>4, <2>1, RangeIsMet
<1>6. LET pats == KeywordPats(TemplatesIn(file), keyword)
          summary == SummaryAt(file, SummaryStart(SizeOf(file), dictLen, Len(lists)), i)
      IN pats = {} \/ \E p \in pats : MayContainPattern(summary, p)
    BY <1>2, PatternsAdmit
<1>7. ChunkIsWanted(file, lists, dictLen, range, keyword, i)
    BY <1>5, <1>6 DEF ChunkIsWanted, ChunkWanted
<1>8. i \in WantedChunks(file, lists, dictLen, range, keyword)
    BY <1>7 DEF WantedChunks
<1>9. IsList(chosen) /\ ToSet(chosen) = WantedChunks(file, lists, dictLen, range, keyword)
    BY <1>1, ChosenAre
<1> HIDE DEF chosen
<1>10. m \in Nat /\ DOMAIN chosen = 1..m /\ ToSet(chosen) \subseteq 1..n
    BY <1>9 DEF IsList, WantedChunks
<1>11. PICK k \in 1..m : chosen[k] = i
    BY <1>8, <1>9, <1>10 DEF ToSet
<1>12. a = [j \in 1..m |-> a[j]] /\ \A j \in 1..m : a[j] = Hits(lists[chosen[j]], range, keyword)
    OBVIOUS
<1>13. \A j \in 1..m : IsList(a[j])
    <2> TAKE j \in 1..m
    <2>1. chosen[j] \in 1..n
        BY <1>10 DEF ToSet
    <2>2. IsList(lists[chosen[j]])
        BY <1>1, <2>1
    <2> HIDE DEF a
    <2> QED BY <1>12, <2>2, HitsAre
<1>14. l \in ToSet(a[k])
    <2>1. IsList(lists[i])
        BY <1>1
    <2>2. l \in ToSet(Hits(lists[i], range, keyword))
        BY <1>2, <2>1, HitsAre
    <2> HIDE DEF a
    <2> QED BY <1>11, <1>12, <2>2
<1>15. Search(file, range, keyword).lines = FlattenSeq(a)
    BY SearchV2Is DEF chosen
<1> HIDE DEF a, m
<1>16. ToSet(FlattenSeq(a)) = UNION {ToSet(a[j]) : j \in 1..m}
    BY <1>10, <1>12, <1>13, FlattenHas
<1> QED BY <1>11, <1>14, <1>15, <1>16

\* A search finds a line that matches and that the filters cannot hide, when
\* the lines of the file are in order.
LEMMA SearchFinds ==
    ASSUME FilesAreWritten, NEW id \in DOMAIN files, InOrder(LinesIn(id)),
           NEW range, range[1] \in Int, range[2] \in Int, NEW keyword,
           NEW l \in ToSet(LinesIn(id)), InRange(l, range), Matches(l, keyword),
           ~Misled(id, l, keyword)
    PROVE  l \in ToSet(Search(files[id], range, keyword).lines)
<1>1. CASE IsV1(files[id], id, sealed[id])
    <2> DEFINE entry == EntryAt(files[id], HeaderSize, 1)
    <2>1. LinesIn(id) = LegacyLines /\ IsList(LegacyLines) /\ Len(LegacyLines) > 0
        BY <1>1 DEF IsV1, LinesIn
    <2>2. /\ entry.min_ts = LegacyLines[1].ts
          /\ entry.max_ts = LegacyLines[Len(LegacyLines)].ts
          /\ Search(files[id], range, keyword).lines
               = IF Meets(entry, range) THEN Hits(LegacyLines, range, keyword) ELSE <<>>
        BY <1>1, SearchV1Is
    <2>3. DOMAIN LegacyLines = 1..Len(LegacyLines)
        BY <2>1 DEF IsList
    <2>4. \A k \in 1..Len(LegacyLines) : LegacyLines[k].ts \in Int
        <3>1. \A x \in ToSet(LegacyLines) : x.ts \in Nat
            BY LinesAssumption
        <3> QED BY <2>3, <3>1 DEF ToSet
    <2>5. \A j, k \in 1..Len(LegacyLines) : j < k => LegacyLines[j].ts <= LegacyLines[k].ts
        BY <2>1, <2>3 DEF InOrder
    <2> HIDE DEF entry
    <2>6. l \in ToSet(LegacyLines)
        BY <2>1
    <2>7. Meets(entry, range)
        BY <2>1, <2>2, <2>4, <2>5, <2>6, RangeIsMet
    <2>8. l \in ToSet(Hits(LegacyLines, range, keyword))
        BY <2>1, <2>6, HitsAre
    <2> QED BY <2>2, <2>7, <2>8
<1>2. ASSUME NEW dictLen, IsV2(files[id], id, sealed[id], dictLen)
      PROVE  l \in ToSet(Search(files[id], range, keyword).lines)
    <2>1. \/ ~(Len(sealed[id]) > 1)
          \/ KeywordPats(TemplatesIn(files[id]), keyword) = {}
          \/ KeywordPats(<<TemplateOf(l, FlattenSeq(sealed[id]))>>, keyword) # {}
        BY DEF Misled, LinesIn
    <2>2. InOrder(FlattenSeq(sealed[id])) /\ l \in ToSet(FlattenSeq(sealed[id]))
        BY DEF LinesIn
    <2> QED BY <1>2, <2>1, <2>2, SearchFindsV2
<1> QED BY <1>1, <1>2, KindOf

LEMMA QueriesFind == ASSUME IInv PROVE QueryFinds
<1> DEFINE sure(m, keyword) ==
               LET lines == LinesIn(m.id)
               IN IF ~InOrder(lines) THEN {}
                  ELSE {l \in ToSet(lines) :
                          /\ m.min_ts <= l.ts /\ l.ts <= m.max_ts
                          /\ ~Misled(m.id, l, keyword)}
           due(keyword) == ToSet(buffer) \cup
                               UNION {sure(segments[k], keyword) : k \in DOMAIN segments}
<1>1. SUFFICES ASSUME up, NEW range \in Ranges, NEW keyword \in Keywords,
                      NEW l \in due(keyword), InRange(l, range), Matches(l, keyword)
               PROVE  l \in ToSet(Query(range, keyword, Len(Stored)))
    BY DEF QueryFinds, Misled
<1>2. /\ FilesAreWritten /\ IsList(segments) /\ IsList(buffer)
      /\ \A k \in 1..Len(segments) :
            /\ segments[k].id \in DOMAIN files
            /\ MetaIsTrue(segments[k], files[segments[k].id], sealed[segments[k].id],
                          segments[k].id \in scanned)
    <2>1. buffer \in Seq(Lines)
        BY DEF IInv, TypeOK
    <2>2. IsList(buffer)
        BY <2>1, SeqIsList
    <2>3. FilesAreWritten /\ ListIsOf(segments, files, sealed, scanned)
        BY <1>1 DEF IInv
    <2> QED BY <2>2, <2>3 DEF ListIsOf
<1>3. range[1] \in Int /\ range[2] \in Int
    BY IndexAssumption
<1> DEFINE given == Answer(range, keyword)
<1>4. /\ IsList(given) /\ \A x \in ToSet(given) : x.ts \in Int
      /\ Query(range, keyword, Len(Stored)) = LatestFirst(given)
      /\ ToSet(given) = ToSet(HitsInFiles(range, keyword)) \cup ToSet(Hits(buffer, range, keyword))
    BY <1>1, AnswerIs DEF FoundIn
<1> HIDE DEF given
<1>5. ToSet(Query(range, keyword, Len(Stored))) = ToSet(given)
    <2>1. \A i \in 1..Len(given) : given[i].ts \in Int
        BY <1>4 DEF ToSet, IsList
    <2>2. ToSet(LatestFirst(given)) = ToSet(given)
        BY <1>4, <2>1, LatestFirstIs
    <2> QED BY <1>4, <2>2
<1>6. CASE l \in ToSet(buffer)
    <2>1. l \in ToSet(Hits(buffer, range, keyword))
        BY <1>1, <1>2, <1>6, HitsAre
    <2> QED BY <1>4, <1>5, <2>1
<1>7. ASSUME NEW k \in DOMAIN segments, l \in sure(segments[k], keyword)
      PROVE  l \in ToSet(Query(range, keyword, Len(Stored)))
    <2> DEFINE m == segments[k]
               id == m.id
    <2>1. /\ InOrder(LinesIn(id)) /\ l \in ToSet(LinesIn(id))
          /\ m.min_ts <= l.ts /\ l.ts <= m.max_ts /\ ~Misled(id, l, keyword)
        BY <1>7
    <2>2. id \in DOMAIN files /\ m.min_ts \in Int /\ m.max_ts \in Int
        <3>1. k \in 1..Len(segments)
            BY <1>2 DEF IsList
        <3> QED BY <1>2, <3>1 DEF MetaIsTrue, MetaIsTyped
    <2> HIDE DEF id
    <2>3. l.ts \in Int
        <3>1. \A x \in ToSet(LinesIn(id)) : x.ts \in Nat
            BY <1>2, <2>2, SearchIs
        <3> QED BY <2>1, <3>1
    <2>4. range[1] <= l.ts /\ l.ts <= range[2]
        BY <1>1 DEF InRange
    <2> HIDE DEF m
    <2>5. m.max_ts >= range[1] /\ m.min_ts <= range[2]
        BY <1>3, <2>1, <2>2, <2>3, <2>4
    <2>6. Meets(segments[k], range)
        BY <2>5 DEF Meets, m
    <2>7. l \in ToSet(Search(files[id], range, keyword).lines)
        BY <1>1, <1>2, <1>3, <2>1, <2>2, SearchFinds
    <2>8. ToSet(Search(files[id], range, keyword).lines) \subseteq ToSet(HitsInFiles(range, keyword))
        BY <1>1, <1>7, <2>6, FilesAreSearched DEF id, m
    <2> QED BY <1>4, <1>5, <2>7, <2>8
<1> QED BY <1>1, <1>6, <1>7

\* A query misses no matching line of the buffer, and of a segment in time
\* order none that is in the list's range of it and that the pattern filter
\* cannot hide.
THEOREM QueriesAlwaysFind == Spec => []QueryFinds
<1>1. IInv => QueryFinds
    BY QueriesFind
<1> QED BY <1>1, IInvHolds, PTL
===============================================================================
