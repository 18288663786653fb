------------------------- MODULE SegmentFormatProofs -------------------------
(***************************************************************************)
(* What a segment file gives back: every field that the writer of          *)
(* SegmentFormat put into a file is what the readers find, and a file with *)
(* one field changed, or cut, does not pass its CRC.  The lemmas about     *)
(* sums are here because the writer adds up sizes.                         *)
(***************************************************************************)
EXTENDS SegmentFormat, FiniteSetTheorems, WellFoundedInduction, TLAPS

-----------------------------------------------------------------------------
(* Numbers.                                                                 *)

\* Every set of numbers that is not empty has a least element.
LEMMA LeastNumber ==
    ASSUME NEW T, T \subseteq Nat, T # {}
    PROVE  \E x \in T : \A y \in T : x <= y
<1> DEFINE R == OpToRel(<, Nat)
<1>1. IsWellFoundedOn(R, Nat)
    BY NatLessThanWellFounded
<1>2. \A x, y \in Nat : <<y, x>> \in R <=> y < x
    BY DEF OpToRel
<1> HIDE DEF R
<1>3. PICK x \in T : \A y \in T : <<y, x>> \notin R
    BY <1>1, WFMin
<1>4. \A y \in T : ~(y < x)
    BY <1>2, <1>3
<1> QED BY <1>4

\* Induction, with a set in the place of a predicate.
LEMMA NumbersUpTo ==
    ASSUME NEW S, 0 \in S, \A n \in Nat : n \in S => n + 1 \in S
    PROVE  \A n \in Nat : n \in S
<1> DEFINE Bad == {n \in Nat : n \notin S}
<1>1. SUFFICES ASSUME Bad # {} PROVE FALSE
    OBVIOUS
<1>2. PICK x \in Bad : \A y \in Bad : x <= y
    <2>1. Bad \subseteq Nat
        OBVIOUS
    <2> HIDE DEF Bad
    <2> QED BY <1>1, <2>1, LeastNumber
<1>3. x \in Nat /\ x # 0 /\ x - 1 \in Nat
    OBVIOUS
<1>4. x - 1 \in S
    BY <1>2, <1>3
<1>5. (x - 1) + 1 \in S
    BY <1>3, <1>4
<1> QED BY <1>3, <1>5

\* What is left when an element goes.
LEMMA OneLess ==
    ASSUME NEW s, IsFiniteSet(s), NEW n \in Nat, Cardinality(s) = n + 1
    PROVE  /\ s # {}
           /\ \A x \in s : IsFiniteSet(s \ {x}) /\ Cardinality(s \ {x}) = n
<1>1. s # {}
    BY FS_EmptySet
<1>2. ASSUME NEW x \in s PROVE IsFiniteSet(s \ {x}) /\ Cardinality(s \ {x}) = n
    <2>1. Cardinality(s \ {x}) = Cardinality(s) - 1 /\ IsFiniteSet(s \ {x})
        BY FS_RemoveElement
    <2> QED BY <2>1
<1> QED BY <1>1, <1>2

-----------------------------------------------------------------------------
(* Sums.                                                                    *)

Pick(s) == CHOOSE x \in s : TRUE
Adds(f, S, h) ==
    h = [s \in SUBSET S |-> IF s = {} THEN 0 ELSE f[Pick(s)] + h[s \ {Pick(s)}]]
Adder(f, S) == CHOOSE h : Adds(f, S, h)

\* What the fold computes.
LEMMA SumIsAdder ==
    ASSUME NEW f, NEW S
    PROVE  SumFunctionOnSet(f, S) = Adder(f, S)[S]
BY DEF SumFunctionOnSet, FoldFunctionOnSet, MapThenFoldSet, Adder, Adds, Pick

LEMMA PickIs == ASSUME NEW s, s # {} PROVE Pick(s) \in s
BY DEF Pick

\* The recursion has a solution.
LEMMA AdderExists ==
    ASSUME NEW f, NEW S, IsFiniteSet(S)
    PROVE  Adds(f, S, Adder(f, S))
<1> DEFINE Small(n) == {s \in SUBSET S : Cardinality(s) <= n}
           Upto(n, h) == h = [s \in Small(n) |-> IF s = {} THEN 0
                                ELSE f[Pick(s)] + h[s \ {Pick(s)}]]
           Solved == {n \in Nat : \E h : Upto(n, h)}
<1>1. \A s \in SUBSET S : IsFiniteSet(s) /\ Cardinality(s) \in Nat
    BY FS_Subset, FS_CardinalityType
<1>2. \A s \in SUBSET S : s # {} =>
        s \ {Pick(s)} \in SUBSET S /\ Cardinality(s \ {Pick(s)}) = Cardinality(s) - 1
    BY <1>1, PickIs, FS_RemoveElement
<1>3. 0 \in Solved
    <2> DEFINE g == [s \in Small(0) |-> 0]
    <2>1. \A s \in Small(0) : s = {}
        BY <1>1, FS_EmptySet
    <2>2. Upto(0, g)
        BY <2>1
    <2> QED BY <2>2
<1>4. ASSUME NEW n \in Nat, n \in Solved PROVE n + 1 \in Solved
    <2>1. PICK h : Upto(n, h)
        BY <1>4
    <2> DEFINE g == [s \in Small(n + 1) |-> IF s \in Small(n) THEN h[s]
                                            ELSE f[Pick(s)] + h[s \ {Pick(s)}]]
    <2>2. {} \in Small(n)
        BY FS_EmptySet
    <2>3. \A s \in Small(n + 1) : s # {} => s \ {Pick(s)} \in Small(n)
        BY <1>1, <1>2
    <2>4. \A s \in Small(n) : s \in Small(n + 1) /\ g[s] = h[s]
        BY <1>1
    <2>5. \A s \in Small(n) : h[s] = IF s = {} THEN 0 ELSE f[Pick(s)] + h[s \ {Pick(s)}]
        BY <2>1
    <2>6. \A s \in Small(n + 1) :
            g[s] = IF s = {} THEN 0 ELSE f[Pick(s)] + g[s \ {Pick(s)}]
        BY <2>2, <2>3, <2>4, <2>5
    <2>7. Upto(n + 1, g)
        BY <2>6
    <2>8. \E u : Upto(n + 1, u)
        <3> HIDE DEF g, Upto
        <3> QED BY <2>7
    <2> HIDE DEF Upto
    <2> QED BY <2>8
<1>5. Cardinality(S) \in Solved
    <2> HIDE DEF Solved
    <2> QED BY <1>1, <1>3, <1>4, NumbersUpTo
<1>6. Small(Cardinality(S)) = SUBSET S
    BY FS_Subset
<1>7. \E h : Adds(f, S, h)
    BY <1>5, <1>6 DEF Adds
<1> QED BY <1>7 DEF Adder

\* Two solutions agree where they are both defined.
LEMMA AddersAgree ==
    ASSUME NEW f, NEW S, NEW T, IsFiniteSet(S), T \subseteq S,
           NEW h, NEW g, Adds(f, S, h), Adds(f, T, g)
    PROVE  \A s \in SUBSET T : h[s] = g[s]
<1> DEFINE Agreed == {n \in Nat : \A s \in SUBSET T : Cardinality(s) = n => h[s] = g[s]}
<1>1. \A s \in SUBSET T : s \in SUBSET S /\ IsFiniteSet(s) /\ Cardinality(s) \in Nat
    BY FS_Subset, FS_CardinalityType
<1>2. \A s \in SUBSET T :
        /\ h[s] = IF s = {} THEN 0 ELSE f[Pick(s)] + h[s \ {Pick(s)}]
        /\ g[s] = IF s = {} THEN 0 ELSE f[Pick(s)] + g[s \ {Pick(s)}]
    BY <1>1 DEF Adds
<1>3. 0 \in Agreed
    BY <1>1, <1>2, FS_EmptySet
<1>4. ASSUME NEW n \in Nat, n \in Agreed PROVE n + 1 \in Agreed
    <2>1. SUFFICES ASSUME NEW s \in SUBSET T, Cardinality(s) = n + 1 PROVE h[s] = g[s]
        OBVIOUS
    <2>2. s # {}
        BY <2>1, FS_EmptySet
    <2>3. s \ {Pick(s)} \in SUBSET T /\ Cardinality(s \ {Pick(s)}) = n
        BY <1>1, <2>1, <2>2, PickIs, FS_RemoveElement
    <2>4. h[s \ {Pick(s)}] = g[s \ {Pick(s)}]
        BY <1>4, <2>3
    <2> QED BY <1>2, <2>2, <2>4
<1>5. \A n \in Nat : n \in Agreed
    <2> HIDE DEF Agreed
    <2> QED BY <1>3, <1>4, NumbersUpTo
<1> QED BY <1>1, <1>5

\* A sum over a set that is not empty is one of its values and the other ones.
LEMMA SumPicks ==
    ASSUME NEW f, NEW S, IsFiniteSet(S)
    PROVE  /\ S = {} => SumFunctionOnSet(f, S) = 0
           /\ S # {} => SumFunctionOnSet(f, S)
                         = f[Pick(S)] + SumFunctionOnSet(f, S \ {Pick(S)})
<1>1. Adds(f, S, Adder(f, S))
    BY AdderExists
<1>2. Adder(f, S)[S] = IF S = {} THEN 0 ELSE f[Pick(S)] + Adder(f, S)[S \ {Pick(S)}]
    BY <1>1 DEF Adds
<1>3. CASE S = {}
    BY <1>2, <1>3, SumIsAdder
<1>4. CASE S # {}
    <2> DEFINE T == S \ {Pick(S)}
    <2>1. IsFiniteSet(T) /\ T \subseteq S
        BY FS_RemoveElement
    <2> HIDE DEF T
    <2>2. Adds(f, T, Adder(f, T))
        BY <2>1, AdderExists
    <2>3. Adder(f, S)[T] = Adder(f, T)[T]
        BY <1>1, <2>1, <2>2, AddersAgree
    <2>4. SumFunctionOnSet(f, S) = f[Pick(S)] + Adder(f, S)[T]
        BY <1>2, <1>4, SumIsAdder DEF T
    <2>5. SumFunctionOnSet(f, S) = f[Pick(S)] + SumFunctionOnSet(f, T)
        BY <2>3, <2>4, SumIsAdder
    <2> QED BY <1>4, <2>5 DEF T
<1> QED BY <1>3, <1>4

\* It is a number when its values are, and any value can be taken out first.
LEMMA SumIsNumber ==
    ASSUME NEW f, NEW S, IsFiniteSet(S), \A x \in S : f[x] \in Int
    PROVE  SumFunctionOnSet(f, S) \in Int
<1> DEFINE Good == {n \in Nat : \A s \in SUBSET S :
                        Cardinality(s) = n => SumFunctionOnSet(f, s) \in Int}
<1>1. \A s \in SUBSET S : IsFiniteSet(s) /\ Cardinality(s) \in Nat
    BY FS_Subset, FS_CardinalityType
<1>2. 0 \in Good
    <2>1. \A s \in SUBSET S : Cardinality(s) = 0 => s = {}
        BY <1>1, FS_EmptySet
    <2>2. SumFunctionOnSet(f, {}) = 0
        BY SumPicks, FS_EmptySet
    <2> QED BY <2>1, <2>2
<1>3. ASSUME NEW n \in Nat, n \in Good PROVE n + 1 \in Good
    <2>1. SUFFICES ASSUME NEW s \in SUBSET S, Cardinality(s) = n + 1
                   PROVE  SumFunctionOnSet(f, s) \in Int
        OBVIOUS
    <2>2. s # {}
        BY <1>1, <2>1, OneLess
    <2> DEFINE x == Pick(s)
    <2>a. x \in s
        BY <2>2, PickIs
    <2> HIDE DEF x
    <2>b. s \ {x} \in SUBSET S /\ Cardinality(s \ {x}) = n /\ f[x] \in Int
        BY <1>1, <2>1, <2>a, OneLess
    <2>3. /\ s \ {Pick(s)} \in SUBSET S /\ Cardinality(s \ {Pick(s)}) = n
          /\ f[Pick(s)] \in Int
        BY <2>b DEF x
    <2>4. SumFunctionOnSet(f, s \ {Pick(s)}) \in Int
        BY <1>3, <2>3
    <2> QED BY <1>1, <2>2, <2>3, <2>4, SumPicks
<1>4. \A n \in Nat : n \in Good
    <2> HIDE DEF Good
    <2> QED BY <1>2, <1>3, NumbersUpTo
<1> QED BY <1>1, <1>4

LEMMA SumTakesOut ==
    ASSUME NEW f, NEW S, IsFiniteSet(S), \A x \in S : f[x] \in Int, NEW e \in S
    PROVE  SumFunctionOnSet(f, S) = f[e] + SumFunctionOnSet(f, S \ {e})
<1> DEFINE Sum(s) == SumFunctionOnSet(f, s)
           Good == {n \in Nat : \A s \in SUBSET S : Cardinality(s) = n =>
                        \A x \in s : Sum(s) = f[x] + Sum(s \ {x})}
<1>1. \A s \in SUBSET S : IsFiniteSet(s) /\ Cardinality(s) \in Nat
    BY FS_Subset, FS_CardinalityType
<1>2. \A s \in SUBSET S : Sum(s) \in Int
    BY <1>1, SumIsNumber
<1>3. 0 \in Good
    BY <1>1, FS_EmptySet
<1>4. ASSUME NEW n \in Nat, n \in Good PROVE n + 1 \in Good
    <2>1. SUFFICES ASSUME NEW s \in SUBSET S, Cardinality(s) = n + 1, NEW x \in s
                   PROVE  Sum(s) = f[x] + Sum(s \ {x})
        OBVIOUS
    <2> DEFINE p == Pick(s)
    <2>2. p \in s
        BY PickIs
    <2> HIDE DEF p
    <2>3. Sum(s) = f[p] + Sum(s \ {p})
        BY <1>1, SumPicks DEF p
    <2>4. CASE x = p
        BY <2>3, <2>4
    <2>5. CASE x # p
        <3>1. /\ s \ {p} \in SUBSET S /\ Cardinality(s \ {p}) = n /\ x \in s \ {p}
              /\ s \ {x} \in SUBSET S /\ Cardinality(s \ {x}) = n /\ p \in s \ {x}
            BY <1>1, <2>1, <2>2, <2>5, OneLess
        <3>2. /\ Sum(s \ {p}) = f[x] + Sum((s \ {p}) \ {x})
              /\ Sum(s \ {x}) = f[p] + Sum((s \ {x}) \ {p})
            <4>1. \A u \in SUBSET S : Cardinality(u) = n =>
                    \A y \in u : Sum(u) = f[y] + Sum(u \ {y})
                BY <1>4
            <4> HIDE DEF Sum
            <4> QED BY <3>1, <4>1
        <3>3. (s \ {p}) \ {x} = (s \ {x}) \ {p}
            OBVIOUS
        <3>4. /\ f[x] \in Int /\ f[p] \in Int /\ Sum((s \ {x}) \ {p}) \in Int
            <4>1. (s \ {x}) \ {p} \in SUBSET S
                OBVIOUS
            <4> HIDE DEF Sum
            <4> QED BY <1>2, <2>2, <4>1
        <3>5. Sum((s \ {p}) \ {x}) = Sum((s \ {x}) \ {p})
            BY <3>3
        <3>6. \A a, b, c, d, k \in Int : a = b + c /\ c = d + k => a = d + (b + k)
            OBVIOUS
        <3>7. Sum(s) \in Int /\ Sum(s \ {p}) \in Int
            <4> HIDE DEF Sum
            <4> QED BY <1>2, <3>1
        <3> HIDE DEF Sum
        <3> QED BY <2>3, <3>2, <3>4, <3>5, <3>6, <3>7
    <2> QED BY <2>4, <2>5
<1>5. \A n \in Nat : n \in Good
    <2> HIDE DEF Good
    <2> QED BY <1>3, <1>4, NumbersUpTo
<1>6. \A s \in SUBSET S : \A x \in s : Sum(s) = f[x] + Sum(s \ {x})
    <2> HIDE DEF Sum
    <2> QED BY <1>1, <1>5
<1> QED BY <1>6

\* Two sums over one set, with the values of one c times those of the other.
LEMMA SumScales ==
    ASSUME NEW f, NEW g, NEW S, IsFiniteSet(S), NEW c \in Int,
           \A x \in S : f[x] \in Int /\ g[x] = c * f[x]
    PROVE  SumFunctionOnSet(g, S) = c * SumFunctionOnSet(f, S)
<1> DEFINE F(s) == SumFunctionOnSet(f, s)
           G(s) == SumFunctionOnSet(g, s)
           Good == {n \in Nat : \A s \in SUBSET S : Cardinality(s) = n => G(s) = c * F(s)}
<1>1. \A s \in SUBSET S : IsFiniteSet(s) /\ Cardinality(s) \in Nat
    BY FS_Subset, FS_CardinalityType
<1>2. \A x \in S : f[x] \in Int /\ g[x] \in Int
    OBVIOUS
<1>3. \A s \in SUBSET S : F(s) \in Int /\ G(s) \in Int
    BY <1>1, <1>2, SumIsNumber
<1>4. 0 \in Good
    <2>1. \A s \in SUBSET S : Cardinality(s) = 0 => F(s) = 0 /\ G(s) = 0
        BY <1>1, SumPicks, FS_EmptySet
    <2> HIDE DEF F, G
    <2> QED BY <2>1
<1>5. ASSUME NEW n \in Nat, n \in Good PROVE n + 1 \in Good
    <2>1. SUFFICES ASSUME NEW s \in SUBSET S, Cardinality(s) = n + 1
                   PROVE  G(s) = c * F(s)
        OBVIOUS
    <2>2. PICK x : x \in s
        BY <1>1, <2>1, OneLess
    <2> DEFINE t == s \ {x}
    <2>3. t \in SUBSET S /\ Cardinality(t) = n
        BY <1>1, <2>1, <2>2, OneLess
    <2>4. F(s) = f[x] + F(t) /\ G(s) = g[x] + G(t)
        BY <1>1, <1>2, <2>2, SumTakesOut
    <2> HIDE DEF t, F, G
    <2>5. G(t) = c * F(t) /\ F(t) \in Int
        BY <1>3, <1>5, <2>3
    <2>6. g[x] = c * f[x] /\ f[x] \in Int
        BY <2>2
    <2>7. \A a, b \in Int : c * (a + b) = c * a + c * b
        OBVIOUS
    <2> QED BY <2>4, <2>5, <2>6, <2>7
<1>6. \A n \in Nat : n \in Good
    <2> HIDE DEF Good
    <2> QED BY <1>4, <1>5, NumbersUpTo
<1>7. \A s \in SUBSET S : G(s) = c * F(s)
    <2> HIDE DEF F, G
    <2> QED BY <1>1, <1>6
<1> QED BY <1>7

LEMMA SumsAreEqual ==
    ASSUME NEW f, NEW g, NEW S, IsFiniteSet(S), \A x \in S : f[x] \in Int /\ g[x] = f[x]
    PROVE  SumFunctionOnSet(g, S) = SumFunctionOnSet(f, S)
<1>1. \A x \in S : f[x] \in Int /\ g[x] = 1 * f[x]
    OBVIOUS
<1>2. SumFunctionOnSet(g, S) = 1 * SumFunctionOnSet(f, S)
    BY <1>1, SumScales
<1>3. SumFunctionOnSet(f, S) \in Int
    BY SumIsNumber
<1> QED BY <1>2, <1>3

\* A sum of values that are not negative is not smaller than each of them, and
\* one that is positive has a positive value.
LEMMA SumOfNats ==
    ASSUME NEW f, NEW S, IsFiniteSet(S), \A x \in S : f[x] \in Nat
    PROVE  /\ SumFunctionOnSet(f, S) \in Nat
           /\ \A x \in S : f[x] <= SumFunctionOnSet(f, S)
           /\ SumFunctionOnSet(f, S) > 0 => \E x \in S : f[x] > 0
<1> DEFINE Sum(s) == SumFunctionOnSet(f, s)
           Good == {n \in Nat : \A s \in SUBSET S : Cardinality(s) = n =>
                        Sum(s) \in Nat /\ (Sum(s) > 0 => \E x \in s : f[x] > 0)}
<1>1. \A s \in SUBSET S : IsFiniteSet(s) /\ Cardinality(s) \in Nat
    BY FS_Subset, FS_CardinalityType
<1>2. \A s \in SUBSET S : \A x \in s : Sum(s) = f[x] + Sum(s \ {x})
    <2> TAKE s \in SUBSET S
    <2>1. IsFiniteSet(s) /\ \A x \in s : f[x] \in Int
        BY <1>1
    <2> QED BY <2>1, SumTakesOut
<1>3. 0 \in Good
    <2>1. \A s \in SUBSET S : Cardinality(s) = 0 => s = {}
        BY <1>1, FS_EmptySet
    <2>2. SumFunctionOnSet(f, {}) = 0
        BY SumPicks, FS_EmptySet
    <2> QED BY <2>1, <2>2
<1>4. ASSUME NEW n \in Nat, n \in Good PROVE n + 1 \in Good
    <2>1. SUFFICES ASSUME NEW s \in SUBSET S, Cardinality(s) = n + 1
                   PROVE  Sum(s) \in Nat /\ (Sum(s) > 0 => \E x \in s : f[x] > 0)
        OBVIOUS
    <2>2. PICK x : x \in s
        BY <1>1, <2>1, OneLess
    <2>3. s \ {x} \in SUBSET S /\ Cardinality(s \ {x}) = n /\ f[x] \in Nat
        BY <1>1, <2>1, <2>2, OneLess
    <2> HIDE DEF Sum
    <2>4. /\ Sum(s \ {x}) \in Nat
          /\ Sum(s \ {x}) > 0 => \E y \in s : f[y] > 0
        BY <1>4, <2>3
    <2> QED BY <1>2, <2>2, <2>3, <2>4
<1>5. \A n \in Nat : n \in Good
    <2> HIDE DEF Good
    <2> QED BY <1>3, <1>4, NumbersUpTo
<1>6. \A s \in SUBSET S : Sum(s) \in Nat /\ (Sum(s) > 0 => \E x \in s : f[x] > 0)
    <2> HIDE DEF Sum
    <2> QED BY <1>1, <1>5
<1>7. \A x \in S : f[x] <= Sum(S)
    <2> TAKE x \in S
    <2>1. Sum(S \ {x}) \in Nat /\ Sum(S) = f[x] + Sum(S \ {x}) /\ f[x] \in Nat
        <3>1. S \ {x} \in SUBSET S
            OBVIOUS
        <3> HIDE DEF Sum
        <3> QED BY <1>2, <1>6, <3>1
    <2> HIDE DEF Sum
    <2> QED BY <2>1
<1> QED BY <1>6, <1>7

-----------------------------------------------------------------------------
(* Where the data of the chunks lies.                                       *)

SizesOf(chunks) == \A k \in 1..Len(chunks) : chunks[k].entry.compressed_sz \in Nat \ {0}

\* Chunk after chunk, without a gap.
LEMMA DataIsDense ==
    ASSUME NEW chunks, Len(chunks) \in Nat, SizesOf(chunks)
    PROVE  /\ DataBefore(chunks, 1) = 0
           /\ \A i \in 1..Len(chunks) :
                /\ DataBefore(chunks, i) \in Nat
                /\ DataBefore(chunks, i + 1)
                     = DataBefore(chunks, i) + chunks[i].entry.compressed_sz
<1> DEFINE n == Len(chunks)
           sizes(i) == [k \in 1..(i - 1) |-> chunks[k].entry.compressed_sz]
<1>1. \A i \in 1..(n + 1) : DataBefore(chunks, i) = SumFunctionOnSet(sizes(i), 1..(i - 1))
    BY DEF DataBefore, SumFunction
<1>2. DataBefore(chunks, 1) = 0
    <2>1. 1..(1 - 1) = {}
        OBVIOUS
    <2>2. \A f : SumFunctionOnSet(f, {}) = 0
        BY SumPicks, FS_EmptySet
    <2> HIDE DEF sizes
    <2> QED BY <1>1, <2>1, <2>2
<1>3. ASSUME NEW i \in 1..n
      PROVE  /\ DataBefore(chunks, i) \in Nat
             /\ DataBefore(chunks, i + 1)
                  = DataBefore(chunks, i) + chunks[i].entry.compressed_sz
    <2> DEFINE f == sizes(i + 1)
               g == sizes(i)
    <2>1. \A k \in 1..i : f[k] = chunks[k].entry.compressed_sz /\ f[k] \in Nat \ {0}
        BY DEF SizesOf
    <2>2. \A k \in 1..(i - 1) : g[k] = f[k] /\ f[k] \in Nat
        BY <2>1
    <2>3. 1..(i - 1) = (1..i) \ {i} /\ i + 1 \in 1..(n + 1) /\ i \in 1..(n + 1)
        OBVIOUS
    <2>4. IsFiniteSet(1..i) /\ IsFiniteSet(1..(i - 1))
        BY FS_Interval
    <2>5. DataBefore(chunks, i + 1) = SumFunctionOnSet(f, 1..i)
        <3>1. (i + 1) - 1 = i
            OBVIOUS
        <3> QED BY <1>1, <2>3, <3>1
    <2>6. DataBefore(chunks, i) = SumFunctionOnSet(g, 1..(i - 1))
        BY <1>1, <2>3
    <2> HIDE DEF f, g
    <2>7. SumFunctionOnSet(g, 1..(i - 1)) = SumFunctionOnSet(f, 1..(i - 1))
        BY <2>2, <2>4, SumsAreEqual
    <2>8. SumFunctionOnSet(f, 1..i) = f[i] + SumFunctionOnSet(f, (1..i) \ {i})
        BY SMTT(40), <2>1, <2>4, SumTakesOut
    <2>9. SumFunctionOnSet(f, 1..(i - 1)) \in Nat
        BY <2>2, <2>4, SumOfNats
    <2>10. f[i] = chunks[i].entry.compressed_sz /\ f[i] \in Nat
        BY <2>1
    <2>11. SumFunctionOnSet(f, (1..i) \ {i}) = SumFunctionOnSet(f, 1..(i - 1))
        BY <2>3
    <2>12. /\ DataBefore(chunks, i) \in Nat
           /\ DataBefore(chunks, i + 1) = f[i] + DataBefore(chunks, i)
        BY <2>5, <2>6, <2>7, <2>8, <2>9, <2>11
    <2> QED BY <2>10, <2>12
<1> QED BY <1>2, <1>3

\* A chunk ends before every later one begins.
LEMMA DataIsApart ==
    ASSUME NEW chunks, Len(chunks) \in Nat, SizesOf(chunks)
    PROVE  \A j \in 1..(Len(chunks) + 1) :
             /\ DataBefore(chunks, j) \in Nat
             /\ \A i \in 1..(j - 1) :
                  DataBefore(chunks, i) + chunks[i].entry.compressed_sz <= DataBefore(chunks, j)
<1> DEFINE n == Len(chunks)
           sz(i) == chunks[i].entry.compressed_sz
           D(i) == DataBefore(chunks, i)
           Good == {j \in Nat : j \in 1..(n + 1) => D(j) \in Nat /\ \A i \in 1..(j - 1) : D(i) + sz(i) <= D(j)}
<1>1. /\ D(1) = 0
      /\ \A i \in 1..n : D(i) \in Nat /\ sz(i) \in Nat \ {0} /\ D(i + 1) = D(i) + sz(i)
    BY DataIsDense DEF SizesOf
<1> HIDE DEF D, sz
<1>2. 0 \in Good
    OBVIOUS
<1>3. ASSUME NEW j \in Nat, j \in Good PROVE j + 1 \in Good
    <2>1. CASE j = 0
        BY <1>1, <2>1
    <2>2. CASE j # 0 /\ j + 1 \in 1..(n + 1)
        <3>1. j \in 1..n /\ j \in 1..(n + 1)
            BY <2>2
        <3>2. D(j + 1) = D(j) + sz(j) /\ D(j) \in Nat /\ sz(j) \in Nat
            BY <1>1, <3>1
        <3>3. \A i \in 1..(j - 1) : D(i) + sz(i) <= D(j) /\ D(i) \in Nat /\ sz(i) \in Nat
            BY <1>1, <1>3, <3>1
        <3>4. \A i \in 1..((j + 1) - 1) : i = j \/ i \in 1..(j - 1)
            OBVIOUS
        <3>5. \A i \in 1..((j + 1) - 1) : D(i) + sz(i) <= D(j + 1)
            BY <3>2, <3>3, <3>4
        <3> QED BY <3>2, <3>5
    <2> QED BY <2>1, <2>2
<1>4. \A j \in Nat : j \in Good
    <2> HIDE DEF Good
    <2> QED BY <1>2, <1>3, NumbersUpTo
<1> QED BY <1>4 DEF D, sz

-----------------------------------------------------------------------------
(* Fields that are written and fields that are read.                        *)

Holds(at, f) == \A o \in DOMAIN f : o \in DOMAIN at /\ at[o] = f[o]

\* Parts that agree where they meet are all in the whole.
LEMMA JoinedContains ==
    ASSUME NEW parts,
           \A f, g \in parts : \A o \in DOMAIN f : o \in DOMAIN g => f = g
    PROVE  /\ \A f \in parts : Holds(Joined(parts), f)
           /\ DOMAIN Joined(parts) = UNION {DOMAIN f : f \in parts}
           /\ Joined(parts) = [o \in DOMAIN Joined(parts) |-> Joined(parts)[o]]
<1> DEFINE all == UNION {DOMAIN f : f \in parts}
           of(o) == CHOOSE f \in parts : o \in DOMAIN f
<1>1. Joined(parts) = [o \in all |-> of(o)[o]]
    BY DEF Joined
<1>2. ASSUME NEW f \in parts, NEW o \in DOMAIN f PROVE of(o) = f /\ o \in all
    <2>1. of(o) \in parts /\ o \in DOMAIN of(o)
        OBVIOUS
    <2> QED BY <2>1
<1> HIDE DEF of
<1>3. ASSUME NEW f \in parts, NEW o \in DOMAIN f
      PROVE  o \in DOMAIN Joined(parts) /\ Joined(parts)[o] = f[o]
    <2>1. of(o) = f /\ o \in all
        BY <1>2
    <2> HIDE DEF all
    <2> QED BY <1>1, <2>1
<1> QED BY <1>1, <1>3 DEF Holds

\* A cell that nobody damaged, and one that holds no CRC either.
Undamaged(cell) == "bad" \in DOMAIN cell /\ ~cell.bad
Plain(cell) == Undamaged(cell) /\ cell.crc = <<>>

LEMMA CellIs ==
    ASSUME NEW w, NEW v
    PROVE  Cell(w, v).w = w /\ Cell(w, v).v = v /\ Plain(Cell(w, v))
BY DEF Cell, Undamaged, Plain

LEMMA CrcCellIs ==
    ASSUME NEW content
    PROVE  /\ CrcCell(content).w = 4 /\ CrcCell(content).crc = content
           /\ Undamaged(CrcCell(content))
BY DEF CrcCell, Cell, Undamaged

\* A record is read where it was written.
LEMMA GetIsPut ==
    ASSUME NEW L, NEW r, NEW base \in Int, NEW file,
           \A f \in DOMAIN L : L[f][1] \in Int,
           \A f, g \in DOMAIN L : L[f][1] = L[g][1] => f = g,
           Holds(file.at, Put(base, L, r))
    PROVE  /\ Get(file, base, L) = [f \in DOMAIN L |-> r[f]]
           /\ \A f \in DOMAIN L : Has(file, base + L[f][1], L[f][2])
<1> DEFINE P == Put(base, L, r)
<1>1. ASSUME NEW f \in DOMAIN L
      PROVE  base + L[f][1] \in DOMAIN P /\ P[base + L[f][1]] = Cell(L[f][2], r[f])
    <2> DEFINE o == base + L[f][1]
               w == CHOOSE g \in DOMAIN L : base + L[g][1] = o
    <2>1. o \in DOMAIN P /\ P[o] = Cell(L[w][2], r[w])
        BY DEF Put
    <2>2. w \in DOMAIN L /\ base + L[w][1] = o
        OBVIOUS
    <2>3. L[w][1] \in Int /\ L[f][1] \in Int
        BY <2>2
    <2> HIDE DEF w
    <2>4. \A a, b \in Int : base + a = base + b => a = b
        OBVIOUS
    <2>5. L[w][1] = L[f][1]
        BY <2>2, <2>3, <2>4
    <2>6. w = f
        BY <2>2, <2>5
    <2> QED BY <2>1, <2>6
<1>2. \A f \in DOMAIN L :
        /\ base + L[f][1] \in DOMAIN file.at
        /\ file.at[base + L[f][1]] = Cell(L[f][2], r[f])
    BY <1>1 DEF Holds
<1>3. \A f \in DOMAIN L :
        Has(file, base + L[f][1], L[f][2]) /\ file.at[base + L[f][1]].v = r[f]
    <2> TAKE f \in DOMAIN L
    <2>1. file.at[base + L[f][1]].w = L[f][2] /\ file.at[base + L[f][1]].v = r[f]
        BY <1>2, CellIs
    <2> QED BY <1>2, <2>1 DEF Has
<1> QED BY <1>3 DEF Get

\* The offsets of a layout: numbers below a limit, no two the same.
Apart(L, limit) ==
    /\ \A f \in DOMAIN L : L[f][1] \in 0..(limit - 1)
    /\ \A f, g \in DOMAIN L : L[f][1] = L[g][1] => f = g

LEMMA HeaderLayout ==
    /\ HeaderReads = HeaderWrites /\ Apart(HeaderWrites, 20)
    /\ DOMAIN HeaderWrites = {"magic", "version", "flags", "chunk_count", "created_at",
                              "segment_id"}
    /\ HeaderWrites["version"] = <<4, 1>> /\ HeaderWrites["magic"] = <<0, 4>>
BY DEF HeaderReads, HeaderWrites, Apart

LEMMA MetaLayout ==
    /\ MetaReads = MetaWrites /\ Apart(MetaWrites, 64)
    /\ \A f \in DOMAIN MetaWrites : MetaWrites[f][1] >= 24
    /\ DOMAIN MetaWrites = {"pattern_count", "pattern_table_len", "summary_offset",
                            "data_offset", "dict_offset", "dict_len", "feature_flags"}
BY DEF MetaReads, MetaWrites, Apart

LEMMA EntryLayout ==
    /\ EntryReads = EntryWrites /\ Apart(EntryWrites, 32)
    /\ DOMAIN EntryWrites = {"offset", "compressed_sz", "original_sz", "line_count",
                             "min_ts", "max_ts"}
BY DEF EntryReads, EntryWrites, Apart

LEMMA SummaryLayout ==
    /\ SummaryReads = SummaryWrites /\ Apart(SummaryWrites, 80)
    /\ DOMAIN SummaryWrites = {"pattern_mask", "level_mask", "param_bloom"}
    /\ SummaryWrites["pattern_mask"] = <<0, 8>>
BY DEF SummaryReads, SummaryWrites, Apart

LEMMA PutIs ==
    ASSUME NEW L, NEW r, NEW base \in Int, NEW limit \in Int, Apart(L, limit)
    PROVE  /\ DOMAIN Put(base, L, r) \subseteq base..(base + limit - 1)
           /\ \A o \in DOMAIN Put(base, L, r) : Plain(Put(base, L, r)[o])
           /\ \A o \in DOMAIN Put(base, L, r) : \E f \in DOMAIN L : o = base + L[f][1]
           /\ Put(base, L, r) = [o \in DOMAIN Put(base, L, r) |-> Put(base, L, r)[o]]
<1> DEFINE of(o) == CHOOSE g \in DOMAIN L : base + L[g][1] = o
<1>1. Put(base, L, r) = [o \in {base + L[f][1] : f \in DOMAIN L}
                           |-> Cell(L[of(o)][2], r[of(o)])]
    BY DEF Put
<1> HIDE DEF of
<1>2. \A f \in DOMAIN L : base + L[f][1] \in base..(base + limit - 1)
    BY DEF Apart
<1>3. \A o \in DOMAIN Put(base, L, r) : Plain(Put(base, L, r)[o])
    BY <1>1, CellIs DEF Plain
<1> QED BY <1>1, <1>2, <1>3

\* A layout, read at its base from a file that contains what was put there.
LEMMA ReadsPut ==
    ASSUME NEW L, NEW r, NEW base \in Int, NEW limit \in Int, Apart(L, limit), NEW file,
           Holds(file.at, Put(base, L, r))
    PROVE  /\ Get(file, base, L) = [f \in DOMAIN L |-> r[f]]
           /\ \A f \in DOMAIN L : Has(file, base + L[f][1], L[f][2])
<1>1. \A f \in DOMAIN L : L[f][1] \in Int
    BY DEF Apart
<1>2. \A f, g \in DOMAIN L : L[f][1] = L[g][1] => f = g
    BY DEF Apart
<1> QED BY <1>1, <1>2, GetIsPut

LEMMA AlignsUp ==
    ASSUME NEW s \in Nat
    PROVE  AlignUp(s, Alignment) \in Nat /\ AlignUp(s, Alignment) >= s
<1> DEFINE a == Alignment
           q == (s + a - 1) \div a
           r == (s + a - 1) % a
<1>1. a \in Nat \ {0}
    BY FormatAssumption
<1>2. q \in Nat /\ r \in 0..(a - 1) /\ s + a - 1 = q * a + r
    BY <1>1
<1>3. AlignUp(s, a) = q * a
    BY DEF AlignUp
<1> HIDE DEF q, r, a
<1>4. q * a \in Nat
    BY <1>1, <1>2
<1>5. q * a >= s
    BY <1>1, <1>2, <1>4
<1> QED BY <1>3, <1>4, <1>5 DEF a

\* The first part of a header, and its CRC.
LEMMA HeaderPart ==
    ASSUME NEW h
    PROVE  LET part == PutHeader(h)
               fields == Put(0, HeaderWrites, h)
           IN /\ DOMAIN part \subseteq 0..20 /\ 0 \in DOMAIN part
              /\ Holds(part, fields)
              /\ HeaderCrc \in DOMAIN part /\ part[HeaderCrc] = CrcCell(fields)
              /\ {o \in DOMAIN part : o < HeaderCrc} = DOMAIN fields
              /\ \A o \in DOMAIN fields : part[o] = fields[o] /\ Plain(part[o])
<1> DEFINE fields == Put(0, HeaderWrites, h)
           crc == At(HeaderCrc, CrcCell(fields))
           parts == {fields, crc}
<1>1. DOMAIN fields \subseteq 0..19 /\ \A o \in DOMAIN fields : Plain(fields[o])
    BY HeaderLayout, PutIs
<1>2. 0 \in DOMAIN fields
    <2>1. "magic" \in DOMAIN HeaderWrites /\ 0 + HeaderWrites["magic"][1] = 0
        BY HeaderLayout
    <2> QED BY <2>1 DEF Put
<1>3. DOMAIN crc = {20} /\ crc[20] = CrcCell(fields)
    BY DEF At, HeaderCrc
<1>4. PutHeader(h) = Joined(parts)
    BY DEF PutHeader
<1> HIDE DEF fields, crc
<1>5. \A f, g \in parts : \A o \in DOMAIN f : o \in DOMAIN g => f = g
    BY <1>1, <1>3
<1>6. DOMAIN Joined(parts) = UNION {DOMAIN f : f \in parts}
    BY <1>5, JoinedContains
<1>7. Holds(Joined(parts), fields) /\ Holds(Joined(parts), crc)
    <2>1. \A f \in parts : Holds(Joined(parts), f)
        BY <1>5, JoinedContains
    <2> QED BY <2>1
<1>8. DOMAIN Joined(parts) = DOMAIN fields \cup {20}
    BY <1>3, <1>6
<1>9. 20 \in DOMAIN Joined(parts) /\ Joined(parts)[20] = CrcCell(fields)
    BY <1>3, <1>7 DEF Holds
<1>10. \A o \in DOMAIN fields : Joined(parts)[o] = fields[o] /\ Plain(Joined(parts)[o])
    BY <1>1, <1>7 DEF Holds
<1> QED BY <1>1, <1>2, <1>4, <1>7, <1>8, <1>9, <1>10 DEF HeaderCrc, fields

\* What sealing a content adds: the CRC of it, which is found to be right.
LEMMA SealedIs ==
    ASSUME NEW content, NEW end \in Nat, DOMAIN content \subseteq 0..(end - 1),
           content = [o \in DOMAIN content |-> content[o]]
    PROVE  LET file == Sealed(content, end)
           IN /\ file.len = end + 8 /\ FooterStart(file) = end
              /\ DOMAIN file.at = DOMAIN content \cup {end, end + 4}
              /\ Holds(file.at, content)
              /\ file.at[end + 4] = CrcCell(content) /\ file.at[end] = Cell(4, HeaderSize)
              /\ Verified(file)
              /\ file.at = [o \in DOMAIN file.at |-> file.at[o]]
<1> DEFINE crc == At(end + FooterWrites.crc32[1], CrcCell(content))
           table == At(end + FooterWrites.chunk_table_offset[1], Cell(4, HeaderSize))
           parts == {content, crc, table}
           file == Sealed(content, end)
<1>1. FooterWrites.crc32[1] = 4 /\ FooterReads.crc32[1] = 4
      /\ FooterWrites.chunk_table_offset[1] = 0
    BY DEF FooterWrites, FooterReads
<1>2. DOMAIN crc = {end + 4} /\ crc[end + 4] = CrcCell(content)
    BY <1>1 DEF At
<1>3. DOMAIN table = {end} /\ table[end] = Cell(4, HeaderSize)
    BY <1>1 DEF At
<1>4. file.len = end + 8 /\ file.at = Joined(parts)
    BY DEF Sealed, FooterSize
<1> HIDE DEF crc, table, file
<1>5. \A f, g \in parts : \A o \in DOMAIN f : o \in DOMAIN g => f = g
    BY <1>2, <1>3
<1>6. /\ \A f \in parts : Holds(Joined(parts), f)
      /\ DOMAIN Joined(parts) = UNION {DOMAIN f : f \in parts}
      /\ Joined(parts) = [o \in DOMAIN Joined(parts) |-> Joined(parts)[o]]
    BY <1>5, JoinedContains
<1>7. DOMAIN file.at = DOMAIN content \cup {end, end + 4}
    <2>1. UNION {DOMAIN f : f \in parts} = DOMAIN content \cup DOMAIN crc \cup DOMAIN table
        OBVIOUS
    <2> HIDE DEF parts
    <2> QED BY <1>2, <1>3, <1>4, <1>6, <2>1
<1>8. /\ Holds(file.at, content)
      /\ file.at[end + 4] = CrcCell(content) /\ file.at[end] = Cell(4, HeaderSize)
      /\ file.at = [o \in DOMAIN file.at |-> file.at[o]]
    <2>1. Holds(file.at, content) /\ Holds(file.at, crc) /\ Holds(file.at, table)
        BY <1>4, <1>6
    <2> QED BY <1>2, <1>3, <1>4, <1>6, <2>1 DEF Holds
<1>9. FooterStart(file) = end
    BY <1>4 DEF FooterStart, FooterSize
<1>10. Verified(file)
    <2>1. {q \in DOMAIN file.at : q < FooterStart(file)} = DOMAIN content
        <3>1. \A q \in DOMAIN content : q < end
            OBVIOUS
        <3>2. ~(end < end) /\ ~(end + 4 < end)
            OBVIOUS
        <3> QED BY <1>7, <1>9, <3>1, <3>2
    <2>2. \A o \in DOMAIN content : file.at[o] = content[o]
        BY <1>8 DEF Holds
    <2>3. content = [p \in {q \in DOMAIN file.at : q < FooterStart(file)} |-> file.at[p]]
        <3>1. [p \in DOMAIN content |-> file.at[p]] = [p \in DOMAIN content |-> content[p]]
            BY <2>2
        <3> QED BY <2>1, <3>1
    <2>4. file.at[end + 4].w = 4 /\ Undamaged(file.at[end + 4]) /\ file.at[end + 4].crc = content
        BY <1>8, CrcCellIs
    <2>5. FooterStart(file) + FooterReads.crc32[1] = end + 4
        BY <1>1, <1>9
    <2> QED BY <1>7, <2>3, <2>4, <2>5 DEF Verified, Has, Undamaged
<1> QED BY <1>4, <1>7, <1>8, <1>9, <1>10 DEF file

\* Two functions with the same offsets in front of the CRC of the header.
StartsLike(f, g) == {o \in DOMAIN f : o < HeaderCrc} = {o \in DOMAIN g : o < HeaderCrc}

\* What the header of a file says.
HeaderSays(file, version, id, count, meta) ==
    LET header == HeaderOf(file)[1]
    IN /\ HeaderOf(file) # None /\ Has(file, 4, 1) /\ file.at[4].v = version
       /\ HeaderCrc \in DOMAIN file.at
       /\ header.version = version /\ header.segment_id = id /\ header.chunk_count = count
       /\ header.pattern_count = meta["pattern_count"]
       /\ header.pattern_table_len = meta["pattern_table_len"]
       /\ header.summary_offset = meta["summary_offset"]
       /\ header.data_offset = meta["data_offset"]
       /\ header.dict_len = meta["dict_len"]

\* A header is read from a file that has it, and its other fields, at the start.
LEMMA HeaderIs ==
    ASSUME NEW file, NEW version \in {V1, V2}, NEW id, NEW count, NEW meta,
           Holds(file.at, PutHeader(NewHeader(version, id, count))),
           StartsLike(file.at, PutHeader(NewHeader(version, id, count))),
           Holds(file.at, Put(0, MetaWrites, meta))
    PROVE  HeaderSays(file, version, id, count, meta)
<1> DEFINE h == NewHeader(version, id, count)
           fields == Put(0, HeaderWrites, h)
           fixed == Get(file, 0, HeaderReads)
           more == Get(file, 0, MetaReads)
           both == [f \in DOMAIN fixed \cup DOMAIN more |->
                      IF f \in DOMAIN fixed THEN fixed[f] ELSE more[f]]
<1>1. /\ Holds(PutHeader(h), fields)
      /\ HeaderCrc \in DOMAIN PutHeader(h) /\ PutHeader(h)[HeaderCrc] = CrcCell(fields)
      /\ {o \in DOMAIN PutHeader(h) : o < HeaderCrc} = DOMAIN fields
      /\ fields = [o \in DOMAIN fields |-> fields[o]]
    <2>1. fields = [o \in DOMAIN fields |-> fields[o]]
        BY HeaderLayout, PutIs
    <2> HIDE DEF h
    <2> QED BY <2>1, HeaderPart
<1>2. Holds(file.at, fields)
    BY <1>1 DEF Holds
<1>3. fixed = [f \in DOMAIN HeaderReads |-> h[f]]
    BY <1>2, HeaderLayout, ReadsPut
<1>4. more = [f \in DOMAIN MetaReads |-> meta[f]]
    BY MetaLayout, ReadsPut
<1>5. file.at[HeaderCrc] = CrcCell(fields)
    BY <1>1 DEF Holds
<1>6. Undamaged(file.at[HeaderCrc]) /\ file.at[HeaderCrc].crc = fields
    BY <1>5, CrcCellIs
<1>7. fields = [o \in {p \in DOMAIN file.at : p < HeaderCrc} |-> file.at[o]]
    <2>1. \A o \in DOMAIN fields : file.at[o] = fields[o]
        BY <1>2 DEF Holds
    <2>2. {p \in DOMAIN file.at : p < HeaderCrc} = DOMAIN fields
        BY <1>1 DEF StartsLike
    <2> HIDE DEF fields
    <2>3. [o \in DOMAIN fields |-> file.at[o]] = [o \in DOMAIN fields |-> fields[o]]
        BY <2>1
    <2> QED BY <1>1, <2>2, <2>3
<1>8. /\ h["magic"] = MobsMagic /\ h["version"] = version /\ h["segment_id"] = id
      /\ h["chunk_count"] = count
    BY DEF NewHeader
<1>9. fixed.magic = MobsMagic /\ fixed.version \in {V1, V2}
    BY <1>3, <1>8, HeaderLayout
<1>10. HeaderOf(file) = <<both>>
    BY <1>6, <1>7, <1>9 DEF HeaderOf, Undamaged
<1>11. DOMAIN fixed = DOMAIN HeaderWrites /\ DOMAIN more = DOMAIN MetaWrites
    BY <1>3, <1>4, HeaderLayout, MetaLayout
<1>12. /\ \A f \in DOMAIN HeaderWrites : both[f] = h[f]
       /\ \A f \in DOMAIN MetaWrites : f \notin DOMAIN HeaderWrites => both[f] = meta[f]
    BY <1>3, <1>4, <1>11
<1> HIDE DEF both
<1>13. HeaderOf(file)[1] = both /\ HeaderOf(file) # None
    BY <1>10 DEF None
<1>14. /\ both["version"] = version /\ both["segment_id"] = id
       /\ both["chunk_count"] = count
    BY <1>8, <1>12, HeaderLayout
<1>15. /\ both["pattern_count"] = meta["pattern_count"]
       /\ both["pattern_table_len"] = meta["pattern_table_len"]
       /\ both["summary_offset"] = meta["summary_offset"]
       /\ both["data_offset"] = meta["data_offset"]
       /\ both["dict_len"] = meta["dict_len"]
    BY <1>12, HeaderLayout, MetaLayout
<1>16. Has(file, 4, 1) /\ file.at[4].v = version
    <2>1. Has(file, 0 + HeaderWrites["version"][1], HeaderWrites["version"][2])
        BY <1>2, HeaderLayout, ReadsPut
    <2>2. Has(file, 4, 1) /\ HeaderReads["version"] = <<4, 1>> /\ 0 + 4 = 4
        BY <2>1, HeaderLayout
    <2>3. fixed["version"] = file.at[4].v
        BY <2>2, HeaderLayout DEF Get
    <2> QED BY <1>3, <1>8, <2>2, <2>3, HeaderLayout
<1>17. HeaderCrc \in DOMAIN file.at
    BY <1>1 DEF Holds
<1> QED BY <1>13, <1>14, <1>15, <1>16, <1>17 DEF HeaderSays

-----------------------------------------------------------------------------
(* A file of the second version.                                            *)

TableStart(tableLen, dictLen) == HeaderSize + tableLen + dictLen
SummaryStart(tableLen, dictLen, n) == TableStart(tableLen, dictLen) + n * EntrySize
ContentEnd(tableLen, dictLen, n) == SummaryStart(tableLen, dictLen, n) + n * SummarySize
DataStart(tableLen, dictLen, n) == AlignUp(ContentEnd(tableLen, dictLen, n), Alignment)

MetaOf(templates, tableLen, dictLen, n) ==
    [pattern_count |-> Len(templates), pattern_table_len |-> tableLen,
     summary_offset |-> SummaryStart(tableLen, dictLen, n),
     data_offset |-> DataStart(tableLen, dictLen, n),
     dict_offset |-> IF dictLen > 0 THEN HeaderSize + tableLen ELSE 0,
     dict_len |-> dictLen, feature_flags |-> 1]

\* The parts of the content, each with a name.
EntryPart(tableLen, dictLen, chunks, i) ==
    Put(TableStart(tableLen, dictLen) + (i - 1) * EntrySize, EntryWrites,
        [chunks[i].entry EXCEPT !.offset = DataBefore(chunks, i)])
SummaryPart(tableLen, dictLen, chunks, i) ==
    Put(SummaryStart(tableLen, dictLen, Len(chunks)) + (i - 1) * SummarySize, SummaryWrites,
        chunks[i].summary)
DataPart(tableLen, dictLen, chunks, i) ==
    At(DataStart(tableLen, dictLen, Len(chunks)) + DataBefore(chunks, i),
       Cell(chunks[i].entry.compressed_sz, chunks[i].lines))
Parts(id, templates, tableLen, dictLen, chunks) ==
    {PutHeader(NewHeader(V2, id, Len(chunks))),
     Put(0, MetaWrites, MetaOf(templates, tableLen, dictLen, Len(chunks))),
     At(HeaderSize, Cell(tableLen, templates))}
    \cup (IF dictLen > 0 THEN {At(HeaderSize + tableLen, Cell(dictLen, 0))} ELSE {})
    \cup {EntryPart(tableLen, dictLen, chunks, i) : i \in 1..Len(chunks)}
    \cup {SummaryPart(tableLen, dictLen, chunks, i) : i \in 1..Len(chunks)}
    \cup {DataPart(tableLen, dictLen, chunks, i) : i \in 1..Len(chunks)}

LEMMA FileIsItsParts ==
    ASSUME NEW id, NEW templates, NEW tableLen \in Nat, NEW dictLen \in Nat, NEW chunks,
           Len(chunks) \in Nat
    PROVE  SegmentFile(id, templates, tableLen, dictLen, chunks)
             = Sealed(Joined(Parts(id, templates, tableLen, dictLen, chunks)),
                      DataStart(tableLen, dictLen, Len(chunks))
                        + DataBefore(chunks, Len(chunks) + 1))
<1> DEFINE s == ContentEnd(tableLen, dictLen, Len(chunks))
<1>1. s \in Nat
    BY DEF ContentEnd, SummaryStart, TableStart, HeaderSize, EntrySize, SummarySize
<1>2. AlignUp(s, Alignment) \in Nat
    BY <1>1, AlignsUp
<1> HIDE DEF s
<1>3. s + PaddingNeeded(s, Alignment) = AlignUp(s, Alignment)
    BY <1>1, <1>2 DEF PaddingNeeded
<1> QED BY <1>3 DEF s, SegmentFile, Parts, MetaOf, EntryPart, SummaryPart, DataPart, DataStart,
       ContentEnd, SummaryStart, TableStart

\* A header field may be any, but the chunks are as the writer makes them.
Shaped(chunks) ==
    /\ Len(chunks) \in Nat /\ SizesOf(chunks)
    /\ \A k \in 1..Len(chunks) : DOMAIN chunks[k].entry = DOMAIN EntryWrites

\* Where the parts lie: one after the other.
FixedPartsLie(id, templates, tableLen, dictLen, n) ==
    LET table == TableStart(tableLen, dictLen)
        summary == SummaryStart(tableLen, dictLen, n)
        data == DataStart(tableLen, dictLen, n)
    IN /\ table \in Nat /\ summary \in Nat /\ data \in Nat
       /\ table > 64 /\ summary >= table /\ data >= summary
       /\ DOMAIN PutHeader(NewHeader(V2, id, n)) \subseteq 0..20
       /\ DOMAIN Put(0, MetaWrites, MetaOf(templates, tableLen, dictLen, n)) \subseteq 24..63
       /\ DOMAIN At(HeaderSize, Cell(tableLen, templates)) = {64}
       /\ dictLen > 0 => /\ DOMAIN At(HeaderSize + tableLen, Cell(dictLen, 0)) = {64 + tableLen}
                         /\ 64 + tableLen \in 65..(table - 1)

ChunkPartsLie(tableLen, dictLen, chunks, i) ==
    LET n == Len(chunks)
        table == TableStart(tableLen, dictLen)
        summary == SummaryStart(tableLen, dictLen, n)
        data == DataStart(tableLen, dictLen, n)
    IN /\ DOMAIN EntryPart(tableLen, dictLen, chunks, i)
            \subseteq (table + (i - 1) * 32)..(table + (i - 1) * 32 + 31)
       /\ table <= table + (i - 1) * 32 /\ table + (i - 1) * 32 + 31 < summary
       /\ DOMAIN SummaryPart(tableLen, dictLen, chunks, i)
            \subseteq (summary + (i - 1) * 80)..(summary + (i - 1) * 80 + 79)
       /\ summary <= summary + (i - 1) * 80
       /\ summary + (i - 1) * 80 + 79 < data
       /\ DOMAIN DataPart(tableLen, dictLen, chunks, i) = {data + DataBefore(chunks, i)}
       /\ DataBefore(chunks, i) \in Nat
       /\ DataBefore(chunks, i) < DataBefore(chunks, n + 1)

LEMMA PartsLie ==
    ASSUME NEW id, NEW templates, NEW tableLen \in Nat \ {0}, NEW dictLen \in Nat, NEW chunks,
           Shaped(chunks)
    PROVE  /\ FixedPartsLie(id, templates, tableLen, dictLen, Len(chunks))
           /\ \A i \in 1..Len(chunks) : ChunkPartsLie(tableLen, dictLen, chunks, i)
           /\ DataBefore(chunks, Len(chunks) + 1) \in Nat
<1> DEFINE n == Len(chunks)
           table == TableStart(tableLen, dictLen)
           summary == SummaryStart(tableLen, dictLen, n)
           end == ContentEnd(tableLen, dictLen, n)
           data == DataStart(tableLen, dictLen, n)
<1>1. n \in Nat
    BY DEF Shaped
<1>2. /\ table \in Nat /\ table = 64 + tableLen + dictLen
      /\ summary = table + n * 32 /\ end = summary + n * 80
    BY DEF TableStart, SummaryStart, ContentEnd, HeaderSize, EntrySize, SummarySize
<1>3. summary \in Nat /\ end \in Nat
    BY <1>1, <1>2
<1>4. data \in Nat /\ data >= end
    BY <1>3, AlignsUp DEF DataStart
<1>5. /\ DOMAIN PutHeader(NewHeader(V2, id, n)) \subseteq 0..20
      /\ DOMAIN At(HeaderSize, Cell(tableLen, templates)) = {64}
      /\ DOMAIN At(HeaderSize + tableLen, Cell(dictLen, 0)) = {64 + tableLen}
    BY HeaderPart DEF At, HeaderSize
<1>6. DOMAIN Put(0, MetaWrites, MetaOf(templates, tableLen, dictLen, n)) \subseteq 24..63
    <2> DEFINE P == Put(0, MetaWrites, MetaOf(templates, tableLen, dictLen, n))
    <2>1. \A o \in DOMAIN P : \E f \in DOMAIN MetaWrites : o = 0 + MetaWrites[f][1]
        BY MetaLayout, PutIs
    <2>2. \A f \in DOMAIN MetaWrites : MetaWrites[f][1] \in 24..63
        BY MetaLayout DEF Apart
    <2>3. DOMAIN P \subseteq 24..63
        <3> HIDE DEF P
        <3> QED BY <2>1, <2>2
    <2> QED BY <2>3
<1>7. /\ DataBefore(chunks, n + 1) \in Nat
      /\ \A i \in 1..n : /\ DataBefore(chunks, i) \in Nat
                         /\ DataBefore(chunks, i) < DataBefore(chunks, n + 1)
    <2>1. /\ DataBefore(chunks, n + 1) \in Nat
          /\ \A i \in 1..n : DataBefore(chunks, i) \in Nat
          /\ \A i \in 1..n : DataBefore(chunks, i) + chunks[i].entry.compressed_sz
                               <= DataBefore(chunks, n + 1)
        <3>1. n + 1 \in 1..(n + 1) /\ \A i \in 1..n : i \in 1..(n + 1) /\ i \in 1..((n + 1) - 1)
            BY <1>1
        <3> QED BY <1>1, <3>1, DataIsApart DEF Shaped
    <2>2. \A i \in 1..n : chunks[i].entry.compressed_sz \in Nat \ {0}
        BY DEF Shaped, SizesOf
    <2>3. \A a, b, c \in Nat : a + b <= c /\ b # 0 => a < c
        OBVIOUS
    <2> QED BY <2>1, <2>2, <2>3
<1> HIDE DEF table, summary, end, data
<1>8. ASSUME NEW i \in 1..n
      PROVE  /\ DOMAIN EntryPart(tableLen, dictLen, chunks, i)
                  \subseteq (table + (i - 1) * 32)..(table + (i - 1) * 32 + 31)
             /\ table <= table + (i - 1) * 32 /\ table + (i - 1) * 32 + 31 < summary
             /\ DOMAIN SummaryPart(tableLen, dictLen, chunks, i)
                  \subseteq (summary + (i - 1) * 80)..(summary + (i - 1) * 80 + 79)
             /\ summary <= summary + (i - 1) * 80
             /\ summary + (i - 1) * 80 + 79 < data
             /\ DOMAIN DataPart(tableLen, dictLen, chunks, i) = {data + DataBefore(chunks, i)}
    <2>1. table + (i - 1) * 32 \in Int /\ summary + (i - 1) * 80 \in Int /\ i \in Int
        BY <1>1, <1>2, <1>3
    <2>2. /\ table <= table + (i - 1) * 32 /\ table + (i - 1) * 32 + 31 < summary
          /\ summary <= summary + (i - 1) * 80 /\ summary + (i - 1) * 80 + 79 < data
        BY <1>1, <1>2, <1>3, <1>4
    <2>3. /\ table + (i - 1) * 32 + 32 - 1 = table + (i - 1) * 32 + 31
          /\ summary + (i - 1) * 80 + 80 - 1 = summary + (i - 1) * 80 + 79
        BY <2>1
    <2>4. DOMAIN EntryPart(tableLen, dictLen, chunks, i)
            \subseteq (table + (i - 1) * 32)..(table + (i - 1) * 32 + 32 - 1)
        BY SMTT(40), <2>1, EntryLayout, PutIs DEF EntryPart, EntrySize, table
    <2>5. DOMAIN SummaryPart(tableLen, dictLen, chunks, i)
            \subseteq (summary + (i - 1) * 80)..(summary + (i - 1) * 80 + 80 - 1)
        <3>1. SummaryPart(tableLen, dictLen, chunks, i)
                = Put(summary + (i - 1) * 80, SummaryWrites, chunks[i].summary)
            BY DEF SummaryPart, SummarySize, summary
        <3>2. Apart(SummaryWrites, 80)
            BY SummaryLayout
        <3>3. \A r : \A b \in Int : DOMAIN Put(b, SummaryWrites, r) \subseteq b..(b + 80 - 1)
            BY <3>2, PutIs
        <3> QED BY <2>1, <3>1, <3>3
    <2>6. DOMAIN DataPart(tableLen, dictLen, chunks, i) = {data + DataBefore(chunks, i)}
        BY DEF DataPart, At, data
    <2> QED BY <2>2, <2>3, <2>4, <2>5, <2>6
<1>9. data >= summary /\ summary >= table /\ table > 64
    BY <1>1, <1>2, <1>3, <1>4
<1>10. 64 + tableLen \in 65..(table - 1) \/ ~(dictLen > 0)
    BY <1>2
<1>11. FixedPartsLie(id, templates, tableLen, dictLen, n)
    BY <1>2, <1>3, <1>4, <1>5, <1>6, <1>9, <1>10 DEF FixedPartsLie, table, summary, data
<1>12. \A i \in 1..n : ChunkPartsLie(tableLen, dictLen, chunks, i)
    BY ZenonT(60), <1>7, <1>8 DEF ChunkPartsLie, table, summary, data
<1> QED BY <1>7, <1>11, <1>12

\* No two parts meet.
LEMMA PartsAreApart ==
    ASSUME NEW id, NEW templates, NEW tableLen \in Nat \ {0}, NEW dictLen \in Nat, NEW chunks,
           Shaped(chunks)
    PROVE  LET parts == Parts(id, templates, tableLen, dictLen, chunks)
           IN \A f, g \in parts : \A o \in DOMAIN f : o \in DOMAIN g => f = g
<1> DEFINE n == Len(chunks)
           table == TableStart(tableLen, dictLen)
           summary == SummaryStart(tableLen, dictLen, n)
           data == DataStart(tableLen, dictLen, n)
           A == PutHeader(NewHeader(V2, id, n))
           B == Put(0, MetaWrites, MetaOf(templates, tableLen, dictLen, n))
           C == At(HeaderSize, Cell(tableLen, templates))
           D == At(HeaderSize + tableLen, Cell(dictLen, 0))
           E(i) == EntryPart(tableLen, dictLen, chunks, i)
           S(i) == SummaryPart(tableLen, dictLen, chunks, i)
           X(i) == DataPart(tableLen, dictLen, chunks, i)
           before(i) == DataBefore(chunks, i)
           parts == Parts(id, templates, tableLen, dictLen, chunks)
<1>1. n \in Nat
    BY DEF Shaped
<1>2. /\ table \in Nat /\ summary \in Nat /\ data \in Nat
      /\ table > 64 /\ summary >= table /\ data >= summary
      /\ \A o \in DOMAIN A : o \in 0..20
      /\ \A o \in DOMAIN B : o \in 24..63
      /\ \A o \in DOMAIN C : o = 64
      /\ dictLen > 0 => \A o \in DOMAIN D : o \in 65..(table - 1)
      /\ \A i \in 1..n :
           /\ \A o \in DOMAIN E(i) : o \in (table + (i - 1) * 32)..(table + (i - 1) * 32 + 31)
           /\ table <= table + (i - 1) * 32 /\ table + (i - 1) * 32 + 31 < summary
           /\ \A o \in DOMAIN S(i) : o \in (summary + (i - 1) * 80)..(summary + (i - 1) * 80 + 79)
           /\ summary <= summary + (i - 1) * 80 /\ summary + (i - 1) * 80 + 79 < data
           /\ \A o \in DOMAIN X(i) : o = data + before(i)
           /\ before(i) \in Nat
    <2>1. /\ FixedPartsLie(id, templates, tableLen, dictLen, n)
          /\ \A i \in 1..n : ChunkPartsLie(tableLen, dictLen, chunks, i)
        BY PartsLie
    <2>2. /\ table \in Nat /\ summary \in Nat /\ data \in Nat
          /\ table > 64 /\ summary >= table /\ data >= summary
          /\ DOMAIN A \subseteq 0..20 /\ DOMAIN B \subseteq 24..63 /\ DOMAIN C = {64}
          /\ dictLen > 0 => DOMAIN D = {64 + tableLen} /\ 64 + tableLen \in 65..(table - 1)
        BY <2>1 DEF FixedPartsLie
    <2>3. \A i \in 1..n :
             /\ DOMAIN E(i) \subseteq (table + (i - 1) * 32)..(table + (i - 1) * 32 + 31)
             /\ table <= table + (i - 1) * 32 /\ table + (i - 1) * 32 + 31 < summary
             /\ DOMAIN S(i) \subseteq (summary + (i - 1) * 80)..(summary + (i - 1) * 80 + 79)
             /\ summary <= summary + (i - 1) * 80 /\ summary + (i - 1) * 80 + 79 < data
             /\ DOMAIN X(i) = {data + before(i)} /\ before(i) \in Nat
        BY ZenonT(60), <2>1 DEF ChunkPartsLie
    <2> HIDE DEF n, table, summary, data, A, B, C, D, E, S, X, before
    <2>4. /\ \A o \in DOMAIN A : o \in 0..20
          /\ \A o \in DOMAIN B : o \in 24..63
          /\ \A o \in DOMAIN C : o = 64
          /\ dictLen > 0 => \A o \in DOMAIN D : o \in 65..(table - 1)
        BY <2>2
    <2> QED BY ZenonT(60), <2>2, <2>3, <2>4
<1>3. \A f \in parts :
        \/ f = A \/ f = B \/ f = C \/ (dictLen > 0 /\ f = D)
        \/ \E i \in 1..n : f = E(i) \/ f = S(i) \/ f = X(i)
    BY DEF Parts
<1>4. \A j \in 1..n : \A i \in 1..(j - 1) : before(i) < before(j)
    <2>1. \A j \in 1..n : j \in 1..(n + 1)
        BY <1>1
    <2>2. \A j \in 1..n : before(j) \in Nat
              /\ \A i \in 1..(j - 1) : before(i) + chunks[i].entry.compressed_sz <= before(j)
        BY <1>1, <2>1, DataIsApart DEF Shaped
    <2>3. \A i \in 1..n : chunks[i].entry.compressed_sz \in Nat \ {0}
        BY DEF Shaped, SizesOf
    <2>4. \A a, b, c \in Nat : a + b <= c /\ b # 0 => a < c
        OBVIOUS
    <2>5. \A j \in 1..n : \A i \in 1..(j - 1) : i \in 1..n
        BY <1>1
    <2> HIDE DEF before
    <2> QED BY <2>2, <2>3, <2>4, <2>5
<1> HIDE DEF n, table, summary, data, A, B, C, D, E, S, X, before, parts
<1>5. ASSUME NEW f \in parts, NEW g \in parts, NEW o \in DOMAIN f, o \in DOMAIN g
      PROVE  f = g
    <2>1. o \in Nat
        BY <1>1, <1>2, <1>3, <1>5
    <2>2. CASE o < 24
        BY <1>1, <1>2, <1>3, <1>5, <2>1, <2>2
    <2>3. CASE 24 <= o /\ o < 64
        BY <1>1, <1>2, <1>3, <1>5, <2>1, <2>3
    <2>4. CASE o = 64
        BY <1>1, <1>2, <1>3, <1>5, <2>4
    <2>5. CASE 64 < o /\ o < table
        BY <1>1, <1>2, <1>3, <1>5, <2>1, <2>5
    <2>6. CASE table <= o /\ o < summary
        <3>1. \A p \in parts : o \in DOMAIN p => \E i \in 1..n : p = E(i)
            BY <1>1, <1>2, <1>3, <2>1, <2>6
        <3>2. PICK i \in 1..n, j \in 1..n : f = E(i) /\ g = E(j)
            BY <1>5, <3>1
        <3>3. /\ o \in (table + (i - 1) * 32)..(table + (i - 1) * 32 + 31)
              /\ o \in (table + (j - 1) * 32)..(table + (j - 1) * 32 + 31)
            BY <1>2, <1>5, <3>2
        <3>4. i = j
            BY <1>1, <1>2, <2>1, <3>3
        <3> QED BY <3>2, <3>4
    <2>7. CASE summary <= o /\ o < data
        <3>1. \A p \in parts : o \in DOMAIN p => \E i \in 1..n : p = S(i)
            BY <1>1, <1>2, <1>3, <2>1, <2>7
        <3>2. PICK i \in 1..n, j \in 1..n : f = S(i) /\ g = S(j)
            BY <1>5, <3>1
        <3>3. /\ o \in (summary + (i - 1) * 80)..(summary + (i - 1) * 80 + 79)
              /\ o \in (summary + (j - 1) * 80)..(summary + (j - 1) * 80 + 79)
            BY <1>2, <1>5, <3>2
        <3>4. i = j
            BY <1>1, <1>2, <2>1, <3>3
        <3> QED BY <3>2, <3>4
    <2>8. CASE data <= o
        <3>1. \A p \in parts : o \in DOMAIN p => \E i \in 1..n : p = X(i)
            BY <1>1, <1>2, <1>3, <2>1, <2>8
        <3>2. PICK i \in 1..n, j \in 1..n : f = X(i) /\ g = X(j)
            BY <1>5, <3>1
        <3>3. o = data + before(i) /\ o = data + before(j)
            BY <1>2, <1>5, <3>2
        <3>4. before(i) = before(j)
            BY <1>2, <3>3
        <3>5. i = j
            <4>1. i \in 1..(j - 1) \/ j \in 1..(i - 1) \/ i = j
                BY <1>1
            <4> QED BY <1>2, <1>4, <3>4, <4>1
        <3> QED BY <3>2, <3>5
    <2> QED BY <1>2, <2>1, <2>2, <2>3, <2>4, <2>5, <2>6, <2>7, <2>8
<1> QED BY <1>5 DEF parts

\* All cells are whole, and no other one than those of the header and of the
\* footer holds a CRC.
Whole(file, end) ==
    /\ "at" \in DOMAIN file
    /\ file.len = end + 8 /\ FooterStart(file) = end /\ Verified(file)
    /\ DOMAIN file.at \subseteq 0..(end + 4)
    /\ {0, end, end + 4} \subseteq DOMAIN file.at
    /\ \A o \in DOMAIN file.at : o < end \/ o = end \/ o = end + 4
    /\ \A o \in DOMAIN file.at : Undamaged(file.at[o])
    /\ \A o \in DOMAIN file.at : o \notin {HeaderCrc, end + 4} => file.at[o].crc = <<>>
    /\ file.at = [o \in DOMAIN file.at |-> file.at[o]]

LEMMA ContentIsWhole ==
    ASSUME NEW content, NEW end \in Nat, end > 20, DOMAIN content \subseteq 0..(end - 1),
           0 \in DOMAIN content, content = [o \in DOMAIN content |-> content[o]],
           \A o \in DOMAIN content : Undamaged(content[o]),
           \A o \in DOMAIN content : o # HeaderCrc => content[o].crc = <<>>
    PROVE  /\ Whole(Sealed(content, end), end)
           /\ Holds(Sealed(content, end).at, content)
           /\ {o \in DOMAIN Sealed(content, end).at : o < HeaderCrc}
                = {o \in DOMAIN content : o < HeaderCrc}
<1> DEFINE file == Sealed(content, end)
<1>1. /\ file.len = end + 8 /\ FooterStart(file) = end /\ Verified(file)
      /\ DOMAIN file.at = DOMAIN content \cup {end, end + 4}
      /\ Holds(file.at, content)
      /\ file.at[end + 4] = CrcCell(content) /\ file.at[end] = Cell(4, HeaderSize)
      /\ file.at = [o \in DOMAIN file.at |-> file.at[o]]
    BY SealedIs
<1> HIDE DEF file
<1>2. \A o \in DOMAIN content : file.at[o] = content[o] /\ o \in 0..(end - 1)
    BY <1>1 DEF Holds
<1>3. /\ Undamaged(file.at[end + 4]) /\ Undamaged(file.at[end]) /\ file.at[end].crc = <<>>
    BY <1>1, CellIs, CrcCellIs DEF Plain
<1>4. \A o \in DOMAIN file.at : o < end \/ o = end \/ o = end + 4
    BY <1>1, <1>2
<1>5. DOMAIN file.at \subseteq 0..(end + 4)
    BY <1>1, <1>2
<1>6. \A o \in DOMAIN file.at : Undamaged(file.at[o])
    BY <1>1, <1>2, <1>3
<1>7. \A o \in DOMAIN file.at : o \notin {HeaderCrc, end + 4} => file.at[o].crc = <<>>
    BY <1>1, <1>2, <1>3
<1>8. {o \in DOMAIN file.at : o < HeaderCrc} = {o \in DOMAIN content : o < HeaderCrc}
    BY <1>1, <1>2 DEF HeaderCrc
<1>9. Whole(file, end)
    <2>1. "at" \in DOMAIN file
        BY DEF file, Sealed
    <2> QED BY <1>1, <1>4, <1>5, <1>6, <1>7, <2>1 DEF Whole
<1> QED BY <1>1, <1>8, <1>9 DEF file

\* A dictionary is one cell, and nothing else is among its bytes.
DictAlone(file, tableLen, dictLen) ==
    dictLen > 0 =>
        /\ Has(file, HeaderSize + tableLen, dictLen)
        /\ \A o \in (HeaderSize + tableLen + 1)..(HeaderSize + tableLen + dictLen - 1) :
              o \notin DOMAIN file.at

\* The whole content: all parts are in it, and nothing else.
LEMMA ContentIs ==
    ASSUME NEW id, NEW templates, NEW tableLen \in Nat \ {0}, NEW dictLen \in Nat, NEW chunks,
           Shaped(chunks)
    PROVE  LET parts == Parts(id, templates, tableLen, dictLen, chunks)
               end == DataStart(tableLen, dictLen, Len(chunks))
                        + DataBefore(chunks, Len(chunks) + 1)
               file == Sealed(Joined(parts), end)
           IN /\ end \in Nat /\ Whole(file, end)
              /\ \A f \in parts : Holds(file.at, f)
              /\ StartsLike(file.at, PutHeader(NewHeader(V2, id, Len(chunks))))
              /\ DictAlone(file, tableLen, dictLen)
<1> DEFINE n == Len(chunks)
           table == TableStart(tableLen, dictLen)
           summary == SummaryStart(tableLen, dictLen, n)
           data == DataStart(tableLen, dictLen, n)
           A == PutHeader(NewHeader(V2, id, n))
           B == Put(0, MetaWrites, MetaOf(templates, tableLen, dictLen, n))
           C == At(HeaderSize, Cell(tableLen, templates))
           D == At(HeaderSize + tableLen, Cell(dictLen, 0))
           E(i) == EntryPart(tableLen, dictLen, chunks, i)
           S(i) == SummaryPart(tableLen, dictLen, chunks, i)
           X(i) == DataPart(tableLen, dictLen, chunks, i)
           before(i) == DataBefore(chunks, i)
           parts == Parts(id, templates, tableLen, dictLen, chunks)
           content == Joined(parts)
           end == data + DataBefore(chunks, n + 1)
<1>1. n \in Nat
    BY DEF Shaped
<1>2. \A f \in parts :
        \/ f = A \/ f = B \/ f = C \/ (dictLen > 0 /\ f = D)
        \/ \E i \in 1..n : f = E(i) \/ f = S(i) \/ f = X(i)
    BY DEF Parts
<1>3. A \in parts
    BY DEF Parts
<1>4. /\ FixedPartsLie(id, templates, tableLen, dictLen, n)
      /\ \A i \in 1..n : ChunkPartsLie(tableLen, dictLen, chunks, i)
      /\ before(n + 1) \in Nat
    BY PartsLie
<1>5. /\ table \in Nat /\ summary \in Nat /\ data \in Nat
      /\ table > 64 /\ summary >= table /\ data >= summary
      /\ DOMAIN A \subseteq 0..20 /\ DOMAIN B \subseteq 24..63 /\ DOMAIN C = {64}
      /\ dictLen > 0 => DOMAIN D = {64 + tableLen} /\ 64 + tableLen \in 65..(table - 1)
    BY <1>4 DEF FixedPartsLie
<1>6. \A i \in 1..n :
         /\ DOMAIN E(i) \subseteq (table + (i - 1) * 32)..(table + (i - 1) * 32 + 31)
         /\ table <= table + (i - 1) * 32 /\ table + (i - 1) * 32 + 31 < summary
         /\ DOMAIN S(i) \subseteq (summary + (i - 1) * 80)..(summary + (i - 1) * 80 + 79)
         /\ summary <= summary + (i - 1) * 80 /\ summary + (i - 1) * 80 + 79 < data
         /\ DOMAIN X(i) = {data + before(i)} /\ before(i) \in Nat /\ before(i) < before(n + 1)
    BY ZenonT(60), <1>4 DEF ChunkPartsLie
<1>7. /\ \A o \in DOMAIN A : o # HeaderCrc => Plain(A[o])
      /\ \A o \in DOMAIN A : Undamaged(A[o])
      /\ 0 \in DOMAIN A
    <2> DEFINE h == NewHeader(V2, id, n)
               fields == Put(0, HeaderWrites, h)
    <2>1. /\ DOMAIN A \subseteq 0..20 /\ 0 \in DOMAIN A
          /\ A[HeaderCrc] = CrcCell(fields)
          /\ {o \in DOMAIN A : o < HeaderCrc} = DOMAIN fields
          /\ \A o \in DOMAIN fields : Plain(A[o])
        <3>1. A = PutHeader(h)
            OBVIOUS
        <3> HIDE DEF h, A
        <3> QED BY <3>1, HeaderPart
    <2>2. \A o \in DOMAIN A : o # HeaderCrc => Plain(A[o])
        <3>1. \A o \in DOMAIN A : o # HeaderCrc => o < HeaderCrc
            BY <2>1 DEF HeaderCrc
        <3> HIDE DEF A, fields
        <3> QED BY <2>1, <3>1
    <2>3. Undamaged(A[HeaderCrc])
        BY <2>1, CrcCellIs
    <2> HIDE DEF A
    <2> QED BY <2>1, <2>2, <2>3 DEF Plain
<1>8. /\ \A o \in DOMAIN B : Plain(B[o])
      /\ \A i \in 1..n : /\ \A o \in DOMAIN E(i) : Plain(E(i)[o])
                         /\ \A o \in DOMAIN S(i) : Plain(S(i)[o])
    <2>1. \A o \in DOMAIN B : Plain(B[o])
        BY MetaLayout, PutIs
    <2>2. Apart(EntryWrites, 32) /\ Apart(SummaryWrites, 80)
        BY EntryLayout, SummaryLayout
    <2>3. \A r : \A b \in Int : /\ \A o \in DOMAIN Put(b, EntryWrites, r) : Plain(Put(b, EntryWrites, r)[o])
                            /\ \A o \in DOMAIN Put(b, SummaryWrites, r) : Plain(Put(b, SummaryWrites, r)[o])
        BY <2>2, PutIs
    <2>4. \A i \in 1..n : table + (i - 1) * EntrySize \in Int /\ summary + (i - 1) * SummarySize \in Int
        BY <1>1, <1>5 DEF EntrySize, SummarySize
    <2>5. \A i \in 1..n : \A o \in DOMAIN E(i) : Plain(E(i)[o])
        BY <2>3, <2>4 DEF EntryPart
    <2>6. \A i \in 1..n : \A o \in DOMAIN S(i) : Plain(S(i)[o])
        BY <2>3, <2>4 DEF SummaryPart
    <2> QED BY <2>1, <2>5, <2>6
<1>9. \A p, w, v : \A o \in DOMAIN At(p, Cell(w, v)) : Plain(At(p, Cell(w, v))[o])
    BY CellIs DEF At, Plain
<1>10. /\ \A o \in DOMAIN C : Plain(C[o])
       /\ \A o \in DOMAIN D : Plain(D[o])
       /\ \A i \in 1..n : \A o \in DOMAIN X(i) : Plain(X(i)[o])
    BY <1>9 DEF DataPart
<1>11. \A f, g \in parts : \A o \in DOMAIN f : o \in DOMAIN g => f = g
    BY PartsAreApart
<1>12. /\ \A f \in parts : Holds(content, f)
       /\ DOMAIN content = UNION {DOMAIN f : f \in parts}
       /\ content = [o \in DOMAIN content |-> content[o]]
    <2> HIDE DEF parts
    <2> QED BY <1>11, JoinedContains
<1> HIDE DEF n, table, summary, data, A, B, C, D, E, S, X, before, parts, content
<1>13. end \in Nat /\ end > 20 /\ end >= data
    BY <1>4, <1>5 DEF before
<1>14. ASSUME NEW f \in parts, NEW o \in DOMAIN f
       PROVE  /\ o \in 0..(end - 1) /\ Undamaged(f[o]) /\ (o # HeaderCrc => f[o].crc = <<>>)
              /\ o < HeaderCrc => f = A
    <2>1. CASE f = A
        <3>1. o \in 0..20
            BY <1>5, <2>1
        <3>2. o \in 0..(end - 1)
            BY <1>13, <3>1
        <3> QED BY <1>7, <2>1, <3>2 DEF Plain
    <2>2. CASE f = B
        <3>1. o \in 24..63 /\ Plain(f[o])
            BY <1>5, <1>8, <2>2
        <3>2. end >= 64
            BY <1>5, <1>13
        <3>3. end \in Nat
            BY <1>13
        <3> HIDE DEF end
        <3>4. o \in 0..(end - 1) /\ ~(o < 20)
            BY <3>1, <3>2, <3>3
        <3> QED BY <3>1, <3>4 DEF Plain, HeaderCrc
    <2>3. CASE f = C
        BY <1>5, <1>10, <1>13, <2>3 DEF Plain, HeaderCrc
    <2>4. CASE dictLen > 0 /\ f = D
        BY <1>5, <1>10, <1>13, <2>4 DEF Plain, HeaderCrc
    <2>5. CASE \E i \in 1..n : f = E(i) \/ f = S(i) \/ f = X(i)
        <3>1. PICK i \in 1..n : f = E(i) \/ f = S(i) \/ f = X(i)
            BY <2>5
        <3>2. Plain(f[o])
            BY <1>8, <1>10, <3>1
        <3>3. o \in Nat /\ o >= table /\ o < end
            <4>1. end = data + before(n + 1) /\ before(n + 1) \in Nat
                BY <1>4 DEF before
            <4>2. CASE f = E(i)
                <5> DEFINE low == table + (i - 1) * 32
                <5>1. o \in low..(low + 31) /\ table <= low /\ low + 31 < summary
                    BY <1>6, <4>2
                <5>2. low \in Int
                    BY <1>1, <1>5
                <5> HIDE DEF low
                <5> QED BY <1>5, <1>13, <5>1, <5>2
            <4>3. CASE f = S(i)
                <5> DEFINE low == summary + (i - 1) * 80
                <5>1. o \in low..(low + 79) /\ summary <= low /\ low + 79 < data
                    BY <1>6, <4>3
                <5>2. low \in Int
                    BY <1>1, <1>5
                <5> HIDE DEF low
                <5> QED BY <1>5, <1>13, <5>1, <5>2
            <4>4. CASE f = X(i)
                <5>1. o = data + before(i) /\ before(i) \in Nat /\ before(i) < before(n + 1)
                    BY <1>6, <4>4
                <5> QED BY <1>5, <4>1, <5>1
            <4> QED BY <3>1, <4>2, <4>3, <4>4
        <3> QED BY <1>5, <1>13, <3>2, <3>3 DEF Plain, HeaderCrc
    <2> QED BY <1>2, <2>1, <2>2, <2>3, <2>4, <2>5
<1>15. \A o \in DOMAIN content : \E f \in parts : o \in DOMAIN f /\ content[o] = f[o]
    <2>1. \A o \in DOMAIN content : \E f \in parts : o \in DOMAIN f
        BY <1>12
    <2> QED BY <1>12, <2>1 DEF Holds
<1>16. /\ DOMAIN content \subseteq 0..(end - 1)
       /\ \A o \in DOMAIN content : Undamaged(content[o])
       /\ \A o \in DOMAIN content : o # HeaderCrc => content[o].crc = <<>>
    BY <1>14, <1>15
<1>17. Holds(content, A)
    BY <1>3, <1>12
<1>18. 0 \in DOMAIN content /\ {o \in DOMAIN content : o < HeaderCrc}
                                  = {o \in DOMAIN A : o < HeaderCrc}
    <2>1. \A o \in DOMAIN A : o \in DOMAIN content
        BY <1>17 DEF Holds
    <2>2. \A o \in DOMAIN content : o < HeaderCrc => o \in DOMAIN A
        BY <1>14, <1>15
    <2> QED BY <1>7, <2>1, <2>2
<1> DEFINE file == Sealed(content, end)
<1> HIDE DEF end
<1>19. /\ Whole(file, end) /\ Holds(file.at, content)
       /\ {o \in DOMAIN file.at : o < HeaderCrc} = {o \in DOMAIN content : o < HeaderCrc}
    BY <1>12, <1>13, <1>16, <1>18, ContentIsWhole
<1>20. \A f \in parts : Holds(file.at, f)
    <2> HIDE DEF file
    <2> QED BY <1>12, <1>19 DEF Holds
<1>21. StartsLike(file.at, A)
    BY <1>18, <1>19 DEF StartsLike
<1>22. DictAlone(file, tableLen, dictLen)
    <2>1. SUFFICES ASSUME dictLen > 0 PROVE DictAlone(file, tableLen, dictLen)
        BY DEF DictAlone
    <2>2. D \in parts
        BY <2>1 DEF D, parts, Parts
    <2>3. Has(file, HeaderSize + tableLen, dictLen)
        <3>1. /\ HeaderSize + tableLen \in DOMAIN D
              /\ D[HeaderSize + tableLen] = Cell(dictLen, 0)
            BY DEF D, At
        <3>2. /\ HeaderSize + tableLen \in DOMAIN file.at
              /\ file.at[HeaderSize + tableLen] = Cell(dictLen, 0)
            BY <1>20, <2>2, <3>1 DEF Holds
        <3> QED BY <3>2, CellIs DEF Has
    <2>4. table = 64 + tableLen + dictLen
        BY DEF table, TableStart, HeaderSize
    <2>5. ASSUME NEW o \in (64 + tableLen + 1)..(64 + tableLen + dictLen - 1), o \in DOMAIN file.at
          PROVE  FALSE
        <3>1. o \in Nat /\ o > 64 + tableLen /\ o < table /\ o > 64
            BY <2>4
        <3>2. o \in DOMAIN content
            <4>1. o < end
                BY <1>5, <1>13, <3>1
            <4>2. DOMAIN file.at = DOMAIN content \cup {end, end + 4}
                <5>1. content = [q \in DOMAIN content |-> content[q]]
                    BY <1>12
                <5>2. DOMAIN Sealed(content, end).at = DOMAIN content \cup {end, end + 4}
                    BY <1>13, <1>16, <5>1, SealedIs
                <5> QED BY <5>2
            <4> QED BY <1>13, <2>5, <4>1, <4>2
        <3>3. PICK f \in parts : o \in DOMAIN f
            BY <1>15, <3>2
        <3>4. ~(f = A \/ f = B \/ f = C)
            BY <1>5, <3>1, <3>3
        <3>5. ~(dictLen > 0 /\ f = D)
            BY <1>5, <3>1, <3>3
        <3>6. \A i \in 1..n : f # E(i)
            <4> TAKE i \in 1..n
            <4> DEFINE low == table + (i - 1) * 32
            <4>1. DOMAIN E(i) \subseteq low..(low + 31) /\ table <= low
                BY <1>6
            <4>2. low \in Int
                BY <1>1, <1>5
            <4> HIDE DEF low
            <4> QED BY <1>5, <3>1, <3>3, <4>1, <4>2
        <3>7. \A i \in 1..n : f # S(i)
            <4> TAKE i \in 1..n
            <4> DEFINE low == summary + (i - 1) * 80
            <4>1. DOMAIN S(i) \subseteq low..(low + 79) /\ summary <= low
                BY <1>6
            <4>2. low \in Int
                BY <1>1, <1>5
            <4> HIDE DEF low
            <4> QED BY <1>5, <3>1, <3>3, <4>1, <4>2
        <3>8. \A i \in 1..n : f # X(i)
            <4> TAKE i \in 1..n
            <4>1. DOMAIN X(i) = {data + before(i)} /\ before(i) \in Nat
                BY <1>6
            <4> QED BY <1>5, <3>1, <3>3, <4>1
        <3> QED BY <1>2, <3>4, <3>5, <3>6, <3>7, <3>8
    <2> QED BY <2>3, <2>5 DEF DictAlone, HeaderSize
<1> QED BY <1>13, <1>19, <1>20, <1>21, <1>22 DEF parts, end, content, A, n, data

\* What the readers find of a chunk.
ChunkSays(file, tableLen, dictLen, chunks, i) ==
    LET n == Len(chunks)
        entry == EntryAt(file, TableStart(tableLen, dictLen), i)
        summary == SummaryAt(file, SummaryStart(tableLen, dictLen, n), i)
        given == chunks[i].entry
    IN /\ entry.offset = DataBefore(chunks, i)
       /\ entry.compressed_sz = given.compressed_sz /\ entry.original_sz = given.original_sz
       /\ entry.line_count = given.line_count
       /\ entry.min_ts = given.min_ts /\ entry.max_ts = given.max_ts
       /\ summary.pattern_mask = chunks[i].summary.pattern_mask
       /\ summary.level_mask = chunks[i].summary.level_mask
       /\ summary.param_bloom = chunks[i].summary.param_bloom
       /\ LinesAt(file, DataStart(tableLen, dictLen, n) + DataBefore(chunks, i),
                  given.compressed_sz) = <<chunks[i].lines>>

\* What the readers find in a file.
FileSays(file, id, templates, tableLen, dictLen, chunks) ==
    LET n == Len(chunks)
        end == DataStart(tableLen, dictLen, n) + DataBefore(chunks, n + 1)
    IN /\ end \in Nat /\ Whole(file, end)
       /\ HeaderSays(file, V2, id, n, MetaOf(templates, tableLen, dictLen, n))
       /\ Has(file, HeaderSize, tableLen) /\ file.at[HeaderSize].v = templates
       /\ DictAlone(file, tableLen, dictLen)
       /\ \A i \in 1..n : ChunkSays(file, tableLen, dictLen, chunks, i)

\* What write_segment_v2 writes is what the readers find.
THEOREM WrittenIsRead ==
    ASSUME NEW id, NEW templates, NEW tableLen \in Nat \ {0}, NEW dictLen \in Nat, NEW chunks,
           Shaped(chunks)
    PROVE  FileSays(SegmentFile(id, templates, tableLen, dictLen, chunks),
                    id, templates, tableLen, dictLen, chunks)
<1> DEFINE n == Len(chunks)
           parts == Parts(id, templates, tableLen, dictLen, chunks)
           end == DataStart(tableLen, dictLen, n) + DataBefore(chunks, n + 1)
           file == SegmentFile(id, templates, tableLen, dictLen, chunks)
           A == PutHeader(NewHeader(V2, id, n))
           B == Put(0, MetaWrites, MetaOf(templates, tableLen, dictLen, n))
           C == At(HeaderSize, Cell(tableLen, templates))
<1>1. n \in Nat
    BY DEF Shaped
<1>2. file = Sealed(Joined(parts), end)
    BY <1>1, FileIsItsParts
<1>3. /\ end \in Nat /\ Whole(file, end)
      /\ \A f \in parts : Holds(file.at, f)
      /\ StartsLike(file.at, A) /\ DictAlone(file, tableLen, dictLen)
    <2> DEFINE it == Sealed(Joined(parts), end)
    <2>1. end \in Nat /\ Whole(it, end)
        BY ContentIs
    <2>2. \A f \in parts : Holds(it.at, f)
        BY ContentIs
    <2>3. StartsLike(it.at, A) /\ DictAlone(it, tableLen, dictLen)
        BY ContentIs
    <2>4. file = it
        BY <1>2
    <2> HIDE DEF it, file, end, A, parts
    <2> QED BY <2>1, <2>2, <2>3, <2>4
<1>4. A \in parts /\ B \in parts /\ C \in parts
    BY DEF Parts
<1>5. \A i \in 1..n : /\ EntryPart(tableLen, dictLen, chunks, i) \in parts
                      /\ SummaryPart(tableLen, dictLen, chunks, i) \in parts
                      /\ DataPart(tableLen, dictLen, chunks, i) \in parts
    BY DEF Parts
<1>6. Holds(file.at, A) /\ Holds(file.at, B) /\ Holds(file.at, C)
    BY <1>3, <1>4
<1> HIDE DEF file, parts
<1>7. HeaderSays(file, V2, id, n, MetaOf(templates, tableLen, dictLen, n))
    BY <1>3, <1>6, HeaderIs
<1>8. Has(file, HeaderSize, tableLen) /\ file.at[HeaderSize].v = templates
    <2>1. HeaderSize \in DOMAIN C /\ C[HeaderSize] = Cell(tableLen, templates)
        BY DEF At
    <2>2. HeaderSize \in DOMAIN file.at /\ file.at[HeaderSize] = Cell(tableLen, templates)
        BY <1>6, <2>1 DEF Holds
    <2> QED BY <2>2, CellIs DEF Has
<1>9. ASSUME NEW i \in 1..n PROVE ChunkSays(file, tableLen, dictLen, chunks, i)
    <2> DEFINE E == EntryPart(tableLen, dictLen, chunks, i)
               S == SummaryPart(tableLen, dictLen, chunks, i)
               X == DataPart(tableLen, dictLen, chunks, i)
               es == TableStart(tableLen, dictLen) + (i - 1) * EntrySize
               ss == SummaryStart(tableLen, dictLen, n) + (i - 1) * SummarySize
               xs == DataStart(tableLen, dictLen, n) + DataBefore(chunks, i)
               given == [chunks[i].entry EXCEPT !.offset = DataBefore(chunks, i)]
    <2>1. Holds(file.at, E) /\ Holds(file.at, S) /\ Holds(file.at, X)
        BY <1>3, <1>5
    <2>2. es \in Int /\ ss \in Int
        BY <1>1 DEF TableStart, SummaryStart, HeaderSize, EntrySize, SummarySize
    <2>3. /\ E = Put(es, EntryWrites, given) /\ S = Put(ss, SummaryWrites, chunks[i].summary)
          /\ X = At(xs, Cell(chunks[i].entry.compressed_sz, chunks[i].lines))
        BY DEF EntryPart, SummaryPart, DataPart
    <2>4. /\ EntryAt(file, TableStart(tableLen, dictLen), i) = Get(file, es, EntryReads)
          /\ SummaryAt(file, SummaryStart(tableLen, dictLen, n), i)
               = IF Has(file, ss, 8) THEN Get(file, ss, SummaryReads) ELSE NoSummary
        BY DEF EntryAt, SummaryAt
    <2> DEFINE entry == Get(file, es, EntryReads)
               summary == Get(file, ss, SummaryReads)
    <2>5. /\ given["offset"] = DataBefore(chunks, i)
          /\ \A f \in DOMAIN EntryWrites : f # "offset" => given[f] = chunks[i].entry[f]
        <3>1. DOMAIN chunks[i].entry = DOMAIN EntryWrites
            BY DEF Shaped
        <3> QED BY <3>1, EntryLayout
    <2> HIDE DEF es, ss, given, E, S, X, entry, summary
    <2>6. entry = [f \in DOMAIN EntryWrites |-> given[f]]
        BY <2>1, <2>2, <2>3, EntryLayout, ReadsPut DEF entry
    <2>7. /\ summary = [f \in DOMAIN SummaryWrites |-> chunks[i].summary[f]]
          /\ Has(file, ss, 8)
        <3>1. /\ summary = [f \in DOMAIN SummaryWrites |-> chunks[i].summary[f]]
              /\ \A f \in DOMAIN SummaryWrites : Has(file, ss + SummaryWrites[f][1], SummaryWrites[f][2])
            BY <2>1, <2>2, <2>3, SummaryLayout, ReadsPut DEF summary
        <3>2. Has(file, ss + 0, 8)
            BY <3>1, SummaryLayout
        <3>3. ss + 0 = ss
            BY <2>2
        <3> QED BY <3>1, <3>2, <3>3
    <2>8. /\ entry["offset"] = DataBefore(chunks, i)
          /\ \A f \in DOMAIN EntryWrites : f # "offset" => entry[f] = chunks[i].entry[f]
        BY <2>5, <2>6, EntryLayout
    <2>9. \A f \in DOMAIN SummaryWrites : summary[f] = chunks[i].summary[f]
        BY <2>7
    <2>10. LinesAt(file, xs, chunks[i].entry.compressed_sz) = <<chunks[i].lines>>
        <3> DEFINE cell == Cell(chunks[i].entry.compressed_sz, chunks[i].lines)
        <3>1. xs \in DOMAIN X /\ X[xs] = cell
            BY <2>3 DEF At
        <3>2. xs \in DOMAIN file.at /\ file.at[xs] = cell
            BY <2>1, <3>1 DEF Holds
        <3>3. cell.w = chunks[i].entry.compressed_sz /\ cell.v = chunks[i].lines
            BY CellIs
        <3> QED BY <3>2, <3>3 DEF LinesAt, Has
    <2>11. /\ EntryAt(file, TableStart(tableLen, dictLen), i) = entry
           /\ SummaryAt(file, SummaryStart(tableLen, dictLen, n), i) = summary
        BY <2>4, <2>7 DEF entry, summary
    <2>12. /\ entry.offset = DataBefore(chunks, i)
           /\ entry.compressed_sz = chunks[i].entry.compressed_sz
           /\ entry.original_sz = chunks[i].entry.original_sz
           /\ entry.line_count = chunks[i].entry.line_count
           /\ entry.min_ts = chunks[i].entry.min_ts /\ entry.max_ts = chunks[i].entry.max_ts
        BY <2>8, EntryLayout
    <2>13. /\ summary.pattern_mask = chunks[i].summary.pattern_mask
           /\ summary.level_mask = chunks[i].summary.level_mask
           /\ summary.param_bloom = chunks[i].summary.param_bloom
        BY <2>9, SummaryLayout
    <2> QED BY <2>10, <2>11, <2>12, <2>13 DEF ChunkSays
<1>10. FileSays(file, id, templates, tableLen, dictLen, chunks)
    BY <1>3, <1>7, <1>8, <1>9 DEF FileSays
<1> QED BY <1>10 DEF file

-----------------------------------------------------------------------------
(* A file of the first version.                                             *)

NoMeta == [f \in DOMAIN MetaWrites |-> 0]

FileSaysV1(file, id, chunk) ==
    LET start == DataOffsetV1(1)
        entry == EntryAt(file, HeaderSize, 1)
        end == start + chunk.entry.compressed_sz
    IN /\ start \in Nat /\ end \in Nat /\ end >= 96 /\ Whole(file, end)
       /\ HeaderSays(file, V1, id, 1, NoMeta)
       /\ entry.offset = start /\ entry.compressed_sz = chunk.entry.compressed_sz
       /\ entry.original_sz = chunk.entry.original_sz
       /\ entry.line_count = chunk.entry.line_count
       /\ entry.min_ts = chunk.entry.min_ts /\ entry.max_ts = chunk.entry.max_ts
       /\ LinesAt(file, start, chunk.entry.compressed_sz) = <<chunk.lines>>

\* The same of a file of the first version, with its one chunk.
THEOREM WrittenIsReadV1 ==
    ASSUME NEW id, NEW chunk, DOMAIN chunk.entry = DOMAIN EntryWrites,
           chunk.entry.compressed_sz \in Nat \ {0}
    PROVE  FileSaysV1(SegmentFileV1(id, chunk), id, chunk)
<1> DEFINE start == DataOffsetV1(1)
           end == start + chunk.entry.compressed_sz
           given == [chunk.entry EXCEPT !.offset = start]
           cell == Cell(chunk.entry.compressed_sz, chunk.lines)
           A == PutHeader(NewHeader(V1, id, 1))
           B == Put(0, MetaWrites, NoMeta)
           E == Put(HeaderSize, EntryWrites, given)
           X == At(start, cell)
           parts == {A, B, E, X}
           content == Joined(parts)
           file == SegmentFileV1(id, chunk)
<1>1. start \in Nat /\ start >= 96
    <2>1. HeaderSize + 1 * EntrySize = 96
        BY DEF HeaderSize, EntrySize
    <2> QED BY <2>1, AlignsUp DEF DataOffsetV1
<1>2. file = Sealed(content, end)
    BY DEF SegmentFileV1, NoMeta
<1>3. /\ DOMAIN A \subseteq 0..20 /\ 0 \in DOMAIN A
      /\ \A o \in DOMAIN A : Undamaged(A[o]) /\ (o # HeaderCrc => A[o].crc = <<>>)
    <2> DEFINE h == NewHeader(V1, id, 1)
               fields == Put(0, HeaderWrites, h)
    <2>1. /\ DOMAIN A \subseteq 0..20 /\ 0 \in DOMAIN A
          /\ A[HeaderCrc] = CrcCell(fields)
          /\ {o \in DOMAIN A : o < HeaderCrc} = DOMAIN fields
          /\ \A o \in DOMAIN fields : Plain(A[o])
        <3>1. A = PutHeader(h)
            OBVIOUS
        <3> HIDE DEF h, A
        <3> QED BY <3>1, HeaderPart
    <2>2. \A o \in DOMAIN A : o # HeaderCrc => Plain(A[o])
        <3>1. \A o \in DOMAIN A : o # HeaderCrc => o < HeaderCrc
            BY <2>1 DEF HeaderCrc
        <3> HIDE DEF A, fields
        <3> QED BY <2>1, <3>1
    <2>3. Undamaged(A[HeaderCrc])
        BY <2>1, CrcCellIs
    <2> HIDE DEF A
    <2> QED BY <2>1, <2>2, <2>3 DEF Plain
<1>4. \A o \in DOMAIN B : o \in 24..63 /\ Plain(B[o])
    <2>1. \A o \in DOMAIN B : Plain(B[o]) /\ \E f \in DOMAIN MetaWrites : o = 0 + MetaWrites[f][1]
        BY MetaLayout, PutIs
    <2>2. \A f \in DOMAIN MetaWrites : MetaWrites[f][1] \in 24..63
        BY MetaLayout DEF Apart
    <2> HIDE DEF B
    <2> QED BY <2>1, <2>2
<1>5. \A o \in DOMAIN E : o \in 64..95 /\ Plain(E[o])
    <2>1. Apart(EntryWrites, 32) /\ HeaderSize = 64
        BY EntryLayout DEF HeaderSize
    <2>2. /\ DOMAIN E \subseteq 64..(64 + 32 - 1)
          /\ \A o \in DOMAIN E : Plain(E[o])
        <3>1. \A r : \A b \in Int : /\ DOMAIN Put(b, EntryWrites, r) \subseteq b..(b + 32 - 1)
                                /\ \A o \in DOMAIN Put(b, EntryWrites, r) :
                                      Plain(Put(b, EntryWrites, r)[o])
            BY <2>1, PutIs
        <3>2. E = Put(64, EntryWrites, given)
            BY <2>1
        <3> HIDE DEF E, given
        <3> QED BY <3>1, <3>2
    <2> HIDE DEF E
    <2> QED BY <2>2
<1>6. \A o \in DOMAIN X : o = start /\ Plain(X[o])
    BY CellIs DEF At, Plain
<1> HIDE DEF A, B, E, X, content
<1>7. \A f, g \in parts : \A o \in DOMAIN f : o \in DOMAIN g => f = g
    <2> HIDE DEF start
    <2>1. \A o \in DOMAIN A : o \in 0..20
        BY <1>3
    <2> QED BY <1>1, <1>4, <1>5, <1>6, <2>1
<1>8. /\ \A f \in parts : Holds(content, f)
      /\ DOMAIN content = UNION {DOMAIN f : f \in parts}
      /\ content = [o \in DOMAIN content |-> content[o]]
    <2> HIDE DEF parts
    <2> QED BY <1>7, JoinedContains DEF content
<1>9. end \in Nat /\ end > start
    BY <1>1
<1>10. ASSUME NEW f \in parts, NEW o \in DOMAIN f
       PROVE  /\ o \in 0..(end - 1) /\ Undamaged(f[o]) /\ (o # HeaderCrc => f[o].crc = <<>>)
              /\ o < HeaderCrc => f = A
    <2>1. end \in Nat /\ end > start /\ start \in Nat /\ start >= 96
        BY <1>1, <1>9
    <2> HIDE DEF end, start
    <2>2. CASE f = A
        <3>1. o \in 0..20 /\ Undamaged(f[o]) /\ (o # HeaderCrc => f[o].crc = <<>>)
            BY <1>3, <2>2
        <3> QED BY SMTT(40), <2>1, <2>2, <3>1
    <2>3. CASE f # A
        <3>1. o \in 24..start /\ Plain(f[o])
            BY <1>1, <1>4, <1>5, <1>6, <2>1, <2>3
        <3>2. o \in 0..(end - 1) /\ ~(o < 20)
            BY <2>1, <3>1
        <3> QED BY <3>1, <3>2 DEF Plain, HeaderCrc
    <2> QED BY <2>2, <2>3
<1>11. \A o \in DOMAIN content : \E f \in parts : o \in DOMAIN f /\ content[o] = f[o]
    <2>1. \A o \in DOMAIN content : \E f \in parts : o \in DOMAIN f
        BY <1>8
    <2> QED BY <1>8, <2>1 DEF Holds
<1>12. /\ DOMAIN content \subseteq 0..(end - 1)
       /\ \A o \in DOMAIN content : Undamaged(content[o])
       /\ \A o \in DOMAIN content : o # HeaderCrc => content[o].crc = <<>>
    <2> HIDE DEF end, parts
    <2> QED BY <1>10, <1>11
<1>13. Holds(content, A) /\ Holds(content, B) /\ Holds(content, E) /\ Holds(content, X)
    BY <1>8
<1>14. 0 \in DOMAIN content /\ {o \in DOMAIN content : o < HeaderCrc}
                                  = {o \in DOMAIN A : o < HeaderCrc}
    <2>1. \A o \in DOMAIN A : o \in DOMAIN content
        BY <1>13 DEF Holds
    <2>2. \A o \in DOMAIN content : o < HeaderCrc => o \in DOMAIN A
        <3> HIDE DEF parts, end
        <3> QED BY <1>10, <1>11
    <2> QED BY <1>3, <2>1, <2>2
<1>15. /\ Whole(file, end) /\ Holds(file.at, content)
       /\ {o \in DOMAIN file.at : o < HeaderCrc} = {o \in DOMAIN content : o < HeaderCrc}
    <2>1. end > 20
        BY <1>1, <1>9
    <2> HIDE DEF end, file
    <2> QED BY <1>2, <1>8, <1>9, <1>12, <1>14, <2>1, ContentIsWhole
<1> HIDE DEF file
<1>16. /\ Holds(file.at, A) /\ Holds(file.at, B) /\ Holds(file.at, E)
       /\ Holds(file.at, X) /\ StartsLike(file.at, A)
    BY <1>13, <1>14, <1>15 DEF Holds, StartsLike
<1>17. HeaderSays(file, V1, id, 1, NoMeta)
    BY <1>16, HeaderIs DEF A, B
<1> DEFINE entry == Get(file, HeaderSize, EntryReads)
<1>18. EntryAt(file, HeaderSize, 1) = entry
    BY DEF EntryAt, HeaderSize, EntrySize
<1>19. entry = [f \in DOMAIN EntryWrites |-> given[f]]
    <2>1. HeaderSize \in Int
        BY DEF HeaderSize
    <2> HIDE DEF given
    <2> QED BY <1>16, <2>1, EntryLayout, ReadsPut DEF E
<1>20. /\ given["offset"] = start
       /\ \A f \in DOMAIN EntryWrites : f # "offset" => given[f] = chunk.entry[f]
    BY EntryLayout
<1> HIDE DEF given, entry, start
<1>21. /\ entry["offset"] = start
       /\ \A f \in DOMAIN EntryWrites : f # "offset" => entry[f] = chunk.entry[f]
    BY <1>19, <1>20, EntryLayout
<1>22. /\ entry.offset = start /\ entry.compressed_sz = chunk.entry.compressed_sz
       /\ entry.original_sz = chunk.entry.original_sz
       /\ entry.line_count = chunk.entry.line_count
       /\ entry.min_ts = chunk.entry.min_ts /\ entry.max_ts = chunk.entry.max_ts
    BY <1>21, EntryLayout
<1>23. LinesAt(file, start, chunk.entry.compressed_sz) = <<chunk.lines>>
    <2>1. start \in DOMAIN X /\ X[start] = cell
        BY DEF At, X
    <2>2. start \in DOMAIN file.at /\ file.at[start] = cell
        BY <1>16, <2>1 DEF Holds
    <2>3. cell.w = chunk.entry.compressed_sz /\ cell.v = chunk.lines
        BY CellIs
    <2> QED BY <2>2, <2>3 DEF LinesAt, Has
<1>24. end >= 96
    BY <1>1, <1>9
<1> QED BY <1>1, <1>9, <1>15, <1>17, <1>18, <1>22, <1>23, <1>24 DEF FileSaysV1, start, file

-----------------------------------------------------------------------------
(* ParsedSegment, and files that were damaged.                              *)

\* What ParsedSegment finds in a file of the second version.
ParseSays(file, tableLen, dictLen, chunks) ==
    LET n == Len(chunks)
        parsed == Parse(file)[1]
    IN /\ Parse(file) # None
       /\ parsed.chunks = [i \in 1..n |-> EntryAt(file, TableStart(tableLen, dictLen), i)]
       /\ parsed.summaries
            = [i \in 1..n |-> SummaryAt(file, SummaryStart(tableLen, dictLen, n), i)]
       /\ parsed.data_offset = DataStart(tableLen, dictLen, n)

LEMMA PlacesAre ==
    ASSUME NEW tableLen \in Nat, NEW dictLen \in Nat, NEW n \in Nat
    PROVE  /\ TableStart(tableLen, dictLen) = 64 + tableLen + dictLen
           /\ SummaryStart(tableLen, dictLen, n) = 64 + tableLen + dictLen + n * 32
           /\ ContentEnd(tableLen, dictLen, n) = 64 + tableLen + dictLen + n * 32 + n * 80
           /\ DataStart(tableLen, dictLen, n) \in Nat
           /\ DataStart(tableLen, dictLen, n) >= 64 + tableLen + dictLen + n * 32 + n * 80
<1>1. ContentEnd(tableLen, dictLen, n) = 64 + tableLen + dictLen + n * 32 + n * 80
    BY DEF ContentEnd, SummaryStart, TableStart, HeaderSize, EntrySize, SummarySize
<1>2. ContentEnd(tableLen, dictLen, n) \in Nat
    BY <1>1
<1>3. /\ DataStart(tableLen, dictLen, n) \in Nat
      /\ DataStart(tableLen, dictLen, n) >= ContentEnd(tableLen, dictLen, n)
    BY <1>2, AlignsUp DEF DataStart
<1>4. /\ TableStart(tableLen, dictLen) = 64 + tableLen + dictLen
      /\ SummaryStart(tableLen, dictLen, n) = 64 + tableLen + dictLen + n * 32
    BY DEF SummaryStart, TableStart, HeaderSize, EntrySize
<1> QED BY <1>1, <1>3, <1>4

LEMMA ParsedIs ==
    ASSUME NEW file, NEW id, NEW templates, NEW tableLen \in Nat \ {0}, NEW dictLen \in Nat,
           NEW chunks, Shaped(chunks), Len(chunks) > 0,
           FileSays(file, id, templates, tableLen, dictLen, chunks)
    PROVE  ParseSays(file, tableLen, dictLen, chunks)
<1> DEFINE n == Len(chunks)
           header == HeaderOf(file)[1]
           table == TableStart(tableLen, dictLen)
           summary == SummaryStart(tableLen, dictLen, n)
           data == DataStart(tableLen, dictLen, n)
           end == data + DataBefore(chunks, n + 1)
           meta == MetaOf(templates, tableLen, dictLen, n)
           fits(i) == header.summary_offset + i * SummarySize <= FooterStart(file)
<1>1. n \in Nat \ {0}
    BY DEF Shaped
<1>2. /\ table = 64 + tableLen + dictLen /\ summary = 64 + tableLen + dictLen + n * 32
      /\ data \in Nat /\ data >= 64 + tableLen + dictLen + n * 32 + n * 80
    BY <1>1, PlacesAre
<1>3. DataBefore(chunks, n + 1) \in Nat
    BY PartsLie
<1>4. Whole(file, end) /\ HeaderSays(file, V2, id, n, meta)
    BY DEF FileSays
<1>5. file.len = end + 8 /\ FooterStart(file) = end /\ Verified(file)
    BY <1>4 DEF Whole
<1>6. /\ meta["pattern_table_len"] = tableLen /\ meta["summary_offset"] = summary
      /\ meta["data_offset"] = data /\ meta["dict_len"] = dictLen
    BY DEF MetaOf
<1>7. /\ HeaderOf(file) # None
      /\ header.version = V2 /\ header.chunk_count = n /\ header.pattern_table_len = tableLen
      /\ header.summary_offset = summary /\ header.data_offset = data
      /\ header.dict_len = dictLen
    BY <1>4, <1>6 DEF HeaderSays
<1>8. end \in Nat /\ end >= data
    BY <1>2, <1>3
<1> HIDE DEF header, table, summary, data, end, meta, n
<1>9. ~(file.len < MinSegmentSize)
    BY <1>1, <1>2, <1>5, <1>8 DEF MinSegmentSize, HeaderSize, EntrySize, FooterSize
<1>10. ~(file.len < HeaderSize + tableLen + dictLen + n * EntrySize + FooterSize)
    BY <1>1, <1>2, <1>5, <1>8 DEF HeaderSize, EntrySize, FooterSize
<1>11. HeaderSize + tableLen + dictLen = table
    BY <1>2 DEF HeaderSize
<1>12. {k \in 1..n : fits(k)} = 1..n
    <2>1. ASSUME NEW k \in 1..n PROVE summary + k * 80 <= end
        <3>1. k * 80 <= n * 80 /\ k * 80 \in Nat /\ n * 80 \in Nat /\ n * 32 \in Nat
            BY <1>1
        <3>2. \A a, b, c, d, e \in Nat : a <= b /\ c + b <= d /\ d <= e => c + a <= e
            OBVIOUS
        <3>3. summary \in Nat /\ summary + n * 80 <= data
            BY <1>1, <1>2
        <3> QED BY <1>2, <1>8, <3>1, <3>2, <3>3
    <2> QED BY <1>5, <1>7, <2>1 DEF SummarySize
<1>13. Cardinality({k \in 1..n : fits(k)}) = n
    <2>1. Cardinality(1..n) = n
        BY <1>1, FS_Interval
    <2> HIDE DEF fits
    <2> QED BY <1>12, <2>1
<1> DEFINE parsed == [chunks |-> [i \in 1..n |-> EntryAt(file, table, i)],
                      summaries |-> [i \in 1..n |-> SummaryAt(file, summary, i)],
                      data_offset |-> data]
<1>14. Parse(file) = <<parsed>>
    <2>1. header.version # V1
        BY <1>7 DEF V1, V2
    <2> QED BY <1>5, <1>7, <1>9, <1>10, <1>11, <1>13, <2>1 DEF Parse, header
<1>15. Parse(file) # None /\ Parse(file)[1] = parsed
    BY <1>14 DEF None
<1> QED BY <1>15 DEF ParseSays, n, table, summary, data

LEMMA ParsedIsV1 ==
    ASSUME NEW file, NEW id, NEW chunk, FileSaysV1(file, id, chunk)
    PROVE  Parse(file) # None
<1> DEFINE header == HeaderOf(file)[1]
           end == DataOffsetV1(1) + chunk.entry.compressed_sz
<1>1. Whole(file, end) /\ HeaderSays(file, V1, id, 1, NoMeta) /\ end >= 96 /\ end \in Nat
    BY DEF FileSaysV1
<1> HIDE DEF end
<1>2. file.len = end + 8 /\ FooterStart(file) = end /\ Verified(file)
    BY <1>1 DEF Whole
<1>3. NoMeta["pattern_table_len"] = 0 /\ NoMeta["dict_len"] = 0
    BY MetaLayout DEF NoMeta
<1>4. /\ HeaderOf(file) # None
      /\ header.version = V1 /\ header.chunk_count = 1 /\ header.pattern_table_len = 0
      /\ header.dict_len = 0
    BY <1>1, <1>3 DEF HeaderSays
<1>5. /\ ~(file.len < MinSegmentSize)
      /\ ~(file.len < HeaderSize + 0 + 0 + 1 * EntrySize + FooterSize)
    BY <1>1, <1>2 DEF MinSegmentSize, HeaderSize, EntrySize, FooterSize
<1>6. \A x : <<x>> # None
    BY DEF None
<1> QED BY <1>2, <1>4, <1>5, <1>6 DEF Parse

\* A file with a changed field does not pass its CRC; nor does a file that was
\* cut.
LEMMA DamagedIsNot ==
    ASSUME NEW file, NEW end \in Nat, Whole(file, end), NEW g,
           NEW o \in DOMAIN file.at, o # end
    PROVE  /\ ~Verified(Damaged(file, o, g))
           /\ Damaged(file, o, g).len = file.len
           /\ DOMAIN Damaged(file, o, g).at = DOMAIN file.at
           /\ \A q \in DOMAIN file.at : q # o => Damaged(file, o, g).at[q] = file.at[q]
           /\ Damaged(file, o, g).at[o].bad
<1> DEFINE f == Damaged(file, o, g)
           p == end + 4
           w == IF IsNumber(file, o) THEN g ELSE file.at[o].v
           cell == [file.at[o] EXCEPT !.bad = TRUE, !.v = w]
<1>1. /\ file.len = end + 8 /\ FooterStart(file) = end /\ Verified(file)
      /\ p \in DOMAIN file.at /\ "at" \in DOMAIN file
      /\ \A q \in DOMAIN file.at : q < end \/ q = end \/ q = end + 4
      /\ \A q \in DOMAIN file.at : Undamaged(file.at[q])
    BY DEF Whole
<1>2. FooterReads.crc32[1] = 4
    BY DEF FooterReads
<1>3. f.len = file.len /\ DOMAIN f.at = DOMAIN file.at
    BY <1>1 DEF Damaged
<1>4. \A q \in DOMAIN file.at : q # o => f.at[q] = file.at[q]
    BY <1>1 DEF Damaged
<1>5. f.at[o].bad = TRUE
    <2>1. "bad" \in DOMAIN file.at[o]
        BY <1>1 DEF Undamaged
    <2> QED BY <1>1, <2>1 DEF Damaged
<1>6. FooterStart(f) = end /\ FooterStart(f) + FooterReads.crc32[1] = p
    BY <1>1, <1>2, <1>3 DEF FooterStart
<1> HIDE DEF f
<1>7. ASSUME Verified(f) PROVE FALSE
    <2>1. /\ ~f.at[p].bad
          /\ f.at[p].crc = [q \in {r \in DOMAIN f.at : r < end} |-> f.at[q]]
        BY <1>6, <1>7 DEF Verified
    <2>2. file.at[p].crc = [q \in {r \in DOMAIN file.at : r < end} |-> file.at[q]]
        BY <1>1, <1>2 DEF Verified
    <2>3. o # p
        BY <1>5, <2>1
    <2>4. o < end
        BY <1>1, <2>3
    <2>5. f.at[p] = file.at[p]
        BY <1>1, <1>4, <2>3
    <2> DEFINE F == f.at[p].crc
               G == file.at[p].crc
    <2>6. F[o] = f.at[o] /\ G[o] = file.at[o]
        BY <1>3, <2>1, <2>2, <2>4
    <2>7. f.at[o] = file.at[o]
        BY <2>5, <2>6
    <2> QED BY <1>1, <1>5, <2>7 DEF Undamaged
<1> QED BY <1>3, <1>4, <1>5, <1>7 DEF f

LEMMA CutIsNot ==
    ASSUME NEW file, NEW end \in Nat, Whole(file, end), NEW o \in DOMAIN file.at,
           MinSegmentSize <= o
    PROVE  /\ ~Verified(Cut(file, o))
           /\ Cut(file, o).len = o
           /\ DOMAIN Cut(file, o).at = {q \in DOMAIN file.at : q < o}
           /\ \A q \in DOMAIN file.at : q < o => Cut(file, o).at[q] = file.at[q]
<1> DEFINE f == Cut(file, o)
           p == o - 4
<1>1. /\ o \in Nat /\ o >= 104 /\ o <= end + 4 /\ 0 \in DOMAIN file.at
      /\ \A q \in DOMAIN file.at : q \notin {HeaderCrc, end + 4} => file.at[q].crc = <<>>
    BY DEF Whole, MinSegmentSize, HeaderSize, EntrySize, FooterSize
<1>2. FooterReads.crc32[1] = 4
    BY DEF FooterReads
<1>3. /\ f.len = o /\ DOMAIN f.at = {q \in DOMAIN file.at : q < o}
      /\ \A q \in DOMAIN file.at : q < o => f.at[q] = file.at[q]
    BY DEF Cut
<1>4. FooterStart(f) = o - 8 /\ FooterStart(f) + FooterReads.crc32[1] = p
    BY <1>1, <1>2, <1>3 DEF FooterStart, FooterSize
<1> HIDE DEF f
<1>5. ASSUME Verified(f) PROVE FALSE
    <2>1. /\ Has(f, p, 4)
          /\ f.at[p].crc = [q \in {r \in DOMAIN f.at : r < o - 8} |-> f.at[q]]
        BY <1>4, <1>5 DEF Verified
    <2>2. p \in DOMAIN file.at /\ p \notin {HeaderCrc, end + 4}
        BY <1>1, <1>3, <2>1 DEF Has, HeaderCrc
    <2>3. f.at[p].crc = <<>>
        BY <1>1, <1>3, <2>1, <2>2 DEF Has
    <2>4. DOMAIN f.at[p].crc = {}
        BY <2>3
    <2>5. 0 \in DOMAIN f.at[p].crc
        BY <1>1, <1>3, <2>1
    <2> QED BY <2>4, <2>5
<1> QED BY <1>3, <1>5 DEF f

\* The header of a file that was damaged or cut, if it is read at all, has the
\* version of the file.
LEMMA VersionStays ==
    ASSUME NEW file, NEW version, NEW id, NEW n, NEW meta,
           HeaderSays(file, version, id, n, meta), NEW f,
           HeaderOf(f) # None, Has(f, 4, 1), f.at[4].v = version
    PROVE  HeaderOf(f)[1].version = version
<1> DEFINE fixed == Get(f, 0, HeaderReads)
           more == Get(f, 0, MetaReads)
           both == [x \in DOMAIN fixed \cup DOMAIN more |->
                      IF x \in DOMAIN fixed THEN fixed[x] ELSE more[x]]
<1>1. HeaderOf(f) = <<both>>
    BY DEF HeaderOf
<1>2. fixed["version"] = version
    <2>1. HeaderReads["version"] = <<4, 1>> /\ "version" \in DOMAIN HeaderReads
        BY HeaderLayout
    <2>2. 0 + 4 = 4
        OBVIOUS
    <2> QED BY <2>1, <2>2 DEF Get
<1>3. "version" \in DOMAIN fixed
    BY HeaderLayout DEF Get
<1>4. both["version"] = version
    BY <1>2, <1>3
<1> HIDE DEF both
<1> QED BY <1>1, <1>4

LEMMA LayoutsDoAgree == LayoutsAgree
<1> DEFINE Agrees(L, R, size) ==
             /\ R = L
             /\ \A f \in DOMAIN L : L[f][1]..(L[f][1] + L[f][2] - 1) \subseteq 0..(size - 1)
             /\ \A f, g \in DOMAIN L : f # g =>
                  (L[f][1]..(L[f][1] + L[f][2] - 1)) \cap (L[g][1]..(L[g][1] + L[g][2] - 1)) = {}
<1>1. Agrees(HeaderWrites, HeaderReads, HeaderSize)
    BY DEF HeaderWrites, HeaderReads, HeaderSize
<1>2. Agrees(MetaWrites, MetaReads, HeaderSize)
    BY DEF MetaWrites, MetaReads, HeaderSize
<1>3. Agrees(EntryWrites, EntryReads, EntrySize)
    BY DEF EntryWrites, EntryReads, EntrySize
<1>4. Agrees(SummaryWrites, SummaryReads, SummarySize)
    BY DEF SummaryWrites, SummaryReads, SummarySize
<1>5. Agrees(FooterWrites, FooterReads, FooterSize)
    BY DEF FooterWrites, FooterReads, FooterSize
<1>6. Agrees(SegmentSummaryWrites, SegmentSummaryReads, 28)
    BY DEF SegmentSummaryWrites, SegmentSummaryReads
<1>7. Agrees(ManifestEntryWrites, ManifestEntryReads, 64)
    BY DEF ManifestEntryWrites, ManifestEntryReads
<1>8. Agrees(ManifestHeaderWrites, ManifestHeaderReads, 9)
    BY DEF ManifestHeaderWrites, ManifestHeaderReads
<1>9. ManifestEntryReads.reserved[2] = 28
    BY DEF ManifestEntryReads
<1> HIDE DEF Agrees
<1>10. DOMAIN Layouts = 1..8
    BY DEF Layouts
<1>11. ASSUME NEW k \in DOMAIN Layouts PROVE Agrees(Layouts[k][1], Layouts[k][2], Layouts[k][3])
    <2>1. k \in 1..8
        BY <1>10
    <2> QED BY <1>1, <1>2, <1>3, <1>4, <1>5, <1>6, <1>7, <1>8, <2>1 DEF Layouts
<1> QED BY <1>9, <1>11 DEF LayoutsAgree, Agrees
===============================================================================
