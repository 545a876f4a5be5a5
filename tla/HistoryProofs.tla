---- MODULE HistoryProofs ----
(***************************************************************************)
(* Proofs about OutputHistory: for every limit the code's own assumption   *)
(* allows and every set of writers, what is counted is what is retained,   *)
(* no limit is passed, and an unchanged history is complete.               *)
(*                                                                         *)
(* The module runs from the bottom up: sums along sequences, records and   *)
(* segments, the loops that evict (recursive functions, which end because  *)
(* each turn takes at least a byte), one append, one page, the snapshot,   *)
(* and last the inductive invariant.                                       *)
(***************************************************************************)
EXTENDS OutputHistory, SequenceTheorems, FiniteSetTheorems, WellFoundedInduction, TLAPS

-----------------------------------------------------------------------------
(* Sums over finite sets.  SumFunction folds along a choice of elements;   *)
(* here the sum is the size of a set, the heap, whatever the order.        *)

LEMMA FromZero ==
    ASSUME NEW S, 0 \in S, \A n \in Nat : n \in S => n + 1 \in S
    PROVE  Nat \subseteq S
<1> SUFFICES ASSUME Nat \ S # {}
             PROVE  FALSE
    OBVIOUS
<1>1. PICK least \in Nat \ S : \A x \in Nat \ S : ~(<<x, least>> \in OpToRel(<, Nat))
    BY WFMin, NatLessThanWellFounded
<1>2. least # 0 /\ least \in Nat /\ \A x \in Nat \ S : ~(x < least)
    BY <1>1 DEF OpToRel
<1>3. least - 1 \in Nat /\ least - 1 < least /\ (least - 1) + 1 = least
    BY <1>2
<1>4. least - 1 \in S
    BY <1>2, <1>3
<1> QED
    BY <1>1, <1>3, <1>4

(* Sets without one element come first.                                    *)
LEMMA EveryFiniteSubset ==
    ASSUME NEW S, IsFiniteSet(S), NEW F, {} \in F,
           \A s \in SUBSET S : s # {} /\ (\A x \in s : s \ {x} \in F) => s \in F
    PROVE  SUBSET S \subseteq F
<1> DEFINE T == {n \in Nat : \A s \in SUBSET S : Cardinality(s) = n => s \in F}
<1>1. \A s \in SUBSET S : IsFiniteSet(s) /\ Cardinality(s) \in Nat
    BY FS_Subset, FS_CardinalityType
<1>2. 0 \in T
    BY <1>1, FS_EmptySet
<1>3. ASSUME NEW n \in Nat, n \in T
      PROVE  n + 1 \in T
    <2> SUFFICES ASSUME NEW s \in SUBSET S, Cardinality(s) = n + 1
                 PROVE  s \in F
        OBVIOUS
    <2>1. s # {}
        <3> SUFFICES ASSUME s = {}
                     PROVE  FALSE
            OBVIOUS
        <3>1. Cardinality(s) = 0
            BY FS_EmptySet
        <3> QED
            BY <3>1
    <2>2. ASSUME NEW x \in s
          PROVE  s \ {x} \in F
        <3>1. Cardinality(s \ {x}) = n /\ s \ {x} \in SUBSET S
            BY <1>1, FS_RemoveElement
        <3> QED
            BY <1>3, <3>1
    <2> QED
        BY <2>1, <2>2
<1>4. Nat \subseteq T
    <2> HIDE DEF T
    <2> QED
        BY <1>2, <1>3, FromZero
<1> QED
    BY <1>1, <1>4

(* A sum is as large as a heap of as many things as each element counts.   *)
Heap(f, s) == UNION {{x} \X (1..f[x]) : x \in s}

LEMMA HeapGrows ==
    ASSUME NEW f, NEW s, NEW x \in s, IsFiniteSet(Heap(f, s \ {x})), f[x] \in Nat
    PROVE  /\ IsFiniteSet(Heap(f, s))
           /\ Cardinality(Heap(f, s)) = f[x] + Cardinality(Heap(f, s \ {x}))
<1> DEFINE some == {x} \X (1..f[x])
           rest == Heap(f, s \ {x})
<1>1. IsFiniteSet(1..f[x]) /\ Cardinality(1..f[x]) = f[x]
    <2>1. 1 \in Int /\ f[x] \in Int
        OBVIOUS
    <2>2. IsFiniteSet(1..f[x]) /\ Cardinality(1..f[x]) = IF 1 > f[x] THEN 0 ELSE f[x] - 1 + 1
        BY <2>1, FS_Interval, Zenon
    <2> QED
        BY <2>2
<1>2. IsFiniteSet({x}) /\ Cardinality({x}) = 1
    BY FS_Singleton
<1>3. IsFiniteSet(some) /\ Cardinality(some) = f[x]
    <2>1. IsFiniteSet(some) /\ Cardinality(some) = Cardinality({x}) * Cardinality(1..f[x])
        BY <1>1, <1>2, FS_Product
    <2>2. 1 * f[x] = f[x]
        OBVIOUS
    <2> QED
        BY <1>1, <1>2, <2>1, <2>2
<1>4. Heap(f, s) = some \cup rest
    BY DEF Heap
<1>5. some \cap rest = {}
    BY DEF Heap
<1>6. Cardinality(some \cap rest) = 0
    BY <1>5, FS_EmptySet
<1>7. Cardinality(rest) \in Nat
    BY FS_CardinalityType
<1> HIDE DEF some, rest
<1>8. IsFiniteSet(rest)
    BY DEF rest
<1>9. /\ IsFiniteSet(some \cup rest)
      /\ Cardinality(some \cup rest) = Cardinality(some) + Cardinality(rest) - Cardinality(some \cap rest)
    BY <1>3, <1>8, FS_Union
<1> QED
    BY <1>3, <1>4, <1>6, <1>7, <1>9 DEF rest

Counts(f) == IsFiniteSet(DOMAIN f) /\ \A x \in DOMAIN f : f[x] \in Nat

LEMMA HeapIs ==
    ASSUME NEW f, Counts(f), NEW s \in SUBSET DOMAIN f
    PROVE  /\ IsFiniteSet(Heap(f, s)) /\ Cardinality(Heap(f, s)) \in Nat
           /\ s = {} => Cardinality(Heap(f, s)) = 0
           /\ \A x \in s : Cardinality(Heap(f, s)) = f[x] + Cardinality(Heap(f, s \ {x}))
<1> DEFINE F == {t \in SUBSET DOMAIN f : IsFiniteSet(Heap(f, t))}
<1>1. Heap(f, {}) = {}
    BY DEF Heap
<1>2. {} \in F
    BY <1>1, FS_EmptySet
<1>3. ASSUME NEW t \in SUBSET DOMAIN f, t # {}, \A x \in t : t \ {x} \in F
      PROVE  t \in F
    <2>1. PICK x \in t : TRUE
        BY <1>3
    <2>2. IsFiniteSet(Heap(f, t \ {x})) /\ f[x] \in Nat
        BY <1>3, <2>1 DEF Counts
    <2> QED
        BY <2>1, <2>2, HeapGrows
<1>4. SUBSET DOMAIN f \subseteq F
    <2> HIDE DEF F
    <2>1. IsFiniteSet(DOMAIN f)
        BY DEF Counts
    <2>2. \A t \in SUBSET DOMAIN f : t # {} /\ (\A x \in t : t \ {x} \in F) => t \in F
        BY <1>3
    <2> QED
        BY <1>2, <2>1, <2>2, EveryFiniteSubset, Zenon
<1>5. \A t \in SUBSET DOMAIN f : IsFiniteSet(Heap(f, t))
    BY <1>4
<1>6. ASSUME NEW x \in s
      PROVE  Cardinality(Heap(f, s)) = f[x] + Cardinality(Heap(f, s \ {x}))
    <2>1. IsFiniteSet(Heap(f, s \ {x})) /\ f[x] \in Nat
        BY <1>5 DEF Counts
    <2> QED
        BY <2>1, HeapGrows
<1>7. s = {} => Cardinality(Heap(f, s)) = 0
    BY <1>1, FS_EmptySet
<1> QED
    BY <1>5, <1>6, <1>7, FS_CardinalityType

Iterates(it, f) ==
    it = [s \in SUBSET DOMAIN f |->
             IF s = {} THEN 0 ELSE f[CHOOSE x \in s : TRUE] + it[s \ {CHOOSE x \in s : TRUE}]]

LEMMA SumIterates ==
    ASSUME NEW f, NEW it, Iterates(it, f)
    PROVE  \E g : Iterates(g, f) /\ SumFunction(f) = g[DOMAIN f]
<1> DEFINE g == CHOOSE h : Iterates(h, f)
<1>1. Iterates(g, f)
    OBVIOUS
<1>2. SumFunction(f) = g[DOMAIN f]
    BY Zenon DEF SumFunction, SumFunctionOnSet, FoldFunctionOnSet, MapThenFoldSet, Iterates
<1> QED
    BY <1>1, <1>2

(* Each turn of the fold takes one element and puts what it is worth on    *)
(* top.                                                                    *)
LEMMA SumIsTheHeap ==
    ASSUME NEW f, Counts(f)
    PROVE  SumFunction(f) = Cardinality(Heap(f, DOMAIN f))
<1> DEFINE D == DOMAIN f
           it == [s \in SUBSET D |-> Cardinality(Heap(f, s))]
<1>1. ASSUME NEW s \in SUBSET D
      PROVE  it[s] = IF s = {} THEN 0
                     ELSE f[CHOOSE x \in s : TRUE] + it[s \ {CHOOSE x \in s : TRUE}]
    <2>1. CASE s = {}
        BY <2>1, HeapIs
    <2>2. CASE s # {}
        <3>1. PICK x \in s : x = CHOOSE y \in s : TRUE
            BY <2>2
        <3>2. Cardinality(Heap(f, s)) = f[x] + Cardinality(Heap(f, s \ {x}))
            BY HeapIs
        <3>3. s \ {x} \in SUBSET D
            OBVIOUS
        <3>4. it[s] = Cardinality(Heap(f, s)) /\ it[s \ {x}] = Cardinality(Heap(f, s \ {x}))
            BY <3>3
        <3> HIDE DEF it
        <3> QED
            BY <2>2, <3>1, <3>2, <3>4
    <2> QED
        BY <2>1, <2>2
<1>2. it = [s \in SUBSET D |-> it[s]]
    OBVIOUS
<1> HIDE DEF it
<1>3. Iterates(it, f)
    BY <1>1, <1>2 DEF Iterates
<1>4. PICK g : Iterates(g, f) /\ SumFunction(f) = g[D]
    BY <1>3, SumIterates
<1> DEFINE F == {s \in SUBSET D : g[s] = Cardinality(Heap(f, s))}
<1>5. {} \in F
    <2>1. g[{}] = 0
        BY <1>4 DEF Iterates
    <2> QED
        BY <2>1, HeapIs
<1>6. ASSUME NEW s \in SUBSET D, s # {}, \A x \in s : s \ {x} \in F
      PROVE  s \in F
    <2>1. PICK x \in s : x = CHOOSE y \in s : TRUE
        BY <1>6
    <2>2. g[s] = f[x] + g[s \ {x}]
        BY <1>4, <1>6, <2>1 DEF Iterates
    <2>3. g[s \ {x}] = Cardinality(Heap(f, s \ {x}))
        BY <1>6
    <2>4. Cardinality(Heap(f, s)) = f[x] + Cardinality(Heap(f, s \ {x}))
        BY HeapIs
    <2> QED
        BY <2>2, <2>3, <2>4
<1>7. D \in F
    <2> HIDE DEF F
    <2>1. IsFiniteSet(D)
        BY DEF Counts
    <2>2. \A t \in SUBSET D : t # {} /\ (\A x \in t : t \ {x} \in F) => t \in F
        BY <1>6
    <2>3. SUBSET D \subseteq F
        BY <1>5, <2>1, <2>2, EveryFiniteSubset, Zenon
    <2> QED
        BY <2>3
<1> QED
    BY <1>4, <1>7

LEMMA SumIs ==
    ASSUME NEW f, Counts(f)
    PROVE  /\ SumFunction(f) \in Nat
           /\ DOMAIN f = {} => SumFunction(f) = 0
BY SumIsTheHeap, HeapIs

LEMMA HeapsAgree ==
    ASSUME NEW f, NEW g, NEW s, \A x \in s : f[x] = g[x]
    PROVE  Heap(f, s) = Heap(g, s)
BY DEF Heap

LEMMA SumWithout ==
    ASSUME NEW f, Counts(f), NEW x \in DOMAIN f, NEW g, DOMAIN g = DOMAIN f \ {x},
           \A y \in DOMAIN g : g[y] = f[y]
    PROVE  /\ Counts(g) /\ SumFunction(f) = f[x] + SumFunction(g)
           /\ SumFunction(g) \in Nat /\ SumFunction(f) \in Nat
<1>1. Counts(g)
    BY FS_RemoveElement DEF Counts
<1>2. Heap(f, DOMAIN f \ {x}) = Heap(g, DOMAIN g)
    BY DEF Heap
<1> QED
    BY <1>1, <1>2, SumIsTheHeap, HeapIs, SumIs

LEMMA SumUpdate ==
    ASSUME NEW f, Counts(f), NEW x \in DOMAIN f, NEW g, DOMAIN g = DOMAIN f, g[x] \in Nat,
           \A y \in DOMAIN f \ {x} : g[y] = f[y]
    PROVE  /\ SumFunction(f) \in Nat /\ SumFunction(g) \in Nat
           /\ SumFunction(g) + f[x] = SumFunction(f) + g[x]
           /\ f[x] <= SumFunction(f)
<1> DEFINE rest == [y \in DOMAIN f \ {x} |-> f[y]]
<1>1. Counts(g)
    BY DEF Counts
<1>2. DOMAIN rest = DOMAIN f \ {x} /\ \A y \in DOMAIN rest : rest[y] = f[y] /\ rest[y] = g[y]
    OBVIOUS
<1> HIDE DEF rest
<1>3. SumFunction(f) = f[x] + SumFunction(rest) /\ SumFunction(rest) \in Nat
    BY <1>2, SumWithout
<1>4. SumFunction(g) = g[x] + SumFunction(rest)
    BY <1>1, <1>2, SumWithout
<1>5. f[x] \in Nat
    BY DEF Counts
<1> QED
    BY <1>3, <1>4, <1>5

LEMMA SumSmaller ==
    ASSUME NEW f, Counts(f), NEW g, DOMAIN g \subseteq DOMAIN f, \A y \in DOMAIN g : g[y] = f[y]
    PROVE  Counts(g) /\ SumFunction(g) \in Nat /\ SumFunction(g) <= SumFunction(f)
<1>1. Counts(g)
    BY FS_Subset DEF Counts
<1>2. Heap(g, DOMAIN g) \subseteq Heap(f, DOMAIN f)
    BY DEF Heap
<1>3. IsFiniteSet(Heap(f, DOMAIN f))
    BY HeapIs
<1> QED
    BY <1>1, <1>2, <1>3, SumIsTheHeap, SumIs, FS_Subset

Iterations(n, S, step) ==
    {f \in [0..n -> S] : \A i \in 1..n : f[i] = step[i][f[i - 1]]}

LEMMA StepsExist ==
    ASSUME NEW S, NEW start \in S, NEW n \in Nat, NEW step \in [1..n -> [S -> S]]
    PROVE  \E f \in Iterations(n, S, step) : f[0] = start
<1> DEFINE Steps(f, k) == f[0] = start /\ \A i \in 1..k : f[i] = step[i][f[i - 1]]
           T == {k \in Nat : k <= n => \E f \in [0..k -> S] : Steps(f, k)}
<1>1. 0 \in T
    <2> DEFINE f == [i \in 0..0 |-> start]
    <2>1. f \in [0..0 -> S] /\ Steps(f, 0)
        OBVIOUS
    <2> QED
        BY <2>1
<1>2. ASSUME NEW k \in Nat, k \in T
      PROVE  k + 1 \in T
    <2>0. k + 1 \in Nat
        OBVIOUS
    <2> SUFFICES ASSUME k + 1 <= n
                 PROVE  \E f \in [0..(k + 1) -> S] : Steps(f, k + 1)
        BY <2>0, Zenon
    <2>1. PICK g \in [0..k -> S] : Steps(g, k)
        BY <1>2
    <2> DEFINE f == [i \in 0..(k + 1) |-> IF i = k + 1 THEN step[k + 1][g[k]] ELSE g[i]]
    <2>2. \A i \in 0..(k + 1) : i # k + 1 => i \in 0..k
        OBVIOUS
    <2>3. g[k] \in S /\ (\A i \in 0..k : g[i] \in S) /\ k + 1 \in 1..n
        BY <2>1
    <2>4. step[k + 1][g[k]] \in S
        BY <2>3
    <2>5. f \in [0..(k + 1) -> S]
        BY <2>2, <2>3, <2>4
    <2>6. f[0] = start
        <3>1. 0 \in 0..(k + 1) /\ 0 # k + 1
            OBVIOUS
        <3> QED
            BY <2>1, <3>1
    <2>7. ASSUME NEW i \in 1..(k + 1)
          PROVE  f[i] = step[i][f[i - 1]]
        <3>1. /\ i \in 0..(k + 1) /\ i - 1 \in 0..(k + 1) /\ i - 1 # k + 1
              /\ i # k + 1 => i \in 1..k
            OBVIOUS
        <3>2. f[i - 1] = g[i - 1]
            BY <3>1
        <3>3. CASE i = k + 1
            <4>1. f[i] = step[k + 1][g[k]] /\ i - 1 = k
                BY <3>3
            <4> HIDE DEF f
            <4> QED
                BY <3>2, <3>3, <4>1
        <3>4. CASE i # k + 1
            <4>1. f[i] = g[i]
                BY <3>1, <3>4
            <4> HIDE DEF f
            <4> QED
                BY <2>1, <3>1, <3>2, <3>4, <4>1
        <3> QED
            BY <3>3, <3>4
    <2> HIDE DEF f
    <2> QED
        BY <2>5, <2>6, <2>7
<1>3. n \in T
    <2> HIDE DEF T
    <2> QED
        BY <1>1, <1>2, FromZero
<1>4. PICK f \in [0..n -> S] : Steps(f, n)
    BY <1>3
<1> QED
    BY <1>4 DEF Iterations

LEMMA StepsStay ==
    ASSUME NEW S, NEW n \in Nat, NEW f, f[0] \in S,
           \A i \in 1..n : f[i - 1] \in S => f[i] \in S
    PROVE  f[n] \in S
<1> DEFINE T == {k \in Nat : k <= n => f[k] \in S}
<1>1. 0 \in T
    OBVIOUS
<1>2. ASSUME NEW k \in Nat, k \in T
      PROVE  k + 1 \in T
    <2> SUFFICES ASSUME k + 1 <= n
                 PROVE  f[k + 1] \in S
        OBVIOUS
    <2>1. k + 1 \in 1..n /\ (k + 1) - 1 = k /\ f[k] \in S
        BY <1>2
    <2> QED
        BY <2>1
<1>3. n \in T
    <2> HIDE DEF T
    <2> QED
        BY <1>1, <1>2, FromZero
<1> QED
    BY <1>3


LEMMA SumOfNone ==
    ASSUME NEW f, Counts(f), \A x \in DOMAIN f : f[x] = 0
    PROVE  SumFunction(f) = 0
<1>1. Heap(f, DOMAIN f) = {}
    BY DEF Heap
<1> QED
    BY <1>1, SumIsTheHeap, FS_EmptySet

-----------------------------------------------------------------------------
(* Sums of sequences.                                                      *)

LEMMA SequencesCount ==
    ASSUME NEW s \in Seq(Nat)
    PROVE  Counts(s) /\ SumFunction(s) \in Nat
<1>1. Len(s) \in Nat /\ DOMAIN s = 1..Len(s) /\ \A i \in 1..Len(s) : s[i] \in Nat
    BY LenProperties, ElementOfSeq
<1>2. IsFiniteSet(1..Len(s))
    BY <1>1, FS_Interval
<1>3. Counts(s)
    BY <1>1, <1>2 DEF Counts
<1> QED
    BY <1>3, SumIs

LEMMA SumOfAppended ==
    ASSUME NEW s \in Seq(Nat), NEW x \in Nat
    PROVE  SumFunction(Append(s, x)) = SumFunction(s) + x
<1> DEFINE f == Append(s, x)
           n == Len(s) + 1
<1>1. Len(s) \in Nat /\ DOMAIN s = 1..Len(s)
    BY LenProperties
<1>2. f \in Seq(Nat) /\ Len(f) = n /\ f[n] = x /\ \A i \in 1..Len(s) : f[i] = s[i]
    BY AppendProperties
<1> HIDE DEF f
<1>3. DOMAIN f = 1..n
    BY <1>2, LenProperties
<1>4. n \in DOMAIN f /\ DOMAIN s = DOMAIN f \ {n} /\ \A i \in DOMAIN s : s[i] = f[i]
    BY <1>1, <1>2, <1>3
<1>5. Counts(f)
    BY <1>2, SequencesCount
<1>6. SumFunction(f) = f[n] + SumFunction(s) /\ SumFunction(s) \in Nat
    BY <1>4, <1>5, SumWithout
<1> QED
    BY <1>2, <1>6 DEF f

LEMMA ConcatenatedAppend ==
    ASSUME NEW S, NEW p \in Seq(S), NEW q \in Seq(S), NEW x \in S
    PROVE  p \o Append(q, x) = Append(p \o q, x)
<1>1. p \o q \in Seq(S) /\ <<x>> \in Seq(S)
    BY ConcatProperties
<1>2. Append(q, x) = q \o <<x>> /\ Append(p \o q, x) = (p \o q) \o <<x>>
    BY <1>1, AppendIsConcat
<1>3. (p \o q) \o <<x>> = p \o (q \o <<x>>)
    BY <1>1, ConcatAssociative
<1> QED
    BY <1>1, <1>2, <1>3

LEMMA SumOfConcatenated ==
    ASSUME NEW p \in Seq(Nat), NEW q \in Seq(Nat)
    PROVE  SumFunction(p \o q) = SumFunction(p) + SumFunction(q)
<1> DEFINE T == {n \in Nat : \A s \in Seq(Nat) :
                    Len(s) = n => SumFunction(p \o s) = SumFunction(p) + SumFunction(s)}
<1>1. 0 \in T
    <2> SUFFICES ASSUME NEW s \in Seq(Nat), Len(s) = 0
                 PROVE  SumFunction(p \o s) = SumFunction(p) + SumFunction(s)
        OBVIOUS
    <2>1. s = <<>>
        BY EmptySeq
    <2>2. p \o s = p
        BY <2>1, ConcatEmptySeq
    <2>3. DOMAIN s = {}
        BY LenProperties
    <2>4. SumFunction(s) = 0
        BY <2>3, SequencesCount, SumIs
    <2>5. SumFunction(p) \in Nat
        BY SequencesCount
    <2> QED
        BY <2>2, <2>4, <2>5
<1>2. ASSUME NEW n \in Nat, n \in T
      PROVE  n + 1 \in T
    <2> SUFFICES ASSUME NEW s \in Seq(Nat), Len(s) = n + 1
                 PROVE  SumFunction(p \o s) = SumFunction(p) + SumFunction(s)
        OBVIOUS
    <2>1. s # <<>>
        BY EmptySeq
    <2>2. PICK t \in Seq(Nat), x \in Nat : s = Append(t, x)
        BY <2>1, SequenceEmptyOrAppend
    <2>3. Len(t) = n
        <3>1. Len(s) = Len(t) + 1 /\ Len(t) \in Nat
            BY <2>2, AppendProperties, LenProperties
        <3> QED
            BY <3>1
    <2>4. SumFunction(p \o t) = SumFunction(p) + SumFunction(t)
        BY <1>2, <2>3
    <2>5. p \o t \in Seq(Nat)
        BY ConcatProperties
    <2>6. p \o s = Append(p \o t, x)
        <3>1. p \in Seq(Nat) /\ t \in Seq(Nat) /\ x \in Nat
            OBVIOUS
        <3>2. p \o Append(t, x) = Append(p \o t, x)
            BY <3>1, ConcatenatedAppend, SMTT(20)
        <3> QED
            BY <2>2, <3>2, Zenon
    <2>7. SumFunction(p \o s) = SumFunction(p \o t) + x
        BY <2>5, <2>6, SumOfAppended
    <2>8. SumFunction(s) = SumFunction(t) + x
        BY <2>2, SumOfAppended
    <2>9. SumFunction(p) \in Nat /\ SumFunction(t) \in Nat
        BY SequencesCount
    <2> QED
        BY <2>4, <2>7, <2>8, <2>9
<1>3. Nat \subseteq T
    <2> HIDE DEF T
    <2> QED
        BY <1>1, <1>2, FromZero
<1>4. Len(q) \in Nat
    BY LenProperties
<1> QED
    BY <1>3, <1>4

(* What a sequence of things is worth.                                     *)
Worth(v, s) == SumFunction([i \in DOMAIN s |-> v[s[i]]])

LEMMA ValuesAreCounts ==
    ASSUME NEW S, NEW v \in [S -> Nat], NEW s \in Seq(S)
    PROVE  /\ [i \in DOMAIN s |-> v[s[i]]] \in Seq(Nat)
           /\ Len([i \in DOMAIN s |-> v[s[i]]]) = Len(s)
<1> DEFINE f == [i \in DOMAIN s |-> v[s[i]]]
<1>1. Len(s) \in Nat /\ DOMAIN s = 1..Len(s) /\ \A i \in 1..Len(s) : s[i] \in S
    BY LenProperties, ElementOfSeq
<1>2. f \in [1..Len(s) -> Nat]
    BY <1>1
<1>3. f \in Seq(Nat)
    BY <1>1, <1>2, SeqDef
<1>4. DOMAIN f = 1..Len(s) /\ DOMAIN f = 1..Len(f) /\ Len(f) \in Nat
    BY <1>2, <1>3, LenProperties
<1>5. Len(f) = Len(s)
    BY <1>1, <1>4
<1> QED
    BY <1>3, <1>5

LEMMA WorthIsNat ==
    ASSUME NEW S, NEW v \in [S -> Nat], NEW s \in Seq(S)
    PROVE  Worth(v, s) \in Nat /\ (s = <<>> => Worth(v, s) = 0)
<1> DEFINE f == [i \in DOMAIN s |-> v[s[i]]]
<1>1. f \in Seq(Nat) /\ Counts(f) /\ SumFunction(f) \in Nat
    BY ValuesAreCounts, SequencesCount
<1>2. s = <<>> => DOMAIN f = {}
    BY EmptySeq, LenProperties
<1> HIDE DEF f
<1>3. DOMAIN f = {} => SumFunction(f) = 0
    BY <1>1, SumIs
<1> QED
    BY <1>1, <1>2, <1>3 DEF Worth, f

LEMMA SumsAdd ==
    ASSUME NEW a \in Seq(Nat), NEW b \in Seq(Nat), NEW c \in Seq(Nat), Len(c) = Len(a) + Len(b),
           \A i \in 1..Len(c) : c[i] = IF i <= Len(a) THEN a[i] ELSE b[i - Len(a)]
    PROVE  SumFunction(c) = SumFunction(a) + SumFunction(b)
<1>1. /\ a \o b \in Seq(Nat) /\ Len(a \o b) = Len(a) + Len(b)
      /\ \A i \in 1..Len(a) + Len(b) : (a \o b)[i] = IF i <= Len(a) THEN a[i] ELSE b[i - Len(a)]
    BY ConcatProperties
<1>2. c = a \o b
    BY <1>1, SeqEqual
<1> QED
    BY <1>2, SumOfConcatenated

LEMMA WorthOfConcatenated ==
    ASSUME NEW S, NEW v \in [S -> Nat], NEW p \in Seq(S), NEW q \in Seq(S)
    PROVE  Worth(v, p \o q) = Worth(v, p) + Worth(v, q)
<1> DEFINE fp == [i \in DOMAIN p |-> v[p[i]]]
           fq == [i \in DOMAIN q |-> v[q[i]]]
           fc == [i \in DOMAIN (p \o q) |-> v[(p \o q)[i]]]
<1>1. /\ p \o q \in Seq(S) /\ Len(p \o q) = Len(p) + Len(q) /\ Len(p) \in Nat /\ Len(q) \in Nat
      /\ \A i \in 1..Len(p) + Len(q) : (p \o q)[i] = IF i <= Len(p) THEN p[i] ELSE q[i - Len(p)]
    BY ConcatProperties, LenProperties
<1>2. /\ DOMAIN p = 1..Len(p) /\ DOMAIN q = 1..Len(q)
      /\ DOMAIN (p \o q) = 1..Len(p) + Len(q)
    BY <1>1, LenProperties
<1>3. fp \in Seq(Nat) /\ Len(fp) = Len(p) /\ fq \in Seq(Nat) /\ Len(fq) = Len(q)
    BY ValuesAreCounts
<1>4. fc \in Seq(Nat) /\ Len(fc) = Len(p) + Len(q)
    <2>1. fc \in Seq(Nat) /\ Len(fc) = Len(p \o q)
        BY <1>1, ValuesAreCounts
    <2> QED
        BY <1>1, <2>1
<1>5. ASSUME NEW i \in 1..Len(p) + Len(q)
      PROVE  fc[i] = IF i <= Len(p) THEN fp[i] ELSE fq[i - Len(p)]
    <2>1. fc[i] = v[(p \o q)[i]]
        BY <1>2
    <2>2. CASE i <= Len(p)
        <3>1. i \in 1..Len(p) /\ (p \o q)[i] = p[i]
            BY <1>1, <2>2
        <3>2. fp[i] = v[p[i]]
            BY <1>2, <3>1
        <3> QED
            BY <2>1, <2>2, <3>1, <3>2
    <2>3. CASE ~(i <= Len(p))
        <3>1. i - Len(p) \in 1..Len(q) /\ (p \o q)[i] = q[i - Len(p)]
            BY <1>1, <2>3
        <3>2. fq[i - Len(p)] = v[q[i - Len(p)]]
            BY <1>2, <3>1
        <3> QED
            BY <2>1, <2>3, <3>1, <3>2
    <2> QED
        BY <2>2, <2>3
<1> HIDE DEF fp, fq, fc
<1>6. SumFunction(fc) = SumFunction(fp) + SumFunction(fq)
    <2>1. Len(fc) = Len(fp) + Len(fq)
        BY <1>3, <1>4
    <2>2. \A i \in 1..Len(fc) : fc[i] = IF i <= Len(fp) THEN fp[i] ELSE fq[i - Len(fp)]
        BY <1>3, <1>4, <1>5
    <2> QED
        BY <1>3, <1>4, <2>1, <2>2, SumsAdd
<1> QED
    BY <1>6 DEF Worth, fp, fq, fc

LEMMA WorthOfOne ==
    ASSUME NEW S, NEW v \in [S -> Nat], NEW x \in S
    PROVE  <<x>> \in Seq(S) /\ Worth(v, <<x>>) = v[x]
<1> DEFINE f == [i \in DOMAIN <<x>> |-> v[<<x>>[i]]]
<1>1. <<x>> \in Seq(S) /\ Len(<<x>>) = 1 /\ <<x>>[1] = x /\ DOMAIN <<x>> = 1..1
    OBVIOUS
<1>2. f \in Seq(Nat) /\ DOMAIN f = {1} /\ f[1] = v[x]
    BY <1>1, ValuesAreCounts
<1> DEFINE none == [i \in {} |-> 0]
<1>3. DOMAIN none = DOMAIN f \ {1} /\ \A i \in DOMAIN none : none[i] = f[i]
    BY <1>2
<1> HIDE DEF f, none
<1>4. Counts(f) /\ 1 \in DOMAIN f
    BY <1>2, SequencesCount
<1>5. Counts(none) /\ SumFunction(f) = f[1] + SumFunction(none) /\ SumFunction(none) \in Nat
    BY <1>3, <1>4, SumWithout
<1>6. SumFunction(none) = 0
    BY <1>5, SumIs DEF none
<1>7. v[x] \in Nat
    OBVIOUS
<1> QED
    BY <1>1, <1>2, <1>5, <1>6, <1>7 DEF Worth, f

-----------------------------------------------------------------------------
(* What is before a place.                                                 *)

LEMMA DownwardClosed ==
    ASSUME NEW n \in Nat, NEW B \in SUBSET (1..n), \A i \in B, j \in 1..n : j <= i => j \in B
    PROVE  Cardinality(B) \in 0..n /\ B = 1..Cardinality(B)
<1> DEFINE T == {m \in Nat : m <= n => 1..m \subseteq B \/ \E k \in 0..n : B = 1..k}
<1>1. 0 \in T
    OBVIOUS
<1>2. ASSUME NEW m \in Nat, m \in T
      PROVE  m + 1 \in T
    <2> SUFFICES ASSUME m + 1 <= n
                 PROVE  1..(m + 1) \subseteq B \/ \E k \in 0..n : B = 1..k
        OBVIOUS
    <2>1. CASE \E k \in 0..n : B = 1..k
        BY <2>1
    <2>2. CASE 1..m \subseteq B /\ m + 1 \in B
        BY <2>2
    <2>3. CASE 1..m \subseteq B /\ m + 1 \notin B
        <3>1. ASSUME NEW i \in B
              PROVE  i \in 1..m
            BY <2>3
        <3>2. B = 1..m
            BY <2>3, <3>1
        <3>3. m \in 0..n
            OBVIOUS
        <3> QED
            BY <3>2, <3>3
    <2> QED
        BY <1>2, <2>1, <2>2, <2>3
<1>3. n \in T
    <2> HIDE DEF T
    <2> QED
        BY <1>1, <1>2, FromZero
<1>4. PICK k \in 0..n : B = 1..k
    <2>1. CASE 1..n \subseteq B
        <3>1. B = 1..n
            BY <2>1
        <3>2. n \in 0..n
            OBVIOUS
        <3> QED
            BY <3>1, <3>2
    <2> QED
        BY <1>3, <2>1
<1>5. Cardinality(B) = k
    BY <1>4, FS_Interval
<1> QED
    BY <1>4, <1>5

LEMMA SomeOfThem ==
    ASSUME NEW n \in Nat, NEW B \in SUBSET (1..n)
    PROVE  Cardinality(B) \in 0..n
<1>1. IsFiniteSet(1..n) /\ Cardinality(1..n) = n
    BY FS_Interval
<1>2. IsFiniteSet(B) /\ Cardinality(B) <= n
    BY <1>1, FS_Subset
<1> QED
    BY <1>2, FS_CardinalityType

LEMMA PartIs ==
    ASSUME NEW S, NEW s \in Seq(S), NEW m \in Nat \ {0}, NEW n \in 0..Len(s)
    PROVE  /\ SubSeq(s, m, n) \in Seq(S)
           /\ Len(SubSeq(s, m, n)) = IF m <= n THEN n - m + 1 ELSE 0
           /\ \A i \in 1..Len(SubSeq(s, m, n)) :
                  /\ m + i - 1 \in 1..Len(s)
                  /\ SubSeq(s, m, n)[i] = s[m + i - 1]
<1>1. Len(s) \in Nat /\ \A i \in 1..Len(s) : s[i] \in S
    BY LenProperties, ElementOfSeq
<1>2. m \in Int /\ n \in Int /\ \A i \in m..n : s[i] \in S
    BY <1>1
<1>3. /\ SubSeq(s, m, n) \in Seq(S)
      /\ Len(SubSeq(s, m, n)) = IF m <= n THEN n - m + 1 ELSE 0
      /\ \A i \in 1..(n - m + 1) : SubSeq(s, m, n)[i] = s[m + i - 1]
    BY <1>2, SubSeqProperties
<1> QED
    BY <1>1, <1>3

LEMMA PartsAre ==
    ASSUME NEW S, NEW s \in Seq(S), NEW n \in 0..Len(s)
    PROVE  /\ SubSeq(s, 1, n) \in Seq(S) /\ SubSeq(s, n + 1, Len(s)) \in Seq(S)
           /\ s = SubSeq(s, 1, n) \o SubSeq(s, n + 1, Len(s))
<1>1. Len(s) \in Nat
    BY LenProperties
<1>2. 1 \in 1..Len(s) + 1 /\ n \in (1 - 1)..Len(s) /\ Len(s) \in n..Len(s)
    BY <1>1
<1>3. SubSeq(s, 1, n) \o SubSeq(s, n + 1, Len(s)) = SubSeq(s, 1, Len(s))
    BY <1>2, ConcatAdjacentSubSeq
<1>4. Len(s) \in 0..Len(s) /\ n + 1 \in Nat \ {0}
    BY <1>1
<1>5. SubSeq(s, 1, n) \in Seq(S) /\ SubSeq(s, n + 1, Len(s)) \in Seq(S)
    BY <1>4, PartIs
<1>6. SubSeq(s, 1, Len(s)) = s
    BY SubSeqFull
<1> QED
    BY <1>3, <1>5, <1>6

-----------------------------------------------------------------------------
(* Records of a segment.                                                   *)

Records == [sequence : Nat, run : Nat, text : Nat]

Apart(A, B) == \A x \in A, y \in B : x < y

Increasing(records) ==
    \A a, b \in DOMAIN records : a < b => records[a].sequence < records[b].sequence

SizeOfRecord == [r \in Records |-> SizeOf(r)]

LEMMA SizeOfRecordIs ==
    /\ SizeOfRecord \in [Records -> Nat]
    /\ \A r \in Records : SizeOfRecord[r] = SizeOf(r) /\ SizeOf(r) >= 1 /\ SizeOf(r) \in Nat
BY DEF SizeOfRecord, SizeOf, RecordBytes, Records

LEMMA SizeOfAllIs ==
    ASSUME NEW s \in Seq(Records)
    PROVE  SizeOfAll(s) = Worth(SizeOfRecord, s)
<1>1. \A i \in DOMAIN s : SizeOf(s[i]) = SizeOfRecord[s[i]]
    BY SizeOfRecordIs, LenProperties, ElementOfSeq
<1>2. [i \in DOMAIN s |-> SizeOf(s[i])] = [i \in DOMAIN s |-> SizeOfRecord[s[i]]]
    BY <1>1
<1> QED
    BY <1>2 DEF SizeOfAll, Worth

LEMMA SizesAdd ==
    ASSUME NEW p \in Seq(Records), NEW q \in Seq(Records)
    PROVE  SizeOfAll(p \o q) = SizeOfAll(p) + SizeOfAll(q)
<1>1. p \o q \in Seq(Records)
    BY ConcatProperties
<1>2. /\ SizeOfAll(p) = Worth(SizeOfRecord, p) /\ SizeOfAll(q) = Worth(SizeOfRecord, q)
      /\ SizeOfAll(p \o q) = Worth(SizeOfRecord, p \o q)
    BY <1>1, SizeOfAllIs
<1>3. SizeOfRecord \in [Records -> Nat]
    BY SizeOfRecordIs
<1>4. Worth(SizeOfRecord, p \o q) = Worth(SizeOfRecord, p) + Worth(SizeOfRecord, q)
    BY <1>3, WorthOfConcatenated
<1> QED
    BY <1>2, <1>4

LEMMA SizeOfOne ==
    ASSUME NEW r \in Records
    PROVE  <<r>> \in Seq(Records) /\ SizeOfAll(<<r>>) = SizeOf(r)
<1>1. SizeOfRecord \in [Records -> Nat] /\ SizeOfRecord[r] = SizeOf(r)
    BY SizeOfRecordIs
<1>2. <<r>> \in Seq(Records) /\ Worth(SizeOfRecord, <<r>>) = SizeOfRecord[r]
    BY <1>1, WorthOfOne
<1>3. SizeOfAll(<<r>>) = Worth(SizeOfRecord, <<r>>)
    BY <1>2, SizeOfAllIs
<1> QED
    BY <1>1, <1>2, <1>3

LEMMA SizesAre ==
    ASSUME NEW s \in Seq(Records)
    PROVE  /\ SizeOfAll(s) \in Nat
           /\ s = <<>> => SizeOfAll(s) = 0
           /\ s # <<>> => SizeOfAll(s) >= 1
<1>1. \A t \in Seq(Records) : SizeOfAll(t) \in Nat /\ (t = <<>> => SizeOfAll(t) = 0)
    BY SizeOfAllIs, WorthIsNat, SizeOfRecordIs
<1>2. ASSUME s # <<>>
      PROVE  SizeOfAll(s) >= 1
    <2>1. PICK t \in Seq(Records), r \in Records : s = Append(t, r)
        BY <1>2, SequenceEmptyOrAppend
    <2>2. s = t \o <<r>>
        BY <2>1, AppendIsConcat
    <2>3. SizeOfAll(s) = SizeOfAll(t) + SizeOf(r)
        BY <2>2, SizesAdd, SizeOfOne
    <2> QED
        BY <1>1, <2>3, SizeOfRecordIs
<1> QED
    BY <1>1, <1>2

LEMMA NamesOfConcatenated ==
    ASSUME NEW p \in Seq(Records), NEW q \in Seq(Records)
    PROVE  NamesOf(p \o q) = NamesOf(p) \cup NamesOf(q)
<1>1. /\ p \o q \in Seq(Records) /\ Len(p \o q) = Len(p) + Len(q) /\ Len(p) \in Nat /\ Len(q) \in Nat
      /\ \A i \in 1..Len(p) + Len(q) : (p \o q)[i] = IF i <= Len(p) THEN p[i] ELSE q[i - Len(p)]
    BY ConcatProperties, LenProperties
<1>2. /\ DOMAIN p = 1..Len(p) /\ DOMAIN q = 1..Len(q)
      /\ DOMAIN (p \o q) = 1..Len(p) + Len(q)
    BY <1>1, LenProperties
<1>3. ASSUME NEW i \in DOMAIN (p \o q)
      PROVE  (p \o q)[i].sequence \in NamesOf(p) \cup NamesOf(q)
    <2>1. CASE i <= Len(p)
        BY <1>1, <1>2, <2>1 DEF NamesOf
    <2>2. CASE ~(i <= Len(p))
        <3>1. i - Len(p) \in DOMAIN q /\ (p \o q)[i] = q[i - Len(p)]
            BY <1>1, <1>2, <2>2
        <3> QED
            BY <3>1 DEF NamesOf
    <2> QED
        BY <2>1, <2>2
<1>4. ASSUME NEW i \in DOMAIN p
      PROVE  p[i].sequence \in NamesOf(p \o q)
    BY <1>1, <1>2 DEF NamesOf
<1>5. ASSUME NEW i \in DOMAIN q
      PROVE  q[i].sequence \in NamesOf(p \o q)
    <2>1. i + Len(p) \in DOMAIN (p \o q) /\ (p \o q)[i + Len(p)] = q[i]
        BY <1>1, <1>2
    <2> QED
        BY <2>1 DEF NamesOf
<1> QED
    BY <1>3, <1>4, <1>5 DEF NamesOf

LEMMA IncreasingConcatenated ==
    ASSUME NEW p \in Seq(Records), NEW q \in Seq(Records), Increasing(p), Increasing(q),
           Apart(NamesOf(p), NamesOf(q))
    PROVE  Increasing(p \o q)
<1>1. /\ p \o q \in Seq(Records) /\ Len(p \o q) = Len(p) + Len(q) /\ Len(p) \in Nat /\ Len(q) \in Nat
      /\ \A i \in 1..Len(p) + Len(q) : (p \o q)[i] = IF i <= Len(p) THEN p[i] ELSE q[i - Len(p)]
    BY ConcatProperties, LenProperties
<1>2. /\ DOMAIN p = 1..Len(p) /\ DOMAIN q = 1..Len(q)
      /\ DOMAIN (p \o q) = 1..Len(p) + Len(q)
    BY <1>1, LenProperties
<1> SUFFICES ASSUME NEW a \in DOMAIN (p \o q), NEW b \in DOMAIN (p \o q), a < b
             PROVE  (p \o q)[a].sequence < (p \o q)[b].sequence
    BY DEF Increasing
<1>3. CASE b <= Len(p)
    <2>1. a \in DOMAIN p /\ b \in DOMAIN p /\ (p \o q)[a] = p[a] /\ (p \o q)[b] = p[b]
        BY <1>1, <1>2, <1>3
    <2> QED
        BY <2>1 DEF Increasing
<1>4. CASE ~(a <= Len(p))
    <2>1. /\ a - Len(p) \in DOMAIN q /\ b - Len(p) \in DOMAIN q /\ a - Len(p) < b - Len(p)
          /\ (p \o q)[a] = q[a - Len(p)] /\ (p \o q)[b] = q[b - Len(p)]
        BY <1>1, <1>2, <1>4
    <2> QED
        BY <2>1 DEF Increasing
<1>5. CASE a <= Len(p) /\ ~(b <= Len(p))
    <2>1. /\ a \in DOMAIN p /\ b - Len(p) \in DOMAIN q
          /\ (p \o q)[a] = p[a] /\ (p \o q)[b] = q[b - Len(p)]
        BY <1>1, <1>2, <1>5
    <2> QED
        BY <2>1 DEF Apart, NamesOf
<1> QED
    BY <1>1, <1>2, <1>3, <1>4, <1>5

LEMMA OneRecord ==
    ASSUME NEW r \in Records
    PROVE  /\ <<r>> \in Seq(Records) /\ <<r>> # <<>>
           /\ Increasing(<<r>>) /\ NamesOf(<<r>>) = {r.sequence}
<1>1. <<r>> \in Seq(Records) /\ DOMAIN <<r>> = {1} /\ <<r>>[1] = r /\ Len(<<r>>) = 1
    OBVIOUS
<1> QED
    BY <1>1, EmptySeq DEF Increasing, NamesOf

LEMMA PartIncreases ==
    ASSUME NEW s \in Seq(Records), Increasing(s), NEW m \in Nat \ {0}, NEW n \in 0..Len(s)
    PROVE  Increasing(SubSeq(s, m, n)) /\ NamesOf(SubSeq(s, m, n)) \subseteq NamesOf(s)
<1> DEFINE t == SubSeq(s, m, n)
<1>1. /\ t \in Seq(Records) /\ \A i \in 1..Len(t) : m + i - 1 \in 1..Len(s) /\ t[i] = s[m + i - 1]
      /\ DOMAIN t = 1..Len(t) /\ DOMAIN s = 1..Len(s)
    BY PartIs, LenProperties
<1> HIDE DEF t
<1>2. Len(t) \in Nat
    BY <1>1, LenProperties
<1>3. ASSUME NEW a \in DOMAIN t, NEW b \in DOMAIN t, a < b
      PROVE  t[a].sequence < t[b].sequence
    <2>1. /\ m + a - 1 \in DOMAIN s /\ t[a] = s[m + a - 1]
          /\ m + b - 1 \in DOMAIN s /\ t[b] = s[m + b - 1]
        BY <1>1
    <2>2. m + a - 1 < m + b - 1
        BY <1>1, <1>2, <1>3
    <2> QED
        BY <2>1, <2>2 DEF Increasing
<1>4. NamesOf(t) \subseteq NamesOf(s)
    BY <1>1 DEF NamesOf
<1> QED
    BY <1>3, <1>4 DEF t, Increasing

LEMMA NamesAreNumbers ==
    ASSUME NEW s \in Seq(Records)
    PROVE  /\ \A i \in 1..Len(s) : s[i] \in Records /\ s[i].sequence \in Nat
           /\ \A i \in DOMAIN s : s[i] \in Records /\ s[i].sequence \in Nat
           /\ NamesOf(s) \subseteq Nat
<1>1. DOMAIN s = 1..Len(s)
    BY LenProperties
<1>2. \A i \in 1..Len(s) : s[i] \in Records
    BY ElementOfSeq
<1>3. \A i \in 1..Len(s) : s[i].sequence \in Nat
    BY <1>2 DEF Records
<1> QED
    BY <1>1, <1>2, <1>3 DEF NamesOf

(* Where a record goes in its segment.                                     *)
LEMMA BeforeIs ==
    ASSUME NEW s \in Seq(Records), NEW r \in Records
    PROVE  /\ Before(s, r) \in 0..Len(s)
           /\ Increasing(s) =>
                  /\ \A i \in 1..Before(s, r) : s[i].sequence < r.sequence
                  /\ \A i \in (Before(s, r) + 1)..Len(s) : s[i].sequence >= r.sequence
<1> DEFINE B == {i \in DOMAIN s : s[i].sequence < r.sequence}
<1>1. Len(s) \in Nat /\ DOMAIN s = 1..Len(s)
    BY LenProperties
<1>2. Before(s, r) = Cardinality(B)
    BY DEF Before
<1>3. B \in SUBSET (1..Len(s))
    BY <1>1
<1>4. \A i \in 1..Len(s) : s[i].sequence \in Nat
    BY NamesAreNumbers
<1>5. r.sequence \in Nat
    BY DEF Records
<1>6. Cardinality(B) \in 0..Len(s)
    <2> HIDE DEF B
    <2> QED
        BY <1>1, <1>3, SomeOfThem
<1>7. ASSUME Increasing(s)
      PROVE  /\ \A i \in 1..Before(s, r) : s[i].sequence < r.sequence
             /\ \A i \in (Before(s, r) + 1)..Len(s) : s[i].sequence >= r.sequence
    <2>1. ASSUME NEW i \in B, NEW j \in 1..Len(s), j <= i
          PROVE  j \in B
        <3>1. CASE j = i
            BY <3>1
        <3>2. CASE j # i
            <4>1. i \in 1..Len(s) /\ s[i].sequence < r.sequence /\ j < i
                BY <1>1, <2>1, <3>2
            <4>2. s[j].sequence < s[i].sequence
                BY <1>1, <1>7, <4>1 DEF Increasing
            <4>3. s[j].sequence < r.sequence
                BY <1>4, <1>5, <4>1, <4>2
            <4> QED
                BY <1>1, <4>3
        <3> QED
            BY <3>1, <3>2
    <2>2. \A i \in 1..Len(s) : i \in B <=> s[i].sequence < r.sequence
        BY <1>1
    <2> HIDE DEF B
    <2>3. B = 1..Cardinality(B)
        BY <1>1, <1>3, <2>1, DownwardClosed
    <2> QED
        BY <1>1, <1>2, <1>4, <1>5, <1>6, <2>2, <2>3
<1> QED
    BY <1>2, <1>6, <1>7

LEMMA InOrderIs ==
    ASSUME NEW s \in Seq(Records), NEW r \in Records
    PROVE  /\ InOrder(s, r) \in Seq(Records) \ {<<>>}
           /\ SizeOfAll(InOrder(s, r)) = SizeOfAll(s) + SizeOf(r)
           /\ NamesOf(InOrder(s, r)) = NamesOf(s) \cup {r.sequence}
           /\ Increasing(s) /\ r.sequence \notin NamesOf(s) => Increasing(InOrder(s, r))
<1> DEFINE k == Before(s, r)
           p == SubSeq(s, 1, k)
           q == SubSeq(s, k + 1, Len(s))
           one == <<r>>
<1>1. k \in 0..Len(s) /\ Len(s) \in Nat /\ Len(s) \in 0..Len(s) /\ k + 1 \in Nat \ {0}
    BY BeforeIs, LenProperties
<1>2. p \in Seq(Records) /\ q \in Seq(Records) /\ s = p \o q
    BY <1>1, PartsAre
<1>3. InOrder(s, r) = (p \o one) \o q
    <2>1. (k + 1) - 1 = k
        BY <1>1
    <2>2. InOrder(s, r) = (SubSeq(s, 1, (k + 1) - 1) \o <<r>>) \o SubSeq(s, k + 1, Len(s))
        BY Zenon DEF InOrder, InsertAt
    <2> QED
        BY <2>1, <2>2
<1>4. ASSUME Increasing(s), r.sequence \notin NamesOf(s)
      PROVE  /\ Increasing(p) /\ Increasing(q)
             /\ \A x \in NamesOf(p) : x < r.sequence
             /\ \A y \in NamesOf(q) : r.sequence < y
             /\ \A x \in NamesOf(p), y \in NamesOf(q) : x < y
    <2>1. Increasing(p) /\ Increasing(q)
        BY <1>1, <1>4, PartIncreases
    <2>2. /\ \A i \in 1..k : s[i].sequence < r.sequence
          /\ \A i \in (k + 1)..Len(s) : s[i].sequence >= r.sequence
        BY <1>4, BeforeIs
    <2>3. ASSUME NEW i \in DOMAIN p
          PROVE  p[i].sequence < r.sequence
        <3>1. DOMAIN p = 1..Len(p) /\ Len(p) = k /\ p[i] = s[1 + i - 1]
            BY <1>1, <1>2, PartIs, LenProperties
        <3> HIDE DEF p
        <3> QED
            BY <1>1, <2>2, <3>1
    <2>4. ASSUME NEW i \in DOMAIN q
          PROVE  r.sequence < q[i].sequence
        <3>1. /\ DOMAIN q = 1..Len(q) /\ q[i] = s[k + 1 + i - 1] /\ k + 1 + i - 1 \in 1..Len(s)
            BY <1>1, <1>2, PartIs, LenProperties
        <3>2. Len(q) \in Nat
            BY <1>2, LenProperties
        <3> HIDE DEF q
        <3>3. s[k + i].sequence >= r.sequence /\ q[i] = s[k + i] /\ k + i \in 1..Len(s)
            <4>1. k + 1 + i - 1 = k + i /\ k + i \in (k + 1)..Len(s)
                BY <1>1, <3>1, <3>2
            <4> QED
                BY <2>2, <3>1, <4>1
        <3>4. s[k + i].sequence \in Nat /\ r.sequence \in Nat /\ s[k + i].sequence # r.sequence
            <4>1. k + i \in DOMAIN s
                BY <3>3, LenProperties
            <4>2. s[k + i] \in Records
                BY <3>3, ElementOfSeq
            <4> QED
                BY <1>4, <4>1, <4>2 DEF NamesOf, Records
        <3> QED
            BY <3>3, <3>4
    <2>5. (\A x \in NamesOf(p) : x < r.sequence) /\ (\A y \in NamesOf(q) : r.sequence < y)
        BY <2>3, <2>4 DEF NamesOf
    <2>6. NamesOf(p) \subseteq Nat /\ NamesOf(q) \subseteq Nat /\ r.sequence \in Nat
        BY <1>2, NamesAreNumbers DEF Records
    <2> QED
        BY <2>1, <2>5, <2>6
<1> HIDE DEF p, q
<1>5. /\ one \in Seq(Records) /\ Len(one) = 1 /\ SizeOfAll(one) = SizeOf(r)
      /\ Increasing(one) /\ NamesOf(one) = {r.sequence}
    <2>1. Len(<<r>>) = 1
        OBVIOUS
    <2> QED
        BY <2>1, OneRecord, SizeOfOne
<1> HIDE DEF one
<1>6. p \o one \in Seq(Records) /\ (p \o one) \o q \in Seq(Records)
    BY <1>2, <1>5, ConcatProperties
<1>7. Len(p \o one) = Len(p) + 1 /\ Len((p \o one) \o q) = Len(p) + 1 + Len(q)
    <2>2. Len(p \o one) = Len(p) + Len(one)
        BY <1>2, <1>5, ConcatProperties
    <2>3. Len((p \o one) \o q) = Len(p \o one) + Len(q)
        BY <1>2, <1>6, ConcatProperties
    <2> QED
        BY <1>5, <2>2, <2>3
<1>8. (p \o one) \o q # <<>>
    <2>1. Len(p) \in Nat /\ Len(q) \in Nat
        BY <1>2, LenProperties
    <2>2. Len((p \o one) \o q) # 0
        BY <1>7, <2>1
    <2> QED
        BY <1>6, <2>2, EmptySeq
<1>9. /\ NamesOf(p \o one) = NamesOf(p) \cup {r.sequence}
      /\ NamesOf((p \o one) \o q) = NamesOf(p \o one) \cup NamesOf(q)
      /\ NamesOf(s) = NamesOf(p) \cup NamesOf(q)
    <2>1. NamesOf(p \o one) = NamesOf(p) \cup NamesOf(one)
        BY <1>2, <1>5, NamesOfConcatenated
    <2>2. NamesOf((p \o one) \o q) = NamesOf(p \o one) \cup NamesOf(q)
        BY <1>2, <1>6, NamesOfConcatenated
    <2>3. NamesOf(p \o q) = NamesOf(p) \cup NamesOf(q)
        BY <1>2, NamesOfConcatenated
    <2> QED
        BY <1>2, <1>5, <2>1, <2>2, <2>3
<1>10. SizeOfAll((p \o one) \o q) = SizeOfAll(s) + SizeOf(r)
    <2>1. SizeOfAll(p \o one) = SizeOfAll(p) + SizeOf(r)
        BY <1>2, <1>5, SizesAdd
    <2>2. SizeOfAll((p \o one) \o q) = SizeOfAll(p \o one) + SizeOfAll(q)
        BY <1>2, <1>6, SizesAdd
    <2>3. SizeOfAll(s) = SizeOfAll(p) + SizeOfAll(q)
        BY <1>2, SizesAdd
    <2>4. SizeOfAll(p) \in Nat /\ SizeOfAll(q) \in Nat /\ SizeOf(r) \in Nat
        BY <1>2, SizesAre, SizeOfRecordIs
    <2> QED
        BY <2>1, <2>2, <2>3, <2>4
<1>11. ASSUME Increasing(s), r.sequence \notin NamesOf(s)
       PROVE  Increasing((p \o one) \o q)
    <2>1. Apart(NamesOf(p), {r.sequence}) /\ Apart(NamesOf(p) \cup {r.sequence}, NamesOf(q))
        BY <1>4, <1>11 DEF Apart
    <2>2. Increasing(p \o one)
        BY <1>2, <1>4, <1>5, <1>11, <2>1, IncreasingConcatenated
    <2> QED
        BY <1>2, <1>4, <1>6, <1>9, <1>11, <2>1, <2>2, IncreasingConcatenated
<1> QED
    BY <1>3, <1>6, <1>8, <1>9, <1>10, <1>11

-----------------------------------------------------------------------------
(* Segments of a history.                                                  *)

Segments == [id : Nat, records : Seq(Records) \ {<<>>}]

SizeOfSegment == [g \in Segments |-> SizeOfAll(g.records)]

LEMMA SegmentsAre ==
    ASSUME NEW g \in Segments
    PROVE  /\ g.records \in Seq(Records) /\ g.records # <<>>
           /\ Len(g.records) \in Nat \ {0} /\ DOMAIN g.records = 1..Len(g.records)
           /\ SizeOfAll(g.records) \in Nat /\ SizeOfAll(g.records) >= 1
           /\ NamesOf(g.records) \subseteq Nat
           /\ SizeOfSegment[g] = SizeOfAll(g.records)
<1>1. g.records \in Seq(Records) /\ g.records # <<>>
    BY DEF Segments
<1>2. Len(g.records) \in Nat \ {0} /\ DOMAIN g.records = 1..Len(g.records)
    BY <1>1, EmptySeq, LenProperties
<1> QED
    BY <1>1, <1>2, SizesAre, NamesAreNumbers DEF SizeOfSegment

LEMMA SizeOfSegmentIs == SizeOfSegment \in [Segments -> Nat]
BY SegmentsAre DEF SizeOfSegment

LEMMA RetainedIsWorth ==
    ASSUME NEW s \in Seq(Segments)
    PROVE  Retained(s) = Worth(SizeOfSegment, s)
<1>1. \A i \in DOMAIN s : s[i] \in Segments
    BY LenProperties, ElementOfSeq
<1>2. \A i \in DOMAIN s : SizeOfAll(s[i].records) = SizeOfSegment[s[i]]
    BY <1>1, SegmentsAre
<1>3. [i \in DOMAIN s |-> SizeOfAll(s[i].records)] = [i \in DOMAIN s |-> SizeOfSegment[s[i]]]
    BY <1>2
<1> QED
    BY <1>3 DEF Retained, Worth

LEMMA RetainedIs ==
    ASSUME NEW s \in Seq(Segments)
    PROVE  Retained(s) \in Nat /\ (s = <<>> => Retained(s) = 0)
<1>1. Worth(SizeOfSegment, s) \in Nat /\ (s = <<>> => Worth(SizeOfSegment, s) = 0)
    BY SizeOfSegmentIs, WorthIsNat
<1> QED
    BY <1>1, RetainedIsWorth

LEMMA RetainedAdds ==
    ASSUME NEW p \in Seq(Segments), NEW q \in Seq(Segments)
    PROVE  Retained(p \o q) = Retained(p) + Retained(q)
<1>1. p \o q \in Seq(Segments)
    BY ConcatProperties
<1>2. /\ Retained(p) = Worth(SizeOfSegment, p) /\ Retained(q) = Worth(SizeOfSegment, q)
      /\ Retained(p \o q) = Worth(SizeOfSegment, p \o q)
    BY <1>1, RetainedIsWorth
<1>3. Worth(SizeOfSegment, p \o q) = Worth(SizeOfSegment, p) + Worth(SizeOfSegment, q)
    BY SizeOfSegmentIs, WorthOfConcatenated
<1> QED
    BY <1>2, <1>3

LEMMA OneSegment ==
    ASSUME NEW g \in Segments
    PROVE  /\ <<g>> \in Seq(Segments) /\ Len(<<g>>) = 1 /\ DOMAIN <<g>> = {1} /\ <<g>>[1] = g
           /\ Retained(<<g>>) = SizeOfAll(g.records)
           /\ Names(<<g>>) = NamesOf(g.records)
           /\ Increasing(g.records) => Ordered(<<g>>)
<1>1. <<g>> \in Seq(Segments) /\ Len(<<g>>) = 1 /\ DOMAIN <<g>> = {1} /\ <<g>>[1] = g
    OBVIOUS
<1>2. Worth(SizeOfSegment, <<g>>) = SizeOfSegment[g]
    BY SizeOfSegmentIs, WorthOfOne
<1>3. Retained(<<g>>) = SizeOfAll(g.records)
    BY <1>1, <1>2, RetainedIsWorth, SegmentsAre
<1>4. Names(<<g>>) = NamesOf(g.records)
    BY <1>1 DEF Names
<1>5. Increasing(g.records) => Ordered(<<g>>)
    BY <1>1 DEF Ordered, Increasing
<1> QED
    BY <1>1, <1>3, <1>4, <1>5

LEMMA OrderedMeans ==
    ASSUME NEW s \in Seq(Segments)
    PROVE  Ordered(s) <=>
               /\ \A i \in 1..Len(s) : Increasing(s[i].records)
               /\ \A i, j \in 1..Len(s) : i < j => Apart(NamesOf(s[i].records), NamesOf(s[j].records))
<1>1. DOMAIN s = 1..Len(s) /\ Len(s) \in Nat
    BY LenProperties
<1>2. \A i \in DOMAIN s : \A a, b \in DOMAIN s[i].records : a \in Nat /\ b \in Nat
    <2> SUFFICES ASSUME NEW i \in DOMAIN s
                 PROVE  \A a \in DOMAIN s[i].records : a \in Nat
        OBVIOUS
    <2>1. s[i] \in Segments
        BY <1>1, ElementOfSeq
    <2> QED
        BY <2>1, SegmentsAre
<1>3. ASSUME Ordered(s)
      PROVE  /\ \A i \in DOMAIN s : Increasing(s[i].records)
             /\ \A i, j \in DOMAIN s : i < j => Apart(NamesOf(s[i].records), NamesOf(s[j].records))
    <2>1. ASSUME NEW i \in DOMAIN s
          PROVE  Increasing(s[i].records)
        BY <1>3 DEF Ordered, Increasing
    <2>2. ASSUME NEW i \in DOMAIN s, NEW j \in DOMAIN s, i < j
          PROVE  Apart(NamesOf(s[i].records), NamesOf(s[j].records))
        BY <1>3, <2>2 DEF Ordered, Apart, NamesOf
    <2> QED
        BY <2>1, <2>2
<1>4. ASSUME \A i \in DOMAIN s : Increasing(s[i].records),
             \A i, j \in DOMAIN s : i < j => Apart(NamesOf(s[i].records), NamesOf(s[j].records))
      PROVE  Ordered(s)
    <2> SUFFICES ASSUME NEW i \in DOMAIN s, NEW j \in DOMAIN s,
                        NEW a \in DOMAIN s[i].records, NEW b \in DOMAIN s[j].records,
                        i < j \/ (i = j /\ a < b)
                 PROVE  s[i].records[a].sequence < s[j].records[b].sequence
        BY DEF Ordered
    <2>1. CASE i < j
        BY <1>4, <2>1 DEF Apart, NamesOf
    <2>2. CASE i = j /\ a < b
        BY <1>4, <2>2 DEF Increasing
    <2> QED
        BY <2>1, <2>2
<1> QED
    BY <1>1, <1>3, <1>4

LEMMA NamesInSegments ==
    ASSUME NEW s \in Seq(Segments)
    PROVE  /\ Names(s) = UNION {NamesOf(s[i].records) : i \in 1..Len(s)}
           /\ Names(s) \subseteq Nat
           /\ \A i \in 1..Len(s) : s[i] \in Segments /\ NamesOf(s[i].records) \subseteq Names(s)
           /\ Names(s) = {} => s = <<>>
<1>1. DOMAIN s = 1..Len(s) /\ Len(s) \in Nat /\ \A i \in 1..Len(s) : s[i] \in Segments
    BY LenProperties, ElementOfSeq
<1>2. Names(s) = UNION {NamesOf(s[i].records) : i \in 1..Len(s)}
    BY <1>1 DEF Names
<1>3. \A i \in 1..Len(s) : NamesOf(s[i].records) \subseteq Nat /\ NamesOf(s[i].records) # {}
    <2> SUFFICES ASSUME NEW i \in 1..Len(s)
                 PROVE  NamesOf(s[i].records) \subseteq Nat /\ NamesOf(s[i].records) # {}
        OBVIOUS
    <2>1. /\ NamesOf(s[i].records) \subseteq Nat
          /\ Len(s[i].records) \in Nat \ {0} /\ DOMAIN s[i].records = 1..Len(s[i].records)
        BY <1>1, SegmentsAre
    <2>2. 1 \in DOMAIN s[i].records
        BY <2>1
    <2> QED
        BY <2>1, <2>2 DEF NamesOf
<1>4. ASSUME Names(s) = {}
      PROVE  s = <<>>
    <2>1. ASSUME NEW i \in 1..Len(s)
          PROVE  FALSE
        <3>1. NamesOf(s[i].records) # {}
            BY <1>3
        <3> QED
            BY <1>2, <1>4, <3>1
    <2>2. Len(s) = 0
        <3>1. Len(s) # 0 => 1 \in 1..Len(s)
            BY <1>1
        <3> QED
            BY <2>1, <3>1
    <2> QED
        BY <2>2, EmptySeq
<1> QED
    BY <1>1, <1>2, <1>3, <1>4

LEMMA NamesConcatenated ==
    ASSUME NEW p \in Seq(Segments), NEW q \in Seq(Segments)
    PROVE  Names(p \o q) = Names(p) \cup Names(q)
<1>1. /\ p \o q \in Seq(Segments) /\ Len(p \o q) = Len(p) + Len(q) /\ Len(p) \in Nat /\ Len(q) \in Nat
      /\ \A i \in 1..Len(p) + Len(q) : (p \o q)[i] = IF i <= Len(p) THEN p[i] ELSE q[i - Len(p)]
    BY ConcatProperties, LenProperties
<1>2. /\ Names(p) = UNION {NamesOf(p[i].records) : i \in 1..Len(p)}
      /\ Names(q) = UNION {NamesOf(q[i].records) : i \in 1..Len(q)}
      /\ Names(p \o q) = UNION {NamesOf((p \o q)[i].records) : i \in 1..Len(p) + Len(q)}
    <2>1. Names(p \o q) = UNION {NamesOf((p \o q)[i].records) : i \in 1..Len(p \o q)}
        BY <1>1, NamesInSegments
    <2> QED
        BY <1>1, <2>1, NamesInSegments
<1>3. ASSUME NEW i \in 1..Len(p) + Len(q)
      PROVE  NamesOf((p \o q)[i].records) \subseteq Names(p) \cup Names(q)
    <2>1. CASE i <= Len(p)
        <3>1. i \in 1..Len(p) /\ (p \o q)[i] = p[i]
            BY <1>1, <2>1
        <3> QED
            BY <1>2, <3>1
    <2>2. CASE ~(i <= Len(p))
        <3>1. i - Len(p) \in 1..Len(q) /\ (p \o q)[i] = q[i - Len(p)]
            BY <1>1, <2>2
        <3> QED
            BY <1>2, <3>1
    <2> QED
        BY <2>1, <2>2
<1>4. ASSUME NEW i \in 1..Len(p)
      PROVE  NamesOf(p[i].records) \subseteq Names(p \o q)
    <2>1. i \in 1..Len(p) + Len(q) /\ (p \o q)[i] = p[i]
        BY <1>1
    <2> QED
        BY <1>2, <2>1
<1>5. ASSUME NEW i \in 1..Len(q)
      PROVE  NamesOf(q[i].records) \subseteq Names(p \o q)
    <2>1. i + Len(p) \in 1..Len(p) + Len(q) /\ (p \o q)[i + Len(p)] = q[i]
        BY <1>1
    <2> QED
        BY <1>2, <2>1
<1>6. Names(p \o q) \subseteq Names(p) \cup Names(q)
    BY <1>2, <1>3
<1>7. Names(p) \subseteq Names(p \o q)
    BY <1>2, <1>4
<1>8. Names(q) \subseteq Names(p \o q)
    BY <1>2, <1>5
<1> QED
    BY <1>6, <1>7, <1>8

LEMMA OrderedConcatenated ==
    ASSUME NEW p \in Seq(Segments), NEW q \in Seq(Segments), Ordered(p), Ordered(q),
           Apart(Names(p), Names(q))
    PROVE  Ordered(p \o q)
<1>1. /\ p \o q \in Seq(Segments) /\ Len(p \o q) = Len(p) + Len(q) /\ Len(p) \in Nat /\ Len(q) \in Nat
      /\ \A i \in 1..Len(p) + Len(q) : (p \o q)[i] = IF i <= Len(p) THEN p[i] ELSE q[i - Len(p)]
    BY ConcatProperties, LenProperties
<1>2. /\ \A i \in 1..Len(p) : Increasing(p[i].records) /\ NamesOf(p[i].records) \subseteq Names(p)
      /\ \A i \in 1..Len(q) : Increasing(q[i].records) /\ NamesOf(q[i].records) \subseteq Names(q)
    BY OrderedMeans, NamesInSegments
<1>3. ASSUME NEW i \in 1..Len(p) + Len(q)
      PROVE  Increasing((p \o q)[i].records)
    <2>1. i <= Len(p) => i \in 1..Len(p)
        BY <1>1
    <2>2. ~(i <= Len(p)) => i - Len(p) \in 1..Len(q)
        BY <1>1
    <2> QED
        BY <1>1, <1>2, <2>1, <2>2
<1>4. ASSUME NEW i \in 1..Len(p) + Len(q), NEW j \in 1..Len(p) + Len(q), i < j
      PROVE  Apart(NamesOf((p \o q)[i].records), NamesOf((p \o q)[j].records))
    <2>1. CASE j <= Len(p)
        <3>1. i \in 1..Len(p) /\ j \in 1..Len(p) /\ (p \o q)[i] = p[i] /\ (p \o q)[j] = p[j]
            BY <1>1, <1>4, <2>1
        <3>2. Apart(NamesOf(p[i].records), NamesOf(p[j].records))
            BY <1>4, <3>1, OrderedMeans
        <3> QED
            BY <3>1, <3>2
    <2>2. CASE ~(i <= Len(p))
        <3>1. /\ i - Len(p) \in 1..Len(q) /\ j - Len(p) \in 1..Len(q) /\ i - Len(p) < j - Len(p)
              /\ (p \o q)[i] = q[i - Len(p)] /\ (p \o q)[j] = q[j - Len(p)]
            BY <1>1, <1>4, <2>2
        <3>2. Apart(NamesOf(q[i - Len(p)].records), NamesOf(q[j - Len(p)].records))
            BY <3>1, OrderedMeans
        <3> QED
            BY <3>1, <3>2
    <2>3. CASE i <= Len(p) /\ ~(j <= Len(p))
        <3>1. /\ i \in 1..Len(p) /\ j - Len(p) \in 1..Len(q)
              /\ (p \o q)[i] = p[i] /\ (p \o q)[j] = q[j - Len(p)]
            BY <1>1, <1>4, <2>3
        <3> QED
            BY <1>2, <3>1 DEF Apart
    <2> QED
        BY <1>1, <1>4, <2>1, <2>2, <2>3
<1> QED
    BY <1>1, <1>3, <1>4, OrderedMeans

LEMMA PartIsOrdered ==
    ASSUME NEW s \in Seq(Segments), Ordered(s), NEW m \in Nat \ {0}, NEW n \in 0..Len(s)
    PROVE  Ordered(SubSeq(s, m, n))
<1> DEFINE t == SubSeq(s, m, n)
<1>1. /\ t \in Seq(Segments) /\ \A i \in 1..Len(t) : m + i - 1 \in 1..Len(s) /\ t[i] = s[m + i - 1]
    BY PartIs
<1> HIDE DEF t
<1>2. Len(t) \in Nat
    BY <1>1, LenProperties
<1>3. \A i \in 1..Len(t) : Increasing(t[i].records)
    BY <1>1, OrderedMeans
<1>4. ASSUME NEW i \in 1..Len(t), NEW j \in 1..Len(t), i < j
      PROVE  Apart(NamesOf(t[i].records), NamesOf(t[j].records))
    <2>1. m + i - 1 < m + j - 1
        BY <1>2, <1>4
    <2>2. Apart(NamesOf(s[m + i - 1].records), NamesOf(s[m + j - 1].records))
        BY <1>1, <2>1, OrderedMeans
    <2> QED
        BY <1>1, <2>2
<1>5. Ordered(t)
    BY <1>1, <1>3, <1>4, OrderedMeans
<1> QED
    BY <1>5 DEF t

LEMMA FreshIdIs ==
    ASSUME NEW live, IsFiniteSet(live)
    PROVE  FreshId(live) \in Nat
<1> DEFINE ids == [s \in live |-> s.id]
           T == {ids[s] : s \in live}
           n == Cardinality(live)
<1>1. n \in Nat
    BY FS_CardinalityType
<1>2. ids \in Surjection(live, T)
    BY DEF Surjection
<1>3. IsFiniteSet(T) /\ Cardinality(T) <= n /\ Cardinality(T) \in Nat
    BY <1>2, FS_Surjection, FS_CardinalityType
<1>4. \E i \in 1..(n + 1) : i \notin T
    <2> SUFFICES ASSUME 1..(n + 1) \subseteq T
                 PROVE  FALSE
        OBVIOUS
    <2>1. Cardinality(1..(n + 1)) = n + 1
        BY <1>1, FS_Interval
    <2>2. Cardinality(1..(n + 1)) <= Cardinality(T)
        <3> HIDE DEF T
        <3> QED
            BY <1>3, FS_Subset
    <2> QED
        BY <1>1, <1>3, <2>1, <2>2
<1>5. \E i \in 1..(n + 1) : \A s \in live : s.id # i
    BY <1>4
<1>6. FreshId(live) \in 1..(n + 1)
    BY <1>5, Zenon DEF FreshId
<1> QED
    BY <1>1, <1>6

LEMMA LastIs ==
    ASSUME NEW g \in Segments
    PROVE  /\ Last(g.records).sequence \in NamesOf(g.records)
           /\ Increasing(g.records) => \A x \in NamesOf(g.records) : x <= Last(g.records).sequence
<1> DEFINE s == g.records
<1>1. s \in Seq(Records) /\ Len(s) \in Nat \ {0} /\ DOMAIN s = 1..Len(s)
    BY SegmentsAre
<1> HIDE DEF s
<1>2. Len(s) \in DOMAIN s /\ \A a \in DOMAIN s : a \in Nat /\ (a = Len(s) \/ a < Len(s))
    BY <1>1
<1>3. Last(s) = s[Len(s)]
    BY DEF Last
<1>4. \A a \in DOMAIN s : s[a].sequence \in Nat
    BY <1>1, NamesAreNumbers
<1>5. ASSUME Increasing(s), NEW a \in DOMAIN s
      PROVE  s[a].sequence <= s[Len(s)].sequence
    <2>1. CASE a = Len(s)
        BY <1>4, <2>1
    <2>2. CASE a < Len(s)
        <3>1. s[a].sequence < s[Len(s)].sequence
            BY <1>2, <1>5, <2>2 DEF Increasing
        <3> QED
            BY <1>2, <1>4, <3>1
    <2> QED
        BY <1>2, <2>1, <2>2
<1> QED
    BY <1>2, <1>3, <1>5 DEF NamesOf, s

(* A record goes after the segments that are before it, and before those   *)
(* that are after it.                                                      *)
LEMMA PlaceIs ==
    ASSUME NEW s \in Seq(Segments), NEW r \in Records
    PROVE  /\ PlaceOf(s, r) \in 1..(Len(s) + 1)
           /\ Ordered(s) /\ r.sequence \notin Names(s) =>
                  \A i \in 1..Len(s) :
                      /\ i < PlaceOf(s, r) => \A x \in NamesOf(s[i].records) : x < r.sequence
                      /\ i > PlaceOf(s, r) => \A x \in NamesOf(s[i].records) : r.sequence < x
<1> DEFINE B == {i \in DOMAIN s : Last(s[i].records).sequence < r.sequence}
           after == Cardinality(B)
           p == PlaceOf(s, r)
<1>1. Len(s) \in Nat /\ DOMAIN s = 1..Len(s) /\ \A i \in 1..Len(s) : s[i] \in Segments
    BY LenProperties, ElementOfSeq
<1>2. p = IF after = Len(s) /\ after > 0 /\ HasRoom(s[after]) THEN after ELSE after + 1
    BY Zenon DEF PlaceOf
<1>3. B \in SUBSET (1..Len(s)) /\ \A i \in 1..Len(s) : i \in B <=> Last(s[i].records).sequence < r.sequence
    BY <1>1
<1>4. r.sequence \in Nat
    BY DEF Records
<1> HIDE DEF B, p
<1>5. after \in 0..Len(s)
    BY <1>1, <1>3, SomeOfThem
<1> HIDE DEF after
<1>6. p \in 1..(Len(s) + 1) /\ (p = after + 1 \/ (p = after /\ after = Len(s)))
    <2>1. CASE after = Len(s) /\ after > 0 /\ HasRoom(s[after])
        <3>1. p = after
            BY <1>2, <2>1
        <3> QED
            BY <1>1, <1>5, <2>1, <3>1
    <2>2. CASE ~(after = Len(s) /\ after > 0 /\ HasRoom(s[after]))
        <3>1. p = after + 1
            BY <1>2, <2>2
        <3> QED
            BY <1>1, <1>5, <3>1
    <2> QED
        BY <2>1, <2>2
<1>7. ASSUME Ordered(s), r.sequence \notin Names(s), NEW i \in 1..Len(s)
      PROVE  /\ i < p => \A x \in NamesOf(s[i].records) : x < r.sequence
             /\ i > p => \A x \in NamesOf(s[i].records) : r.sequence < x
    <2>1. \A j \in 1..Len(s) :
              /\ Last(s[j].records).sequence \in NamesOf(s[j].records)
              /\ \A x \in NamesOf(s[j].records) : x <= Last(s[j].records).sequence
              /\ NamesOf(s[j].records) \subseteq Names(s) /\ NamesOf(s[j].records) \subseteq Nat
        BY <1>1, <1>7, OrderedMeans, LastIs, NamesInSegments, SegmentsAre
    <2>2. \A j, k \in 1..Len(s) : j < k => Apart(NamesOf(s[j].records), NamesOf(s[k].records))
        BY <1>7, OrderedMeans
    <2>3. ASSUME NEW k \in B, NEW j \in 1..Len(s), j <= k
          PROVE  j \in B
        <3>1. CASE j = k
            BY <3>1
        <3>2. CASE j # k
            <4>1. k \in 1..Len(s) /\ j < k
                BY <1>3, <2>3, <3>2
            <4>2. Last(s[j].records).sequence < Last(s[k].records).sequence
                BY <2>1, <2>2, <4>1 DEF Apart
            <4>3. Last(s[k].records).sequence < r.sequence
                BY <1>3, <4>1
            <4>4. Last(s[j].records).sequence < r.sequence
                <5>1. Last(s[j].records).sequence \in Nat /\ Last(s[k].records).sequence \in Nat
                    BY <2>1, <4>1
                <5> QED
                    BY <1>4, <4>2, <4>3, <5>1
            <4> QED
                BY <1>3, <4>4
        <3> QED
            BY <3>1, <3>2
    <2>4. B = 1..after
        BY <1>1, <1>3, <2>3, DownwardClosed DEF after
    <2>5. ASSUME i < p, NEW x \in NamesOf(s[i].records)
          PROVE  x < r.sequence
        <3>1. i \in B
            BY <1>5, <1>6, <2>4, <2>5
        <3>2. Last(s[i].records).sequence < r.sequence
            BY <1>3, <3>1
        <3>3. x <= Last(s[i].records).sequence /\ x \in Nat /\ Last(s[i].records).sequence \in Nat
            BY <2>1
        <3> QED
            BY <1>4, <3>2, <3>3
    <2>6. ASSUME i > p, NEW x \in NamesOf(s[i].records)
          PROVE  r.sequence < x
        <3>0. i \in 1..Len(s) /\ p < i /\ p \in 1..(Len(s) + 1)
            BY <1>6, <2>6
        <3>1. p \in 1..Len(s) /\ p < i /\ p = after + 1
            <4>1. p \in 1..Len(s)
                BY <1>1, <3>0
            <4>2. p < Len(s)
                BY <1>1, <3>0
            <4>3. p = after + 1
                <5>1. p = after + 1 \/ (p = after /\ after = Len(s))
                    BY <1>6
                <5>2. CASE p = after /\ after = Len(s)
                    <6>1. p = Len(s)
                        BY <5>2
                    <6> QED
                        BY <1>1, <4>2, <6>1
                <5> QED
                    BY <5>1, <5>2
            <4> QED
                BY <3>0, <4>1, <4>3
        <3>2. p \notin B
            BY <1>5, <2>4, <3>1
        <3>3. ~(Last(s[p].records).sequence < r.sequence)
            BY <1>3, <3>1, <3>2
        <3>4. Last(s[p].records).sequence < x
            BY <2>1, <2>2, <3>1 DEF Apart
        <3>5. Last(s[p].records).sequence \in Nat /\ x \in Nat
            BY <2>1, <3>1
        <3> QED
            BY <1>4, <3>3, <3>4, <3>5
    <2> QED
        BY <2>5, <2>6
<1> QED
    BY <1>6, <1>7 DEF p

LEMMA HalfIs ==
    ASSUME NEW n \in Nat, n > 1
    PROVE  n \div 2 \in 1..(n - 1)
OBVIOUS

LEMMA TwoAre ==
    ASSUME NEW S, NEW a \in S, NEW b \in S
    PROVE  <<a, b>> = <<a>> \o <<b>>
<1>1. <<a>> \in Seq(S) /\ <<b>> \in Seq(S) /\ <<a, b>> \in Seq(S)
    OBVIOUS
<1>2. Append(<<a>>, b) = <<a>> \o <<b>>
    BY <1>1, AppendIsConcat
<1>3. /\ Append(<<a>>, b) \in Seq(S) /\ Len(Append(<<a>>, b)) = 2
      /\ Append(<<a>>, b)[1] = a /\ Append(<<a>>, b)[2] = b
    <2>1. Len(<<a>>) = 1 /\ <<a>>[1] = a
        OBVIOUS
    <2> QED
        BY <1>1, <2>1, AppendProperties
<1>4. Len(<<a, b>>) = 2 /\ <<a, b>>[1] = a /\ <<a, b>>[2] = b
    OBVIOUS
<1>5. Append(<<a>>, b) = <<a, b>>
    <2> DEFINE x == Append(<<a>>, b)
               y == <<a, b>>
    <2>1. Len(x) = Len(y) /\ x \in Seq(S) /\ y \in Seq(S)
        BY <1>1, <1>3, <1>4
    <2>2. \A i \in 1..Len(x) : i = 1 \/ i = 2
        BY <1>3
    <2>3. x[1] = y[1] /\ x[2] = y[2]
        BY <1>3, <1>4
    <2> HIDE DEF x, y
    <2>4. \A i \in 1..Len(x) : x[i] = y[i]
        BY <2>2, <2>3
    <2>5. x = y
        BY <2>1, <2>4, SeqEqual
    <2> QED
        BY <2>5 DEF x, y
<1> QED
    BY <1>2, <1>5

LEMMA GrownIs ==
    ASSUME NEW old, old.id \in Nat, old.records \in Seq(Records), NEW r \in Records,
           NEW shared, NEW live, IsFiniteSet(live)
    PROVE  /\ Grown(old, r, shared, live) \in Segments
           /\ Grown(old, r, shared, live).records = InOrder(old.records, r)
BY InOrderIs, FreshIdIs DEF Grown, Segments

LEMMA PiecesAre ==
    ASSUME HistoryAssumption, NEW g \in Segments, NEW live, IsFiniteSet(live)
    PROVE  /\ Pieces(g, live) \in Seq(Segments)
           /\ Retained(Pieces(g, live)) = SizeOfAll(g.records)
           /\ Names(Pieces(g, live)) = NamesOf(g.records)
           /\ Increasing(g.records) => Ordered(Pieces(g, live))
<1>1. CASE ~TooLarge(g)
    <2>1. Pieces(g, live) = <<g>>
        BY <1>1 DEF Pieces
    <2> QED
        BY <2>1, OneSegment
<1>2. CASE TooLarge(g)
    <2> DEFINE s == g.records
               half == Len(s) \div 2
               p == SubSeq(s, 1, half)
               q == SubSeq(s, half + 1, Len(s))
               a == [g EXCEPT !.records = p]
               b == [id |-> FreshId(live \cup {g}), records |-> q]
    <2>1. s \in Seq(Records) /\ Len(s) \in Nat /\ SegmentRecords \in Nat \ {0}
        BY SegmentsAre DEF HistoryAssumption
    <2>2. Len(s) > 1
        BY <1>2, <2>1 DEF TooLarge
    <2>3. half \in 1..(Len(s) - 1)
        BY <2>1, <2>2, HalfIs
    <2> HIDE DEF half
    <2>4. /\ half \in 0..Len(s) /\ half + 1 \in Nat \ {0} /\ Len(s) \in 0..Len(s)
          /\ 1 \in Nat \ {0} /\ 1 <= half /\ half + 1 <= Len(s)
        BY <2>1, <2>3
    <2>5. p \in Seq(Records) /\ q \in Seq(Records) /\ s = p \o q
        BY <2>1, <2>4, PartsAre
    <2>6. Len(p) # 0 /\ Len(q) # 0
        <3>1. Len(p) = half - 1 + 1
            BY <2>1, <2>4, PartIs
        <3>2. Len(q) = Len(s) - (half + 1) + 1
            BY <2>1, <2>4, PartIs
        <3> QED
            BY <2>1, <2>3, <3>1, <3>2
    <2>7. p # <<>> /\ q # <<>>
        BY <2>6, EmptySeq
    <2>8. IsFiniteSet(live \cup {g})
        BY FS_AddElement
    <2>9. a \in Segments /\ b \in Segments /\ a.records = p /\ b.records = q
        BY <2>5, <2>7, <2>8, FreshIdIs DEF Segments
    <2>10. Pieces(g, live) = <<a, b>>
        BY <1>2, Zenon DEF Pieces, Split, half
    <2> HIDE DEF a, b
    <2>11. <<a, b>> = <<a>> \o <<b>>
        BY <2>9, TwoAre
    <2> DEFINE pa == <<a>>
               pb == <<b>>
    <2>12. /\ pa \in Seq(Segments) /\ Retained(pa) = SizeOfAll(p) /\ Names(pa) = NamesOf(p)
           /\ pb \in Seq(Segments) /\ Retained(pb) = SizeOfAll(q) /\ Names(pb) = NamesOf(q)
           /\ Increasing(p) => Ordered(pa)
           /\ Increasing(q) => Ordered(pb)
        BY <2>9, OneSegment
    <2>13. Pieces(g, live) = pa \o pb
        BY <2>10, <2>11
    <2> HIDE DEF pa, pb
    <2>14. pa \o pb \in Seq(Segments) /\ Retained(pa \o pb) = Retained(pa) + Retained(pb)
           /\ Names(pa \o pb) = Names(pa) \cup Names(pb)
        BY <2>12, ConcatProperties, RetainedAdds, NamesConcatenated
    <2>15. SizeOfAll(p \o q) = SizeOfAll(p) + SizeOfAll(q) /\ NamesOf(p \o q) = NamesOf(p) \cup NamesOf(q)
        BY <2>5, SizesAdd, NamesOfConcatenated
    <2>16. ASSUME Increasing(s)
           PROVE  Ordered(pa \o pb)
        <3>1. Increasing(p) /\ Increasing(q)
            BY <2>1, <2>4, <2>16, PartIncreases
        <3>2. Apart(NamesOf(p), NamesOf(q))
            <4>1. ASSUME NEW i \in DOMAIN p, NEW j \in DOMAIN q
                  PROVE  p[i].sequence < q[j].sequence
                <5>1. /\ DOMAIN p = 1..Len(p) /\ Len(p) = half /\ p[i] = s[1 + i - 1] /\ 1 + i - 1 \in 1..Len(s)
                    BY <2>1, <2>4, <2>5, PartIs, LenProperties
                <5>2. DOMAIN q = 1..Len(q) /\ q[j] = s[half + 1 + j - 1] /\ half + 1 + j - 1 \in 1..Len(s)
                    BY <2>1, <2>4, <2>5, PartIs, LenProperties
                <5>3. Len(q) \in Nat
                    BY <2>5, LenProperties
                <5> HIDE DEF p, q
                <5>4. 1 + i - 1 < half + 1 + j - 1
                    BY <2>4, <5>1, <5>2, <5>3
                <5>5. DOMAIN s = 1..Len(s)
                    BY <2>1, LenProperties
                <5> QED
                    BY <2>16, <5>1, <5>2, <5>4, <5>5 DEF Increasing
            <4> HIDE DEF p, q
            <4> QED
                BY <4>1 DEF Apart, NamesOf
        <3> QED
            BY <2>12, <3>1, <3>2, OrderedConcatenated
    <2> HIDE DEF p, q
    <2>17. SizeOfAll(s) = SizeOfAll(p) + SizeOfAll(q) /\ NamesOf(s) = NamesOf(p) \cup NamesOf(q)
        BY <2>5, <2>15
    <2> QED
        BY <2>12, <2>13, <2>14, <2>16, <2>17
<1> QED
    BY <1>1, <1>2

(* What is where a record goes, and around it.                             *)
OldAt(i, s) == IF i > Len(s) THEN [id |-> 0, records |-> <<>>] ELSE s[i]

LEMMA NothingIs ==
    /\ <<>> \in Seq(Segments) /\ Names(<<>>) = {} /\ Retained(<<>>) = 0 /\ Ordered(<<>>)
    /\ <<>> \in Seq(Records) /\ NamesOf(<<>>) = {} /\ SizeOfAll(<<>>) = 0 /\ Increasing(<<>>)
<1>1. <<>> \in Seq(Segments) /\ <<>> \in Seq(Records) /\ DOMAIN <<>> = {}
    <2>1. Len(<<>>) = 0 /\ <<>> \in Seq(Segments) /\ <<>> \in Seq(Records)
        BY EmptySeq
    <2> QED
        BY <2>1, LenProperties
<1>2. Retained(<<>>) = 0 /\ SizeOfAll(<<>>) = 0
    BY <1>1, RetainedIs, SizesAre
<1>3. Names(<<>>) = {} /\ NamesOf(<<>>) = {}
    BY <1>1 DEF Names, NamesOf
<1>4. Ordered(<<>>) /\ Increasing(<<>>)
    BY <1>1 DEF Ordered, Increasing
<1> QED
    BY <1>1, <1>2, <1>3, <1>4

LEMMA PartsOfSegments ==
    ASSUME NEW s \in Seq(Segments), NEW m \in Nat \ {0}, NEW n \in 0..Len(s), NEW x \in Names(SubSeq(s, m, n))
    PROVE  \E j \in 1..Len(s) : m <= j /\ j <= n /\ x \in NamesOf(s[j].records)
<1> DEFINE t == SubSeq(s, m, n)
<1>1. /\ t \in Seq(Segments) /\ \A i \in 1..Len(t) : m + i - 1 \in 1..Len(s) /\ t[i] = s[m + i - 1]
      /\ Len(t) = IF m <= n THEN n - m + 1 ELSE 0
    BY PartIs
<1> HIDE DEF t
<1>2. Names(t) = UNION {NamesOf(t[i].records) : i \in 1..Len(t)}
    BY <1>1, NamesInSegments
<1>3. PICK i \in 1..Len(t) : x \in NamesOf(t[i].records)
    BY <1>2 DEF t
<1>4. m + i - 1 \in 1..Len(s) /\ t[i] = s[m + i - 1]
    BY <1>1
<1>5. m <= m + i - 1 /\ m + i - 1 <= n
    BY <1>1
<1> QED
    BY <1>3, <1>4, <1>5

LEMMA AroundIs ==
    ASSUME NEW s \in Seq(Segments), NEW i \in 1..(Len(s) + 1)
    PROVE  /\ SubSeq(s, 1, i - 1) \in Seq(Segments) /\ SubSeq(s, i + 1, Len(s)) \in Seq(Segments)
           /\ OldAt(i, s).id \in Nat /\ OldAt(i, s).records \in Seq(Records)
           /\ Names(s) = (Names(SubSeq(s, 1, i - 1)) \cup NamesOf(OldAt(i, s).records))
                             \cup Names(SubSeq(s, i + 1, Len(s)))
           /\ Retained(s) = Retained(SubSeq(s, 1, i - 1)) + SizeOfAll(OldAt(i, s).records)
                             + Retained(SubSeq(s, i + 1, Len(s)))
           /\ Ordered(s) => Increasing(OldAt(i, s).records)
<1> DEFINE p == SubSeq(s, 1, i - 1)
           q == SubSeq(s, i + 1, Len(s))
           rest == SubSeq(s, i, Len(s))
<1>1. /\ Len(s) \in Nat /\ i - 1 \in 0..Len(s) /\ Len(s) \in 0..Len(s) /\ i + 1 \in Nat \ {0}
      /\ (i - 1) + 1 = i
    BY LenProperties
<1>2. p \in Seq(Segments) /\ rest \in Seq(Segments) /\ s = p \o rest
    BY <1>1, PartsAre
<1>3. q \in Seq(Segments)
    BY <1>1, PartIs
<1>4. Names(s) = Names(p) \cup Names(rest) /\ Retained(s) = Retained(p) + Retained(rest)
    <2> HIDE DEF p, rest
    <2>1. Names(p \o rest) = Names(p) \cup Names(rest) /\ Retained(p \o rest) = Retained(p) + Retained(rest)
        BY <1>2, NamesConcatenated, RetainedAdds
    <2> QED
        BY <1>2, <2>1
<1>5. CASE i <= Len(s)
    <2>1. i \in 1..Len(s) /\ Len(s) \in i..Len(s) /\ s[i] \in Segments
        BY <1>1, <1>5, ElementOfSeq
    <2>2. rest = <<s[i]>> \o q
        BY <2>1, SubSeqRecursiveFirst
    <2>3. OldAt(i, s) = s[i]
        BY <1>1, <1>5 DEF OldAt
    <2> DEFINE one == <<s[i]>>
    <2>4. /\ one \in Seq(Segments) /\ Retained(one) = SizeOfAll(s[i].records)
          /\ Names(one) = NamesOf(s[i].records)
        BY <2>1, OneSegment
    <2>5. rest = one \o q
        BY <2>2
    <2> HIDE DEF one, p, q, rest
    <2>6. Names(one \o q) = Names(one) \cup Names(q) /\ Retained(one \o q) = Retained(one) + Retained(q)
        BY <1>3, <2>4, NamesConcatenated, RetainedAdds
    <2>7. s[i].id \in Nat /\ s[i].records \in Seq(Records)
        BY <2>1 DEF Segments
    <2>8. Ordered(s) => Increasing(s[i].records)
        BY <2>1, OrderedMeans
    <2>9. Retained(p) \in Nat /\ Retained(q) \in Nat /\ SizeOfAll(s[i].records) \in Nat
        BY <1>2, <1>3, <2>7, RetainedIs, SizesAre
    <2>10. Retained(s) = Retained(p) + SizeOfAll(s[i].records) + Retained(q)
        BY <1>4, <2>4, <2>5, <2>6, <2>9
    <2>11. Names(s) = (Names(p) \cup NamesOf(s[i].records)) \cup Names(q)
        BY <1>4, <2>4, <2>5, <2>6
    <2> QED
        BY <1>2, <1>3, <2>3, <2>7, <2>8, <2>10, <2>11 DEF p, q
<1>6. CASE i > Len(s)
    <2>1. i = Len(s) + 1
        BY <1>1, <1>6
    <2>2. OldAt(i, s).id = 0 /\ OldAt(i, s).records = <<>>
        BY <1>6 DEF OldAt
    <2>3. q = <<>> /\ rest = <<>>
        <3>1. Len(s) < i /\ Len(s) < i + 1 /\ i \in Int /\ i + 1 \in Int /\ Len(s) \in Int
            BY <1>1, <1>6
        <3> QED
            BY <3>1, SubSeqEmpty
    <2> HIDE DEF p, q, rest
    <2>4. Retained(p) \in Nat
        BY <1>2, RetainedIs
    <2>5. Retained(s) = Retained(p) + 0 + 0
        BY <1>4, <2>3, <2>4, NothingIs
    <2>6. Names(s) = (Names(p) \cup {}) \cup {}
        BY <1>4, <2>3, NothingIs
    <2> QED
        <3> DEFINE old == OldAt(i, s)
        <3>1. /\ old.id \in Nat /\ old.records \in Seq(Records)
              /\ NamesOf(old.records) = {} /\ SizeOfAll(old.records) = 0 /\ Increasing(old.records)
            BY <2>2, NothingIs
        <3>2. Names(q) = {} /\ Retained(q) = 0
            BY <2>3, NothingIs
        <3> HIDE DEF old
        <3>3. Names(s) = (Names(p) \cup NamesOf(old.records)) \cup Names(q)
            BY <2>6, <3>1, <3>2
        <3>4. Retained(s) = Retained(p) + SizeOfAll(old.records) + Retained(q)
            BY <2>5, <3>1, <3>2
        <3> QED
            BY <1>2, <1>3, <3>1, <3>3, <3>4 DEF p, q, old
<1> QED
    BY <1>1, <1>5, <1>6

(* One record goes in, whether its segment is grown, copied or split: its  *)
(* sequence and its size are added, and what was in order still is.        *)
LEMMA WithRecordIs ==
    ASSUME HistoryAssumption, NEW s \in Seq(Segments), NEW r \in Records,
           NEW shared, NEW live, IsFiniteSet(live)
    PROVE  /\ WithRecord(s, r, shared, live) \in Seq(Segments)
           /\ Names(WithRecord(s, r, shared, live)) = Names(s) \cup {r.sequence}
           /\ Retained(WithRecord(s, r, shared, live)) = Retained(s) + SizeOf(r)
           /\ Ordered(s) /\ r.sequence \notin Names(s) => Ordered(WithRecord(s, r, shared, live))
<1> DEFINE i == PlaceOf(s, r)
           p == SubSeq(s, 1, i - 1)
           q == SubSeq(s, i + 1, Len(s))
           grown == Grown(OldAt(i, s), r, shared, live)
           pieces == Pieces(grown, live)
<1>1. WithRecord(s, r, shared, live) = (p \o pieces) \o q
    BY Zenon DEF WithRecord, WithRecordAt, OldAt
<1>2. i \in 1..(Len(s) + 1) /\ Len(s) \in Nat
    BY PlaceIs, LenProperties
<1>3. /\ p \in Seq(Segments) /\ q \in Seq(Segments)
      /\ OldAt(i, s).id \in Nat /\ OldAt(i, s).records \in Seq(Records)
      /\ Names(s) = (Names(p) \cup NamesOf(OldAt(i, s).records)) \cup Names(q)
      /\ Retained(s) = Retained(p) + SizeOfAll(OldAt(i, s).records) + Retained(q)
      /\ Ordered(s) => Increasing(OldAt(i, s).records)
    BY <1>2, AroundIs
<1>4. grown \in Segments /\ grown.records = InOrder(OldAt(i, s).records, r)
    BY <1>3, GrownIs
<1>5. /\ SizeOfAll(grown.records) = SizeOfAll(OldAt(i, s).records) + SizeOf(r)
      /\ NamesOf(grown.records) = NamesOf(OldAt(i, s).records) \cup {r.sequence}
      /\ Increasing(OldAt(i, s).records) /\ r.sequence \notin NamesOf(OldAt(i, s).records)
             => Increasing(grown.records)
    BY <1>3, <1>4, InOrderIs
<1>6. ASSUME Ordered(s), r.sequence \notin Names(s)
      PROVE  /\ Ordered(p) /\ Ordered(q)
             /\ Apart(Names(p), NamesOf(grown.records))
             /\ Apart(Names(p) \cup NamesOf(grown.records), Names(q))
    <2>1. i - 1 \in 0..Len(s) /\ i + 1 \in Nat \ {0} /\ Len(s) \in 0..Len(s)
        BY <1>2
    <2>2. Ordered(p) /\ Ordered(q)
        BY <1>6, <2>1, PartIsOrdered
    <2>3. \A j \in 1..Len(s) :
              /\ j < i => \A x \in NamesOf(s[j].records) : x < r.sequence
              /\ j > i => \A x \in NamesOf(s[j].records) : r.sequence < x
        BY <1>6, PlaceIs
    <2>4. \A j, k \in 1..Len(s) : j < k => Apart(NamesOf(s[j].records), NamesOf(s[k].records))
        BY <1>6, OrderedMeans
    <2>5. ASSUME NEW x \in Names(p)
          PROVE  \E j \in 1..Len(s) : j < i /\ x \in NamesOf(s[j].records)
        <3>1. PICK j \in 1..Len(s) : j <= i - 1 /\ x \in NamesOf(s[j].records)
            BY <2>1, PartsOfSegments
        <3> QED
            BY <1>2, <3>1
    <2>6. ASSUME NEW x \in Names(q)
          PROVE  \E j \in 1..Len(s) : j > i /\ x \in NamesOf(s[j].records)
        <3>1. PICK j \in 1..Len(s) : i + 1 <= j /\ x \in NamesOf(s[j].records)
            BY <2>1, PartsOfSegments
        <3> QED
            BY <1>2, <3>1
    <2>7. ASSUME NEW x \in NamesOf(OldAt(i, s).records)
          PROVE  i \in 1..Len(s) /\ x \in NamesOf(s[i].records)
        <3>1. CASE i > Len(s)
            <4>1. OldAt(i, s).records = <<>>
                BY <3>1 DEF OldAt
            <4> QED
                BY <2>7, <4>1, NothingIs
        <3>2. CASE ~(i > Len(s))
            <4>1. OldAt(i, s) = s[i] /\ i \in 1..Len(s)
                BY <1>2, <3>2 DEF OldAt
            <4> QED
                BY <2>7, <4>1
        <3> QED
            BY <3>1, <3>2
    <2> HIDE DEF i, p, q, grown, pieces
    <2>8. (\A x \in Names(p) : x < r.sequence) /\ (\A y \in Names(q) : r.sequence < y)
        BY <2>3, <2>5, <2>6
    <2>9. ASSUME NEW x \in Names(p), NEW y \in NamesOf(OldAt(i, s).records)
          PROVE  x < y
        <3>1. PICK j \in 1..Len(s) : j < i /\ x \in NamesOf(s[j].records)
            BY <2>5
        <3> QED
            BY <2>4, <2>7, <3>1 DEF Apart
    <2>10. ASSUME NEW x \in NamesOf(OldAt(i, s).records), NEW y \in Names(q)
           PROVE  x < y
        <3>1. PICK j \in 1..Len(s) : j > i /\ y \in NamesOf(s[j].records)
            BY <2>6
        <3>2. i \in 1..Len(s) /\ i < j
            BY <1>2, <2>7, <3>1
        <3> QED
            BY <2>4, <2>7, <3>1, <3>2 DEF Apart
    <2>11. ASSUME NEW x \in Names(p), NEW y \in Names(q)
           PROVE  x < y
        <3>1. x < r.sequence /\ r.sequence < y
            BY <2>8
        <3>2. x \in Nat /\ y \in Nat /\ r.sequence \in Nat
            BY <1>3, NamesInSegments DEF Records
        <3> QED
            BY <3>1, <3>2
    <2> QED
        BY <1>5, <2>2, <2>8, <2>9, <2>10, <2>11 DEF Apart
<1> HIDE DEF p, q, grown
<1>7. /\ pieces \in Seq(Segments)
      /\ Retained(pieces) = SizeOfAll(grown.records) /\ Names(pieces) = NamesOf(grown.records)
      /\ Increasing(grown.records) => Ordered(pieces)
    BY <1>4, PiecesAre
<1> HIDE DEF pieces
<1>8. p \o pieces \in Seq(Segments) /\ (p \o pieces) \o q \in Seq(Segments)
    BY <1>3, <1>7, ConcatProperties
<1>9. Names(p \o pieces) = Names(p) \cup Names(pieces) /\ Retained(p \o pieces) = Retained(p) + Retained(pieces)
    BY <1>3, <1>7, NamesConcatenated, RetainedAdds
<1>10. /\ Names((p \o pieces) \o q) = Names(p \o pieces) \cup Names(q)
       /\ Retained((p \o pieces) \o q) = Retained(p \o pieces) + Retained(q)
    BY <1>3, <1>8, NamesConcatenated, RetainedAdds
<1>11. Names((p \o pieces) \o q) = Names(s) \cup {r.sequence}
    BY <1>3, <1>5, <1>7, <1>9, <1>10
<1>12. Retained((p \o pieces) \o q) = Retained(s) + SizeOf(r)
    <2>1. /\ Retained(p) \in Nat /\ Retained(q) \in Nat /\ SizeOfAll(OldAt(i, s).records) \in Nat
          /\ SizeOf(r) \in Nat
        BY <1>3, RetainedIs, SizesAre, SizeOfRecordIs
    <2> QED
        BY <1>3, <1>5, <1>7, <1>9, <1>10, <2>1
<1>13. ASSUME Ordered(s), r.sequence \notin Names(s)
       PROVE  Ordered((p \o pieces) \o q)
    <2>1. Increasing(grown.records)
        BY <1>3, <1>5, <1>13
    <2>2. Ordered(pieces) /\ Ordered(p) /\ Ordered(q)
        BY <1>6, <1>7, <1>13, <2>1
    <2>3. Apart(Names(p), Names(pieces)) /\ Apart(Names(p \o pieces), Names(q))
        BY <1>6, <1>7, <1>9, <1>13
    <2>4. Ordered(p \o pieces)
        BY <1>3, <1>7, <2>2, <2>3, OrderedConcatenated
    <2> QED
        BY <1>3, <1>8, <2>2, <2>3, <2>4, OrderedConcatenated
<1> QED
    BY <1>1, <1>8, <1>11, <1>12, <1>13

-----------------------------------------------------------------------------
(* Histories.                                                              *)

Lines == [sequence : Nat, run : Nat, raw : Nat, text : Nat]

Histories ==
    [segments : Seq(Segments), pending : [Streams -> Lines], bytes : Nat, truncated : BOOLEAN,
     latest : Nat, generation : Nat]

Projects == [of : [Writers -> Histories], bytes : Nat, next : Nat \ {0}]

Open(h) == {s \in Streams : h.pending[s] # NoLine}

Raws(pending) == SumFunction([s \in Streams |-> pending[s].raw])

Total(histories) == SumFunction([w \in Writers |-> histories[w].bytes])

(* A line is counted until it is a record; no two of them have a sequence. *)
HistorySound(h, next) ==
    /\ Ordered(h.segments)
    /\ \A x \in Names(h.segments) : 1 <= x /\ x < next
    /\ \A s \in Open(h) :
           /\ h.pending[s].raw >= 1
           /\ 1 <= h.pending[s].sequence /\ h.pending[s].sequence < next
           /\ h.pending[s].sequence \notin Names(h.segments)
    /\ \A s, t \in Open(h) : s # t => h.pending[s].sequence # h.pending[t].sequence
    /\ h.bytes = Retained(h.segments) + Raws(h.pending)

ProjectSound(pr) ==
    /\ pr \in Projects
    /\ \A w \in Writers : HistorySound(pr.of[w], pr.next)
    /\ pr.bytes = Total(pr.of)

LEMMA NoLineIs == NoLine \in Lines /\ NoLine.sequence = 0 /\ NoLine.raw = 0
BY DEF NoLine, Lines

LEMMA RawsAre ==
    ASSUME HistoryAssumption, NEW pending \in [Streams -> Lines]
    PROVE  /\ Counts([s \in Streams |-> pending[s].raw])
           /\ Raws(pending) \in Nat
           /\ (\A s \in Streams : pending[s] = NoLine) => Raws(pending) = 0
<1> DEFINE f == [s \in Streams |-> pending[s].raw]
<1>1. IsFiniteSet(Streams)
    BY DEF HistoryAssumption
<1>2. Counts(f)
    BY <1>1 DEF Counts, Lines
<1>3. (\A s \in Streams : pending[s] = NoLine) => \A s \in DOMAIN f : f[s] = 0
    BY NoLineIs
<1> HIDE DEF f
<1>4. SumFunction(f) \in Nat /\ ((\A s \in DOMAIN f : f[s] = 0) => SumFunction(f) = 0)
    BY <1>2, SumIs, SumOfNone
<1> QED
    BY <1>2, <1>3, <1>4 DEF Raws, f

LEMMA RawsChange ==
    ASSUME HistoryAssumption, NEW pending \in [Streams -> Lines], NEW other \in [Streams -> Lines],
           NEW s \in Streams, \A t \in Streams \ {s} : other[t] = pending[t]
    PROVE  /\ Raws(pending) \in Nat /\ Raws(other) \in Nat
           /\ Raws(other) + pending[s].raw = Raws(pending) + other[s].raw
           /\ pending[s].raw <= Raws(pending)
           /\ pending[s].raw \in Nat /\ other[s].raw \in Nat
<1> DEFINE f == [t \in Streams |-> pending[t].raw]
           g == [t \in Streams |-> other[t].raw]
<1>1. Counts(f)
    BY RawsAre
<1>2. /\ s \in DOMAIN f /\ DOMAIN g = DOMAIN f /\ g[s] \in Nat /\ g[s] = other[s].raw /\ f[s] = pending[s].raw
      /\ \A t \in DOMAIN f \ {s} : g[t] = f[t]
    BY DEF Lines
<1>3. pending[s].raw \in Nat /\ other[s].raw \in Nat
    BY DEF Lines
<1> HIDE DEF f, g
<1>4. /\ SumFunction(f) \in Nat /\ SumFunction(g) \in Nat
      /\ SumFunction(g) + f[s] = SumFunction(f) + g[s]
      /\ f[s] <= SumFunction(f)
    BY <1>1, <1>2, SumUpdate
<1> QED
    BY <1>2, <1>3, <1>4 DEF Raws, f, g

LEMMA TotalIs ==
    ASSUME HistoryAssumption, NEW of \in [Writers -> Histories]
    PROVE  /\ Counts([w \in Writers |-> of[w].bytes])
           /\ Total(of) \in Nat
           /\ (\A w \in Writers : of[w].bytes = 0) => Total(of) = 0
<1> DEFINE f == [w \in Writers |-> of[w].bytes]
<1>1. IsFiniteSet(Writers)
    BY DEF HistoryAssumption
<1>2. Counts(f)
    BY <1>1 DEF Counts, Histories
<1>3. (\A w \in Writers : of[w].bytes = 0) => \A w \in DOMAIN f : f[w] = 0
    OBVIOUS
<1> HIDE DEF f
<1>4. SumFunction(f) \in Nat /\ ((\A w \in DOMAIN f : f[w] = 0) => SumFunction(f) = 0)
    BY <1>2, SumIs, SumOfNone
<1> QED
    BY <1>2, <1>3, <1>4 DEF Total, f

LEMMA TotalChanges ==
    ASSUME HistoryAssumption, NEW of \in [Writers -> Histories], NEW w \in Writers, NEW h \in Histories,
           NEW other \in [Writers -> Histories], other[w] = h, \A v \in Writers \ {w} : other[v] = of[v]
    PROVE  /\ Total(of) \in Nat /\ Total(other) \in Nat
           /\ Total(other) + of[w].bytes = Total(of) + h.bytes
           /\ of[w].bytes <= Total(of)
           /\ of[w].bytes \in Nat /\ h.bytes \in Nat
<1> DEFINE f == [v \in Writers |-> of[v].bytes]
           g == [v \in Writers |-> other[v].bytes]
<1>1. Counts(f)
    BY TotalIs
<1>2. /\ w \in DOMAIN f /\ DOMAIN g = DOMAIN f /\ g[w] \in Nat /\ g[w] = h.bytes /\ f[w] = of[w].bytes
      /\ \A v \in DOMAIN f \ {w} : g[v] = f[v]
    BY DEF Histories
<1>3. of[w].bytes \in Nat /\ h.bytes \in Nat
    BY DEF Histories
<1> HIDE DEF f, g
<1>4. /\ SumFunction(f) \in Nat /\ SumFunction(g) \in Nat
      /\ SumFunction(g) + f[w] = SumFunction(f) + g[w]
      /\ f[w] <= SumFunction(f)
    BY <1>1, <1>2, SumUpdate
<1> QED
    BY <1>2, <1>3, <1>4 DEF Total, f, g

LEMMA PartOfTheTotal ==
    ASSUME HistoryAssumption, NEW pr, ProjectSound(pr), NEW w \in Writers
    PROVE  pr.of[w].bytes \in Nat /\ pr.bytes \in Nat /\ pr.of[w].bytes <= pr.bytes
<1>1. pr.of \in [Writers -> Histories] /\ pr.bytes \in Nat /\ pr.bytes = Total(pr.of)
    BY DEF ProjectSound, Projects
<1>2. pr.of[w] \in Histories
    BY <1>1
<1> QED
    BY <1>1, <1>2, TotalChanges

LEMMA ReplacedIsSound ==
    ASSUME HistoryAssumption, NEW pr, ProjectSound(pr), NEW w \in Writers, NEW h \in Histories,
           NEW q \in Projects, q.of[w] = h, \A v \in Writers \ {w} : q.of[v] = pr.of[v],
           q.next >= pr.next,
           HistorySound(h, q.next), q.bytes + pr.of[w].bytes = pr.bytes + h.bytes
    PROVE  ProjectSound(q)
<1>1. /\ pr.of \in [Writers -> Histories] /\ pr.bytes \in Nat /\ pr.next \in Nat \ {0}
      /\ q.of \in [Writers -> Histories]
      /\ q.bytes \in Nat /\ q.next \in Nat
    BY DEF ProjectSound, Projects
<1>2. q.of[w] = h /\ \A v \in Writers \ {w} : q.of[v] = pr.of[v]
    OBVIOUS
<1>3. /\ Total(pr.of) \in Nat /\ Total(q.of) \in Nat
      /\ Total(q.of) + pr.of[w].bytes = Total(pr.of) + h.bytes
      /\ pr.of[w].bytes \in Nat /\ h.bytes \in Nat
    BY <1>1, <1>2, TotalChanges
<1>4. pr.bytes = Total(pr.of)
    BY DEF ProjectSound
<1>5. q.bytes = Total(q.of)
    BY <1>1, <1>3, <1>4
<1>6. ASSUME NEW v \in Writers
      PROVE  HistorySound(q.of[v], q.next)
    <2>1. CASE v = w
        BY <1>2, <2>1
    <2>2. CASE v # w
        <3> DEFINE k == pr.of[v]
        <3>1. q.of[v] = k
            BY <1>2, <2>2
        <3>2. HistorySound(k, pr.next) /\ k \in Histories
            BY <1>1 DEF ProjectSound
        <3>3. Names(k.segments) \subseteq Nat /\ \A s \in Streams : k.pending[s].sequence \in Nat
            BY <3>2, NamesInSegments DEF Histories, Lines
        <3> HIDE DEF k
        <3>4. \A x \in Nat : x < pr.next => x < q.next
            BY <1>1
        <3>5. HistorySound(k, q.next)
            BY <3>2, <3>3, <3>4 DEF HistorySound, Open
        <3> QED
            BY <3>1, <3>5
    <2> QED
        BY <2>1, <2>2
<1> QED
    BY <1>2, <1>5, <1>6 DEF ProjectSound

-----------------------------------------------------------------------------
(* Eviction.                                                               *)

LEMMA LeastIs ==
    ASSUME NEW A \in SUBSET Nat, A # {}
    PROVE  Min(A) \in A /\ \A y \in A : Min(A) <= y
<1>1. PICK least \in A : \A x \in A : ~(<<x, least>> \in OpToRel(<, Nat))
    BY WFMin, NatLessThanWellFounded
<1>2. \A x \in A : least <= x
    <2>1. \A x \in A : x \in Nat
        OBVIOUS
    <2>2. least \in Nat /\ \A x \in A : ~(x < least)
        BY <1>1, <2>1 DEF OpToRel
    <2> QED
        BY <2>1, <2>2
<1> QED
    BY <1>1, <1>2 DEF Min

LEMMA TailIs ==
    ASSUME NEW s \in Seq(Segments), s # <<>>
    PROVE  /\ s[1] \in Segments /\ Tail(s) \in Seq(Segments)
           /\ Retained(s) = SizeOfAll(s[1].records) + Retained(Tail(s))
           /\ Names(Tail(s)) \subseteq Names(s)
           /\ Ordered(s) => Ordered(Tail(s))
<1>1. Len(s) \in Nat \ {0} /\ 1 \in 1..(Len(s) + 1) /\ 1 \in 1..Len(s) /\ 2 \in Nat \ {0} /\ Len(s) \in 0..Len(s)
    BY EmptySeq
<1>2. Tail(s) = SubSeq(s, 2, Len(s))
    BY TailIsSubSeq
<1>3. OldAt(1, s) = s[1] /\ s[1] \in Segments
    BY <1>1, ElementOfSeq DEF OldAt
<1>4. SubSeq(s, 1, 0) = <<>>
    BY SubSeqEmpty
<1>5. /\ SubSeq(s, 2, Len(s)) \in Seq(Segments)
      /\ Names(s) = (Names(SubSeq(s, 1, 0)) \cup NamesOf(s[1].records)) \cup Names(SubSeq(s, 2, Len(s)))
      /\ Retained(s) = Retained(SubSeq(s, 1, 0)) + SizeOfAll(s[1].records) + Retained(SubSeq(s, 2, Len(s)))
    <2>1. 1 - 1 = 0 /\ 1 + 1 = 2
        OBVIOUS
    <2> QED
        BY <1>1, <1>3, <2>1, AroundIs
<1>6. Retained(Tail(s)) \in Nat /\ SizeOfAll(s[1].records) \in Nat
    BY <1>2, <1>3, <1>5, RetainedIs, SegmentsAre
<1>7. Retained(s) = SizeOfAll(s[1].records) + Retained(Tail(s))
    <2>1. Retained(SubSeq(s, 1, 0)) = 0
        BY <1>4, NothingIs
    <2>2. Retained(s) = Retained(SubSeq(s, 1, 0)) + SizeOfAll(s[1].records) + Retained(Tail(s))
        BY <1>2, <1>5
    <2> QED
        BY <1>6, <2>1, <2>2
<1>8. Names(Tail(s)) \subseteq Names(s)
    BY <1>2, <1>5
<1>9. Ordered(s) => Ordered(Tail(s))
    BY <1>1, <1>2, PartIsOrdered
<1> QED
    BY <1>2, <1>3, <1>5, <1>7, <1>8, <1>9

LEMMA OldestIs ==
    ASSUME NEW h \in Histories, NEW next, HistorySound(h, next), Sequences(h) # {}
    PROVE  /\ Oldest(h) \in Nat
           /\ ~FrontIsOldest(h) => \E s \in Open(h) : h.pending[s].sequence = Oldest(h)
<1>1. h.segments \in Seq(Segments) /\ h.pending \in [Streams -> Lines]
    BY DEF Histories
<1>2. ASSUME h.segments # <<>>
      PROVE  h.segments[1].records[1].sequence \in Nat
    <2>1. h.segments[1] \in Segments
        BY <1>1, <1>2, TailIs
    <2>2. /\ h.segments[1].records \in Seq(Records) /\ Len(h.segments[1].records) \in Nat \ {0}
        BY <2>1, SegmentsAre
    <2>3. 1 \in 1..Len(h.segments[1].records)
        BY <2>2
    <2> QED
        BY <2>2, <2>3, NamesAreNumbers
<1>3. Sequences(h) \subseteq Nat
    BY <1>1, <1>2 DEF Sequences, Lines
<1>4. Oldest(h) \in Sequences(h)
    BY <1>3, LeastIs DEF Oldest
<1>5. ASSUME ~FrontIsOldest(h)
      PROVE  \E s \in Open(h) : h.pending[s].sequence = Oldest(h)
    BY <1>4, <1>5 DEF FrontIsOldest, Sequences, Open
<1> QED
    BY <1>3, <1>4, <1>5

LEMMA NothingIsLeft ==
    ASSUME HistoryAssumption, NEW h \in Histories, NEW next, HistorySound(h, next), Sequences(h) = {}
    PROVE  h.bytes = 0 /\ h.segments = <<>> /\ Open(h) = {}
<1>1. h.pending \in [Streams -> Lines]
    BY DEF Histories
<1>2. h.segments = <<>> /\ \A s \in Streams : h.pending[s] = NoLine
    BY DEF Sequences
<1>3. Retained(h.segments) = 0
    BY <1>2, NothingIs
<1>4. Raws(h.pending) = 0
    BY <1>1, <1>2, RawsAre
<1>5. h.bytes = 0
    BY <1>3, <1>4 DEF HistorySound
<1> QED
    BY <1>2, <1>5 DEF Open

LEMMA HistoryChanged ==
    ASSUME NEW h \in Histories, NEW segments \in Seq(Segments), NEW pending \in [Streams -> Lines],
           NEW bytes \in Nat, NEW truncated \in BOOLEAN, NEW generation \in Nat
    PROVE  [h EXCEPT !.segments = segments, !.pending = pending, !.bytes = bytes,
                     !.truncated = truncated, !.generation = generation] \in Histories
BY DEF Histories

(* What is oldest goes, and exactly its bytes with it.                     *)
LEMMA WithoutOldestIs ==
    ASSUME HistoryAssumption, NEW h \in Histories, NEW next, HistorySound(h, next), Sequences(h) # {}
    PROVE  /\ OldestBytes(h) \in Nat /\ OldestBytes(h) >= 1 /\ OldestBytes(h) <= h.bytes
           /\ WithoutOldest(h) \in Histories
           /\ HistorySound(WithoutOldest(h), next)
           /\ WithoutOldest(h).bytes = h.bytes - OldestBytes(h)
           /\ WithoutOldest(h).generation = h.generation + 1
           /\ WithoutOldest(h).latest = h.latest
           /\ Names(WithoutOldest(h).segments) \subseteq Names(h.segments)
<1> DEFINE k == WithoutOldest(h)
<1>1. /\ h.segments \in Seq(Segments) /\ h.pending \in [Streams -> Lines] /\ h.bytes \in Nat
      /\ h.generation \in Nat /\ h.latest \in Nat
    BY DEF Histories
<1> DEFINE left == IF FrontIsOldest(h) THEN Tail(h.segments) ELSE h.segments
           open == IF FrontIsOldest(h) THEN h.pending
                   ELSE [s \in Streams |-> IF h.pending[s].sequence = Oldest(h) THEN NoLine
                                           ELSE h.pending[s]]
<1>2. /\ k.segments = (IF FrontIsOldest(h) THEN Tail(h.segments) ELSE h.segments)
      /\ k.pending = (IF FrontIsOldest(h) THEN h.pending
                      ELSE [s \in Streams |-> IF h.pending[s].sequence = Oldest(h) THEN NoLine
                                              ELSE h.pending[s]])
      /\ k.bytes = h.bytes - OldestBytes(h) /\ k.truncated = TRUE /\ k.generation = h.generation + 1
      /\ k.latest = h.latest
    BY DEF WithoutOldest, Histories
<1>9. k = [h EXCEPT !.segments = left, !.pending = open, !.bytes = h.bytes - OldestBytes(h),
                    !.truncated = TRUE, !.generation = h.generation + 1]
    BY DEF WithoutOldest
<1>10. left \in Seq(Segments) /\ open \in [Streams -> Lines] /\ h.bytes - OldestBytes(h) \in Nat
           => k \in Histories
    <2> HIDE DEF left, open, k
    <2>1. TRUE \in BOOLEAN /\ h.generation + 1 \in Nat
        BY <1>1
    <2> QED
        BY <1>9, <2>1, HistoryChanged
<1> HIDE DEF k
<1>3. h.bytes = Retained(h.segments) + Raws(h.pending)
    BY DEF HistorySound
<1>4. Retained(h.segments) \in Nat /\ Raws(h.pending) \in Nat
    BY <1>1, RetainedIs, RawsAre
<1>5. CASE FrontIsOldest(h)
    <2>1. h.segments # <<>>
        BY <1>5 DEF FrontIsOldest
    <2>2. /\ h.segments[1] \in Segments /\ Tail(h.segments) \in Seq(Segments)
          /\ Retained(h.segments) = SizeOfAll(h.segments[1].records) + Retained(Tail(h.segments))
          /\ Names(Tail(h.segments)) \subseteq Names(h.segments)
          /\ Ordered(h.segments) => Ordered(Tail(h.segments))
        BY <1>1, <2>1, TailIs
    <2>3. k.segments = Tail(h.segments) /\ k.pending = h.pending
        BY <1>2, <1>5
    <2>4. OldestBytes(h) = SizeOfAll(h.segments[1].records)
        BY <1>5 DEF OldestBytes
    <2>5. SizeOfAll(h.segments[1].records) \in Nat /\ SizeOfAll(h.segments[1].records) >= 1
        BY <2>2, SegmentsAre
    <2>6. Retained(Tail(h.segments)) \in Nat
        BY <2>2, RetainedIs
    <2>7. /\ OldestBytes(h) \in Nat /\ OldestBytes(h) >= 1 /\ OldestBytes(h) <= h.bytes
          /\ k.bytes \in Nat /\ k.bytes = Retained(k.segments) + Raws(k.pending)
        BY <1>2, <1>3, <1>4, <2>2, <2>3, <2>4, <2>5, <2>6
    <2>8. k \in Histories
        BY <1>1, <1>2, <1>5, <1>10, <2>2, <2>7
    <2>9. HistorySound(k, next)
        BY <2>2, <2>3, <2>7 DEF HistorySound, Open
    <2> QED
        BY <1>2, <2>2, <2>3, <2>7, <2>8, <2>9 DEF k
<1>6. CASE ~FrontIsOldest(h)
    <2>1. PICK s \in Open(h) : h.pending[s].sequence = Oldest(h)
        BY <1>6, OldestIs
    <2>2. s \in Streams /\ h.pending[s] # NoLine
        BY DEF Open
    <2>3. h.pending[s].sequence >= 1 /\ h.pending[s].raw >= 1
        BY DEF HistorySound
    <2>4. ASSUME NEW t \in Streams, h.pending[t].sequence = Oldest(h)
          PROVE  t = s
        <3>1. h.pending[t] # NoLine
            BY <2>1, <2>3, <2>4, NoLineIs
        <3>2. t \in Open(h)
            BY <3>1 DEF Open
        <3> QED
            BY <2>1, <2>4, <3>2 DEF HistorySound
    <2>5. k.segments = h.segments
        BY <1>2, <1>6
    <2>6. k.pending = [t \in Streams |-> IF h.pending[t].sequence = Oldest(h) THEN NoLine ELSE h.pending[t]]
        BY <1>2, <1>6
    <2>7. /\ k.pending[s] = NoLine
          /\ \A t \in Streams \ {s} : k.pending[t] = h.pending[t]
          /\ k.pending \in [Streams -> Lines]
        BY <1>1, <2>1, <2>2, <2>4, <2>6, NoLineIs
    <2>8. OldestBytes(h) = h.pending[s].raw
        <3>1. (CHOOSE t \in Streams : h.pending[t].sequence = Oldest(h)) = s
            BY <2>1, <2>2, <2>4
        <3> QED
            BY <1>6, <3>1 DEF OldestBytes
    <2>9. /\ Raws(k.pending) \in Nat /\ Raws(k.pending) + h.pending[s].raw = Raws(h.pending) + k.pending[s].raw
          /\ h.pending[s].raw <= Raws(h.pending) /\ h.pending[s].raw \in Nat
        BY <1>1, <2>2, <2>7, RawsChange, Zenon
    <2>10. /\ OldestBytes(h) \in Nat /\ OldestBytes(h) >= 1 /\ OldestBytes(h) <= h.bytes
           /\ k.bytes \in Nat /\ k.bytes = Retained(k.segments) + Raws(k.pending)
        BY <1>2, <1>3, <1>4, <2>3, <2>5, <2>8, <2>9, <2>7, NoLineIs
    <2>11. k \in Histories
        BY <1>1, <1>2, <1>6, <1>10, <2>6, <2>7, <2>10
    <2>12. /\ Open(k) \subseteq Open(h) /\ \A t \in Open(k) : k.pending[t] = h.pending[t]
        BY <2>7 DEF Open
    <2>13. HistorySound(k, next)
        BY <2>5, <2>10, <2>12 DEF HistorySound
    <2> QED
        BY <1>2, <2>5, <2>10, <2>11, <2>13 DEF k
<1> QED
    BY <1>5, <1>6

(* What a trimmed Project has left.                                        *)
TrimsHistory(h, k) ==
    /\ k.bytes <= h.bytes
    /\ k.generation >= h.generation
    /\ k.generation = h.generation => k.segments = h.segments
    /\ Names(k.segments) \subseteq Names(h.segments)

Trims(pr, q) ==
    /\ q.next = pr.next
    /\ \A w \in Writers : TrimsHistory(pr.of[w], q.of[w])

LEMMA ProjectIs ==
    ASSUME NEW pr, ProjectSound(pr)
    PROVE  /\ pr \in Projects /\ pr.of \in [Writers -> Histories] /\ pr.bytes \in Nat
           /\ pr.next \in Nat \ {0} /\ pr.bytes = Total(pr.of)
           /\ \A w \in Writers :
                  /\ pr.of[w] \in Histories /\ HistorySound(pr.of[w], pr.next)
                  /\ pr.of[w].bytes \in Nat /\ pr.of[w].generation \in Nat /\ pr.of[w].latest \in Nat
                  /\ pr.of[w].segments \in Seq(Segments) /\ pr.of[w].pending \in [Streams -> Lines]
<1>1. pr \in Projects /\ pr.of \in [Writers -> Histories] /\ pr.bytes \in Nat /\ pr.next \in Nat \ {0}
    BY DEF ProjectSound, Projects
<1>2. \A w \in Writers :
          /\ pr.of[w].bytes \in Nat /\ pr.of[w].generation \in Nat /\ pr.of[w].latest \in Nat
          /\ pr.of[w].segments \in Seq(Segments) /\ pr.of[w].pending \in [Streams -> Lines]
    BY <1>1 DEF Histories
<1> QED
    BY <1>1, <1>2 DEF ProjectSound

LEMMA TrimsItself ==
    ASSUME NEW pr, ProjectSound(pr)
    PROVE  Trims(pr, pr)
BY ProjectIs DEF Trims, TrimsHistory

LEMMA TrimsFurther ==
    ASSUME NEW a, NEW b, NEW c, ProjectSound(a), ProjectSound(b), ProjectSound(c), Trims(a, b), Trims(b, c)
    PROVE  Trims(a, c)
<1>1. ASSUME NEW w \in Writers
      PROVE  TrimsHistory(a.of[w], c.of[w])
    <2>1. /\ a.of[w].bytes \in Nat /\ b.of[w].bytes \in Nat /\ c.of[w].bytes \in Nat
          /\ a.of[w].generation \in Nat /\ b.of[w].generation \in Nat /\ c.of[w].generation \in Nat
        BY ProjectIs
    <2>2. TrimsHistory(a.of[w], b.of[w]) /\ TrimsHistory(b.of[w], c.of[w])
        BY DEF Trims
    <2> QED
        BY <2>1, <2>2 DEF TrimsHistory
<1> QED
    BY <1>1 DEF Trims

(* What is done to one Process, and what becomes of the others: whoever    *)
(* lost something had as much before as anybody has now.                   *)
LeavesOthers(pr, q, w) == \A v \in Writers \ {w} : q.of[v] = pr.of[v]

LargestWent(pr, q, some) ==
    \A v \in some :
        q.of[v] = pr.of[v] \/ \A u \in Writers : q.of[u].bytes <= pr.of[v].bytes

LEMMA LargestWentFurther ==
    ASSUME NEW a, NEW b, NEW c, ProjectSound(a), ProjectSound(b), ProjectSound(c),
           NEW some \in SUBSET Writers, LargestWent(a, b, some), LargestWent(b, c, some),
           \A u \in Writers : c.of[u].bytes <= b.of[u].bytes
    PROVE  LargestWent(a, c, some)
<1> SUFFICES ASSUME NEW v \in some, c.of[v] # a.of[v], NEW u \in Writers
             PROVE  c.of[u].bytes <= a.of[v].bytes
    BY DEF LargestWent
<1>1. v \in Writers
    OBVIOUS
<1>2. a.of[v].bytes \in Nat /\ b.of[u].bytes \in Nat /\ c.of[u].bytes \in Nat
    BY <1>1, ProjectIs
<1>3. CASE b.of[v] = a.of[v]
    BY <1>3 DEF LargestWent
<1>4. CASE b.of[v] # a.of[v]
    <2>1. b.of[u].bytes <= a.of[v].bytes /\ c.of[u].bytes <= b.of[u].bytes
        BY <1>4 DEF LargestWent
    <2> QED
        BY <1>2, <2>1
<1> QED
    BY <1>3, <1>4

LEMMA EvictFromIs ==
    ASSUME HistoryAssumption, NEW pr, ProjectSound(pr), NEW w \in Writers, Sequences(pr.of[w]) # {}
    PROVE  /\ ProjectSound(EvictFrom(pr, w)) /\ Trims(pr, EvictFrom(pr, w))
           /\ LeavesOthers(pr, EvictFrom(pr, w), w)
           /\ EvictFrom(pr, w).bytes < pr.bytes
           /\ EvictFrom(pr, w).of[w].bytes < pr.of[w].bytes
<1> DEFINE h == pr.of[w]
           k == WithoutOldest(h)
           bytes == pr.bytes - OldestBytes(h)
           q == EvictFrom(pr, w)
<1>1. /\ pr.of \in [Writers -> Histories] /\ pr.bytes \in Nat /\ pr.next \in Nat /\ pr \in Projects
      /\ h \in Histories /\ HistorySound(h, pr.next) /\ h.bytes \in Nat /\ h.generation \in Nat
    BY ProjectIs
<1>3. /\ OldestBytes(h) \in Nat /\ OldestBytes(h) >= 1 /\ OldestBytes(h) <= h.bytes
      /\ k \in Histories /\ HistorySound(k, pr.next)
      /\ k.bytes = h.bytes - OldestBytes(h) /\ k.generation = h.generation + 1
      /\ Names(k.segments) \subseteq Names(h.segments)
    <2> HIDE DEF k, h
    <2> QED
        BY <1>1, WithoutOldestIs DEF h, k
<1>4. bytes \in Nat /\ bytes < pr.bytes /\ bytes + h.bytes = pr.bytes + k.bytes /\ pr.next >= pr.next
    <2>1. h.bytes <= pr.bytes
        BY PartOfTheTotal
    <2> QED
        BY <1>1, <1>3, <2>1
<1>2. /\ q \in Projects /\ q.of = [pr.of EXCEPT ![w] = k] /\ q.bytes = bytes /\ q.next = pr.next
    <2>1. q = [pr EXCEPT !.of[w] = k, !.bytes = bytes]
        BY DEF EvictFrom
    <2>2. pr \in Projects /\ k \in Histories /\ bytes \in Nat
        BY <1>1, <1>3, <1>4
    <2> HIDE DEF k, bytes, q
    <2> QED
        BY <2>1, <2>2 DEF Projects
<1> HIDE DEF h, k, bytes, q
<1>5. /\ ProjectSound(q) /\ q.of[w] = k
      /\ \A v \in Writers \ {w} : q.of[v] = pr.of[v]
    <2>1. q.bytes + pr.of[w].bytes = pr.bytes + k.bytes
        BY <1>2, <1>4 DEF h
    <2>2. q.next >= pr.next /\ HistorySound(k, q.next)
        BY <1>2, <1>3, <1>4
    <2>3. q.of[w] = k /\ \A v \in Writers \ {w} : q.of[v] = pr.of[v]
        BY <1>1, <1>2
    <2> QED
        BY <1>2, <1>3, <2>1, <2>2, <2>3, ReplacedIsSound
<1>6. k.bytes < h.bytes
    BY <1>1, <1>3
<1>7. ASSUME NEW v \in Writers
      PROVE  TrimsHistory(pr.of[v], q.of[v])
    <2>1. CASE v = w
        <3>1. TrimsHistory(h, k)
            BY <1>1, <1>3, <1>6 DEF TrimsHistory
        <3> QED
            BY <1>5, <2>1, <3>1 DEF h
    <2>2. CASE v # w
        <3>1. q.of[v] = pr.of[v]
            BY <1>5, <2>2
        <3>2. TrimsHistory(pr.of[v], pr.of[v])
            BY TrimsItself DEF Trims
        <3> QED
            BY <3>1, <3>2
    <2> QED
        BY <2>1, <2>2
<1>8. Trims(pr, q)
    BY <1>2, <1>7 DEF Trims
<1>9. LeavesOthers(pr, q, w)
    BY <1>5 DEF LeavesOthers
<1> QED
    BY <1>2, <1>4, <1>5, <1>6, <1>8, <1>9 DEF h, q

LEMMA BytesAreSomewhere ==
    ASSUME HistoryAssumption, NEW pr, ProjectSound(pr), NEW w \in Writers, pr.of[w].bytes > 0
    PROVE  Sequences(pr.of[w]) # {}
<1>1. pr.of[w] \in Histories /\ HistorySound(pr.of[w], pr.next) /\ pr.of[w].bytes \in Nat
    BY ProjectIs
<1>2. Sequences(pr.of[w]) = {} => pr.of[w].bytes = 0
    BY <1>1, NothingIsLeft
<1> QED
    BY <1>1, <1>2

-----------------------------------------------------------------------------
(* The history to trim.                                                    *)

LEMMA OldestIsNat ==
    ASSUME NEW pr, ProjectSound(pr), NEW w \in Writers
    PROVE  Oldest(pr.of[w]) \in Nat
<1>1. pr.of[w] \in Histories /\ HistorySound(pr.of[w], pr.next)
    BY ProjectIs
<1>2. CASE Sequences(pr.of[w]) = {}
    BY <1>2 DEF Oldest
<1>3. CASE Sequences(pr.of[w]) # {}
    BY <1>1, <1>3, OldestIs
<1> QED
    BY <1>2, <1>3

(* While something is counted there is a history to trim.                  *)
LEMMA CandidateIs ==
    ASSUME HistoryAssumption, NEW pr, ProjectSound(pr), \E w \in Writers : pr.of[w].bytes > 0
    PROVE  /\ Candidate(pr) \in Writers /\ pr.of[Candidate(pr)].bytes > 0
           /\ \A u \in Writers : pr.of[u].bytes <= pr.of[Candidate(pr)].bytes
<1> DEFINE filled == {w \in Writers : pr.of[w].bytes > 0}
           F == {s \in SUBSET Writers : s = {} \/ \E v \in s : \A w \in s : LargestFirst(pr, v, w)}
<1>1. \A w \in Writers : pr.of[w].bytes \in Nat /\ Oldest(pr.of[w]) \in Nat
    BY ProjectIs, OldestIsNat
<1>2. /\ \A v \in Writers : LargestFirst(pr, v, v)
      /\ \A v, w \in Writers : LargestFirst(pr, v, w) \/ LargestFirst(pr, w, v)
      /\ \A u, v, w \in Writers : LargestFirst(pr, u, v) /\ LargestFirst(pr, v, w) => LargestFirst(pr, u, w)
    BY <1>1 DEF LargestFirst
<1>3. ASSUME NEW s \in SUBSET Writers, s # {}, \A x \in s : s \ {x} \in F
      PROVE  s \in F
    <2>1. PICK x \in s : TRUE
        BY <1>3
    <2>2. s \ {x} \in F /\ x \in Writers
        BY <1>3
    <2>3. CASE s \ {x} = {}
        <3>1. \A w \in s : w = x
            BY <2>3
        <3>2. \A w \in s : LargestFirst(pr, x, w)
            BY <1>2, <2>2, <3>1
        <3> QED
            BY <2>1, <3>2
    <2>4. CASE s \ {x} # {}
        <3>1. PICK v \in s \ {x} : \A w \in s \ {x} : LargestFirst(pr, v, w)
            BY <2>2, <2>4
        <3>2. v \in Writers /\ v \in s
            BY <3>1
        <3>3. CASE LargestFirst(pr, v, x)
            <4>1. \A w \in s : LargestFirst(pr, v, w)
                BY <3>1, <3>3
            <4> QED
                BY <3>2, <4>1
        <3>4. CASE LargestFirst(pr, x, v)
            <4>1. \A w \in s : LargestFirst(pr, x, w)
                BY <1>2, <2>2, <3>1, <3>2, <3>4
            <4> QED
                BY <2>1, <4>1
        <3> QED
            BY <1>2, <2>2, <3>2, <3>3, <3>4
    <2> QED
        BY <2>3, <2>4
<1>4. filled \in SUBSET Writers /\ filled # {} /\ IsFiniteSet(Writers) /\ {} \in F
    BY DEF HistoryAssumption
<1>5. filled \in F
    <2> HIDE DEF F, filled
    <2>1. \A s \in SUBSET Writers : s # {} /\ (\A x \in s : s \ {x} \in F) => s \in F
        BY <1>3
    <2>2. SUBSET Writers \subseteq F
        BY <1>4, <2>1, EveryFiniteSubset, Zenon
    <2> QED
        BY <1>4, <2>2
<1>6. \E v \in filled : \A w \in filled : LargestFirst(pr, v, w)
    BY <1>4, <1>5
<1>7. Candidate(pr) \in filled /\ \A w \in filled : LargestFirst(pr, Candidate(pr), w)
    BY <1>6, Zenon DEF Candidate
<1>8. ASSUME NEW u \in Writers
      PROVE  pr.of[u].bytes <= pr.of[Candidate(pr)].bytes
    <2>1. pr.of[u].bytes \in Nat /\ pr.of[Candidate(pr)].bytes \in Nat
        BY <1>1, <1>7
    <2>2. CASE u \in filled
        <3>1. LargestFirst(pr, Candidate(pr), u)
            BY <1>7, <2>2
        <3> QED
            BY <2>1, <3>1 DEF LargestFirst
    <2>3. CASE u \notin filled
        BY <2>1, <2>3
    <2> QED
        BY <2>2, <2>3
<1> QED
    BY <1>7, <1>8

-----------------------------------------------------------------------------
(* Loops that end.                                                         *)

Shrinks(S, step, size, stop) ==
    /\ step \in [S -> S] /\ size \in [S -> Nat]
    /\ \A x \in S : x \in stop \/ size[step[x]] < size[x]
    /\ \A x \in S : x \in stop => step[x] \in stop

Follows(g, S, step, start, n) ==
    /\ start \in S /\ n \in Nat /\ g[0] = start
    /\ \A i \in 1..n : g[i - 1] \in S => g[i] = step[g[i - 1]]

LoopRun(f, S, step, start, n) ==
    f \in [0..n -> S] /\ f[0] = start /\ \A i \in 1..n : f[i] = step[f[i - 1]]

(* A loop that takes a byte in each turn has stopped after as many turns   *)
(* as there were bytes.                                                    *)
LEMMA LoopEnds ==
    ASSUME NEW S, NEW step, NEW size, NEW stop, NEW start, NEW n, NEW g,
           Shrinks(S, step, size, stop), Follows(g, S, step, start, n), size[start] <= n
    PROVE  g[n] \in S /\ g[n] \in stop
<1> USE DEF Shrinks, Follows
<1> DEFINE T == {k \in Nat : k <= n => g[k] \in S /\ (g[k] \in stop \/ size[g[k]] + k <= size[start])}
<1>1. 0 \in T
    BY Z3
<1>2. ASSUME NEW k \in Nat, k \in T
      PROVE  k + 1 \in T
    <2> SUFFICES ASSUME k + 1 <= n
                 PROVE  g[k + 1] \in S /\ (g[k + 1] \in stop \/ size[g[k + 1]] + (k + 1) <= size[start])
        OBVIOUS
    <2>1. k + 1 \in 1..n /\ (k + 1) - 1 = k
        OBVIOUS
    <2>2. g[k] \in S /\ (g[k] \in stop \/ size[g[k]] + k <= size[start])
        BY <1>2
    <2>3. g[k + 1] = step[g[k]]
        BY <2>1, <2>2
    <2>4. step[g[k]] \in S /\ size[g[k]] \in Nat /\ size[step[g[k]]] \in Nat /\ size[start] \in Nat
        BY <2>2
    <2> QED
        BY <2>2, <2>3, <2>4
<1>3. n \in T
    <2> HIDE DEF T
    <2> QED
        BY <1>1, <1>2, FromZero
<1>4. g[n] \in S /\ (g[n] \in stop \/ size[g[n]] + n <= size[start])
    BY <1>3
<1>5. step[g[n]] \in S /\ size[g[n]] \in Nat /\ size[step[g[n]]] \in Nat /\ size[start] \in Nat
    BY <1>4
<1> QED
    BY <1>4, <1>5

LEMMA RangeIsFinite ==
    ASSUME NEW S, NEW s \in Seq(S)
    PROVE  IsFiniteSet(ToSet(s)) /\ ToSet(s) \subseteq S
<1>1. Len(s) \in Nat /\ DOMAIN s = 1..Len(s) /\ \A i \in 1..Len(s) : s[i] \in S
    BY LenProperties, ElementOfSeq
<1>2. IsFiniteSet(1..Len(s))
    BY <1>1, FS_Interval
<1>3. s \in Surjection(1..Len(s), ToSet(s))
    <2>1. s \in [1..Len(s) -> ToSet(s)]
        BY <1>1, LenProperties DEF ToSet
    <2>2. \A x \in ToSet(s) : \E i \in 1..Len(s) : s[i] = x
        BY <1>1 DEF ToSet
    <2> QED
        BY <2>1, <2>2 DEF Surjection
<1> QED
    BY <1>1, <1>2, <1>3, FS_Surjection DEF ToSet

LEMMA SegmentsOfAll ==
    ASSUME HistoryAssumption, NEW f \in [Writers -> Seq(Segments)]
    PROVE  /\ IsFiniteSet(UNION {ToSet(f[w]) : w \in Writers})
           /\ UNION {ToSet(f[w]) : w \in Writers} \subseteq Segments
<1> DEFINE g == [w \in Writers |-> ToSet(f[w])]
           T == {ToSet(f[w]) : w \in Writers}
<1>1. IsFiniteSet(Writers)
    BY DEF HistoryAssumption
<1>2. g \in Surjection(Writers, T)
    BY DEF Surjection
<1>3. \A w \in Writers : IsFiniteSet(ToSet(f[w])) /\ ToSet(f[w]) \subseteq Segments
    BY RangeIsFinite
<1>4. IsFiniteSet(T)
    BY <1>1, <1>2, FS_Surjection
<1>5. \A t \in T : IsFiniteSet(t)
    BY <1>3
<1>6. IsFiniteSet(UNION T)
    BY <1>4, <1>5, FS_UNION
<1> QED
    BY <1>3, <1>6

LEMMA OwnedIs ==
    ASSUME HistoryAssumption, NEW pr, ProjectSound(pr)
    PROVE  IsFiniteSet(Owned(pr)) /\ Owned(pr) \subseteq Segments
<1> DEFINE f == [w \in Writers |-> pr.of[w].segments]
<1>1. f \in [Writers -> Seq(Segments)]
    BY ProjectIs
<1>2. \A w \in Writers : f[w] = pr.of[w].segments
    OBVIOUS
<1> HIDE DEF f
<1>3. Owned(pr) = UNION {ToSet(f[w]) : w \in Writers}
    BY <1>2 DEF Owned
<1> QED
    BY <1>1, <1>3, SegmentsOfAll

Snapshots == [segments : Seq(Segments), generation : Nat]

LEMMA PinnedIs ==
    ASSUME HistoryAssumption, views \in [Writers -> Snapshots]
    PROVE  IsFiniteSet(Pinned) /\ Pinned \subseteq Segments
<1> DEFINE f == [w \in Writers |-> views[w].segments]
<1>1. f \in [Writers -> Seq(Segments)]
    BY DEF Snapshots
<1>2. \A w \in Writers : f[w] = views[w].segments
    OBVIOUS
<1> HIDE DEF f
<1>3. Pinned = UNION {ToSet(f[w]) : w \in Writers}
    BY <1>2 DEF Pinned
<1> QED
    BY <1>1, <1>3, SegmentsOfAll

Pins(pins) == IsFiniteSet(pins) /\ pins \subseteq Segments

LEMMA AllocationIs ==
    ASSUME HistoryAssumption, NEW pr, ProjectSound(pr), NEW pins, Pins(pins)
    PROVE  Counts([s \in Owned(pr) \cup pins |-> Charge(s)]) /\ Allocation(pr, pins) \in Nat
<1> DEFINE D == Owned(pr) \cup pins
           f == [s \in D |-> Charge(s)]
<1>1. IsFiniteSet(D)
    BY OwnedIs, FS_Union DEF Pins
<1>2. \A s \in D : s \in Segments
    BY OwnedIs DEF Pins
<1>3. \A s \in D : Charge(s) \in Nat
    BY <1>2, SegmentsAre DEF Charge, SegmentOverhead
<1> HIDE DEF D
<1>4. Counts(f)
    BY <1>1, <1>3 DEF Counts
<1> HIDE DEF f
<1>5. SumFunction(f) \in Nat
    BY <1>4, SumIs
<1> QED
    BY <1>4, <1>5 DEF Allocation, D, f

LEMMA AllocationIsSmaller ==
    ASSUME HistoryAssumption, NEW pr, ProjectSound(pr), NEW pins, Pins(pins),
           NEW q, ProjectSound(q), NEW left, Owned(q) \cup left \subseteq Owned(pr) \cup pins
    PROVE  Allocation(q, left) \in Nat /\ Allocation(q, left) <= Allocation(pr, pins)
<1> DEFINE D == Owned(pr) \cup pins
           E == Owned(q) \cup left
           f == [s \in D |-> Charge(s)]
           g == [s \in E |-> Charge(s)]
<1>1. Counts(f)
    BY AllocationIs
<1>2. DOMAIN g \subseteq DOMAIN f /\ \A s \in DOMAIN g : g[s] = f[s]
    OBVIOUS
<1> HIDE DEF f, g
<1>3. SumFunction(g) \in Nat /\ SumFunction(g) <= SumFunction(f)
    BY <1>1, <1>2, SumSmaller
<1> QED
    BY <1>3 DEF Allocation, f, g

-----------------------------------------------------------------------------
(* A Process is trimmed to its limit, and then the Project to its own.     *)

TrimmedOf(pr) == {q \in Projects : ProjectSound(q) /\ Trims(pr, q)}

ProcessSteps(f, n, pr, w) ==
    f = [i \in 0..n |-> IF i = 0 THEN pr ELSE TrimmedProcess(f[i - 1], w)]

ProjectSteps(f, n, pr, pins) ==
    f = [i \in 0..n |-> IF i = 0 THEN pr ELSE TrimmedProject(f[i - 1], pins)]

LEMMA WithinProcessSteps ==
    ASSUME NEW pr, NEW w, NEW f, ProcessSteps(f, pr.of[w].bytes, pr, w)
    PROVE  \E g : ProcessSteps(g, pr.of[w].bytes, pr, w) /\ WithinProcess(pr, w) = g[pr.of[w].bytes]
<1> DEFINE g == CHOOSE h : ProcessSteps(h, pr.of[w].bytes, pr, w)
<1>1. ProcessSteps(g, pr.of[w].bytes, pr, w)
    OBVIOUS
<1>2. WithinProcess(pr, w) = g[pr.of[w].bytes]
    BY Zenon DEF WithinProcess, ProcessSteps
<1> QED
    BY <1>1, <1>2

LEMMA WithinProjectSteps ==
    ASSUME NEW pr, NEW pins, NEW f, ProjectSteps(f, pr.bytes, pr, pins), OverProject(pr, pins)
    PROVE  \E g : ProjectSteps(g, pr.bytes, pr, pins) /\ WithinProject(pr, pins) = g[pr.bytes]
<1> DEFINE g == CHOOSE h : ProjectSteps(h, pr.bytes, pr, pins)
<1>1. ProjectSteps(g, pr.bytes, pr, pins)
    OBVIOUS
<1>2. WithinProject(pr, pins) = g[pr.bytes]
    BY Zenon DEF WithinProject, ProjectSteps
<1> QED
    BY <1>1, <1>2

LEMMA TrimmedIs ==
    ASSUME HistoryAssumption, NEW pr, ProjectSound(pr), NEW q \in TrimmedOf(pr)
    PROVE  /\ ProjectSound(q) /\ q.bytes \in Nat
           /\ \A w \in Writers : Sequences(q.of[w]) # {} =>
                  /\ EvictFrom(q, w) \in TrimmedOf(pr) /\ Trims(q, EvictFrom(q, w))
                  /\ LeavesOthers(q, EvictFrom(q, w), w)
                  /\ EvictFrom(q, w).bytes < q.bytes
                  /\ EvictFrom(q, w).of[w].bytes < q.of[w].bytes
<1>1. ProjectSound(q) /\ Trims(pr, q)
    BY DEF TrimmedOf
<1>2. q.bytes \in Nat
    BY <1>1, ProjectIs
<1>3. ASSUME NEW w \in Writers, Sequences(q.of[w]) # {}
      PROVE  /\ EvictFrom(q, w) \in TrimmedOf(pr) /\ Trims(q, EvictFrom(q, w))
             /\ LeavesOthers(q, EvictFrom(q, w), w)
             /\ EvictFrom(q, w).bytes < q.bytes
             /\ EvictFrom(q, w).of[w].bytes < q.of[w].bytes
    <2>1. /\ ProjectSound(EvictFrom(q, w)) /\ Trims(q, EvictFrom(q, w))
          /\ LeavesOthers(q, EvictFrom(q, w), w)
          /\ EvictFrom(q, w).bytes < q.bytes
          /\ EvictFrom(q, w).of[w].bytes < q.of[w].bytes
        BY <1>1, <1>3, EvictFromIs
    <2>2. Trims(pr, EvictFrom(q, w))
        BY <1>1, <2>1, TrimsFurther
    <2>3. EvictFrom(q, w) \in Projects
        BY <2>1, ProjectIs
    <2> QED
        BY <2>1, <2>2, <2>3 DEF TrimmedOf
<1> QED
    BY <1>1, <1>2, <1>3

(* The steps of a loop on a set.                                           *)
LEMMA LoopSteps ==
    ASSUME NEW S, NEW start \in S, NEW step \in [S -> S], NEW n \in Nat
    PROVE  \E f : LoopRun(f, S, step, start, n)
<1> DEFINE steps == [i \in 1..n |-> step]
<1>1. steps \in [1..n -> [S -> S]]
    OBVIOUS
<1>2. PICK f \in Iterations(n, S, steps) : f[0] = start
    <2> HIDE DEF steps
    <2> QED
        BY <1>1, StepsExist
<1>3. f \in [0..n -> S] /\ \A i \in 1..n : f[i] = step[f[i - 1]]
    BY <1>2 DEF Iterations
<1> QED
    BY <1>2, <1>3 DEF LoopRun

LEMMA WithinProcessIs ==
    ASSUME HistoryAssumption, NEW pr, ProjectSound(pr), NEW w \in Writers
    PROVE  /\ ProjectSound(WithinProcess(pr, w)) /\ Trims(pr, WithinProcess(pr, w))
           /\ WithinProcess(pr, w).of[w].bytes <= PerProcess
           /\ LeavesOthers(pr, WithinProcess(pr, w), w)
<1> DEFINE S == {q \in TrimmedOf(pr) : LeavesOthers(pr, q, w)}
           n == pr.of[w].bytes
           step == [q \in S |-> TrimmedProcess(q, w)]
           size == [q \in S |-> q.of[w].bytes]
           stop == {q \in S : ~OverProcess(q, w)}
<1>1. pr \in S /\ n \in Nat
    BY ProjectIs, TrimsItself DEF TrimmedOf, LeavesOthers
<1>2. ASSUME NEW q \in S
      PROVE  /\ TrimmedProcess(q, w) \in S /\ q.of[w].bytes \in Nat
             /\ OverProcess(q, w) => TrimmedProcess(q, w).of[w].bytes < q.of[w].bytes
             /\ ~OverProcess(q, w) => TrimmedProcess(q, w) = q
    <2>1. q.of[w].bytes \in Nat
        BY TrimmedIs, ProjectIs
    <2>2. CASE OverProcess(q, w)
        <3>1. Sequences(q.of[w]) # {} /\ TrimmedProcess(q, w) = EvictFrom(q, w)
            BY <2>2 DEF OverProcess, TrimmedProcess
        <3>2. /\ EvictFrom(q, w) \in TrimmedOf(pr) /\ LeavesOthers(q, EvictFrom(q, w), w)
              /\ EvictFrom(q, w).of[w].bytes < q.of[w].bytes
            BY <3>1, TrimmedIs
        <3>3. LeavesOthers(pr, EvictFrom(q, w), w)
            BY <3>2 DEF LeavesOthers
        <3> QED
            BY <2>1, <2>2, <3>1, <3>2, <3>3
    <2>3. CASE ~OverProcess(q, w)
        BY <2>1, <2>3 DEF TrimmedProcess
    <2> QED
        BY <2>2, <2>3
<1>3. step \in [S -> S] /\ size \in [S -> Nat] /\ size[pr] = n /\ size[pr] <= n
    BY <1>1, <1>2
<1>4. \A q \in S : step[q] = TrimmedProcess(q, w) /\ size[q] = q.of[w].bytes
    OBVIOUS
<1>5. \A q \in S : q \in stop <=> ~OverProcess(q, w)
    OBVIOUS
<1>a. n = pr.of[w].bytes
    OBVIOUS
<1> HIDE DEF S, step, size, stop, n
<1>6. /\ \A q \in S : q \in stop \/ size[step[q]] < size[q]
      /\ \A q \in S : q \in stop => step[q] \in stop
    <2>1. ASSUME NEW q \in S
          PROVE  (q \in stop \/ size[step[q]] < size[q]) /\ (q \in stop => step[q] \in stop)
        <3>1. step[q] = TrimmedProcess(q, w) /\ step[q] \in S /\ size[q] = q.of[w].bytes
            BY <1>2, <1>4
        <3>2. size[step[q]] = TrimmedProcess(q, w).of[w].bytes
            BY <1>4, <3>1
        <3> QED
            BY <1>2, <1>5, <3>1, <3>2
    <2> QED
        BY <2>1
<1>7. PICK f : LoopRun(f, S, step, pr, n)
    BY <1>1, <1>3, LoopSteps
<1>8. \A i \in 0..n : f[i] = IF i = 0 THEN pr ELSE TrimmedProcess(f[i - 1], w)
    <2>1. \A i \in 0..n : i # 0 => i - 1 \in 0..n /\ i \in 1..n
        BY <1>1
    <2> QED
        BY <1>4, <1>7, <2>1 DEF LoopRun
<1>9. ProcessSteps(f, n, pr, w)
    BY <1>7, <1>8 DEF ProcessSteps, LoopRun
<1>10. PICK g : ProcessSteps(g, n, pr, w) /\ WithinProcess(pr, w) = g[n]
    BY <1>9, <1>a, WithinProcessSteps
<1>11. \A i \in 0..n : g[i] = IF i = 0 THEN pr ELSE TrimmedProcess(g[i - 1], w)
    BY <1>10 DEF ProcessSteps
<1>12. g[n] \in S /\ g[n] \in stop
    <2>1. g[0] = pr
        BY <1>1, <1>11
    <2>2. \A i \in 1..n : g[i - 1] \in S => g[i] = step[g[i - 1]] /\ g[i] \in S
        <3>1. \A i \in 1..n : i \in 0..n /\ i # 0
            BY <1>1
        <3> QED
            BY <1>2, <1>4, <1>11, <3>1
    <2>3. Shrinks(S, step, size, stop)
        BY <1>3, <1>6 DEF Shrinks
    <2>4. Follows(g, S, step, pr, n)
        BY <1>1, <2>1, <2>2 DEF Follows
    <2> QED
        BY <1>3, <2>3, <2>4, LoopEnds
<1>13. ProjectSound(g[n]) /\ Trims(pr, g[n]) /\ LeavesOthers(pr, g[n], w) /\ ~OverProcess(g[n], w)
    BY <1>5, <1>12 DEF S, TrimmedOf
<1>14. g[n].of[w].bytes <= PerProcess
    <2>1. g[n].of[w].bytes \in Nat /\ PerProcess \in Nat
        BY <1>13, ProjectIs DEF HistoryAssumption
    <2>2. CASE Sequences(g[n].of[w]) = {}
        <3>1. ~(g[n].of[w].bytes > 0)
            BY <1>13, <2>2, BytesAreSomewhere
        <3> QED
            BY <2>1, <3>1
    <2>3. CASE Sequences(g[n].of[w]) # {}
        BY <1>13, <2>1, <2>3 DEF OverProcess
    <2> QED
        BY <2>2, <2>3
<1> QED
    BY <1>10, <1>13, <1>14

LEMMA WithinProjectIs ==
    ASSUME HistoryAssumption, NEW pr, ProjectSound(pr), NEW pins, Pins(pins)
    PROVE  /\ ProjectSound(WithinProject(pr, pins)) /\ Trims(pr, WithinProject(pr, pins))
           /\ ~OverProject(WithinProject(pr, pins), pins)
           /\ LargestWent(pr, WithinProject(pr, pins), Writers)
<1> DEFINE S == {q \in TrimmedOf(pr) : LargestWent(pr, q, Writers)}
           n == pr.bytes
           step == [q \in S |-> TrimmedProject(q, pins)]
           size == [q \in S |-> q.bytes]
           stop == {q \in S : ~OverProject(q, pins)}
<1>1. pr \in S /\ n \in Nat
    BY ProjectIs, TrimsItself DEF TrimmedOf, LargestWent
<1>2. ASSUME NEW q \in S
      PROVE  /\ TrimmedProject(q, pins) \in S /\ q.bytes \in Nat
             /\ OverProject(q, pins) => TrimmedProject(q, pins).bytes < q.bytes
             /\ ~OverProject(q, pins) => TrimmedProject(q, pins) = q
    <2>1. q.bytes \in Nat /\ ProjectSound(q)
        BY TrimmedIs
    <2>2. CASE OverProject(q, pins)
        <3>1. /\ \E w \in Writers : q.of[w].bytes > 0
              /\ TrimmedProject(q, pins) = EvictFrom(q, Candidate(q))
            BY <2>2 DEF OverProject, TrimmedProject
        <3>2. Candidate(q) \in Writers /\ q.of[Candidate(q)].bytes > 0
            BY <2>1, <3>1, CandidateIs
        <3>3. Sequences(q.of[Candidate(q)]) # {}
            BY <2>1, <3>2, BytesAreSomewhere
        <3> DEFINE c == Candidate(q)
                   p == EvictFrom(q, c)
        <3>4. /\ p \in TrimmedOf(pr) /\ Trims(q, p) /\ LeavesOthers(q, p, c) /\ p.bytes < q.bytes
            BY <3>2, <3>3, TrimmedIs
        <3>5. c \in Writers /\ \A u \in Writers : q.of[u].bytes <= q.of[c].bytes
            BY <2>1, <3>1, CandidateIs
        <3>6. TrimmedProject(q, pins) = p
            BY <3>1
        <3> HIDE DEF c, p
        <3>7. ProjectSound(p)
            BY <3>4, TrimmedIs
        <3>8. \A u \in Writers : p.of[u].bytes <= q.of[u].bytes
            BY <3>4 DEF Trims, TrimsHistory
        <3>9. \A u \in Writers : p.of[u].bytes <= q.of[c].bytes
            <4>1. \A u \in Writers : p.of[u].bytes \in Nat /\ q.of[u].bytes \in Nat
                BY <2>1, <3>7, ProjectIs
            <4> QED
                BY <3>5, <3>8, <4>1
        <3>10. LargestWent(q, p, Writers)
            BY <3>4, <3>9 DEF LargestWent, LeavesOthers
        <3>11. LargestWent(pr, p, Writers)
            BY <2>1, <3>7, <3>8, <3>10, LargestWentFurther
        <3> QED
            BY <2>1, <2>2, <3>4, <3>6, <3>11
    <2>3. CASE ~OverProject(q, pins)
        BY <2>1, <2>3 DEF TrimmedProject
    <2> QED
        BY <2>2, <2>3
<1>3. step \in [S -> S] /\ size \in [S -> Nat] /\ size[pr] = n /\ size[pr] <= n
    BY <1>1, <1>2
<1>4. \A q \in S : step[q] = TrimmedProject(q, pins) /\ size[q] = q.bytes
    OBVIOUS
<1>5. \A q \in S : q \in stop <=> ~OverProject(q, pins)
    OBVIOUS
<1>a. n = pr.bytes
    OBVIOUS
<1> HIDE DEF S, step, size, stop, n
<1>6. /\ \A q \in S : q \in stop \/ size[step[q]] < size[q]
      /\ \A q \in S : q \in stop => step[q] \in stop
    <2>1. ASSUME NEW q \in S
          PROVE  (q \in stop \/ size[step[q]] < size[q]) /\ (q \in stop => step[q] \in stop)
        <3>1. step[q] = TrimmedProject(q, pins) /\ step[q] \in S /\ size[q] = q.bytes
            BY <1>2, <1>4
        <3>2. size[step[q]] = TrimmedProject(q, pins).bytes
            BY <1>4, <3>1
        <3> QED
            BY <1>2, <1>5, <3>1, <3>2
    <2> QED
        BY <2>1
<1>7. PICK f : LoopRun(f, S, step, pr, n)
    BY <1>1, <1>3, LoopSteps
<1>8. \A i \in 0..n : f[i] = IF i = 0 THEN pr ELSE TrimmedProject(f[i - 1], pins)
    <2>1. \A i \in 0..n : i # 0 => i - 1 \in 0..n /\ i \in 1..n
        BY <1>1
    <2> QED
        BY <1>4, <1>7, <2>1 DEF LoopRun
<1>9. ProjectSteps(f, n, pr, pins)
    BY <1>7, <1>8 DEF ProjectSteps, LoopRun
<1>10. \E q \in S : q \in stop /\ WithinProject(pr, pins) = q
    <2>1. CASE ~OverProject(pr, pins)
        <3>1. WithinProject(pr, pins) = pr
            BY <2>1, Zenon DEF WithinProject
        <3> QED
            BY <1>1, <1>5, <2>1, <3>1
    <2>2. CASE OverProject(pr, pins)
        <3>1. PICK g : ProjectSteps(g, n, pr, pins) /\ WithinProject(pr, pins) = g[n]
            BY <1>9, <1>a, <2>2, WithinProjectSteps
        <3>2. \A i \in 0..n : g[i] = IF i = 0 THEN pr ELSE TrimmedProject(g[i - 1], pins)
            BY <3>1 DEF ProjectSteps
        <3>3. g[0] = pr
            BY <1>1, <3>2
        <3>4. \A i \in 1..n : g[i - 1] \in S => g[i] = step[g[i - 1]] /\ g[i] \in S
            <4>1. \A i \in 1..n : i \in 0..n /\ i # 0
                BY <1>1
            <4> QED
                BY <1>2, <1>4, <3>2, <4>1
        <3>5. Shrinks(S, step, size, stop)
            BY <1>3, <1>6 DEF Shrinks
        <3>6. Follows(g, S, step, pr, n)
            BY <1>1, <3>3, <3>4 DEF Follows
        <3>7. g[n] \in S /\ g[n] \in stop
            BY <1>3, <3>5, <3>6, LoopEnds
        <3> QED
            BY <3>1, <3>7
    <2> QED
        BY <2>1, <2>2
<1>11. PICK q \in S : q \in stop /\ WithinProject(pr, pins) = q
    BY <1>10
<1>12. ProjectSound(q) /\ Trims(pr, q) /\ ~OverProject(q, pins) /\ LargestWent(pr, q, Writers)
    BY <1>5, <1>11 DEF S, TrimmedOf
<1> QED
    BY <1>11, <1>12

(* What Enforce leaves is within the limits.                               *)
Within(pr, pins) ==
    /\ \A w \in Writers : pr.of[w].bytes <= PerProcess
    /\ pr.bytes <= Global
    /\ Allocation(pr, pins) <= Global \/ pr.bytes = 0

(* After a trim both limits hold, and what is left was there before.       *)
LEMMA EnforceIs ==
    ASSUME HistoryAssumption, NEW pr, ProjectSound(pr), NEW w \in Writers, NEW pins, Pins(pins),
           \A v \in Writers \ {w} : pr.of[v].bytes <= PerProcess
    PROVE  /\ ProjectSound(Enforce(pr, w, pins)) /\ Trims(pr, Enforce(pr, w, pins))
           /\ Within(Enforce(pr, w, pins), pins)
           /\ LargestWent(pr, Enforce(pr, w, pins), Writers \ {w})
<1> DEFINE a == WithinProcess(pr, w)
           b == WithinProject(a, pins)
<1>1. ProjectSound(a) /\ Trims(pr, a) /\ a.of[w].bytes <= PerProcess /\ LeavesOthers(pr, a, w)
    BY WithinProcessIs
<1>2. ProjectSound(b) /\ Trims(a, b) /\ ~OverProject(b, pins) /\ LargestWent(a, b, Writers)
    <2> HIDE DEF a
    <2> QED
        BY <1>1, WithinProjectIs
<1>3. Enforce(pr, w, pins) = b
    BY DEF Enforce
<1> HIDE DEF a, b
<1>4. Trims(pr, b)
    BY <1>1, <1>2, TrimsFurther
<1>9. LargestWent(pr, b, Writers \ {w})
    BY <1>1, <1>2 DEF LargestWent, LeavesOthers
<1>5. ASSUME NEW v \in Writers
      PROVE  b.of[v].bytes <= PerProcess
    <2>1. a.of[v].bytes \in Nat /\ b.of[v].bytes \in Nat /\ pr.of[v].bytes \in Nat /\ PerProcess \in Nat
        BY <1>1, <1>2, ProjectIs DEF HistoryAssumption
    <2>2. a.of[v].bytes <= pr.of[v].bytes /\ b.of[v].bytes <= a.of[v].bytes
        BY <1>1, <1>2 DEF Trims, TrimsHistory
    <2>3. a.of[v].bytes <= PerProcess
        BY <1>1, <2>1, <2>2
    <2> QED
        BY <2>1, <2>2, <2>3
<1>6. b.bytes \in Nat /\ Global \in Nat /\ Allocation(b, pins) \in Nat
    BY <1>2, ProjectIs, AllocationIs DEF HistoryAssumption
<1>7. CASE b.bytes > Global \/ Allocation(b, pins) > Global
    <2>1. \A v \in Writers : ~(b.of[v].bytes > 0) /\ b.of[v].bytes \in Nat
        BY <1>2, <1>7, ProjectIs DEF OverProject
    <2>2. \A v \in Writers : b.of[v].bytes = 0
        BY <2>1
    <2>3. b.bytes = 0
        BY <1>2, <2>2, ProjectIs, TotalIs
    <2> QED
        BY <1>3, <1>2, <1>4, <1>5, <1>6, <1>9, <2>3 DEF Within
<1>8. CASE ~(b.bytes > Global \/ Allocation(b, pins) > Global)
    BY <1>3, <1>2, <1>4, <1>5, <1>6, <1>8, <1>9 DEF Within
<1> QED
    BY <1>7, <1>8

-----------------------------------------------------------------------------
(* What appending to a Process does to it and to the others.               *)

Appends(pr, q, w) ==
    /\ q.next >= pr.next
    /\ q.of[w].generation >= pr.of[w].generation
    /\ \A v \in Writers \ {w} : TrimsHistory(pr.of[v], q.of[v])

(* Somebody appends to it, the others are within their limits.             *)
Working(pr, w) ==
    /\ ProjectSound(pr)
    /\ \A v \in Writers \ {w} : pr.of[v].bytes <= PerProcess

LEMMA AppendsFurther ==
    ASSUME HistoryAssumption, NEW w \in Writers, NEW a, NEW b, NEW c,
           ProjectSound(a), ProjectSound(b), ProjectSound(c), Appends(a, b, w), Appends(b, c, w)
    PROVE  Appends(a, c, w)
<1>1. ASSUME NEW v \in Writers \ {w}
      PROVE  TrimsHistory(a.of[v], c.of[v])
    <2>1. /\ a.of[v].bytes \in Nat /\ b.of[v].bytes \in Nat /\ c.of[v].bytes \in Nat
          /\ a.of[v].generation \in Nat /\ b.of[v].generation \in Nat /\ c.of[v].generation \in Nat
        BY ProjectIs
    <2>2. TrimsHistory(a.of[v], b.of[v]) /\ TrimsHistory(b.of[v], c.of[v])
        BY DEF Appends
    <2> QED
        BY <2>1, <2>2 DEF TrimsHistory
<1>2. /\ a.next \in Nat /\ b.next \in Nat /\ c.next \in Nat
      /\ a.of[w].generation \in Nat /\ b.of[w].generation \in Nat /\ c.of[w].generation \in Nat
    BY ProjectIs
<1>3. /\ c.next >= b.next /\ b.next >= a.next
      /\ c.of[w].generation >= b.of[w].generation /\ b.of[w].generation >= a.of[w].generation
    BY DEF Appends
<1>4. c.next >= a.next /\ c.of[w].generation >= a.of[w].generation
    BY <1>2, <1>3
<1> QED
    BY <1>1, <1>4 DEF Appends

LEMMA TrimsAppends ==
    ASSUME NEW w \in Writers, NEW a, NEW b, ProjectSound(a), ProjectSound(b), Trims(a, b)
    PROVE  Appends(a, b, w)
<1>1. b.next = a.next /\ a.next \in Nat /\ \A v \in Writers : TrimsHistory(a.of[v], b.of[v])
    BY ProjectIs DEF Trims
<1>2. b.of[w].generation >= a.of[w].generation
    BY <1>1 DEF TrimsHistory
<1> QED
    BY <1>1, <1>2 DEF Appends

LEMMA StillWorking ==
    ASSUME HistoryAssumption, NEW w \in Writers, NEW a, NEW b,
           Working(a, w), ProjectSound(b), Appends(a, b, w)
    PROVE  Working(b, w)
<1>1. ASSUME NEW v \in Writers \ {w}
      PROVE  b.of[v].bytes <= PerProcess
    <2>1. a.of[v].bytes \in Nat /\ b.of[v].bytes \in Nat /\ PerProcess \in Nat
        BY ProjectIs DEF Working, HistoryAssumption
    <2>2. a.of[v].bytes <= PerProcess /\ b.of[v].bytes <= a.of[v].bytes
        BY DEF Working, Appends, TrimsHistory
    <2> QED
        BY <2>1, <2>2
<1> QED
    BY <1>1 DEF Working

(* The history of a Process is replaced.                                   *)
LEMMA PutIs ==
    ASSUME HistoryAssumption, NEW w \in Writers, NEW pr, Working(pr, w), NEW h \in Histories,
           NEW q \in Projects, q.of[w] = h, \A v \in Writers \ {w} : q.of[v] = pr.of[v],
           q.next >= pr.next, h.generation >= pr.of[w].generation,
           HistorySound(h, q.next), q.bytes + pr.of[w].bytes = pr.bytes + h.bytes
    PROVE  Working(q, w) /\ Appends(pr, q, w)
<1>1. ProjectSound(pr)
    BY DEF Working
<1>2. ProjectSound(q)
    BY <1>1, ReplacedIsSound
<1>3. ASSUME NEW v \in Writers \ {w}
      PROVE  TrimsHistory(pr.of[v], q.of[v])
    <2>1. q.of[v] = pr.of[v]
        OBVIOUS
    <2>2. TrimsHistory(pr.of[v], pr.of[v])
        BY <1>1, TrimsItself DEF Trims
    <2> QED
        BY <2>1, <2>2
<1>4. Appends(pr, q, w)
    BY <1>3 DEF Appends
<1> QED
    BY <1>2, <1>4, StillWorking

NewRecord(pr, w, record) ==
    /\ record \in Records
    /\ 1 <= record.sequence /\ record.sequence < pr.next
    /\ record.sequence \notin Names(pr.of[w].segments)
    /\ \A s \in Open(pr.of[w]) : pr.of[w].pending[s].sequence # record.sequence

(* A record is pushed and the limits enforced: the history it goes to is   *)
(* sound, and the others have at most been trimmed.                        *)
LEMMA PushIs ==
    ASSUME HistoryAssumption, views \in [Writers -> Snapshots], NEW w \in Writers, NEW pr,
           Working(pr, w), NEW record, NewRecord(pr, w, record)
    PROVE  /\ Working(Push(pr, w, record), w) /\ Appends(pr, Push(pr, w, record), w)
           /\ LargestWent(pr, Push(pr, w, record), Writers \ {w})
<1> DEFINE h == pr.of[w]
           s == WithRecord(h.segments, record, Pinned, Owned(pr) \cup Pinned)
           size == SizeOf(record)
           k == [h EXCEPT !.segments = s, !.bytes = h.bytes + size]
           q == [pr EXCEPT !.of[w] = k, !.bytes = pr.bytes + size]
<1>1. /\ pr.of \in [Writers -> Histories] /\ pr.bytes \in Nat /\ pr.next \in Nat /\ pr \in Projects
      /\ h \in Histories /\ HistorySound(h, pr.next) /\ h.bytes \in Nat /\ h.generation \in Nat
      /\ h.segments \in Seq(Segments) /\ ProjectSound(pr) /\ h.pending \in [Streams -> Lines]
    BY ProjectIs DEF Working
<1>2. record \in Records /\ size \in Nat
    BY SizeOfRecordIs DEF NewRecord
<1>3. IsFiniteSet(Owned(pr) \cup Pinned)
    BY <1>1, OwnedIs, PinnedIs, FS_Union
<1>4. /\ s \in Seq(Segments) /\ Names(s) = Names(h.segments) \cup {record.sequence}
      /\ Retained(s) = Retained(h.segments) + size
      /\ Ordered(h.segments) /\ record.sequence \notin Names(h.segments) => Ordered(s)
    <2> HIDE DEF h
    <2> QED
        BY <1>1, <1>2, <1>3, WithRecordIs
<1>9. Push(pr, w, record) = Enforce(q, w, Pinned)
    BY Zenon DEF Push
<1> HIDE DEF s, size, h
<1>5. h.bytes + size \in Nat /\ pr.bytes + size \in Nat
    BY <1>1, <1>2
<1>6. /\ k \in Histories /\ k.segments = s /\ k.bytes = h.bytes + size /\ k.pending = h.pending
      /\ k.generation = h.generation
    BY <1>1, <1>4, <1>5 DEF Histories
<1> HIDE DEF k
<1>7. k \in Histories
    BY <1>6
<1>8. /\ q \in Projects /\ q.of = [pr.of EXCEPT ![w] = k] /\ q.bytes = pr.bytes + size
      /\ q.next = pr.next
    BY <1>1, <1>5, <1>6 DEF Projects
<1> HIDE DEF q
<1>10. HistorySound(k, pr.next)
    <2>1. /\ Ordered(h.segments) /\ (\A x \in Names(h.segments) : 1 <= x /\ x < pr.next)
          /\ h.bytes = Retained(h.segments) + Raws(h.pending)
        BY <1>1 DEF HistorySound
    <2>2. /\ 1 <= record.sequence /\ record.sequence < pr.next
          /\ record.sequence \notin Names(h.segments)
          /\ \A t \in Open(h) : h.pending[t].sequence # record.sequence
        BY DEF NewRecord, h
    <2>3. Retained(h.segments) \in Nat /\ Raws(h.pending) \in Nat
        BY <1>1, RetainedIs, RawsAre
    <2>4. k.bytes = Retained(k.segments) + Raws(k.pending)
        BY <1>2, <1>4, <1>6, <2>1, <2>3
    <2>5. Ordered(k.segments) /\ (\A x \in Names(k.segments) : 1 <= x /\ x < pr.next)
        BY <1>4, <1>6, <2>1, <2>2
    <2>6. Open(k) = Open(h)
        BY <1>6 DEF Open
    <2>7. \A t \in Open(h) : h.pending[t].sequence \notin Names(k.segments)
        BY <1>1, <1>4, <1>6, <2>2 DEF HistorySound
    <2> QED
        BY <1>1, <1>6, <2>4, <2>5, <2>6, <2>7 DEF HistorySound
<1>11. Working(q, w) /\ Appends(pr, q, w) /\ LeavesOthers(pr, q, w)
    <2>1. /\ q.of[w] = k /\ \A v \in Writers \ {w} : q.of[v] = pr.of[v]
        BY <1>1, <1>8
    <2>2. q.next >= pr.next /\ k.generation >= pr.of[w].generation /\ HistorySound(k, q.next)
        BY <1>1, <1>6, <1>8, <1>10 DEF h
    <2>3. q.bytes + pr.of[w].bytes = pr.bytes + k.bytes
        BY <1>1, <1>2, <1>6, <1>8 DEF h
    <2> QED
        BY <1>7, <1>8, <2>1, <2>2, <2>3, PutIs DEF LeavesOthers
<1>12. Pins(Pinned)
    BY PinnedIs DEF Pins
<1> DEFINE e == Enforce(q, w, Pinned)
<1>13. ProjectSound(e) /\ Trims(q, e) /\ LargestWent(q, e, Writers \ {w})
    BY <1>11, <1>12, EnforceIs DEF Working
<1> HIDE DEF e
<1>14. Appends(q, e, w) /\ ProjectSound(q)
    BY <1>11, <1>13, TrimsAppends DEF Working
<1>15. Appends(pr, e, w)
    BY <1>1, <1>11, <1>13, <1>14, AppendsFurther
<1>16. LargestWent(pr, e, Writers \ {w})
    BY <1>11, <1>13 DEF LargestWent, LeavesOthers
<1> QED
    BY <1>9, <1>13, <1>15, <1>16, StillWorking DEF e

LEMMA LineIs ==
    ASSUME HistoryAssumption, NEW w \in Writers, NEW pr, Working(pr, w), NEW s \in Streams
    PROVE  /\ pr \in Projects /\ ProjectSound(pr)
           /\ pr.of \in [Writers -> Histories] /\ pr.bytes \in Nat /\ pr.next \in Nat \ {0}
           /\ pr.of[w] \in Histories /\ HistorySound(pr.of[w], pr.next)
           /\ pr.of[w].bytes \in Nat /\ pr.of[w].generation \in Nat /\ pr.of[w].latest \in Nat
           /\ pr.of[w].segments \in Seq(Segments) /\ pr.of[w].pending \in [Streams -> Lines]
           /\ pr.of[w].pending[s] \in Lines
           /\ pr.of[w].pending[s].sequence \in Nat /\ pr.of[w].pending[s].run \in Nat
           /\ pr.of[w].pending[s].raw \in Nat /\ pr.of[w].pending[s].text \in Nat
           /\ pr.of[w].bytes <= pr.bytes
           /\ pr.of[w].bytes = Retained(pr.of[w].segments) + Raws(pr.of[w].pending)
           /\ Retained(pr.of[w].segments) \in Nat /\ Raws(pr.of[w].pending) \in Nat
<1>1. ProjectSound(pr)
    BY DEF Working
<1>2. pr.of[w].segments \in Seq(Segments) /\ pr.of[w].pending \in [Streams -> Lines]
    BY <1>1, ProjectIs
<1>3. pr.of[w].pending[s] \in Lines
    BY <1>2
<1>4. HistorySound(pr.of[w], pr.next)
    BY <1>1, ProjectIs
<1> QED
    BY <1>1, <1>2, <1>3, <1>4, ProjectIs, PartOfTheTotal, RetainedIs, RawsAre DEF HistorySound, Lines

(* A line that ends is no longer counted, and its sequence is free for the *)
(* record it becomes.                                                      *)
LEMMA WithoutLineIs ==
    ASSUME HistoryAssumption, NEW w \in Writers, NEW pr, Working(pr, w), NEW s \in Streams,
           pr.of[w].pending[s] # NoLine, NEW continued \in BOOLEAN
    PROVE  /\ Working(WithoutLine(pr, w, s), w) /\ Appends(pr, WithoutLine(pr, w, s), w)
           /\ NewRecord(WithoutLine(pr, w, s), w, Ended(pr.of[w].pending[s], continued))
           /\ LeavesOthers(pr, WithoutLine(pr, w, s), w)
<1> DEFINE h == pr.of[w]
           line == h.pending[s]
           open == [h.pending EXCEPT ![s] = NoLine]
           k == [h EXCEPT !.pending = open, !.bytes = h.bytes - line.raw]
           q == [pr EXCEPT !.of[w] = k, !.bytes = pr.bytes - line.raw]
           record == Ended(line, continued)
<1>1. /\ pr \in Projects /\ pr.of \in [Writers -> Histories] /\ pr.bytes \in Nat /\ pr.next \in Nat
      /\ h \in Histories /\ HistorySound(h, pr.next) /\ h.bytes \in Nat /\ h.generation \in Nat
      /\ h.segments \in Seq(Segments) /\ h.pending \in [Streams -> Lines] /\ h.bytes <= pr.bytes
      /\ h.bytes = Retained(h.segments) + Raws(h.pending)
      /\ Retained(h.segments) \in Nat /\ Raws(h.pending) \in Nat
      /\ line \in Lines /\ line.sequence \in Nat /\ line.run \in Nat /\ line.raw \in Nat /\ line.text \in Nat
    BY LineIs
<1>2. WithoutLine(pr, w, s) = q
    BY Zenon DEF WithoutLine
<1>3. line = h.pending[s] /\ line # NoLine
    OBVIOUS
<1>4. record \in Records /\ record.sequence = line.sequence
    BY <1>1 DEF Ended, Records
<1> HIDE DEF h, line, record
<1>5. /\ open \in [Streams -> Lines] /\ open[s] = NoLine
      /\ \A t \in Streams \ {s} : open[t] = h.pending[t]
    BY <1>1, NoLineIs
<1> HIDE DEF open
<1>6. Raws(open) \in Nat /\ Raws(open) + line.raw = Raws(h.pending) /\ line.raw <= Raws(h.pending)
    <2>1. /\ Raws(open) \in Nat /\ Raws(open) + h.pending[s].raw = Raws(h.pending) + open[s].raw
          /\ h.pending[s].raw <= Raws(h.pending)
        BY <1>1, <1>5, RawsChange, Zenon
    <2>2. open[s].raw = 0 /\ h.pending[s].raw = line.raw
        BY <1>3, <1>5, NoLineIs
    <2> QED
        BY <1>1, <2>1, <2>2
<1>7. h.bytes - line.raw \in Nat /\ pr.bytes - line.raw \in Nat
    <2>1. line.raw \in Nat /\ h.bytes \in Nat /\ pr.bytes \in Nat /\ Retained(h.segments) \in Nat
        BY <1>1
    <2>2. line.raw <= h.bytes
        BY <1>1, <1>6, <2>1
    <2>3. h.bytes <= pr.bytes
        BY <1>1
    <2>4. line.raw <= pr.bytes
        BY <2>1, <2>2, <2>3
    <2> QED
        BY <2>1, <2>2, <2>4
<1>8. /\ k \in Histories /\ k.segments = h.segments /\ k.bytes = h.bytes - line.raw /\ k.pending = open
      /\ k.generation = h.generation
    BY <1>1, <1>5, <1>7 DEF Histories
<1> HIDE DEF k
<1>9. /\ q \in Projects /\ q.of = [pr.of EXCEPT ![w] = k] /\ q.bytes = pr.bytes - line.raw
      /\ q.next = pr.next
    BY <1>1, <1>7, <1>8 DEF Projects
<1> HIDE DEF q
<1>10. Open(k) = Open(h) \ {s} /\ \A t \in Open(k) : k.pending[t] = h.pending[t]
    BY <1>5, <1>8 DEF Open
<1>11. HistorySound(k, pr.next)
    <2>1. k.bytes = Retained(k.segments) + Raws(k.pending)
        BY <1>1, <1>6, <1>8
    <2> QED
        BY <1>1, <1>8, <1>10, <2>1 DEF HistorySound
<1>12. s \in Open(h)
    BY <1>3 DEF Open
<1>13. /\ q.of[w] = k /\ \A v \in Writers \ {w} : q.of[v] = pr.of[v]
    BY <1>1, <1>9
<1>14. Working(q, w) /\ Appends(pr, q, w)
    <2>1. q.next = pr.next /\ k.generation = pr.of[w].generation
        BY <1>8, <1>9 DEF h
    <2>2. pr.next \in Nat /\ pr.of[w].generation \in Nat
        BY <1>1 DEF h
    <2>3. q.next >= pr.next /\ k.generation >= pr.of[w].generation
        BY <2>1, <2>2
    <2>4. HistorySound(k, q.next)
        BY <1>11, <2>1
    <2>5. q.bytes + pr.of[w].bytes = pr.bytes + k.bytes
        <3>1. line.raw \in Nat /\ h.bytes \in Nat /\ pr.bytes \in Nat
            BY <1>1
        <3>2. q.bytes + h.bytes = pr.bytes + k.bytes
            BY <1>8, <1>9, <3>1
        <3> QED
            BY <3>2 DEF h
    <2> QED
        BY <1>8, <1>9, <1>13, <2>3, <2>4, <2>5, PutIs
<1>15. NewRecord(q, w, record)
    <2>1. /\ 1 <= line.sequence /\ line.sequence < pr.next /\ line.sequence \notin Names(h.segments)
          /\ \A t \in Open(h) \ {s} : h.pending[t].sequence # line.sequence
        BY <1>1, <1>3, <1>12 DEF HistorySound
    <2> QED
        BY <1>4, <1>8, <1>9, <1>10, <1>13, <2>1 DEF NewRecord
<1> QED
    BY <1>2, <1>13, <1>14, <1>15 DEF record, line, h, LeavesOthers

LEMMA FlushIs ==
    ASSUME HistoryAssumption, views \in [Writers -> Snapshots], NEW w \in Writers, NEW pr,
           Working(pr, w), NEW s \in Streams, NEW continued \in BOOLEAN
    PROVE  /\ Working(Flush(pr, w, s, continued), w) /\ Appends(pr, Flush(pr, w, s, continued), w)
           /\ LargestWent(pr, Flush(pr, w, s, continued), Writers \ {w})
<1>1. CASE pr.of[w].pending[s] = NoLine
    <2>1. Flush(pr, w, s, continued) = pr
        BY <1>1 DEF Flush
    <2>2. Appends(pr, pr, w)
        BY TrimsItself, TrimsAppends DEF Working
    <2> QED
        BY <2>1, <2>2 DEF LargestWent
<1>2. CASE pr.of[w].pending[s] # NoLine
    <2> DEFINE q == WithoutLine(pr, w, s)
               record == Ended(pr.of[w].pending[s], continued)
               p == Push(q, w, record)
    <2>1. Flush(pr, w, s, continued) = p
        BY <1>2 DEF Flush
    <2>2. Working(q, w) /\ Appends(pr, q, w) /\ NewRecord(q, w, record) /\ LeavesOthers(pr, q, w)
        BY <1>2, WithoutLineIs
    <2> HIDE DEF q, record
    <2>3. Working(p, w) /\ Appends(q, p, w) /\ LargestWent(q, p, Writers \ {w})
        BY <2>2, PushIs
    <2> HIDE DEF p
    <2>4. Appends(pr, p, w)
        BY <2>2, <2>3, AppendsFurther DEF Working
    <2>5. LargestWent(pr, p, Writers \ {w})
        BY <2>2, <2>3 DEF LargestWent, LeavesOthers
    <2> QED
        BY <2>1, <2>3, <2>4, <2>5
<1> QED
    BY <1>1, <1>2

(* A line that begins takes a sequence nobody has.                         *)
Begins(pr, b, w, s) ==
    /\ b \in Projects /\ b.bytes = pr.bytes /\ b.next >= pr.next
    /\ \A v \in Writers \ {w} : b.of[v] = pr.of[v]
    /\ b.of[w] \in Histories
    /\ b.of[w].segments = pr.of[w].segments /\ b.of[w].bytes = pr.of[w].bytes
    /\ b.of[w].generation = pr.of[w].generation
    /\ b.of[w].pending \in [Streams -> Lines]
    /\ \A t \in Streams \ {s} : b.of[w].pending[t] = pr.of[w].pending[t]
    /\ b.of[w].pending[s].raw = pr.of[w].pending[s].raw
    /\ 1 <= b.of[w].pending[s].sequence /\ b.of[w].pending[s].sequence < b.next
    /\ b.of[w].pending[s].sequence \notin Names(pr.of[w].segments)
    /\ \A t \in Open(pr.of[w]) \ {s} : pr.of[w].pending[t].sequence # b.of[w].pending[s].sequence

LEMMA BegunIs ==
    ASSUME HistoryAssumption, NEW w \in Writers, NEW pr, Working(pr, w), NEW s \in Streams, NEW run \in Nat
    PROVE  Begins(pr, Begun(pr, w, s, run), w, s)
<1> DEFINE h == pr.of[w]
<1>1. /\ pr \in Projects /\ pr.of \in [Writers -> Histories] /\ pr.bytes \in Nat /\ pr.next \in Nat \ {0}
      /\ h \in Histories /\ HistorySound(h, pr.next) /\ h.bytes \in Nat /\ h.generation \in Nat
      /\ h.segments \in Seq(Segments) /\ h.pending \in [Streams -> Lines] /\ h.pending[s] \in Lines
    BY LineIs
<1>2. CASE h.pending[s] # NoLine
    <2>1. Begun(pr, w, s, run) = pr
        BY <1>2 DEF Begun
    <2>2. s \in Open(h) /\ Open(h) \subseteq Streams
        BY <1>2 DEF Open
    <2> HIDE DEF h
    <2>3. /\ 1 <= h.pending[s].sequence /\ h.pending[s].sequence < pr.next
          /\ h.pending[s].sequence \notin Names(h.segments)
          /\ \A t \in Open(h) \ {s} : h.pending[t].sequence # h.pending[s].sequence
        BY <1>1, <2>2 DEF HistorySound
    <2> QED
        BY <1>1, <2>1, <2>3 DEF Begins, h
<1>3. CASE h.pending[s] = NoLine
    <2> DEFINE line == [sequence |-> pr.next, run |-> run, raw |-> 0, text |-> 0]
               open == [h.pending EXCEPT ![s] = line]
               k == [h EXCEPT !.pending = open]
               next == pr.next + 1
               q == [pr EXCEPT !.of[w] = k, !.next = next]
    <2>1. Begun(pr, w, s, run) = q
        BY <1>3, Zenon DEF Begun
    <2>2. line \in Lines /\ line.sequence = pr.next /\ line.raw = 0
        BY <1>1 DEF Lines
    <2>3. next \in Nat \ {0} /\ next > pr.next
        BY <1>1
    <2> HIDE DEF line, h, next
    <2>4. /\ open \in [Streams -> Lines] /\ open[s] = line
          /\ \A t \in Streams \ {s} : open[t] = h.pending[t]
        BY <1>1, <2>2
    <2> HIDE DEF open
    <2>5. /\ k \in Histories /\ k.segments = h.segments /\ k.bytes = h.bytes /\ k.pending = open
          /\ k.generation = h.generation
        BY <1>1, <2>4 DEF Histories
    <2> HIDE DEF k
    <2>6. /\ q \in Projects /\ q.of = [pr.of EXCEPT ![w] = k] /\ q.bytes = pr.bytes
          /\ q.next = next
        BY <1>1, <2>3, <2>5 DEF Projects
    <2> HIDE DEF q
    <2>7. /\ q.of[w] = k /\ \A v \in Writers \ {w} : q.of[v] = pr.of[v]
        BY <1>1, <2>6
    <2>8. line.raw = h.pending[s].raw
        BY <1>3, <2>2, NoLineIs
    <2>9. line.sequence \notin Names(h.segments) /\ \A t \in Open(h) : h.pending[t].sequence # line.sequence
        BY <1>1, <2>2 DEF HistorySound
    <2>10. 1 <= line.sequence /\ line.sequence < next /\ next >= pr.next
        BY <1>1, <2>2, <2>3
    <2>11. Begins(pr, q, w, s)
        BY <2>4, <2>5, <2>6, <2>7, <2>8, <2>9, <2>10 DEF Begins, h
    <2> QED
        BY <2>1, <2>11
<1> QED
    BY <1>2, <1>3

LEMMA LongerIs ==
    ASSUME NEW line \in Lines, NEW byte
    PROVE  /\ Longer(line, byte) \in Lines
           /\ Longer(line, byte).sequence = line.sequence
           /\ Longer(line, byte).raw = line.raw + 1
<1>1. TextOf(byte) \in Nat
    BY DEF TextOf
<1> DEFINE raw == line.raw + 1
           text == line.text + TextOf(byte)
<1>2. raw \in Nat /\ text \in Nat
    BY <1>1 DEF Lines
<1>3. Longer(line, byte) = [line EXCEPT !.raw = raw, !.text = text]
    BY DEF Longer
<1>4. raw = line.raw + 1
    OBVIOUS
<1> HIDE DEF raw, text
<1> QED
    BY <1>2, <1>3, <1>4 DEF Lines

LEMMA WithByteIs ==
    ASSUME HistoryAssumption, NEW w \in Writers, NEW pr, Working(pr, w), NEW s \in Streams, NEW b,
           Begins(pr, b, w, s), NEW byte
    PROVE  /\ Working(WithByte(b, w, s, byte), w) /\ Appends(pr, WithByte(b, w, s, byte), w)
           /\ LeavesOthers(pr, WithByte(b, w, s, byte), w)
           /\ WithByte(b, w, s, byte).of[w].pending[s].raw = pr.of[w].pending[s].raw + 1
<1> DEFINE h == pr.of[w]
           g == b.of[w]
           line == Longer(g.pending[s], byte)
           open == [g.pending EXCEPT ![s] = line]
           k == [g EXCEPT !.pending = open, !.bytes = g.bytes + 1]
           q == [b EXCEPT !.of[w] = k, !.bytes = b.bytes + 1]
<1>1. /\ pr \in Projects /\ pr.of \in [Writers -> Histories] /\ pr.bytes \in Nat /\ pr.next \in Nat \ {0}
      /\ h \in Histories /\ HistorySound(h, pr.next) /\ h.bytes \in Nat /\ h.generation \in Nat
      /\ h.segments \in Seq(Segments) /\ h.pending \in [Streams -> Lines] /\ h.pending[s] \in Lines
      /\ h.bytes = Retained(h.segments) + Raws(h.pending) /\ h.pending[s].raw \in Nat
      /\ Retained(h.segments) \in Nat /\ Raws(h.pending) \in Nat
    BY LineIs
<1>2. /\ b \in Projects /\ b.bytes = pr.bytes /\ b.next >= pr.next
      /\ \A v \in Writers \ {w} : b.of[v] = pr.of[v]
      /\ g \in Histories /\ g.segments = h.segments /\ g.bytes = h.bytes /\ g.generation = h.generation
      /\ g.pending \in [Streams -> Lines]
      /\ \A t \in Streams \ {s} : g.pending[t] = h.pending[t]
      /\ g.pending[s].raw = h.pending[s].raw
      /\ 1 <= g.pending[s].sequence /\ g.pending[s].sequence < b.next
      /\ g.pending[s].sequence \notin Names(h.segments)
      /\ \A t \in Open(h) \ {s} : h.pending[t].sequence # g.pending[s].sequence
    BY DEF Begins
<1>3. b.of \in [Writers -> Histories] /\ b.next \in Nat \ {0}
    BY <1>2 DEF Projects
<1>4. WithByte(b, w, s, byte) = q
    BY Zenon DEF WithByte
<1>6. line \in Lines /\ line.sequence = g.pending[s].sequence /\ line.raw = h.pending[s].raw + 1
    <2>1. g.pending[s] \in Lines
        BY <1>2
    <2> QED
        BY <1>2, <2>1, LongerIs
<1> HIDE DEF line, h, g
<1>8. /\ open \in [Streams -> Lines] /\ open[s] = line
      /\ \A t \in Streams \ {s} : open[t] = h.pending[t]
    BY <1>2, <1>6
<1> HIDE DEF open
<1>9. Raws(open) \in Nat /\ Raws(open) + h.pending[s].raw = Raws(h.pending) + open[s].raw
    <2>1. \A t \in Streams \ {s} : open[t] = h.pending[t]
        BY <1>8
    <2> QED
        BY <1>1, <1>8, <2>1, RawsChange, Zenon
<1>10. Raws(open) = Raws(h.pending) + 1
    <2> DEFINE before == Raws(h.pending)
               after == Raws(open)
               raw == h.pending[s].raw
    <2>1. open[s].raw = raw + 1 /\ raw \in Nat /\ before \in Nat
        BY <1>1, <1>6, <1>8
    <2>2. after \in Nat /\ after + raw = before + open[s].raw
        BY <1>9
    <2> HIDE DEF before, after, raw
    <2>3. after = before + 1
        BY <2>1, <2>2
    <2> QED
        BY <2>3 DEF before, after
<1>11. g.bytes + 1 \in Nat /\ b.bytes + 1 \in Nat
    BY <1>1, <1>2
<1>12. /\ k \in Histories /\ k.segments = h.segments /\ k.bytes = h.bytes + 1 /\ k.pending = open
       /\ k.generation = h.generation
    BY <1>1, <1>2, <1>8, <1>11 DEF Histories
<1> HIDE DEF k
<1>13. /\ q \in Projects /\ q.of = [b.of EXCEPT ![w] = k] /\ q.bytes = pr.bytes + 1
       /\ q.next = b.next
    BY <1>2, <1>3, <1>11, <1>12 DEF Projects
<1> HIDE DEF q
<1>14. /\ q.of[w] = k /\ \A v \in Writers \ {w} : q.of[v] = pr.of[v]
    BY <1>2, <1>3, <1>13
<1>15. HistorySound(k, b.next)
    <2>1. k.bytes = Retained(k.segments) + Raws(k.pending)
        BY <1>1, <1>10, <1>12
    <2>2. Ordered(k.segments)
        BY <1>1, <1>12 DEF HistorySound
    <2>3. \A x \in Nat : x < pr.next => x < b.next
        BY <1>1, <1>2, <1>3
    <2>4. \A x \in Names(k.segments) : 1 <= x /\ x < b.next
        <3>1. Names(h.segments) \subseteq Nat
            BY <1>1, NamesInSegments
        <3> QED
            BY <1>1, <1>12, <2>3, <3>1 DEF HistorySound
    <2>5. ASSUME NEW t \in Open(k)
          PROVE  /\ t \in Streams
                 /\ k.pending[t].raw >= 1
                 /\ 1 <= k.pending[t].sequence /\ k.pending[t].sequence < b.next
                 /\ k.pending[t].sequence \notin Names(k.segments)
                 /\ t # s => t \in Open(h) /\ k.pending[t] = h.pending[t]
        <3>1. CASE t = s
            BY <1>1, <1>2, <1>6, <1>8, <1>12, <3>1
        <3>2. CASE t # s
            <4>1. t \in Open(h) /\ t \in Streams /\ k.pending[t] = h.pending[t]
                BY <1>8, <1>12, <3>2 DEF Open
            <4>2. h.pending[t].sequence \in Nat
                BY <1>1, <4>1 DEF Lines
            <4>3. /\ h.pending[t].raw >= 1
                  /\ 1 <= h.pending[t].sequence /\ h.pending[t].sequence < pr.next
                  /\ h.pending[t].sequence \notin Names(h.segments)
                BY <1>1, <4>1 DEF HistorySound
            <4>4. h.pending[t].sequence < b.next
                BY <2>3, <4>2, <4>3
            <4> QED
                BY <1>12, <3>2, <4>1, <4>3, <4>4
        <3> QED
            BY <3>1, <3>2
    <2>6. ASSUME NEW t \in Open(k), NEW u \in Open(k), t # u
          PROVE  k.pending[t].sequence # k.pending[u].sequence
        <3>1. CASE t # s /\ u # s
            BY <1>1, <2>5, <2>6, <3>1 DEF HistorySound
        <3>2. CASE t = s /\ u # s
            BY <1>2, <1>6, <1>8, <1>12, <2>5, <3>2
        <3>3. CASE t # s /\ u = s
            BY <1>2, <1>6, <1>8, <1>12, <2>5, <3>3
        <3> QED
            BY <2>6, <3>1, <3>2, <3>3
    <2> QED
        BY <2>1, <2>2, <2>4, <2>5, <2>6 DEF HistorySound
<1>16. Working(q, w) /\ Appends(pr, q, w)
    <2>1. q.next >= pr.next /\ k.generation >= pr.of[w].generation /\ HistorySound(k, q.next)
        BY <1>1, <1>2, <1>12, <1>13, <1>15 DEF h
    <2>2. q.bytes + pr.of[w].bytes = pr.bytes + k.bytes
        BY <1>1, <1>12, <1>13 DEF h
    <2> QED
        BY <1>12, <1>13, <1>14, <2>1, <2>2, PutIs
<1>17. LeavesOthers(pr, q, w) /\ q.of[w].pending[s].raw = pr.of[w].pending[s].raw + 1
    BY <1>6, <1>8, <1>12, <1>14 DEF LeavesOthers, h
<1> QED
    BY <1>4, <1>16, <1>17

(* One byte, which may begin a line, end it or reach its limit, leaves the *)
(* history sound and the others at most trimmed.                           *)
LEMMA AppendByteIs ==
    ASSUME HistoryAssumption, views \in [Writers -> Snapshots], NEW w \in Writers, NEW pr,
           Working(pr, w), NEW s \in Streams, NEW run \in Nat, NEW byte
    PROVE  /\ Working(AppendByte(pr, w, s, run, byte), w)
           /\ Appends(pr, AppendByte(pr, w, s, run, byte), w)
           /\ LargestWent(pr, AppendByte(pr, w, s, run, byte), Writers \ {w})
<1> DEFINE b == Begun(pr, w, s, run)
           q == WithByte(b, w, s, byte)
           continued == byte # "newline"
           p == Flush(q, w, s, continued)
<1>1. Begins(pr, b, w, s)
    BY BegunIs
<1>2. AppendByte(pr, w, s, run, byte) =
          IF byte = "newline" \/ q.of[w].pending[s].raw = LineBytes THEN p ELSE q
    BY DEF AppendByte
<1>3. continued \in BOOLEAN
    OBVIOUS
<1> HIDE DEF b, continued
<1>4. /\ Working(q, w) /\ Appends(pr, q, w) /\ LeavesOthers(pr, q, w)
      /\ q.of[w].pending[s].raw = pr.of[w].pending[s].raw + 1
    BY <1>1, WithByteIs
<1> HIDE DEF q
<1>5. Working(p, w) /\ Appends(q, p, w) /\ LargestWent(q, p, Writers \ {w})
    BY <1>3, <1>4, FlushIs
<1> HIDE DEF p
<1>6. Appends(pr, p, w)
    BY <1>4, <1>5, AppendsFurther DEF Working
<1>7. LargestWent(pr, p, Writers \ {w}) /\ LargestWent(pr, q, Writers \ {w})
    BY <1>4, <1>5 DEF LargestWent, LeavesOthers
<1> QED
    BY <1>2, <1>4, <1>5, <1>6, <1>7

(* A byte that does not end its line takes nothing from the others.        *)
LEMMA AppendByteInALine ==
    ASSUME HistoryAssumption, NEW w \in Writers, NEW pr, Working(pr, w), NEW s \in Streams,
           NEW run \in Nat, NEW byte, byte # "newline", pr.of[w].pending[s].raw + 1 # LineBytes
    PROVE  /\ Working(AppendByte(pr, w, s, run, byte), w)
           /\ LeavesOthers(pr, AppendByte(pr, w, s, run, byte), w)
           /\ AppendByte(pr, w, s, run, byte).of[w].pending[s].raw = pr.of[w].pending[s].raw + 1
<1> DEFINE b == Begun(pr, w, s, run)
           q == WithByte(b, w, s, byte)
<1>1. Begins(pr, b, w, s)
    BY BegunIs
<1>2. q.of[w].pending[s].raw # LineBytes => AppendByte(pr, w, s, run, byte) = q
    BY DEF AppendByte
<1> HIDE DEF b
<1>3. /\ Working(q, w) /\ LeavesOthers(pr, q, w)
      /\ q.of[w].pending[s].raw = pr.of[w].pending[s].raw + 1
    BY <1>1, WithByteIs
<1> HIDE DEF q
<1> QED
    BY <1>2, <1>3

(* The steps of a loop that differ.                                        *)
LoopRuns(f, S, steps, start, n) ==
    f \in [0..n -> S] /\ f[0] = start /\ \A i \in 1..n : f[i] = steps[i][f[i - 1]]

Stays(f, S, start, n) ==
    /\ start \in S /\ n \in Nat /\ f[0] = start
    /\ \A i \in 1..n : f[i - 1] \in S => f[i] \in S

LEMMA LoopRunsIs ==
    ASSUME NEW S, NEW steps, NEW start, NEW n, start \in S, n \in Nat, steps \in [1..n -> [S -> S]]
    PROVE  \E f : LoopRuns(f, S, steps, start, n)
<1>1. PICK f \in Iterations(n, S, steps) : f[0] = start
    BY StepsExist
<1> QED
    BY <1>1 DEF Iterations, LoopRuns

LEMMA LoopStays ==
    ASSUME NEW f, NEW S, NEW start, NEW n, Stays(f, S, start, n)
    PROVE  f[n] \in S
BY StepsStay DEF Stays

AppendedTo(pr, w) == {q \in Projects : Working(q, w) /\ Appends(pr, q, w)}

LEMMA AppendedIs ==
    ASSUME HistoryAssumption, views \in [Writers -> Snapshots], NEW w \in Writers, NEW pr, Working(pr, w)
    PROVE  /\ pr \in AppendedTo(pr, w)
           /\ \A q \in AppendedTo(pr, w) : Working(q, w) /\ Appends(pr, q, w)
           /\ \A q \in AppendedTo(pr, w) : \A p : Working(p, w) /\ Appends(q, p, w) => p \in AppendedTo(pr, w)
<1>1. pr \in AppendedTo(pr, w)
    <2>1. Appends(pr, pr, w) /\ pr \in Projects
        BY TrimsItself, TrimsAppends, ProjectIs DEF Working
    <2> QED
        BY <2>1 DEF AppendedTo
<1>2. \A q \in AppendedTo(pr, w) : Working(q, w) /\ Appends(pr, q, w)
    BY DEF AppendedTo
<1>3. ASSUME NEW q \in AppendedTo(pr, w), NEW p, Working(p, w), Appends(q, p, w)
      PROVE  p \in AppendedTo(pr, w)
    <2>1. ProjectSound(pr) /\ ProjectSound(q) /\ ProjectSound(p) /\ Appends(pr, q, w)
        BY <1>2, <1>3 DEF Working
    <2>2. Appends(pr, p, w)
        BY <1>3, <2>1, AppendsFurther
    <2>3. p \in Projects
        BY <2>1, ProjectIs
    <2> QED
        BY <1>3, <2>2, <2>3 DEF AppendedTo
<1> QED
    BY <1>1, <1>2, <1>3

WrittenSteps(f, pr, w, s, run, bytes) ==
    f = [n \in 0..Len(bytes) |-> IF n = 0 THEN pr ELSE AppendByte(f[n - 1], w, s, run, bytes[n])]

CompletedSteps(f, pr, w) ==
    f = [s \in 0..Cardinality(Streams) |-> IF s = 0 THEN pr ELSE Flush(f[s - 1], w, s, FALSE)]

LEMMA WrittenIsSteps ==
    ASSUME NEW pr, NEW w, NEW s, NEW run, NEW bytes, NEW f, WrittenSteps(f, pr, w, s, run, bytes)
    PROVE  \E g : WrittenSteps(g, pr, w, s, run, bytes) /\ Written(pr, w, s, run, bytes) = g[Len(bytes)]
<1> DEFINE g == CHOOSE h : WrittenSteps(h, pr, w, s, run, bytes)
<1>1. WrittenSteps(g, pr, w, s, run, bytes)
    OBVIOUS
<1>2. Written(pr, w, s, run, bytes) = g[Len(bytes)]
    BY Zenon DEF Written, WrittenSteps
<1> QED
    BY <1>1, <1>2

LEMMA CompletedIsSteps ==
    ASSUME NEW pr, NEW w, NEW f, CompletedSteps(f, pr, w)
    PROVE  \E g : CompletedSteps(g, pr, w) /\ Completed(pr, w) = g[Cardinality(Streams)]
<1> DEFINE g == CHOOSE h : CompletedSteps(h, pr, w)
<1>1. CompletedSteps(g, pr, w)
    OBVIOUS
<1>2. Completed(pr, w) = g[Cardinality(Streams)]
    BY Zenon DEF Completed, CompletedSteps
<1> QED
    BY <1>1, <1>2

LEMMA WrittenIs ==
    ASSUME HistoryAssumption, views \in [Writers -> Snapshots], NEW w \in Writers, NEW pr,
           Working(pr, w), NEW s \in Streams, NEW run \in Nat, NEW bytes \in Chunks
    PROVE  /\ Working(Written(pr, w, s, run, bytes), w)
           /\ Appends(pr, Written(pr, w, s, run, bytes), w)
           /\ \E g : WrittenSteps(g, pr, w, s, run, bytes) /\ Written(pr, w, s, run, bytes) = g[Len(bytes)]
<1> DEFINE n == Len(bytes)
           S == AppendedTo(pr, w)
           steps == [i \in 1..n |-> [q \in S |-> AppendByte(q, w, s, run, bytes[i])]]
<1>1. n \in Nat
    <2>1. bytes \in Seq({"text", "invalid", "newline"})
        BY DEF HistoryAssumption
    <2> QED
        BY <2>1, LenProperties
<1>2. ASSUME NEW q \in S, NEW byte
      PROVE  AppendByte(q, w, s, run, byte) \in S
    <2>1. Working(q, w)
        BY AppendedIs
    <2> DEFINE p == AppendByte(q, w, s, run, byte)
    <2>2. Working(p, w) /\ Appends(q, p, w)
        BY <2>1, AppendByteIs
    <2> HIDE DEF p
    <2>3. p \in S
        BY <2>2, AppendedIs
    <2> QED
        BY <2>3 DEF p
<1>3. pr \in S
    BY AppendedIs
<1>4. n = Len(bytes)
    OBVIOUS
<1> HIDE DEF n, S
<1>5. steps \in [1..n -> [S -> S]]
    BY <1>2
<1>6. \A i \in 1..n : \A q \in S : steps[i][q] = AppendByte(q, w, s, run, bytes[i])
    OBVIOUS
<1> HIDE DEF steps
<1>7. PICK f : LoopRuns(f, S, steps, pr, n)
    BY <1>1, <1>3, <1>5, LoopRunsIs
<1>8. WrittenSteps(f, pr, w, s, run, bytes)
    <2>1. f \in [0..n -> S] /\ f[0] = pr /\ \A i \in 1..n : f[i] = steps[i][f[i - 1]]
        BY <1>7 DEF LoopRuns
    <2>2. \A i \in 0..n : i # 0 => i - 1 \in 0..n /\ i \in 1..n
        BY <1>1
    <2>3. \A i \in 0..n : f[i] = IF i = 0 THEN pr ELSE AppendByte(f[i - 1], w, s, run, bytes[i])
        BY <1>6, <2>1, <2>2
    <2> QED
        BY <1>4, <2>1, <2>3 DEF WrittenSteps
<1>9. PICK g : WrittenSteps(g, pr, w, s, run, bytes) /\ Written(pr, w, s, run, bytes) = g[n]
    BY <1>4, <1>8, WrittenIsSteps
<1>10. \A i \in 0..n : g[i] = IF i = 0 THEN pr ELSE AppendByte(g[i - 1], w, s, run, bytes[i])
    BY <1>4, <1>9 DEF WrittenSteps
<1>11. g[n] \in S
    <2>1. g[0] = pr
        BY <1>1, <1>10
    <2>2. \A i \in 1..n : i \in 0..n /\ i # 0
        BY <1>1
    <2>3. \A i \in 1..n : g[i - 1] \in S => g[i] \in S
        BY <1>2, <1>10, <2>2
    <2>4. Stays(g, S, pr, n)
        BY <1>1, <1>3, <2>1, <2>3 DEF Stays
    <2> QED
        BY <2>4, LoopStays
<1> QED
    BY <1>4, <1>9, <1>11, AppendedIs DEF S

LEMMA CompletedIs ==
    ASSUME HistoryAssumption, views \in [Writers -> Snapshots], NEW w \in Writers, NEW pr, Working(pr, w)
    PROVE  /\ Working(Completed(pr, w), w) /\ Appends(pr, Completed(pr, w), w)
           /\ \E g : CompletedSteps(g, pr, w) /\ Completed(pr, w) = g[Cardinality(Streams)]
<1> DEFINE n == Cardinality(Streams)
           S == AppendedTo(pr, w)
           steps == [i \in 1..n |-> [q \in S |-> Flush(q, w, i, FALSE)]]
<1>1. n \in Nat /\ Streams = 1..n
    BY FS_CardinalityType DEF HistoryAssumption
<1>2. ASSUME NEW q \in S, NEW s \in Streams
      PROVE  Flush(q, w, s, FALSE) \in S
    <2>1. Working(q, w) /\ FALSE \in BOOLEAN
        BY AppendedIs
    <2> DEFINE p == Flush(q, w, s, FALSE)
    <2>2. Working(p, w) /\ Appends(q, p, w)
        BY <2>1, FlushIs
    <2> HIDE DEF p
    <2>3. p \in S
        BY <2>2, AppendedIs
    <2> QED
        BY <2>3 DEF p
<1>3. pr \in S
    BY AppendedIs
<1>4. n = Cardinality(Streams)
    OBVIOUS
<1> HIDE DEF n, S
<1>5. steps \in [1..n -> [S -> S]]
    BY <1>1, <1>2
<1>6. \A i \in 1..n : \A q \in S : steps[i][q] = Flush(q, w, i, FALSE)
    OBVIOUS
<1> HIDE DEF steps
<1>7. PICK f : LoopRuns(f, S, steps, pr, n)
    BY <1>1, <1>3, <1>5, LoopRunsIs
<1>8. CompletedSteps(f, pr, w)
    <2>1. f \in [0..n -> S] /\ f[0] = pr /\ \A i \in 1..n : f[i] = steps[i][f[i - 1]]
        BY <1>7 DEF LoopRuns
    <2>2. \A i \in 0..n : i # 0 => i - 1 \in 0..n /\ i \in 1..n
        BY <1>1
    <2>3. \A i \in 0..n : f[i] = IF i = 0 THEN pr ELSE Flush(f[i - 1], w, i, FALSE)
        BY <1>6, <2>1, <2>2
    <2> QED
        BY <1>4, <2>1, <2>3 DEF CompletedSteps
<1>9. PICK g : CompletedSteps(g, pr, w) /\ Completed(pr, w) = g[n]
    BY <1>4, <1>8, CompletedIsSteps
<1>10. \A i \in 0..n : g[i] = IF i = 0 THEN pr ELSE Flush(g[i - 1], w, i, FALSE)
    BY <1>4, <1>9 DEF CompletedSteps
<1>11. g[n] \in S
    <2>0. 0 \in 0..n
        BY <1>1
    <2>1. g[0] = pr
        BY ONLY <1>10, <2>0
    <2>2. \A i \in 1..n : i \in 0..n /\ i # 0 /\ i \in Streams
        BY <1>1
    <2>3. \A i \in 1..n : g[i - 1] \in S => g[i] \in S
        BY <1>2, <1>10, <2>2
    <2>4. Stays(g, S, pr, n)
        BY <1>1, <1>3, <2>1, <2>3 DEF Stays
    <2> QED
        BY <2>4, LoopStays
<1> QED
    BY <1>4, <1>9, <1>11, AppendedIs DEF S

LEMMA ChangedIs ==
    ASSUME HistoryAssumption, NEW w \in Writers, NEW pr, Working(pr, w)
    PROVE  /\ Working(Changed(pr, w), w) /\ Appends(pr, Changed(pr, w), w)
           /\ Changed(pr, w).of[w].generation = pr.of[w].generation + 1
           /\ Changed(pr, w).of[w].bytes = pr.of[w].bytes
           /\ LeavesOthers(pr, Changed(pr, w), w)
<1> DEFINE h == pr.of[w]
           k == [h EXCEPT !.generation = h.generation + 1]
           q == [pr EXCEPT !.of[w] = k]
<1>1. /\ pr \in Projects /\ pr.of \in [Writers -> Histories] /\ pr.bytes \in Nat /\ pr.next \in Nat
      /\ h \in Histories /\ HistorySound(h, pr.next) /\ h.bytes \in Nat /\ h.generation \in Nat
    BY ProjectIs DEF Working
<1>2. Changed(pr, w) = q
    BY Zenon DEF Changed
<1> HIDE DEF h
<1>3. /\ k \in Histories /\ k.segments = h.segments /\ k.bytes = h.bytes /\ k.pending = h.pending
      /\ k.generation = h.generation + 1
    <2> DEFINE n == h.generation + 1
    <2>1. n \in Nat
        BY <1>1
    <2> HIDE DEF n
    <2>2. /\ [h EXCEPT !.generation = n] \in Histories
          /\ [h EXCEPT !.generation = n].segments = h.segments
          /\ [h EXCEPT !.generation = n].bytes = h.bytes
          /\ [h EXCEPT !.generation = n].pending = h.pending
          /\ [h EXCEPT !.generation = n].generation = n
        BY <1>1, <2>1 DEF Histories
    <2> QED
        BY <2>2 DEF n
<1> HIDE DEF k
<1>4. q \in Projects /\ q.of = [pr.of EXCEPT ![w] = k] /\ q.bytes = pr.bytes /\ q.next = pr.next
    BY <1>1, <1>3 DEF Projects
<1> HIDE DEF q
<1>5. q.of[w] = k /\ \A v \in Writers \ {w} : q.of[v] = pr.of[v]
    BY <1>1, <1>4
<1>6. HistorySound(k, q.next)
    BY <1>1, <1>3, <1>4 DEF HistorySound, Open
<1>7. Working(q, w) /\ Appends(pr, q, w)
    <2>1. q.next >= pr.next /\ k.generation >= pr.of[w].generation
        BY <1>1, <1>3, <1>4 DEF h
    <2>2. q.bytes + pr.of[w].bytes = pr.bytes + k.bytes
        BY <1>1, <1>3, <1>4 DEF h
    <2> QED
        BY <1>3, <1>4, <1>5, <1>6, <2>1, <2>2, PutIs
<1> QED
    BY <1>2, <1>3, <1>5, <1>7 DEF h, LeavesOthers

LEMMA StartedIs ==
    ASSUME HistoryAssumption, NEW w \in Writers, NEW pr, Working(pr, w)
    PROVE  /\ Working(Started(pr, w), w) /\ Appends(pr, Started(pr, w), w)
           /\ NewRecord(Started(pr, w), w, Marker(pr, w))
           /\ LeavesOthers(pr, Started(pr, w), w)
<1> DEFINE h == pr.of[w]
           latest == h.latest + 1
           next == pr.next + 1
           k == [h EXCEPT !.latest = latest]
           q == [pr EXCEPT !.of[w] = k, !.next = next]
           record == Marker(pr, w)
<1>1. /\ pr \in Projects /\ pr.of \in [Writers -> Histories] /\ pr.bytes \in Nat /\ pr.next \in Nat \ {0}
      /\ h \in Histories /\ HistorySound(h, pr.next) /\ h.bytes \in Nat /\ h.generation \in Nat
      /\ h.latest \in Nat /\ h.segments \in Seq(Segments) /\ h.pending \in [Streams -> Lines]
    BY ProjectIs DEF Working
<1>2. Started(pr, w) = q
    BY Zenon DEF Started
<1>3. latest \in Nat /\ next \in Nat \ {0} /\ next > pr.next
    BY <1>1
<1>4. record \in Records /\ record.sequence = pr.next
    BY <1>1 DEF Marker, Records
<1> HIDE DEF h, latest, next, record
<1>5. /\ k \in Histories /\ k.segments = h.segments /\ k.bytes = h.bytes /\ k.pending = h.pending
      /\ k.generation = h.generation
    BY <1>1, <1>3 DEF Histories
<1> HIDE DEF k
<1>6. q \in Projects /\ q.of = [pr.of EXCEPT ![w] = k] /\ q.bytes = pr.bytes /\ q.next = next
    BY <1>1, <1>3, <1>5 DEF Projects
<1> HIDE DEF q
<1>7. q.of[w] = k /\ \A v \in Writers \ {w} : q.of[v] = pr.of[v]
    BY <1>1, <1>6
<1>8. Names(h.segments) \subseteq Nat /\ \A s \in Open(h) : s \in Streams /\ h.pending[s].sequence \in Nat
    BY <1>1, NamesInSegments DEF Open, Lines
<1>9. \A x \in Nat : x < pr.next => x < next
    BY <1>1, <1>3
<1>10. Open(k) = Open(h)
    BY <1>5 DEF Open
<1>11. HistorySound(k, q.next)
    <2>1. \A x \in Names(h.segments) : 1 <= x /\ x < next
        BY <1>1, <1>8, <1>9 DEF HistorySound
    <2>2. \A s \in Open(h) :
              /\ h.pending[s].raw >= 1
              /\ 1 <= h.pending[s].sequence /\ h.pending[s].sequence < next
              /\ h.pending[s].sequence \notin Names(h.segments)
        BY <1>1, <1>8, <1>9 DEF HistorySound
    <2> QED
        BY <1>1, <1>5, <1>6, <1>10, <2>1, <2>2 DEF HistorySound
<1>12. Working(q, w) /\ Appends(pr, q, w)
    <2>1. q.next >= pr.next /\ k.generation >= pr.of[w].generation
        BY <1>1, <1>3, <1>5, <1>6 DEF h
    <2>2. q.bytes + pr.of[w].bytes = pr.bytes + k.bytes
        BY <1>1, <1>5, <1>6 DEF h
    <2> QED
        BY <1>5, <1>6, <1>7, <1>11, <2>1, <2>2, PutIs
<1>13. NewRecord(q, w, record)
    <2>1. pr.next \notin Names(h.segments) /\ \A s \in Open(h) : h.pending[s].sequence # pr.next
        BY <1>1, <1>8 DEF HistorySound
    <2>2. 1 <= pr.next /\ pr.next < next
        BY <1>1, <1>3
    <2> QED
        BY <1>4, <1>5, <1>6, <1>7, <1>10, <2>1, <2>2 DEF NewRecord
<1> QED
    BY <1>2, <1>7, <1>12, <1>13 DEF record, LeavesOthers

(* What appending leaves: it is within the limits, and readers are told.   *)
LEMMA FinishedIs ==
    ASSUME HistoryAssumption, views \in [Writers -> Snapshots], NEW w \in Writers, NEW pr, Working(pr, w)
    PROVE  /\ ProjectSound(Enforce(Changed(pr, w), w, Pinned))
           /\ Within(Enforce(Changed(pr, w), w, Pinned), Pinned)
           /\ Appends(pr, Enforce(Changed(pr, w), w, Pinned), w)
           /\ Enforce(Changed(pr, w), w, Pinned).of[w].generation > pr.of[w].generation
           /\ LargestWent(pr, Enforce(Changed(pr, w), w, Pinned), Writers \ {w})
           /\ \A u \in Writers : Enforce(Changed(pr, w), w, Pinned).of[u].bytes <= pr.of[u].bytes
<1> DEFINE q == Changed(pr, w)
           e == Enforce(q, w, Pinned)
<1>1. /\ Working(q, w) /\ Appends(pr, q, w) /\ q.of[w].generation = pr.of[w].generation + 1
      /\ LeavesOthers(pr, q, w) /\ q.of[w].bytes = pr.of[w].bytes
    BY ChangedIs
<1> HIDE DEF q
<1>2. ProjectSound(e) /\ Trims(q, e) /\ Within(e, Pinned) /\ LargestWent(q, e, Writers \ {w})
    BY <1>1, PinnedIs, EnforceIs DEF Working, Pins
<1> HIDE DEF e
<1>3. Appends(q, e, w) /\ ProjectSound(q) /\ ProjectSound(pr)
    BY <1>1, <1>2, TrimsAppends DEF Working
<1>4. Appends(pr, e, w)
    BY <1>1, <1>2, <1>3, AppendsFurther
<1>5. e.of[w].generation > pr.of[w].generation
    <2>1. /\ e.of[w].generation \in Nat /\ pr.of[w].generation \in Nat
          /\ e.of[w].generation >= q.of[w].generation
        BY <1>2, <1>3, ProjectIs DEF Appends
    <2> QED
        BY <1>1, <2>1
<1>6. LargestWent(pr, e, Writers \ {w})
    BY <1>1, <1>2 DEF LargestWent, LeavesOthers
<1>7. ASSUME NEW u \in Writers
      PROVE  e.of[u].bytes <= pr.of[u].bytes
    <2>1. e.of[u].bytes <= q.of[u].bytes
        BY <1>2 DEF Trims, TrimsHistory
    <2>2. q.of[u].bytes = pr.of[u].bytes
        BY <1>1 DEF LeavesOthers
    <2> QED
        BY <2>1, <2>2
<1> QED
    BY <1>2, <1>4, <1>5, <1>6, <1>7 DEF e, q

(* The three facts about a step that appends.                              *)
Grew(w) ==
    /\ ProjectSound(project') /\ Within(project', Pinned)
    /\ Appends(project, project', w)
    /\ project'.of[w].generation > project.of[w].generation
    /\ UNCHANGED views

LEMMA AppendIs ==
    ASSUME HistoryAssumption, views \in [Writers -> Snapshots], NEW w \in Writers, Working(project, w),
           NEW s \in Streams, NEW run \in 1..MaxRuns, NEW bytes \in Chunks, Append_(w, s, run, bytes)
    PROVE  Grew(w)
<1>1. PICK alone, longer :
          /\ alone = Flush(project, w, s, FALSE) \/ alone = project
          /\ longer = Written(alone, w, s, run, bytes)
          /\ project' = Enforce(Changed(longer, w), w, Pinned)
    BY DEF Append_
<1>2. Working(alone, w) /\ Appends(project, alone, w)
    <2>1. Working(Flush(project, w, s, FALSE), w) /\ Appends(project, Flush(project, w, s, FALSE), w)
        BY FlushIs
    <2>2. Appends(project, project, w)
        BY TrimsItself, TrimsAppends DEF Working
    <2> QED
        BY <1>1, <2>1, <2>2
<1>3. run \in Nat
    BY DEF HistoryAssumption
<1>4. Working(longer, w) /\ Appends(alone, longer, w)
    BY <1>1, <1>2, <1>3, WrittenIs
<1> DEFINE e == Enforce(Changed(longer, w), w, Pinned)
<1>5. /\ ProjectSound(e) /\ Within(e, Pinned) /\ Appends(longer, e, w)
      /\ e.of[w].generation > longer.of[w].generation
    BY <1>4, FinishedIs
<1>6. project' = e /\ UNCHANGED views
    BY <1>1 DEF Append_
<1> HIDE DEF e
<1>7. Appends(project, longer, w)
    BY <1>2, <1>4, AppendsFurther DEF Working
<1>8. Appends(project, e, w)
    BY <1>4, <1>5, <1>7, AppendsFurther DEF Working
<1>9. e.of[w].generation > project.of[w].generation
    <2>1. /\ e.of[w].generation \in Nat /\ longer.of[w].generation \in Nat
          /\ project.of[w].generation \in Nat /\ longer.of[w].generation >= project.of[w].generation
        BY <1>4, <1>5, <1>7, ProjectIs DEF Working, Appends
    <2> QED
        BY <1>5, <2>1
<1> QED
    BY <1>5, <1>6, <1>8, <1>9 DEF Grew

LEMMA MarkRunIs ==
    ASSUME HistoryAssumption, views \in [Writers -> Snapshots], NEW w \in Writers, Working(project, w),
           MarkRun(w)
    PROVE  Grew(w)
<1> DEFINE whole == Completed(project, w)
           begun == Started(whole, w)
           record == Marker(whole, w)
           marked == Push(begun, w, record)
           e == Enforce(Changed(marked, w), w, Pinned)
<1>1. Working(whole, w) /\ Appends(project, whole, w)
    BY CompletedIs
<1>6. project' = e /\ UNCHANGED views
    BY DEF MarkRun
<1> HIDE DEF whole
<1>2. Working(begun, w) /\ Appends(whole, begun, w) /\ NewRecord(begun, w, record)
    BY <1>1, StartedIs
<1> HIDE DEF begun, record
<1>3. Working(marked, w) /\ Appends(begun, marked, w)
    BY <1>2, PushIs
<1> HIDE DEF marked
<1>5. /\ ProjectSound(e) /\ Within(e, Pinned) /\ Appends(marked, e, w)
      /\ e.of[w].generation > marked.of[w].generation
    BY <1>3, FinishedIs
<1> HIDE DEF e
<1>7. Appends(project, begun, w)
    BY <1>1, <1>2, AppendsFurther DEF Working
<1>8. Appends(project, marked, w)
    BY <1>2, <1>3, <1>7, AppendsFurther DEF Working
<1>9. Appends(project, e, w)
    BY <1>3, <1>5, <1>8, AppendsFurther DEF Working
<1>10. e.of[w].generation > project.of[w].generation
    <2>1. /\ e.of[w].generation \in Nat /\ marked.of[w].generation \in Nat
          /\ project.of[w].generation \in Nat /\ marked.of[w].generation >= project.of[w].generation
        BY <1>3, <1>5, <1>8, ProjectIs DEF Working, Appends
    <2> QED
        BY <1>5, <2>1
<1> QED
    BY <1>5, <1>6, <1>9, <1>10 DEF Grew

-----------------------------------------------------------------------------
(* A snapshot has the lines that are not complete, too.                    *)

LEMMA WithLineIs ==
    ASSUME HistoryAssumption, views \in [Writers -> Snapshots], NEW pr, ProjectSound(pr),
           NEW w \in Writers, NEW s \in Streams, NEW segments \in Seq(Segments)
    PROVE  /\ WithLine(pr, w, s, segments) \in Seq(Segments)
           /\ s \notin Open(pr.of[w]) => WithLine(pr, w, s, segments) = segments
           /\ s \in Open(pr.of[w]) =>
                  Names(WithLine(pr, w, s, segments)) =
                      Names(segments) \cup {pr.of[w].pending[s].sequence}
           /\ Ordered(segments) /\ (s \in Open(pr.of[w]) => pr.of[w].pending[s].sequence \notin Names(segments))
                  => Ordered(WithLine(pr, w, s, segments))
<1> DEFINE h == pr.of[w]
           record == Line(h, s)
           live == Owned(pr) \cup Pinned \cup ToSet(segments)
           q == WithRecord(segments, record, Owned(pr) \cup Pinned, live)
<1>1. CASE h.pending[s] = NoLine
    <2>1. WithLine(pr, w, s, segments) = segments /\ s \notin Open(h)
        BY <1>1 DEF WithLine, Open
    <2> QED
        BY <2>1
<1>2. CASE h.pending[s] # NoLine
    <2>1. WithLine(pr, w, s, segments) = q /\ s \in Open(h)
        BY <1>2 DEF WithLine, Open
    <2>2. h.pending[s] \in Lines
        BY ProjectIs
    <2>3. record \in Records /\ record.sequence = h.pending[s].sequence
        BY <2>2 DEF Line, Lines, Records
    <2>4. IsFiniteSet(live)
        BY OwnedIs, PinnedIs, RangeIsFinite, FS_Union
    <2> HIDE DEF h, record, live
    <2>5. /\ q \in Seq(Segments) /\ Names(q) = Names(segments) \cup {record.sequence}
          /\ Ordered(segments) /\ record.sequence \notin Names(segments) => Ordered(q)
        BY <2>3, <2>4, WithRecordIs
    <2> HIDE DEF q
    <2> QED
        BY <2>1, <2>3, <2>5 DEF h
<1> QED
    BY <1>1, <1>2

OpenUpTo(h, n) == {h.pending[t].sequence : t \in {s \in Open(h) : s <= n}}

ChunkedSteps(f, pr, w) ==
    f = [s \in 0..Cardinality(Streams) |-> IF s = 0 THEN pr.of[w].segments ELSE WithLine(pr, w, s, f[s - 1])]

LEMMA ChunkedIsSteps ==
    ASSUME NEW pr, NEW w, NEW f, ChunkedSteps(f, pr, w)
    PROVE  \E g : ChunkedSteps(g, pr, w) /\ Chunked(pr, w) = g[Cardinality(Streams)]
<1> DEFINE g == CHOOSE h : ChunkedSteps(h, pr, w)
<1>1. ChunkedSteps(g, pr, w)
    OBVIOUS
<1>2. Chunked(pr, w) = g[Cardinality(Streams)]
    BY Zenon DEF Chunked, ChunkedSteps
<1> QED
    BY <1>1, <1>2

(* Lines that are not complete go where their sequences belong; every      *)
(* record stays.                                                           *)
LEMMA ChunkedIs ==
    ASSUME HistoryAssumption, views \in [Writers -> Snapshots], NEW pr, ProjectSound(pr), NEW w \in Writers
    PROVE  /\ Chunked(pr, w) \in Seq(Segments) /\ Ordered(Chunked(pr, w))
           /\ Names(pr.of[w].segments) \subseteq Names(Chunked(pr, w))
           /\ Sequences(pr.of[w]) = {} => Chunked(pr, w) = <<>>
<1> DEFINE h == pr.of[w]
           n == Cardinality(Streams)
           S == Seq(Segments)
           steps == [i \in 1..n |-> [q \in S |-> WithLine(pr, w, i, q)]]
<1>1. n \in Nat /\ Streams = 1..n
    BY FS_CardinalityType DEF HistoryAssumption
<1>2. ASSUME NEW q \in S, NEW s \in Streams
      PROVE  WithLine(pr, w, s, q) \in S
    BY WithLineIs
<1>3. h.segments \in S /\ HistorySound(h, pr.next) /\ h \in Histories /\ h.pending \in [Streams -> Lines]
    BY ProjectIs
<1>4. n = Cardinality(Streams)
    OBVIOUS
<1> HIDE DEF n, S
<1>5. steps \in [1..n -> [S -> S]]
    BY <1>1, <1>2
<1>6. \A i \in 1..n : \A q \in S : steps[i][q] = WithLine(pr, w, i, q)
    OBVIOUS
<1> HIDE DEF steps
<1>7. PICK f : LoopRuns(f, S, steps, h.segments, n)
    BY <1>1, <1>3, <1>5, LoopRunsIs
<1>8. ChunkedSteps(f, pr, w)
    <2>1. f \in [0..n -> S] /\ f[0] = h.segments /\ \A i \in 1..n : f[i] = steps[i][f[i - 1]]
        BY <1>7 DEF LoopRuns
    <2>2. \A i \in 0..n : i # 0 => i - 1 \in 0..n /\ i \in 1..n
        BY <1>1
    <2>3. \A i \in 0..n : f[i] = IF i = 0 THEN h.segments ELSE WithLine(pr, w, i, f[i - 1])
        BY <1>6, <2>1, <2>2
    <2> QED
        BY <1>4, <2>1, <2>3 DEF ChunkedSteps
<1>9. PICK g : ChunkedSteps(g, pr, w) /\ Chunked(pr, w) = g[n]
    BY <1>4, <1>8, ChunkedIsSteps
<1>10. \A i \in 0..n : g[i] = IF i = 0 THEN h.segments ELSE WithLine(pr, w, i, g[i - 1])
    BY <1>4, <1>9 DEF ChunkedSteps
<1> DEFINE Good(q, k) == /\ q \in S /\ Ordered(q)
                         /\ Names(q) = Names(h.segments) \cup OpenUpTo(h, k)
           T == {k \in Nat : k <= n => Good(g[k], k)}
<1>11. 0 \in T
    <2>1. 0 \in 0..n
        BY <1>1
    <2>2. g[0] = h.segments
        BY ONLY <1>10, <2>1
    <2>3. OpenUpTo(h, 0) = {}
        <3>1. \A s \in Open(h) : ~(s <= 0)
            BY <1>1 DEF Open
        <3> QED
            BY <3>1 DEF OpenUpTo
    <2> QED
        BY <1>3, <2>2, <2>3 DEF HistorySound
<1>12. ASSUME NEW k \in Nat, k \in T
       PROVE  k + 1 \in T
    <2>0. k + 1 \in Nat
        OBVIOUS
    <2> SUFFICES ASSUME k + 1 <= n
                 PROVE  Good(g[k + 1], k + 1)
        BY <2>0, Zenon
    <2>1. k + 1 \in 0..n /\ k + 1 # 0 /\ (k + 1) - 1 = k /\ k + 1 \in Streams /\ k <= n
        BY <1>1
    <2>2. Good(g[k], k)
        BY <1>12, <2>1
    <2> DEFINE q == g[k]
               s == k + 1
               p == WithLine(pr, w, s, q)
    <2>3. g[k + 1] = p
        BY <1>10, <2>1
    <2>4. /\ q \in S /\ Ordered(q) /\ Names(q) = Names(h.segments) \cup OpenUpTo(h, k) /\ s \in Streams
        BY <2>1, <2>2
    <2>6. /\ p \in S
          /\ s \notin Open(h) => p = q
          /\ s \in Open(h) => Names(p) = Names(q) \cup {h.pending[s].sequence}
          /\ Ordered(q) /\ (s \in Open(h) => h.pending[s].sequence \notin Names(q)) => Ordered(p)
        <3> HIDE DEF q, s
        <3> QED
            BY <2>4, WithLineIs DEF S
    <2>7. \A t \in Open(h) : t \in Nat /\ (t <= s <=> t <= k \/ t = s) /\ ~(s <= k)
        BY <1>1 DEF Open
    <2> HIDE DEF p, q, s
    <2>8. CASE s \in Open(h)
        <3>1. OpenUpTo(h, s) = OpenUpTo(h, k) \cup {h.pending[s].sequence}
            BY <2>7, <2>8 DEF OpenUpTo
        <3>2. h.pending[s].sequence \notin Names(h.segments)
            BY <1>3, <2>8 DEF HistorySound
        <3>3. h.pending[s].sequence \notin OpenUpTo(h, k)
            BY <1>3, <2>7, <2>8 DEF HistorySound, OpenUpTo
        <3> QED
            BY <2>3, <2>4, <2>6, <2>8, <3>1, <3>2, <3>3 DEF s
    <2>9. CASE s \notin Open(h)
        <3>1. OpenUpTo(h, s) = OpenUpTo(h, k)
            BY <2>7, <2>9 DEF OpenUpTo
        <3> QED
            BY <2>3, <2>4, <2>6, <2>9, <3>1 DEF s
    <2> QED
        BY <2>8, <2>9
<1>13. n \in T
    <2> HIDE DEF T
    <2> QED
        BY <1>1, <1>11, <1>12, FromZero
<1>14. Good(g[n], n)
    BY <1>1, <1>13
<1>15. ASSUME Sequences(h) = {}
       PROVE  g[n] = <<>>
    <2>1. h.segments = <<>> /\ Open(h) = {}
        BY <1>3, <1>15, NothingIsLeft
    <2>2. Names(h.segments) = {} /\ OpenUpTo(h, n) = {}
        BY <2>1, NothingIs DEF OpenUpTo
    <2> QED
        BY <1>14, <2>2, NamesInSegments DEF S
<1> QED
    BY <1>9, <1>14, <1>15 DEF S

FittingSteps(f, n, pr, w) ==
    f = [i \in 0..n |-> IF i = 0 THEN pr ELSE TrimmedToFit(f[i - 1], w)]

LEMMA FittingIsSteps ==
    ASSUME NEW pr, NEW w, NEW f, FittingSteps(f, pr.of[w].bytes, pr, w)
    PROVE  \E g : FittingSteps(g, pr.of[w].bytes, pr, w) /\ Fitting(pr, w) = g[pr.of[w].bytes]
<1> DEFINE g == CHOOSE h : FittingSteps(h, pr.of[w].bytes, pr, w)
<1>1. FittingSteps(g, pr.of[w].bytes, pr, w)
    OBVIOUS
<1>2. Fitting(pr, w) = g[pr.of[w].bytes]
    BY Zenon DEF Fitting, FittingSteps
<1> QED
    BY <1>1, <1>2

(* What a snapshot would not hold is evicted first.                        *)
LEMMA FittingIs ==
    ASSUME HistoryAssumption, views \in [Writers -> Snapshots], NEW pr, ProjectSound(pr), NEW w \in Writers
    PROVE  /\ ProjectSound(Fitting(pr, w)) /\ Trims(pr, Fitting(pr, w))
           /\ Retained(Chunked(Fitting(pr, w), w)) <= PerProcess
           /\ LeavesOthers(pr, Fitting(pr, w), w)
<1> DEFINE S == {q \in TrimmedOf(pr) : LeavesOthers(pr, q, w)}
           n == pr.of[w].bytes
           step == [q \in S |-> TrimmedToFit(q, w)]
           size == [q \in S |-> q.of[w].bytes]
           stop == {q \in S : Fits(q, w)}
<1>1. pr \in S /\ n \in Nat
    BY ProjectIs, TrimsItself DEF TrimmedOf, LeavesOthers
<1>2. ASSUME NEW q \in S
      PROVE  /\ TrimmedToFit(q, w) \in S /\ q.of[w].bytes \in Nat
             /\ ~Fits(q, w) => TrimmedToFit(q, w).of[w].bytes < q.of[w].bytes
             /\ Fits(q, w) => TrimmedToFit(q, w) = q
    <2>1. q.of[w].bytes \in Nat
        BY TrimmedIs, ProjectIs
    <2>2. CASE ~Fits(q, w)
        <3>1. Sequences(q.of[w]) # {} /\ TrimmedToFit(q, w) = EvictFrom(q, w)
            BY <2>2 DEF Fits, TrimmedToFit
        <3>2. /\ EvictFrom(q, w) \in TrimmedOf(pr) /\ LeavesOthers(q, EvictFrom(q, w), w)
              /\ EvictFrom(q, w).of[w].bytes < q.of[w].bytes
            BY <3>1, TrimmedIs
        <3>3. LeavesOthers(pr, EvictFrom(q, w), w)
            BY <3>2 DEF LeavesOthers
        <3> QED
            BY <2>1, <2>2, <3>1, <3>2, <3>3
    <2>3. CASE Fits(q, w)
        BY <2>1, <2>3 DEF TrimmedToFit
    <2> QED
        BY <2>2, <2>3
<1>3. step \in [S -> S] /\ size \in [S -> Nat] /\ size[pr] = n /\ size[pr] <= n
    BY <1>1, <1>2
<1>4. \A q \in S : step[q] = TrimmedToFit(q, w) /\ size[q] = q.of[w].bytes
    OBVIOUS
<1>5. \A q \in S : q \in stop <=> Fits(q, w)
    OBVIOUS
<1>a. n = pr.of[w].bytes
    OBVIOUS
<1> HIDE DEF S, step, size, stop, n
<1>6. /\ \A q \in S : q \in stop \/ size[step[q]] < size[q]
      /\ \A q \in S : q \in stop => step[q] \in stop
    <2>1. ASSUME NEW q \in S
          PROVE  (q \in stop \/ size[step[q]] < size[q]) /\ (q \in stop => step[q] \in stop)
        <3>1. step[q] = TrimmedToFit(q, w) /\ step[q] \in S /\ size[q] = q.of[w].bytes
            BY <1>2, <1>4
        <3>2. size[step[q]] = TrimmedToFit(q, w).of[w].bytes
            BY <1>4, <3>1
        <3> QED
            BY <1>2, <1>5, <3>1, <3>2
    <2> QED
        BY <2>1
<1>7. PICK f : LoopRun(f, S, step, pr, n)
    BY <1>1, <1>3, LoopSteps
<1>8. \A i \in 0..n : f[i] = IF i = 0 THEN pr ELSE TrimmedToFit(f[i - 1], w)
    <2>1. \A i \in 0..n : i # 0 => i - 1 \in 0..n /\ i \in 1..n
        BY <1>1
    <2> QED
        BY <1>4, <1>7, <2>1 DEF LoopRun
<1>9. FittingSteps(f, n, pr, w)
    BY <1>7, <1>8 DEF FittingSteps, LoopRun
<1>10. PICK g : FittingSteps(g, n, pr, w) /\ Fitting(pr, w) = g[n]
    BY <1>9, <1>a, FittingIsSteps
<1>11. \A i \in 0..n : g[i] = IF i = 0 THEN pr ELSE TrimmedToFit(g[i - 1], w)
    BY <1>10 DEF FittingSteps
<1>12. g[n] \in S /\ g[n] \in stop
    <2>1. g[0] = pr
        BY <1>1, <1>11
    <2>2. \A i \in 1..n : g[i - 1] \in S => g[i] = step[g[i - 1]] /\ g[i] \in S
        <3>1. \A i \in 1..n : i \in 0..n /\ i # 0
            BY <1>1
        <3> QED
            BY <1>2, <1>4, <1>11, <3>1
    <2>3. Shrinks(S, step, size, stop)
        BY <1>3, <1>6 DEF Shrinks
    <2>4. Follows(g, S, step, pr, n)
        BY <1>1, <2>1, <2>2 DEF Follows
    <2> QED
        BY <1>3, <2>3, <2>4, LoopEnds
<1>13. ProjectSound(g[n]) /\ Trims(pr, g[n]) /\ LeavesOthers(pr, g[n], w) /\ Fits(g[n], w)
    BY <1>5, <1>12 DEF S, TrimmedOf
<1>14. Retained(Chunked(g[n], w)) <= PerProcess
    <2>1. CASE Sequences(g[n].of[w]) = {}
        <3>1. Chunked(g[n], w) = <<>>
            BY <1>13, <2>1, ChunkedIs
        <3>2. Retained(Chunked(g[n], w)) = 0 /\ PerProcess \in Nat
            BY <3>1, NothingIs DEF HistoryAssumption
        <3> QED
            BY <3>2
    <2>2. CASE Sequences(g[n].of[w]) # {}
        BY <1>13, <2>2 DEF Fits
    <2> QED
        BY <2>1, <2>2
<1> QED
    BY <1>10, <1>13, <1>14

-----------------------------------------------------------------------------
(* The invariant.                                                          *)

HistoryInv ==
    /\ ProjectSound(project)
    /\ views \in [Writers -> Snapshots]
    /\ \A w \in Writers :
           Ordered(views[w].segments) /\ views[w].generation <= project.of[w].generation
    /\ LimitsHold
    /\ UnchangedMeansComplete
    /\ SnapshotsFit

LEMMA InitIsSound ==
    ASSUME HistoryAssumption, Init
    PROVE  HistoryInv
<1>1. <<>> \in Seq(Segments) /\ Names(<<>>) = {} /\ Retained(<<>>) = 0 /\ Ordered(<<>>)
    BY NothingIs
<1> DEFINE none == <<>>
           open == [s \in Streams |-> NoLine]
           h == EmptyHistory
<1>2. open \in [Streams -> Lines] /\ \A s \in Streams : open[s] = NoLine
    BY NoLineIs
<1>3. Raws(open) = 0
    <2> HIDE DEF open
    <2> QED
        BY <1>2, RawsAre
<1>4. none \in Seq(Segments) /\ Names(none) = {} /\ Retained(none) = 0 /\ Ordered(none)
    BY <1>1
<1> HIDE DEF none
<1>5. /\ h \in Histories /\ h.segments = none /\ h.pending = open /\ h.bytes = 0 /\ h.generation = 1
    <2>1. h = [segments |-> none, pending |-> open, bytes |-> 0, truncated |-> FALSE, latest |-> 0,
               generation |-> 1]
        BY DEF EmptyHistory, none
    <2> HIDE DEF h, open
    <2> QED
        BY <1>2, <1>4, <2>1 DEF Histories
<1>6. project = [of |-> [w \in Writers |-> h], bytes |-> 0, next |-> 1]
      /\ views = [w \in Writers |-> NoSnapshot]
    BY DEF Init
<1>7. Open(h) = {}
    BY <1>2, <1>5 DEF Open
<1> HIDE DEF h, open
<1>8. HistorySound(h, 1)
    BY <1>3, <1>4, <1>5, <1>7 DEF HistorySound
<1>9. /\ project \in Projects /\ project.bytes = 0 /\ project.next = 1
      /\ \A w \in Writers : project.of[w] = h
      /\ project.of \in [Writers -> Histories]
    BY <1>5, <1>6 DEF Projects
<1>10. Total(project.of) = 0
    BY <1>5, <1>9, TotalIs
<1>11. ProjectSound(project)
    BY <1>8, <1>9, <1>10 DEF ProjectSound
<1>12. NoSnapshot \in Snapshots /\ NoSnapshot.segments = none /\ NoSnapshot.generation = 0
    <2>1. NoSnapshot = [segments |-> none, generation |-> 0]
        BY DEF NoSnapshot, none
    <2> QED
        BY <1>4, <2>1 DEF Snapshots
<1>13. views \in [Writers -> Snapshots] /\ \A w \in Writers : views[w] = NoSnapshot
    BY <1>6, <1>12
<1>14. LimitsHold
    <2>1. PerProcess \in Nat /\ Global \in Nat
        BY DEF HistoryAssumption
    <2> QED
        BY <1>5, <1>9, <2>1 DEF LimitsHold
<1>15. UnchangedMeansComplete
    BY <1>5, <1>9, <1>12, <1>13 DEF UnchangedMeansComplete
<1>16. SnapshotsFit
    <2>1. PerProcess \in Nat
        BY DEF HistoryAssumption
    <2> QED
        BY <1>4, <1>12, <1>13, <2>1 DEF SnapshotsFit
<1> QED
    BY <1>4, <1>5, <1>9, <1>11, <1>12, <1>13, <1>14, <1>15, <1>16 DEF HistoryInv

(* A snapshot taken earlier is no longer called unchanged once the history *)
(* has grown.                                                              *)
LEMMA GrewIsSound ==
    ASSUME HistoryAssumption, HistoryInv, NEW w \in Writers, Grew(w)
    PROVE  HistoryInv'
<1>1. /\ ProjectSound(project) /\ ProjectSound(project') /\ views' = views
      /\ Appends(project, project', w) /\ project'.of[w].generation > project.of[w].generation
      /\ Within(project', Pinned)
    BY DEF HistoryInv, Grew
<1>2. \A v \in Writers :
          /\ project.of[v].generation \in Nat /\ project'.of[v].generation \in Nat
          /\ views[v].generation \in Nat /\ views[v].generation <= project.of[v].generation
    BY <1>1, ProjectIs DEF HistoryInv, Snapshots
<1>3. ASSUME NEW v \in Writers
      PROVE  /\ views[v].generation <= project'.of[v].generation
             /\ views[v].generation = project'.of[v].generation =>
                    Names(project'.of[v].segments) \subseteq Names(views[v].segments)
    <2>1. CASE v = w
        BY <1>1, <1>2, <2>1
    <2>2. CASE v # w
        <3>1. /\ project'.of[v].generation >= project.of[v].generation
              /\ project'.of[v].generation = project.of[v].generation =>
                     project'.of[v].segments = project.of[v].segments
            BY <1>1, <2>2 DEF Appends, TrimsHistory
        <3>2. views[v].generation <= project'.of[v].generation
            BY <1>2, <3>1
        <3>3. ASSUME views[v].generation = project'.of[v].generation
              PROVE  Names(project'.of[v].segments) \subseteq Names(views[v].segments)
            <4>1. /\ views[v].generation = project.of[v].generation
                  /\ project'.of[v].generation = project.of[v].generation
                BY <1>2, <3>1, <3>3
            <4> QED
                BY <3>1, <4>1 DEF HistoryInv, UnchangedMeansComplete
        <3> QED
            BY <3>2, <3>3
    <2> QED
        BY <2>1, <2>2
<1>4. LimitsHold'
    <2>1. Pinned' = Pinned
        BY <1>1 DEF Pinned
    <2>2. Allocation(project, Pinned)' = Allocation(project', Pinned)
        BY <2>1 DEF Allocation, Owned
    <2> QED
        BY <1>1, <2>2 DEF LimitsHold, Within
<1>5. UnchangedMeansComplete'
    BY <1>1, <1>3 DEF UnchangedMeansComplete
<1>6. SnapshotsFit'
    BY <1>1 DEF HistoryInv, SnapshotsFit
<1> QED
    BY <1>1, <1>3, <1>4, <1>5, <1>6 DEF HistoryInv

(* What a reader takes is in order, fits, and has every record of the      *)
(* history as it then is.                                                  *)
LEMMA TakenIsSound ==
    ASSUME HistoryAssumption, HistoryInv, NEW w \in Writers, NEW pr, ProjectSound(pr), Trims(project, pr),
           \A v \in Writers : pr.of[v].bytes <= PerProcess, pr.bytes <= Global,
           NEW segments \in Seq(Segments), Ordered(segments), Retained(segments) <= PerProcess,
           Names(pr.of[w].segments) \subseteq Names(segments),
           NEW pins, Pins(pins), Pinned \cup ToSet(segments) \subseteq Owned(pr) \cup pins,
           Allocation(pr, pins) <= Global \/ pr.bytes = 0,
           Taken(w, pr, segments)
    PROVE  HistoryInv'
<1> DEFINE taken == [segments |-> segments, generation |-> pr.of[w].generation]
<1>1. /\ ProjectSound(project) /\ views \in [Writers -> Snapshots]
      /\ project' = pr /\ views' = [views EXCEPT ![w] = taken]
    BY DEF HistoryInv, Taken
<1>2. /\ taken.segments = segments /\ taken.generation = pr.of[w].generation
      /\ taken \in Snapshots
    <2>1. pr.of[w].generation \in Nat
        BY ProjectIs
    <2> QED
        BY <2>1 DEF Snapshots
<1> HIDE DEF taken
<1>3. /\ views' \in [Writers -> Snapshots] /\ views'[w] = taken
      /\ \A v \in Writers \ {w} : views'[v] = views[v]
    BY <1>1, <1>2
<1>4. \A v \in Writers :
          /\ project.of[v].generation \in Nat /\ pr.of[v].generation \in Nat
          /\ views[v].generation \in Nat /\ views[v].generation <= project.of[v].generation
    BY <1>1, ProjectIs DEF HistoryInv, Snapshots
<1>5. ASSUME NEW v \in Writers
      PROVE  /\ Ordered(views'[v].segments)
             /\ Retained(views'[v].segments) <= PerProcess
             /\ views'[v].generation <= pr.of[v].generation
             /\ views'[v].generation = pr.of[v].generation =>
                    Names(pr.of[v].segments) \subseteq Names(views'[v].segments)
    <2>1. CASE v = w
        BY <1>2, <1>3, <1>4, <2>1
    <2>2. CASE v # w
        <3>1. /\ pr.of[v].generation >= project.of[v].generation
              /\ pr.of[v].generation = project.of[v].generation =>
                     pr.of[v].segments = project.of[v].segments
            BY DEF Trims, TrimsHistory
        <3>2. /\ views'[v] = views[v] /\ Ordered(views[v].segments)
              /\ Retained(views[v].segments) <= PerProcess
            BY <1>3, <2>2 DEF HistoryInv, SnapshotsFit
        <3>3. views[v].generation <= pr.of[v].generation
            BY <1>4, <3>1
        <3>4. ASSUME views[v].generation = pr.of[v].generation
              PROVE  Names(pr.of[v].segments) \subseteq Names(views[v].segments)
            <4>1. /\ views[v].generation = project.of[v].generation
                  /\ pr.of[v].generation = project.of[v].generation
                BY <1>4, <3>1, <3>4
            <4> QED
                BY <3>1, <4>1 DEF HistoryInv, UnchangedMeansComplete
        <3> QED
            BY <3>2, <3>3, <3>4
    <2> QED
        BY <2>1, <2>2
<1>6. LimitsHold'
    <2> DEFINE left == UNION {ToSet(views'[v].segments) : v \in Writers}
    <2>1. left \subseteq Pinned \cup ToSet(segments)
        <3>1. ASSUME NEW v \in Writers
              PROVE  ToSet(views'[v].segments) \subseteq Pinned \cup ToSet(segments)
            <4>1. CASE v = w
                BY <1>2, <1>3, <4>1
            <4>2. CASE v # w
                BY <1>3, <4>2 DEF Pinned
            <4> QED
                BY <4>1, <4>2
        <3> QED
            BY <3>1
    <2>2. Pinned' = left
        BY DEF Pinned
    <2> HIDE DEF left
    <2>3. Owned(pr) \cup left \subseteq Owned(pr) \cup pins
        BY <2>1
    <2>4. Allocation(pr, left) \in Nat /\ Allocation(pr, left) <= Allocation(pr, pins)
        BY <2>3, AllocationIsSmaller
    <2>5. Allocation(pr, pins) \in Nat /\ Global \in Nat
        BY AllocationIs DEF HistoryAssumption
    <2>6. Allocation(pr, left) <= Global \/ pr.bytes = 0
        BY <2>4, <2>5
    <2>7. Allocation(project, Pinned)' = Allocation(pr, left)
        BY <1>1, <2>2 DEF Allocation, Owned
    <2> QED
        BY <1>1, <2>6, <2>7 DEF LimitsHold
<1>7. UnchangedMeansComplete'
    BY <1>1, <1>5 DEF UnchangedMeansComplete
<1>8. SnapshotsFit'
    BY <1>5 DEF SnapshotsFit
<1> QED
    BY <1>1, <1>3, <1>5, <1>6, <1>7, <1>8 DEF HistoryInv

LEMMA RetainedWithinBytes ==
    ASSUME HistoryAssumption, NEW pr, ProjectSound(pr), NEW w \in Writers, pr.of[w].bytes <= PerProcess
    PROVE  Retained(pr.of[w].segments) <= PerProcess
<1> DEFINE h == pr.of[w]
<1>1. /\ h.segments \in Seq(Segments) /\ h.pending \in [Streams -> Lines] /\ h.bytes \in Nat
      /\ HistorySound(h, pr.next) /\ PerProcess \in Nat /\ h.bytes <= PerProcess
    BY ProjectIs DEF HistoryAssumption
<1> HIDE DEF h
<1>2. Retained(h.segments) \in Nat /\ Raws(h.pending) \in Nat
    BY <1>1, RetainedIs, RawsAre
<1>3. h.bytes = Retained(h.segments) + Raws(h.pending)
    BY <1>1 DEF HistorySound
<1>4. Retained(h.segments) <= PerProcess
    BY <1>1, <1>2, <1>3
<1> QED
    BY <1>4 DEF h

LEMMA SnapshotIsSound ==
    ASSUME HistoryAssumption, HistoryInv, NEW w \in Writers, Snapshot(w)
    PROVE  HistoryInv'
<1> DEFINE fitting == Fitting(project, w)
           chunks == Chunked(fitting, w)
           pins == Pinned \cup ToSet(chunks)
           pr == Enforce(fitting, w, pins)
           final == Enforce(pr, w, Pinned)
<1>1. ProjectSound(project) /\ views \in [Writers -> Snapshots] /\ Pins(Pinned)
    BY PinnedIs DEF HistoryInv, Pins
<1>2. Sharing(w, pr, chunks)
    BY DEF Snapshot
<1>3. ProjectSound(fitting) /\ Trims(project, fitting) /\ Retained(chunks) <= PerProcess
    BY <1>1, FittingIs
<1> HIDE DEF fitting
<1>4. /\ chunks \in Seq(Segments) /\ Ordered(chunks)
      /\ Names(fitting.of[w].segments) \subseteq Names(chunks)
    BY <1>1, <1>3, ChunkedIs
<1> HIDE DEF chunks
<1>5. Pins(pins)
    BY <1>1, <1>4, RangeIsFinite, FS_Union DEF Pins
<1>6. pins = Pinned \cup ToSet(chunks)
    OBVIOUS
<1> HIDE DEF pins
<1>7. \A v \in Writers : fitting.of[v].bytes <= PerProcess
    <2>1. ASSUME NEW v \in Writers
          PROVE  fitting.of[v].bytes <= PerProcess
        <3>1. project.of[v].bytes \in Nat /\ fitting.of[v].bytes \in Nat /\ PerProcess \in Nat
            BY <1>1, <1>3, ProjectIs DEF HistoryAssumption
        <3>2. project.of[v].bytes <= PerProcess /\ fitting.of[v].bytes <= project.of[v].bytes
            BY <1>3 DEF HistoryInv, LimitsHold, Trims, TrimsHistory
        <3> QED
            BY <3>1, <3>2
    <2> QED
        BY <2>1
<1>8. ProjectSound(pr) /\ Trims(fitting, pr) /\ Within(pr, pins)
    BY <1>3, <1>5, <1>7, EnforceIs
<1> HIDE DEF pr
<1>9. Trims(project, pr)
    BY <1>1, <1>3, <1>8, TrimsFurther
<1>10. (\A v \in Writers : pr.of[v].bytes <= PerProcess) /\ pr.bytes <= Global
    BY <1>8 DEF Within
<1>11. ProjectSound(final) /\ Trims(pr, final) /\ Within(final, Pinned)
    BY <1>1, <1>8, <1>10, EnforceIs
<1> HIDE DEF final
<1>12. CASE Allocation(pr, pins) > Global
    <2> DEFINE left == final.of[w].segments
    <2>1. Taken(w, final, left)
        BY <1>2, <1>6, <1>12 DEF Sharing, final
    <2>2. Trims(project, final)
        BY <1>1, <1>8, <1>9, <1>11, TrimsFurther
    <2>3. /\ \A v \in Writers : final.of[v].bytes <= PerProcess
          /\ final.bytes <= Global /\ (Allocation(final, Pinned) <= Global \/ final.bytes = 0)
        BY <1>11 DEF Within
    <2>4. left \in Seq(Segments) /\ Ordered(left) /\ Retained(left) <= PerProcess
        <3>1. HistorySound(final.of[w], final.next)
            BY <1>11, ProjectIs
        <3> QED
            BY <1>11, <2>3, <3>1, ProjectIs, RetainedWithinBytes DEF HistorySound
    <2>5. ToSet(left) \subseteq Owned(final) /\ left = final.of[w].segments
        BY DEF Owned
    <2> HIDE DEF left
    <2>6. /\ Pinned \cup ToSet(left) \subseteq Owned(final) \cup Pinned
          /\ Names(final.of[w].segments) \subseteq Names(left)
        BY <2>5
    <2> QED
        BY <1>1, <1>11, <2>1, <2>2, <2>3, <2>4, <2>6, TakenIsSound
<1>13. CASE ~(Allocation(pr, pins) > Global)
    <2>1. Taken(w, pr, chunks)
        BY <1>2, <1>6, <1>13 DEF Sharing
    <2>2. Names(pr.of[w].segments) \subseteq Names(chunks)
        BY <1>4, <1>8 DEF Trims, TrimsHistory
    <2>3. Allocation(pr, pins) <= Global \/ pr.bytes = 0
        BY <1>8 DEF Within
    <2>4. Pinned \cup ToSet(chunks) \subseteq Owned(pr) \cup pins
        BY <1>6
    <2> QED
        BY <1>3, <1>4, <1>5, <1>8, <1>9, <1>10, <2>1, <2>2, <2>3, <2>4, TakenIsSound
<1> QED
    BY <1>12, <1>13

(* For all limits, Processes, streams and chunks: whatever readers append, *)
(* whenever Runs start and whatever snapshots the interface takes and      *)
(* keeps, HistoryInv holds: what is counted is what is kept, lines and     *)
(* records have sequences of their own below the next one, no limit of     *)
(* output.rs is passed, and a snapshot is in order, fits, and is complete  *)
(* while its history has not changed.                                      *)
THEOREM HistoryIsInductive == HistoryAssumption => (Spec => []HistoryInv)
<1> SUFFICES ASSUME HistoryAssumption
             PROVE  Spec => []HistoryInv
    OBVIOUS
<1>1. Init => HistoryInv
    BY InitIsSound
<1>2. HistoryInv /\ [Next]_vars => HistoryInv'
    <2> SUFFICES ASSUME HistoryInv, [Next]_vars
                 PROVE  HistoryInv'
        OBVIOUS
    <2>1. ASSUME NEW w \in Writers
          PROVE  Working(project, w) /\ views \in [Writers -> Snapshots]
        BY DEF HistoryInv, Working, LimitsHold
    <2>2. ASSUME NEW w \in Writers, NEW s \in Streams, NEW run \in 1..MaxRuns, NEW bytes \in Chunks,
                 Append_(w, s, run, bytes)
          PROVE  HistoryInv'
        <3>1. Grew(w)
            BY <2>1, <2>2, AppendIs
        <3> QED
            BY <3>1, GrewIsSound
    <2>3. ASSUME NEW w \in Writers, MarkRun(w)
          PROVE  HistoryInv'
        <3>1. Grew(w)
            BY <2>1, <2>3, MarkRunIs
        <3> QED
            BY <3>1, GrewIsSound
    <2>4. ASSUME NEW w \in Writers, Snapshot(w)
          PROVE  HistoryInv'
        BY <2>4, SnapshotIsSound
    <2>5. CASE UNCHANGED vars
        BY <2>5 DEF vars, HistoryInv, LimitsHold, UnchangedMeansComplete, SnapshotsFit, Allocation,
                    Owned, Pinned
    <2> QED
        BY <2>2, <2>3, <2>4, <2>5 DEF Next
<1> QED
    BY <1>1, <1>2, PTL DEF Spec

LEMMA SoundCounts ==
    ASSUME HistoryInv
    PROVE  CountsAreExact /\ RecordsAreOrdered
<1>1. CountsAreExact
    BY DEF HistoryInv, ProjectSound, HistorySound, CountsAreExact, Kept, Raws, Total
<1>2. RecordsAreOrdered
    BY DEF HistoryInv, ProjectSound, HistorySound, RecordsAreOrdered
<1> QED
    BY <1>1, <1>2

(* For all limits: the counters of a history and of the Project are what   *)
(* is retained, no history and not all together with what readers hold are *)
(* over their limit, records are in the order in which their lines began,  *)
(* a reader told that nothing changed has every record, and no snapshot    *)
(* holds more than one history may.                                        *)
THEOREM HistoryIsKept ==
    HistoryAssumption =>
        (Spec => [](CountsAreExact /\ LimitsHold /\ RecordsAreOrdered
                        /\ UnchangedMeansComplete /\ SnapshotsFit))
<1>1. HistoryInv => CountsAreExact /\ LimitsHold /\ RecordsAreOrdered
                        /\ UnchangedMeansComplete /\ SnapshotsFit
    BY SoundCounts DEF HistoryInv
<1> QED
    BY <1>1, HistoryIsInductive, PTL

-----------------------------------------------------------------------------
(* Who loses history.                                                      *)

(* Until its last byte a chunk of at most a line takes nothing from the    *)
(* others.                                                                 *)
LEMMA WrittenTakesFromTheLargest ==
    ASSUME HistoryAssumption, views \in [Writers -> Snapshots], NEW w \in Writers, NEW pr,
           Working(pr, w), NEW s \in Streams, NEW run \in Nat, NEW bytes \in Chunks,
           pr.of[w].pending[s].raw + Len(bytes) <= LineBytes,
           \A i \in 1..(Len(bytes) - 1) : bytes[i] # "newline"
    PROVE  LargestWent(pr, Written(pr, w, s, run, bytes), Writers \ {w})
<1> DEFINE n == Len(bytes)
           raw == pr.of[w].pending[s].raw
<1>1. n \in Nat /\ raw \in Nat /\ LineBytes \in Nat /\ raw + n <= LineBytes
    <2>1. bytes \in Seq({"text", "invalid", "newline"}) /\ LineBytes \in Nat
        BY DEF HistoryAssumption
    <2> QED
        BY <2>1, LenProperties, LineIs
<1>2. PICK g : WrittenSteps(g, pr, w, s, run, bytes) /\ Written(pr, w, s, run, bytes) = g[n]
    BY WrittenIs
<1>3. \A i \in 0..n : g[i] = IF i = 0 THEN pr ELSE AppendByte(g[i - 1], w, s, run, bytes[i])
    BY <1>2 DEF WrittenSteps
<1>4. \A i \in 1..(n - 1) : bytes[i] # "newline"
    OBVIOUS
<1>5. raw = pr.of[w].pending[s].raw
    OBVIOUS
<1> HIDE DEF n, raw
<1> DEFINE Unbroken(k) == /\ Working(g[k], w) /\ LeavesOthers(pr, g[k], w)
                        /\ g[k].of[w].pending[s].raw = raw + k
           T == {k \in Nat : k < n => Unbroken(k)}
<1>6. g[0] = pr
    <2>1. 0 \in 0..n
        BY <1>1
    <2> QED
        BY ONLY <1>3, <2>1
<1>7. 0 \in T
    BY <1>1, <1>5, <1>6 DEF LeavesOthers
<1>8. ASSUME NEW k \in Nat, k \in T
      PROVE  k + 1 \in T
    <2>0. k + 1 \in Nat
        OBVIOUS
    <2> SUFFICES ASSUME k + 1 < n
                 PROVE  Unbroken(k + 1)
        BY <2>0, Zenon
    <2>1. /\ k < n /\ k + 1 \in 0..n /\ k + 1 # 0 /\ (k + 1) - 1 = k /\ k + 1 \in 1..(n - 1)
          /\ (raw + k) + 1 # LineBytes /\ (raw + k) + 1 = raw + (k + 1)
        BY <1>1
    <2> DEFINE q == g[k]
               byte == bytes[k + 1]
               p == AppendByte(q, w, s, run, byte)
    <2>2. Working(q, w) /\ LeavesOthers(pr, q, w) /\ q.of[w].pending[s].raw = raw + k
        BY <1>8, <2>1
    <2>3. g[k + 1] = p /\ byte # "newline"
        BY <1>3, <1>4, <2>1
    <2> HIDE DEF q, byte
    <2>4. /\ Working(p, w) /\ LeavesOthers(q, p, w)
          /\ p.of[w].pending[s].raw = q.of[w].pending[s].raw + 1
        <3>1. q.of[w].pending[s].raw + 1 # LineBytes
            BY <2>1, <2>2
        <3> QED
            BY <2>2, <2>3, <3>1, AppendByteInALine
    <2> HIDE DEF p
    <2>5. LeavesOthers(pr, p, w)
        BY <2>2, <2>4 DEF LeavesOthers
    <2> QED
        BY <2>1, <2>2, <2>3, <2>4, <2>5
<1>9. Nat \subseteq T
    <2> HIDE DEF T
    <2> QED
        BY <1>7, <1>8, FromZero
<1>10. CASE n = 0
    BY <1>2, <1>6, <1>10 DEF LargestWent
<1>11. CASE n # 0
    <2>1. n - 1 \in Nat /\ n - 1 < n /\ n \in 0..n
        BY <1>1, <1>11
    <2> DEFINE q == g[n - 1]
               byte == bytes[n]
               p == AppendByte(q, w, s, run, byte)
    <2>2. Working(q, w) /\ LeavesOthers(pr, q, w)
        BY <1>9, <2>1
    <2>3. g[n] = p
        BY <1>3, <1>11, <2>1
    <2> HIDE DEF q, byte
    <2>4. LargestWent(q, p, Writers \ {w})
        BY <2>2, AppendByteIs
    <2> HIDE DEF p
    <2> QED
        BY <1>2, <2>2, <2>3, <2>4 DEF LargestWent, LeavesOthers
<1> QED
    BY <1>10, <1>11

LEMMA AppendTakesFromTheLargest ==
    ASSUME HistoryAssumption, views \in [Writers -> Snapshots], NEW w \in Writers, Working(project, w),
           NEW s \in Streams, NEW run \in 1..MaxRuns, NEW bytes \in Chunks,
           AtMostALine(w, s, run, bytes), Append_(w, s, run, bytes)
    PROVE  LargestWent(project, project', Writers \ {w})
<1>1. PICK longer : /\ longer = Written(project, w, s, run, bytes)
                    /\ project' = Enforce(Changed(longer, w), w, Pinned)
    BY DEF AtMostALine, Append_
<1>2. run \in Nat
    BY DEF HistoryAssumption
<1>3. Working(longer, w)
    BY <1>1, <1>2, WrittenIs
<1>4. LargestWent(project, longer, Writers \ {w})
    <2>1. /\ project.of[w].pending[s].raw + Len(bytes) <= LineBytes
          /\ \A i \in 1..(Len(bytes) - 1) : bytes[i] # "newline"
        BY DEF AtMostALine
    <2> QED
        BY <1>1, <1>2, <2>1, WrittenTakesFromTheLargest
<1> DEFINE e == Enforce(Changed(longer, w), w, Pinned)
<1>5. /\ ProjectSound(e) /\ LargestWent(longer, e, Writers \ {w})
      /\ \A u \in Writers : e.of[u].bytes <= longer.of[u].bytes
    BY <1>3, FinishedIs
<1>6. project' = e
    BY <1>1
<1> HIDE DEF e
<1>7. ProjectSound(project) /\ ProjectSound(longer)
    BY <1>3 DEF Working
<1> QED
    BY <1>4, <1>5, <1>6, <1>7, LargestWentFurther

(* Without a line to complete, only the marker is appended.                *)
LEMMA CompletedIsTheSame ==
    ASSUME HistoryAssumption, views \in [Writers -> Snapshots], NEW w \in Writers, NEW pr,
           Working(pr, w), \A s \in Streams : pr.of[w].pending[s] = NoLine
    PROVE  Completed(pr, w) = pr
<1> DEFINE n == Cardinality(Streams)
<1>1. n \in Nat /\ Streams = 1..n
    BY FS_CardinalityType DEF HistoryAssumption
<1>2. PICK g : CompletedSteps(g, pr, w) /\ Completed(pr, w) = g[n]
    BY CompletedIs
<1>3. \A i \in 0..n : g[i] = IF i = 0 THEN pr ELSE Flush(g[i - 1], w, i, FALSE)
    BY <1>2 DEF CompletedSteps
<1> HIDE DEF n
<1> DEFINE T == {k \in Nat : k <= n => g[k] = pr}
<1>4. 0 \in T
    <2>1. 0 \in 0..n
        BY <1>1
    <2>2. g[0] = pr
        BY ONLY <1>3, <2>1
    <2> QED
        BY <2>2
<1>5. ASSUME NEW k \in Nat, k \in T
      PROVE  k + 1 \in T
    <2>0. k + 1 \in Nat
        OBVIOUS
    <2> SUFFICES ASSUME k + 1 <= n
                 PROVE  g[k + 1] = pr
        BY <2>0, Zenon
    <2>1. k <= n /\ k + 1 \in 0..n /\ k + 1 # 0 /\ (k + 1) - 1 = k /\ k + 1 \in Streams
        BY <1>1
    <2>2. g[k + 1] = Flush(pr, w, k + 1, FALSE)
        BY <1>3, <1>5, <2>1
    <2> QED
        BY <2>1, <2>2 DEF Flush
<1>6. n \in T
    <2> HIDE DEF T
    <2> QED
        BY <1>1, <1>4, <1>5, FromZero
<1> QED
    BY <1>1, <1>2, <1>6

LEMMA MarkRunTakesFromTheLargest ==
    ASSUME HistoryAssumption, views \in [Writers -> Snapshots], NEW w \in Writers, Working(project, w),
           \A s \in Streams : project.of[w].pending[s] = NoLine, MarkRun(w)
    PROVE  LargestWent(project, project', Writers \ {w})
<1> DEFINE begun == Started(project, w)
           record == Marker(project, w)
           marked == Push(begun, w, record)
           e == Enforce(Changed(marked, w), w, Pinned)
<1>1. Completed(project, w) = project
    BY CompletedIsTheSame
<1>2. project' = e
    BY <1>1 DEF MarkRun
<1>3. Working(begun, w) /\ NewRecord(begun, w, record) /\ LeavesOthers(project, begun, w)
    BY StartedIs
<1> HIDE DEF begun, record
<1>4. Working(marked, w) /\ LargestWent(begun, marked, Writers \ {w})
    BY <1>3, PushIs
<1> HIDE DEF marked
<1>5. /\ ProjectSound(e) /\ LargestWent(marked, e, Writers \ {w})
      /\ \A u \in Writers : e.of[u].bytes <= marked.of[u].bytes
    BY <1>4, FinishedIs
<1> HIDE DEF e
<1>6. LargestWent(project, marked, Writers \ {w})
    BY <1>3, <1>4 DEF LargestWent, LeavesOthers
<1>7. ProjectSound(project) /\ ProjectSound(marked)
    BY <1>4 DEF Working
<1> QED
    BY <1>2, <1>5, <1>6, <1>7, LargestWentFurther

LEMMA SnapshotTakesFromTheLargest ==
    ASSUME HistoryAssumption, HistoryInv, NEW w \in Writers, Snapshot(w)
    PROVE  LargestWent(project, project', Writers \ {w})
<1> DEFINE fitting == Fitting(project, w)
           chunks == Chunked(fitting, w)
           pins == Pinned \cup ToSet(chunks)
           pr == Enforce(fitting, w, pins)
           final == Enforce(pr, w, Pinned)
           others == Writers \ {w}
<1>1. ProjectSound(project) /\ views \in [Writers -> Snapshots] /\ Pins(Pinned)
    BY PinnedIs DEF HistoryInv, Pins
<1>2. project' = pr \/ project' = final
    BY DEF Snapshot, Sharing, Taken
<1>3. ProjectSound(fitting) /\ Trims(project, fitting) /\ LeavesOthers(project, fitting, w)
    BY <1>1, FittingIs
<1> HIDE DEF fitting
<1>4. Pins(pins)
    <2>1. chunks \in Seq(Segments)
        BY <1>1, <1>3, ChunkedIs
    <2> HIDE DEF chunks
    <2> QED
        BY <1>1, <2>1, RangeIsFinite, FS_Union DEF Pins
<1> HIDE DEF pins
<1>5. \A v \in others : fitting.of[v].bytes <= PerProcess
    BY <1>3 DEF HistoryInv, LimitsHold, LeavesOthers
<1>6. ProjectSound(pr) /\ Within(pr, pins) /\ LargestWent(fitting, pr, others)
    BY <1>3, <1>4, <1>5, EnforceIs
<1> HIDE DEF pr
<1>7. \A v \in Writers : pr.of[v].bytes <= PerProcess
    BY <1>6 DEF Within
<1>8. ProjectSound(final) /\ Trims(pr, final) /\ LargestWent(pr, final, others)
    BY <1>1, <1>6, <1>7, EnforceIs
<1> HIDE DEF final
<1>9. LargestWent(project, pr, others)
    BY <1>3, <1>6 DEF LargestWent, LeavesOthers
<1>10. \A u \in Writers : final.of[u].bytes <= pr.of[u].bytes
    BY <1>8 DEF Trims, TrimsHistory
<1>11. LargestWent(project, final, others)
    BY <1>1, <1>6, <1>8, <1>9, <1>10, LargestWentFurther
<1> QED
    BY <1>2, <1>9, <1>11

(* For all limits: whoever loses history because of another Process, by    *)
(* output of at most a line, a marker or a snapshot, had at least as much  *)
(* before as anybody has afterwards (ProjectHistory::enforce in output.rs).*)
THEOREM LargestGoesFirst == HistoryAssumption => (Spec => [][LargestIsTrimmedFirst]_vars)
<1> SUFFICES ASSUME HistoryAssumption
             PROVE  Spec => [][LargestIsTrimmedFirst]_vars
    OBVIOUS
<1>1. HistoryInv => LargestIsTrimmedFirst
    <2> SUFFICES ASSUME HistoryInv, NEW w \in Writers, NEW v \in Writers \ {w},
                        project'.of[v].bytes < project.of[v].bytes, TrimsOnce(w)
                 PROVE  \A u \in Writers : project'.of[u].bytes <= project.of[v].bytes
        BY DEF LargestIsTrimmedFirst
    <2>1. Working(project, w) /\ views \in [Writers -> Snapshots]
        BY DEF HistoryInv, Working, LimitsHold
    <2>2. ASSUME NEW s \in Streams, NEW run \in 1..MaxRuns, NEW bytes \in Chunks,
                 AtMostALine(w, s, run, bytes), Append_(w, s, run, bytes)
          PROVE  LargestWent(project, project', Writers \ {w})
        BY <2>1, <2>2, AppendTakesFromTheLargest
    <2>3. ASSUME MarkRun(w), \A s \in Streams : project.of[w].pending[s] = NoLine
          PROVE  LargestWent(project, project', Writers \ {w})
        BY <2>1, <2>3, MarkRunTakesFromTheLargest
    <2>4. ASSUME Snapshot(w)
          PROVE  LargestWent(project, project', Writers \ {w})
        BY <2>4, SnapshotTakesFromTheLargest
    <2>5. LargestWent(project, project', Writers \ {w})
        BY <2>2, <2>3, <2>4 DEF TrimsOnce
    <2>6. project.of[v].bytes \in Nat
        BY <2>1, ProjectIs DEF Working
    <2>7. project'.of[v] # project.of[v]
        BY <2>6
    <2> QED
        BY <2>5, <2>7 DEF LargestWent
<1> QED
    BY <1>1, HistoryIsInductive, PTL DEF Spec

=============================================================================
