---------------------------- MODULE LogSearchProofs ----------------------------
(***************************************************************************)
(* That the incremental search shows what a whole search of the same       *)
(* output would, that a pending one comes to its end, and that the current *)
(* match stays, for all limits and any output.                             *)
(***************************************************************************)
EXTENDS LogSearch, FiniteSetTheorems, SequenceTheorems, WellFoundedInduction, TLAPS

-----------------------------------------------------------------------------
(* Numbers, and the newest of a set of them.                               *)

LEMMA LeastNumber ==
    ASSUME NEW S \in SUBSET Nat, S # {}
    PROVE  \E least \in S : \A x \in S : least <= x
<1>1. PICK least \in S : \A x \in S : ~(<<x, least>> \in OpToRel(<, Nat))
    BY WFMin, NatLessThanWellFounded
<1>2. least \in Nat /\ \A x \in S : x \in Nat /\ ~(x < least)
    BY <1>1 DEF OpToRel
<1>3. \A x \in S : least <= x
    BY <1>2
<1> QED
    BY <1>3

LEMMA MaxIsGreatest ==
    ASSUME NEW S \in SUBSET Nat, S # {}, NEW bound \in Nat, \A x \in S : x <= bound
    PROVE  Max(S) \in S /\ \A x \in S : x <= Max(S)
<1> DEFINE Above == {n \in Nat : \A x \in S : x <= n}
<1>1. Above \in SUBSET Nat /\ Above # {}
    OBVIOUS
<1>2. PICK least \in Above : \A n \in Above : least <= n
    BY <1>1, LeastNumber
<1>3. least \in Nat /\ \A x \in S : x <= least
    BY <1>2
<1>4. least \in S
    <2> SUFFICES ASSUME least \notin S
                 PROVE  FALSE
        OBVIOUS
    <2>1. PICK x \in S : TRUE
        OBVIOUS
    <2>2. least - 1 \in Nat /\ \A y \in S : y <= least - 1
        BY <1>3, <2>1
    <2>3. least - 1 \in Above
        BY <2>2
    <2> QED
        BY <1>2, <1>3, <2>3
<1>5. \E x \in S : \A y \in S : x >= y
    BY <1>3, <1>4
<1> QED
    BY <1>5 DEF Max

Finite(R) == R \in SUBSET Nat /\ IsFiniteSet(R)

(* The newer part of a set: what it has of it is newer than the rest.      *)
Upper(M, R) == M \subseteq R /\ \A m \in M, r \in R : r > m => r \in M

LEMMA NewerIsFinite ==
    ASSUME NEW R, Finite(R), NEW r
    PROVE  /\ IsFiniteSet({q \in R : q > r})
           /\ Cardinality({q \in R : q > r}) \in Nat
<1>1. {q \in R : q > r} \in SUBSET R
    OBVIOUS
<1> QED
    BY <1>1, FS_Subset, FS_CardinalityType DEF Finite

LEMMA UpperIsNewest ==
    ASSUME NEW R, Finite(R), NEW M, Upper(M, R)
    PROVE  M = Newest(R, Cardinality(M))
<1> DEFINE newer(r) == {q \in R : q > r}
<1>1. M \in SUBSET R /\ IsFiniteSet(M) /\ Cardinality(M) \in Nat
    BY FS_Subset, FS_CardinalityType DEF Upper, Finite
<1>2. ASSUME NEW r \in M
      PROVE  Cardinality(newer(r)) < Cardinality(M)
    <2>1. newer(r) \in SUBSET M /\ r \in M
        BY DEF Upper
    <2>0. r \in Nat /\ ~(r > r)
        BY <1>1 DEF Upper, Finite
    <2>2. /\ Cardinality(newer(r)) <= Cardinality(M)
          /\ Cardinality(M) = Cardinality(newer(r)) => M = newer(r)
          /\ Cardinality(newer(r)) \in Nat
        BY <1>1, <2>1, FS_Subset, FS_CardinalityType
    <2>3. M # newer(r)
        BY <2>0, <2>1
    <2> QED
        BY <1>1, <2>2, <2>3
<1>3. ASSUME NEW r \in R \ M
      PROVE  ~(Cardinality(newer(r)) < Cardinality(M))
    <2>1. \A m \in M : m \in Nat /\ r \in Nat /\ m # r /\ ~(r > m)
        BY <1>1 DEF Upper, Finite
    <2>2. M \in SUBSET newer(r)
        BY <1>1, <2>1
    <2>3. IsFiniteSet(newer(r)) /\ Cardinality(newer(r)) \in Nat
        BY NewerIsFinite
    <2>4. Cardinality(M) <= Cardinality(newer(r))
        BY <2>2, <2>3, FS_Subset
    <2> QED
        BY <1>1, <2>3, <2>4
<1> QED
    BY <1>1, <1>2, <1>3 DEF Newest

LEMMA NewestIsUpper ==
    ASSUME NEW R, Finite(R), NEW limit \in Nat
    PROVE  Upper(Newest(R, limit), R)
<1> SUFFICES ASSUME NEW m \in Newest(R, limit), NEW r \in R, r > m
             PROVE  r \in Newest(R, limit)
    BY DEF Upper, Newest
<1>1. m \in R /\ Cardinality({q \in R : q > m}) < limit
    BY DEF Newest
<1>2. \A q \in R : q \in Nat
    BY DEF Finite
<1>3. \A q \in R : q > r => q > m
    BY <1>1, <1>2
<1>4. {q \in R : q > r} \in SUBSET {q \in R : q > m}
    BY <1>3
<1>5. Cardinality({q \in R : q > r}) <= Cardinality({q \in R : q > m})
    BY <1>4, NewerIsFinite, FS_Subset
<1> QED
    BY <1>1, <1>5, NewerIsFinite DEF Newest

LEMMA NewestOfFew ==
    ASSUME NEW R, Finite(R), NEW limit \in Nat, Cardinality(R) <= limit
    PROVE  Newest(R, limit) = R
<1> SUFFICES ASSUME NEW r \in R
             PROVE  Cardinality({q \in R : q > r}) < limit
    BY DEF Newest
<1>1. {q \in R : q > r} \in SUBSET R /\ r \notin {q \in R : q > r}
    BY DEF Finite
<1>2. /\ Cardinality({q \in R : q > r}) <= Cardinality(R)
      /\ Cardinality(R) = Cardinality({q \in R : q > r}) => R = {q \in R : q > r}
    BY <1>1, FS_Subset DEF Finite
<1>3. Cardinality(R) \in Nat
    BY FS_CardinalityType DEF Finite
<1> QED
    BY <1>1, <1>2, <1>3, NewerIsFinite

-----------------------------------------------------------------------------
(* What a turn finds.                                                      *)

(* The segments of a snapshot have addresses of their own, and the records *)
(* of a later one are newer.                                               *)
Segment(last) == [id : Nat, records : SUBSET (1..last)]
Segments(last) == Seq(Segment(last))

Ordered(segs) ==
    \A i, j \in DOMAIN segs : i < j =>
        segs[i].id # segs[j].id /\ \A r \in segs[i].records, q \in segs[j].records : r < q

(* A result that is kept is the one of its segment.                        *)
Valid(segs, entries) ==
    \A i \in DOMAIN segs : segs[i].id \in DOMAIN entries =>
        entries[segs[i].id] = Examined(segs[i].records)

(* The parts of Search, when all results it has are valid.                 *)
HitsOf(segs, i) == segs[i].records \cap Hits
HitsFrom(segs, m) == UNION {HitsOf(segs, j) : j \in m..Len(segs)}
MatchesFrom(segs, m) == UNION {Newest(HitsOf(segs, j), MatchLimit) : j \in m..Len(segs)}

Known(segs, entries, i) == segs[i].id \in DOMAIN entries
WorkAfter(segs, entries, i) ==
    UNION {Work(segs[j].records) : j \in {k \in (i + 1)..Len(segs) : ~Known(segs, entries, k)}}
Waits(segs, entries, i) ==
    ~Known(segs, entries, i) /\ Cardinality(WorkAfter(segs, entries, i)) >= WorkLimit
Limits(segs, i) ==
    Cardinality(HitsOf(segs, i)) > MatchLimit \/ Cardinality(MatchesFrom(segs, i)) > MatchLimit
Stops(segs, entries) == {i \in DOMAIN segs : Waits(segs, entries, i) \/ Limits(segs, i)}
Pends(segs, entries) ==
    Stops(segs, entries) # {} /\ Waits(segs, entries, Max(Stops(segs, entries)))
From(segs, entries) ==
    IF Stops(segs, entries) = {} THEN 1
    ELSE IF Pends(segs, entries) THEN Max(Stops(segs, entries)) + 1
    ELSE Max(Stops(segs, entries))

LEMMA ExaminedParts ==
    ASSUME NEW segs, NEW i
    PROVE  /\ Examined(segs[i].records).matches = Newest(HitsOf(segs, i), MatchLimit)
           /\ Examined(segs[i].records).limited <=> Cardinality(HitsOf(segs, i)) > MatchLimit
<1>1. Examined(segs[i].records) = [matches |-> Newest(HitsOf(segs, i), MatchLimit),
                                   limited |-> Cardinality(HitsOf(segs, i)) > MatchLimit]
    BY DEF Examined, HitsOf
<1>2. Examined(segs[i].records).limited = (Cardinality(HitsOf(segs, i)) > MatchLimit)
    BY <1>1, SMT
<1>3. Examined(segs[i].records).matches = Newest(HitsOf(segs, i), MatchLimit)
    BY <1>1, SMT
<1> QED
    BY <1>2, <1>3, Zenon

LEMMA SearchParts ==
    ASSUME LogSearchAssumption, NEW last \in Nat, NEW segs \in Segments(last), Ordered(segs),
           NEW entries, Valid(segs, entries)
    PROVE  LET done == Search(segs, entries)
               from == From(segs, entries)
           IN  /\ done.found = [matches |-> Newest(MatchesFrom(segs, from), MatchLimit),
                                pending |-> Pends(segs, entries),
                                limited |-> Stops(segs, entries) # {} /\ ~Pends(segs, entries)]
               /\ \E cached : /\ DOMAIN cached = (DOMAIN entries \cap Ids(segs))
                                                     \cup {segs[j].id : j \in from..Len(segs)}
                              /\ Valid(segs, cached)
                              /\ DOMAIN done.cache = DOMAIN cached \cap Keeps(segs, cached)
                              /\ Valid(segs, done.cache)
<1> DEFINE live == Live(entries, Ids(segs))
           known(i) == segs[i].id \in DOMAIN live
           result(i) == IF known(i) THEN live[segs[i].id] ELSE Examined(segs[i].records)
           matches(m) == UNION {result(j).matches : j \in m..Len(segs)}
           work(i) == UNION {Work(segs[j].records) : j \in {k \in (i + 1)..Len(segs) : ~known(k)}}
           waits(i) == ~known(i) /\ Cardinality(work(i)) >= WorkLimit
           limits(i) == result(i).limited \/ Cardinality(matches(i)) > MatchLimit
           stops == {i \in DOMAIN segs : waits(i) \/ limits(i)}
           pending == stops # {} /\ waits(Max(stops))
           from == IF stops = {} THEN 1 ELSE IF pending THEN Max(stops) + 1 ELSE Max(stops)
           cached == [id \in DOMAIN live \cup {segs[j].id : j \in from..Len(segs)} |->
                         IF id \in DOMAIN live THEN live[id]
                         ELSE result(CHOOSE j \in DOMAIN segs : segs[j].id = id)]
           kept == {id \in DOMAIN cached : id \in Keeps(segs, cached)}
<1>1. Search(segs, entries) =
          [cache |-> [id \in kept |-> cached[id]],
           found |-> [matches |-> Newest(matches(from), MatchLimit), pending |-> pending,
                      limited |-> stops # {} /\ ~pending]]
    BY DEF Search
<1>2. Len(segs) \in Nat /\ DOMAIN segs = 1..Len(segs)
    BY DEF Segments
<1>3. DOMAIN live = DOMAIN entries \cap Ids(segs) /\ \A id \in DOMAIN live : live[id] = entries[id]
    BY DEF Live
<1>4. \A i \in DOMAIN segs : known(i) <=> Known(segs, entries, i)
    BY <1>3 DEF Known, Ids
<1>5. \A i \in DOMAIN segs : result(i) = Examined(segs[i].records)
    BY <1>3, <1>4 DEF Valid, Known
<1> HIDE DEF live, known, result
<1>6. \A m \in 1..(Len(segs) + 1) : matches(m) = MatchesFrom(segs, m)
    <2> SUFFICES ASSUME NEW m \in 1..(Len(segs) + 1)
                 PROVE  matches(m) = MatchesFrom(segs, m)
        OBVIOUS
    <2>1. \A j \in m..Len(segs) : j \in DOMAIN segs
        BY <1>2
    <2>2. \A j \in m..Len(segs) : result(j).matches = Newest(HitsOf(segs, j), MatchLimit)
        BY <1>5, <2>1, ExaminedParts
    <2> QED
        BY <2>2 DEF MatchesFrom
<1>7. \A i \in DOMAIN segs : result(i).limited <=> Cardinality(HitsOf(segs, i)) > MatchLimit
    BY <1>5, ExaminedParts
<1>8. \A i \in DOMAIN segs : work(i) = WorkAfter(segs, entries, i)
    <2> SUFFICES ASSUME NEW i \in DOMAIN segs
                 PROVE  work(i) = WorkAfter(segs, entries, i)
        OBVIOUS
    <2>1. \A k \in (i + 1)..Len(segs) : known(k) <=> Known(segs, entries, k)
        BY <1>2, <1>4
    <2>2. {k \in (i + 1)..Len(segs) : ~known(k)}
              = {k \in (i + 1)..Len(segs) : ~Known(segs, entries, k)}
        BY <2>1
    <2> QED
        BY <2>2 DEF WorkAfter
<1>9. \A i \in DOMAIN segs : /\ waits(i) <=> Waits(segs, entries, i)
                             /\ limits(i) <=> Limits(segs, i)
    <2> SUFFICES ASSUME NEW i \in DOMAIN segs
                 PROVE  /\ waits(i) <=> Waits(segs, entries, i)
                        /\ limits(i) <=> Limits(segs, i)
        OBVIOUS
    <2>1. i \in 1..(Len(segs) + 1)
        BY <1>2
    <2>2. matches(i) = MatchesFrom(segs, i)
        BY <1>6, <2>1
    <2>3. limits(i) <=> Limits(segs, i)
        BY <1>7, <2>2 DEF Limits
    <2>4. work(i) = WorkAfter(segs, entries, i) /\ (known(i) <=> Known(segs, entries, i))
        BY <1>4, <1>8
    <2> QED
        BY <2>3, <2>4 DEF Waits
<1> HIDE DEF matches, work, waits, limits
<1>10. stops = Stops(segs, entries)
    BY <1>9 DEF Stops
<1>11. stops # {} => Max(stops) \in DOMAIN segs
    <2>1. stops \in SUBSET Nat /\ \A i \in stops : i <= Len(segs)
        BY <1>2
    <2> QED
        BY <1>2, <2>1, MaxIsGreatest, Zenon
<1>12. pending <=> Pends(segs, entries)
    BY <1>9, <1>10, <1>11 DEF Pends
<1>13. from = From(segs, entries) /\ from \in 1..(Len(segs) + 1)
    <2>1. from = From(segs, entries)
        BY <1>10, <1>12, Zenon DEF From
    <2>2. Max(stops) \in DOMAIN segs \/ stops = {}
        BY <1>11
    <2> HIDE DEF stops, pending
    <2>3. from \in 1..(Len(segs) + 1)
        BY <1>2, <2>2
    <2> QED
        BY <2>1, <2>3
<1> HIDE DEF stops, pending, from
<1>14. Valid(segs, cached)
    <2> SUFFICES ASSUME NEW i \in DOMAIN segs, segs[i].id \in DOMAIN cached
                 PROVE  cached[segs[i].id] = Examined(segs[i].records)
        BY DEF Valid
    <2>1. CASE segs[i].id \in DOMAIN live
        BY <1>3, <2>1 DEF Valid
    <2>2. CASE segs[i].id \notin DOMAIN live
        <3>1. \A j \in DOMAIN segs : segs[j].id = segs[i].id => j = i
            BY <1>2 DEF Ordered
        <3>2. (CHOOSE j \in DOMAIN segs : segs[j].id = segs[i].id) = i
            BY <3>1
        <3> QED
            BY <1>5, <2>2, <3>2
    <2> QED
        BY <2>1, <2>2
<1>15. DOMAIN cached = (DOMAIN entries \cap Ids(segs)) \cup {segs[j].id : j \in from..Len(segs)}
    BY <1>3
<1> HIDE DEF cached
<1>16. LET done == Search(segs, entries)
       IN  /\ DOMAIN done.cache = DOMAIN cached \cap Keeps(segs, cached)
           /\ \A id \in DOMAIN done.cache : done.cache[id] = cached[id]
    BY <1>1
<1>17. Valid(segs, Search(segs, entries).cache)
    BY <1>14, <1>16 DEF Valid
<1>18. Search(segs, entries).found =
           [matches |-> Newest(matches(from), MatchLimit), pending |-> pending,
            limited |-> stops # {} /\ ~pending]
    BY <1>1
<1>19. matches(from) = MatchesFrom(segs, from)
    BY <1>6, <1>13
<1>20. Search(segs, entries).found =
           [matches |-> Newest(MatchesFrom(segs, From(segs, entries)), MatchLimit),
            pending |-> Pends(segs, entries),
            limited |-> Stops(segs, entries) # {} /\ ~Pends(segs, entries)]
    <2>1. pending = Pends(segs, entries)
        BY <1>12 DEF Pends, pending
    <2>2. (stops # {} /\ ~pending) = (Stops(segs, entries) # {} /\ ~Pends(segs, entries))
        BY <1>10, <2>1
    <2> QED
        BY <1>13, <1>18, <1>19, <2>1, <2>2
<1> QED
    BY <1>13, <1>14, <1>15, <1>16, <1>17, <1>20

LEMMA SegmentParts ==
    ASSUME NEW last \in Nat, NEW segs \in Segments(last)
    PROVE  /\ Len(segs) \in Nat /\ DOMAIN segs = 1..Len(segs)
           /\ \A i \in DOMAIN segs : segs[i].id \in Nat /\ segs[i].records \subseteq 1..last
<1>1. Len(segs) \in Nat /\ DOMAIN segs = 1..Len(segs) /\ \A i \in DOMAIN segs : segs[i] \in Segment(last)
    BY DEF Segments
<1>2. \A s \in Segment(last) : s.id \in Nat /\ s.records \subseteq 1..last
    BY DEF Segment
<1> QED
    BY <1>1, <1>2

LEMMA UpperIsFinite ==
    ASSUME NEW R, Finite(R), NEW M \in SUBSET R
    PROVE  Finite(M) /\ Cardinality(M) \in Nat /\ Cardinality(M) <= Cardinality(R)
BY FS_Subset, FS_CardinalityType DEF Finite

LEMMA HitsAreFinite ==
    ASSUME NEW last \in Nat, NEW segs \in Segments(last), NEW m \in 1..(Len(segs) + 1)
    PROVE  /\ Finite(HitsFrom(segs, m)) /\ Cardinality(HitsFrom(segs, m)) \in Nat
           /\ m \in DOMAIN segs => /\ Finite(HitsOf(segs, m))
                                   /\ Cardinality(HitsOf(segs, m)) \in Nat
           /\ Finite(MatchesFrom(segs, m)) /\ Cardinality(MatchesFrom(segs, m)) \in Nat
           /\ MatchesFrom(segs, m) \subseteq HitsFrom(segs, m)
<1>1. Len(segs) \in Nat /\ DOMAIN segs = 1..Len(segs)
    BY SegmentParts
<1>2. \A j \in DOMAIN segs : segs[j].records \subseteq 1..last
    BY SegmentParts
<1>3. \A j \in m..Len(segs) : j \in DOMAIN segs
    BY <1>1
<1>4. \A j \in DOMAIN segs : HitsOf(segs, j) \subseteq 1..last
    BY <1>2 DEF HitsOf
<1>5. HitsFrom(segs, m) \in SUBSET (1..last)
    BY <1>3, <1>4 DEF HitsFrom
<1>6. MatchesFrom(segs, m) \subseteq HitsFrom(segs, m)
    BY DEF MatchesFrom, HitsFrom, Newest
<1>7. Finite(1..last)
    BY FS_Interval DEF Finite
<1> QED
    BY <1>4, <1>5, <1>6, <1>7, UpperIsFinite

LEMMA LaterHits ==
    ASSUME NEW last \in Nat, NEW segs \in Segments(last), NEW m \in DOMAIN segs
    PROVE  /\ HitsFrom(segs, m) = HitsOf(segs, m) \cup HitsFrom(segs, m + 1)
           /\ MatchesFrom(segs, m) =
                  Newest(HitsOf(segs, m), MatchLimit) \cup MatchesFrom(segs, m + 1)
<1>1. Len(segs) \in Nat /\ m \in 1..Len(segs)
    BY DEF Segments
<1>2. m..Len(segs) = {m} \cup (m + 1)..Len(segs)
    BY <1>1
<1> QED
    BY <1>2 DEF HitsFrom, MatchesFrom

(* The hits of the newer segments are the newer hits.                      *)
LEMMA HitsAreUpper ==
    ASSUME NEW last \in Nat, NEW segs \in Segments(last), Ordered(segs),
           NEW m \in 1..(Len(segs) + 1)
    PROVE  Upper(HitsFrom(segs, m), HitsFrom(segs, 1))
<1>1. Len(segs) \in Nat /\ DOMAIN segs = 1..Len(segs)
    BY DEF Segments
<1>2. \A j \in m..Len(segs) : j \in 1..Len(segs)
    BY <1>1
<1>3. HitsFrom(segs, m) \subseteq HitsFrom(segs, 1)
    BY <1>2 DEF HitsFrom
<1>4. ASSUME NEW x \in HitsFrom(segs, m), NEW r \in HitsFrom(segs, 1), r > x
      PROVE  r \in HitsFrom(segs, m)
    <2>1. PICK i \in m..Len(segs) : x \in HitsOf(segs, i)
        BY DEF HitsFrom
    <2>2. PICK j \in 1..Len(segs) : r \in HitsOf(segs, j)
        BY DEF HitsFrom
    <2>3. i \in DOMAIN segs /\ j \in DOMAIN segs
        BY <1>1, <1>2
    <2>4. x \in Nat /\ r \in Nat
        BY <2>1, <2>2, <2>3, SegmentParts DEF HitsOf
    <2>5. ~(j < i)
        BY <1>4, <2>1, <2>2, <2>3, <2>4 DEF Ordered, HitsOf
    <2>6. j \in m..Len(segs)
        BY <1>1, <2>5
    <2> QED
        BY <2>2, <2>6 DEF HitsFrom
<1> QED
    BY <1>3, <1>4 DEF Upper

(* Where nothing is beyond the limit every hit is a match.                 *)
LEMMA NothingIsLeftOut ==
    ASSUME LogSearchAssumption, NEW last \in Nat, NEW segs \in Segments(last),
           NEW m \in 1..(Len(segs) + 1), \A j \in m..Len(segs) : ~Limits(segs, j)
    PROVE  /\ MatchesFrom(segs, m) = HitsFrom(segs, m)
           /\ Cardinality(HitsFrom(segs, m)) <= MatchLimit
<1>1. Len(segs) \in Nat /\ DOMAIN segs = 1..Len(segs) /\ MatchLimit \in Nat
    BY DEF Segments, LogSearchAssumption
<1>2. \A j \in m..Len(segs) : j \in 1..(Len(segs) + 1) /\ j \in DOMAIN segs
    BY <1>1
<1>3. \A j \in m..Len(segs) : Newest(HitsOf(segs, j), MatchLimit) = HitsOf(segs, j)
    <2> SUFFICES ASSUME NEW j \in m..Len(segs)
                 PROVE  Newest(HitsOf(segs, j), MatchLimit) = HitsOf(segs, j)
        OBVIOUS
    <2>1. Finite(HitsOf(segs, j)) /\ Cardinality(HitsOf(segs, j)) \in Nat
        BY <1>2, HitsAreFinite
    <2>2. Cardinality(HitsOf(segs, j)) <= MatchLimit
        BY <1>1, <2>1 DEF Limits
    <2> QED
        BY <1>1, <2>1, <2>2, NewestOfFew
<1>4. MatchesFrom(segs, m) = HitsFrom(segs, m)
    BY <1>3 DEF MatchesFrom, HitsFrom
<1>5. CASE m \in m..Len(segs)
    <2>1. ~(Cardinality(MatchesFrom(segs, m)) > MatchLimit)
        BY <1>5 DEF Limits
    <2> QED
        BY <1>1, <1>4, <2>1, HitsAreFinite
<1>6. CASE m \notin m..Len(segs)
    <2>1. m..Len(segs) = {}
        BY <1>1, <1>6
    <2>2. HitsFrom(segs, m) = {}
        BY <2>1 DEF HitsFrom
    <2> QED
        BY <1>1, <1>4, <2>2, FS_EmptySet
<1> QED
    BY <1>4, <1>5, <1>6

(* A segment beyond the limit: the newest matches from it on are the       *)
(* newest of all, and there are more.                                      *)
LEMMA BeyondTheLimit ==
    ASSUME LogSearchAssumption, NEW last \in Nat, NEW segs \in Segments(last), Ordered(segs),
           NEW m \in DOMAIN segs, Limits(segs, m),
           \A j \in (m + 1)..Len(segs) : ~Limits(segs, j)
    PROVE  /\ Newest(MatchesFrom(segs, m), MatchLimit) = Newest(HitsFrom(segs, 1), MatchLimit)
           /\ Cardinality(HitsFrom(segs, 1)) > MatchLimit
<1> DEFINE all == HitsFrom(segs, 1)
           own == HitsOf(segs, m)
           shown == MatchesFrom(segs, m)
           newer(r) == {q \in all : q > r}
<1>1. Len(segs) \in Nat /\ DOMAIN segs = 1..Len(segs) /\ MatchLimit \in Nat
    BY SegmentParts DEF LogSearchAssumption
<1>2. 1 \in 1..(Len(segs) + 1) /\ m \in 1..(Len(segs) + 1) /\ m + 1 \in 1..(Len(segs) + 1)
    BY <1>1
<1>3. /\ Finite(all) /\ Cardinality(all) \in Nat
      /\ Finite(own) /\ Cardinality(own) \in Nat
      /\ Finite(shown) /\ Cardinality(shown) \in Nat
    BY <1>2, HitsAreFinite
<1>4. shown = Newest(own, MatchLimit) \cup HitsFrom(segs, m + 1)
    BY <1>2, LaterHits, NothingIsLeftOut
<1>5. HitsFrom(segs, m) = own \cup HitsFrom(segs, m + 1)
    BY LaterHits
<1>6. Upper(HitsFrom(segs, m), all) /\ Upper(HitsFrom(segs, m + 1), all)
    BY <1>2, HitsAreUpper
<1>7. Upper(Newest(own, MatchLimit), own)
    BY <1>1, <1>3, NewestIsUpper
<1>8. own \subseteq all
    BY <1>5, <1>6 DEF Upper
<1> HIDE DEF all, own, shown
<1>9. Upper(shown, all)
    BY <1>4, <1>5, <1>6, <1>7 DEF Upper
<1>10. shown \in SUBSET all
    BY <1>9 DEF Upper
<1>11. \A r \in all : IsFiniteSet(newer(r)) /\ Cardinality(newer(r)) \in Nat
    BY <1>3, NewerIsFinite
<1>12. Cardinality(own) > MatchLimit \/ Cardinality(shown) > MatchLimit
    BY DEF Limits, own, shown
<1>13. Cardinality(own) <= Cardinality(all) /\ Cardinality(shown) <= Cardinality(all)
    BY <1>3, <1>8, <1>10, FS_Subset DEF Finite
<1>14. ASSUME NEW r \in all \ shown
       PROVE  ~(Cardinality(newer(r)) < MatchLimit)
    <2>0. IsFiniteSet(newer(r)) /\ Cardinality(newer(r)) \in Nat
        BY <1>11
    <2>1. r \in Nat /\ \A q \in all : q \in Nat
        BY <1>3 DEF Finite
    <2>2. \A q \in shown : q > r
        BY <1>9, <2>1 DEF Upper
    <2>3. CASE Cardinality(shown) > MatchLimit
        <3>1. shown \in SUBSET newer(r)
            BY <1>10, <2>2
        <3>2. Cardinality(shown) <= Cardinality(newer(r))
            BY <2>0, <3>1, FS_Subset
        <3> HIDE DEF newer
        <3> QED
            BY <1>1, <1>3, <2>3, <2>0, <3>2
    <2>4. CASE Cardinality(own) > MatchLimit /\ r \notin own
        <3>1. r \notin HitsFrom(segs, m)
            BY <1>4, <1>5, <2>4
        <3>2. \A q \in own : q > r
            BY <1>5, <1>6, <1>8, <2>1, <3>1 DEF Upper
        <3>3. own \in SUBSET newer(r)
            BY <1>8, <3>2
        <3>4. Cardinality(own) <= Cardinality(newer(r))
            BY <2>0, <3>3, FS_Subset
        <3> HIDE DEF newer
        <3> QED
            BY <1>1, <1>3, <2>4, <2>0, <3>4
    <2>5. CASE r \in own
        <3>1. ~(Cardinality({q \in own : q > r}) < MatchLimit)
            BY <1>4, <2>5 DEF Newest
        <3>2. {q \in own : q > r} \in SUBSET newer(r)
            BY <1>8
        <3>3. Cardinality({q \in own : q > r}) \in Nat
            BY <1>3, NewerIsFinite
        <3>4. Cardinality({q \in own : q > r}) <= Cardinality(newer(r))
            BY <2>0, <3>2, FS_Subset
        <3> HIDE DEF newer
        <3> QED
            BY <1>1, <2>0, <3>1, <3>3, <3>4
    <2> QED
        BY <1>12, <2>3, <2>4, <2>5
<1>15. ASSUME NEW r \in shown
       PROVE  {q \in shown : q > r} = newer(r)
    BY <1>9, <1>10 DEF Upper
<1>16. Newest(shown, MatchLimit) = Newest(all, MatchLimit)
    BY <1>10, <1>14, <1>15 DEF Newest
<1>17. Cardinality(all) > MatchLimit
    BY <1>1, <1>3, <1>12, <1>13
<1> QED
    BY <1>16, <1>17 DEF all, shown

(* What a turn finds are the newest matches, and when it is done they are  *)
(* those of a whole search.                                                *)
IsNewestFirst(segs, result) ==
    LET whole == Examined(UNION {segs[i].records : i \in DOMAIN segs})
    IN  /\ result.matches = Newest(whole.matches, Cardinality(result.matches))
        /\ ~result.pending => result.matches = whole.matches /\ result.limited = whole.limited

LEMMA SearchFindsTheNewest ==
    ASSUME LogSearchAssumption, NEW last \in Nat, NEW segs \in Segments(last), Ordered(segs),
           NEW entries, Valid(segs, entries)
    PROVE  /\ IsNewestFirst(segs, Search(segs, entries).found)
           /\ Search(segs, entries).found.pending = Pends(segs, entries)
           /\ Finite(Search(segs, entries).found.matches)
<1> DEFINE all == HitsFrom(segs, 1)
           stops == Stops(segs, entries)
           from == From(segs, entries)
           result == Search(segs, entries).found
           top == Newest(all, MatchLimit)
<1>1. Len(segs) \in Nat /\ DOMAIN segs = 1..Len(segs) /\ MatchLimit \in Nat
    BY SegmentParts DEF LogSearchAssumption
<1>2. result = [matches |-> Newest(MatchesFrom(segs, from), MatchLimit),
                pending |-> Pends(segs, entries), limited |-> stops # {} /\ ~Pends(segs, entries)]
    BY SearchParts
<1>3. (UNION {segs[i].records : i \in DOMAIN segs}) \cap Hits = all
    BY <1>1 DEF HitsFrom, HitsOf
<1>4. Examined(UNION {segs[i].records : i \in DOMAIN segs}) =
          [matches |-> top, limited |-> Cardinality(all) > MatchLimit]
    BY <1>3 DEF Examined
<1>13. (/\ result.matches = Newest(top, Cardinality(result.matches))
        /\ ~result.pending => result.matches = top
                              /\ result.limited = (Cardinality(all) > MatchLimit))
           => IsNewestFirst(segs, result)
    <2> DEFINE whole == Examined(UNION {segs[i].records : i \in DOMAIN segs})
    <2>1. whole.matches = top /\ whole.limited = (Cardinality(all) > MatchLimit)
        <3> HIDE DEF whole, top, all
        <3>1. whole = [matches |-> top, limited |-> Cardinality(all) > MatchLimit]
            BY <1>4 DEF whole
        <3> QED
            BY <3>1, SMT
    <2> HIDE DEF result, top, all
    <2> QED
        BY <2>1, Zenon DEF IsNewestFirst
<1>5. Finite(all) /\ Cardinality(all) \in Nat /\ Upper(all, all)
    BY <1>1, HitsAreFinite, HitsAreUpper
<1>6. Upper(top, all) /\ Finite(top) /\ Upper(top, top)
    BY <1>1, <1>5, NewestIsUpper, UpperIsFinite DEF Upper
<1>7. top = Newest(top, Cardinality(top))
    BY <1>6, UpperIsNewest
<1>8. stops # {} => /\ Max(stops) \in stops /\ Max(stops) \in DOMAIN segs
                    /\ \A j \in (Max(stops) + 1)..Len(segs) : j \notin stops
    <2>1. stops \in SUBSET Nat /\ stops \subseteq DOMAIN segs /\ \A i \in stops : i <= Len(segs)
        BY <1>1 DEF Stops
    <2> HIDE DEF stops
    <2>2. stops # {} => Max(stops) \in stops /\ \A x \in stops : x <= Max(stops)
        BY <1>1, <2>1, MaxIsGreatest
    <2>3. SUFFICES ASSUME stops # {}
                   PROVE  /\ Max(stops) \in DOMAIN segs
                          /\ \A j \in (Max(stops) + 1)..Len(segs) : j \notin stops
        BY <2>2
    <2>4. /\ Max(stops) \in stops /\ Max(stops) \in Nat /\ Max(stops) \in DOMAIN segs
          /\ \A x \in stops : x \in Nat /\ x <= Max(stops)
        BY <2>1, <2>2, <2>3
    <2> HIDE DEF stops
    <2> DEFINE newest == Max(stops)
    <2>5. newest \in Nat /\ \A x \in stops : x \in Nat /\ x <= newest
        BY <2>4
    <2> HIDE DEF newest
    <2>6. \A j \in (newest + 1)..Len(segs) : j \notin stops
        BY <1>1, <2>5
    <2> QED
        BY <2>4, <2>6 DEF newest
<1>9. \A i \in DOMAIN segs \ stops : ~Limits(segs, i)
    BY DEF Stops
<1>10. CASE stops = {}
    <2>1. from = 1 /\ ~Pends(segs, entries)
        BY <1>10 DEF From, Pends
    <2>2. \A j \in 1..Len(segs) : ~Limits(segs, j)
        BY <1>1, <1>9, <1>10
    <2>3. MatchesFrom(segs, 1) = all /\ Cardinality(all) <= MatchLimit
        BY <1>1, <2>2, NothingIsLeftOut
    <2>4. result.matches = top
        BY <1>2, <2>1, <2>3
    <2>5. result.limited = FALSE /\ result.pending = FALSE
        <3>1. Pends(segs, entries) = FALSE /\ (stops # {} /\ ~Pends(segs, entries)) = FALSE
            BY <1>10, <2>1 DEF Pends
        <3> HIDE DEF result, stops
        <3> QED
            BY <1>2, <3>1
    <2>6. (Cardinality(all) > MatchLimit) = FALSE
        BY <1>1, <1>5, <2>3
    <2>8. result.pending = Pends(segs, entries)
        <3> HIDE DEF result
        <3> QED
            BY <1>2
    <2> HIDE DEF result, top
    <2> QED
        BY <1>6, <1>7, <1>13, <2>8, <2>4, <2>5, <2>6 DEF result
<1>11. CASE stops # {} /\ Pends(segs, entries)
    <2>1. from = Max(stops) + 1 /\ from \in 1..(Len(segs) + 1)
        BY <1>1, <1>8, <1>11 DEF From
    <2>2. \A j \in from..Len(segs) : j \in DOMAIN segs
        BY <1>1, <2>1
    <2>3. \A j \in from..Len(segs) : ~Limits(segs, j)
        BY <1>8, <1>9, <1>11, <2>1, <2>2
    <2>4. /\ MatchesFrom(segs, from) = HitsFrom(segs, from)
          /\ Cardinality(HitsFrom(segs, from)) <= MatchLimit
        BY <2>1, <2>3, NothingIsLeftOut
    <2>5. Finite(HitsFrom(segs, from)) /\ Cardinality(HitsFrom(segs, from)) \in Nat
        BY <2>1, HitsAreFinite
    <2>6. result.matches = HitsFrom(segs, from)
        BY <1>1, <1>2, <2>4, <2>5, NewestOfFew
    <2>7. Upper(HitsFrom(segs, from), all)
        BY <2>1, HitsAreUpper
    <2>8. HitsFrom(segs, from) = Newest(all, Cardinality(HitsFrom(segs, from)))
        BY <1>5, <2>7, UpperIsNewest
    <2>9. HitsFrom(segs, from) \subseteq top
        <3> SUFFICES ASSUME NEW r \in HitsFrom(segs, from)
                     PROVE  r \in top
            OBVIOUS
        <3>1. r \in all /\ Cardinality({q \in all : q > r}) < Cardinality(HitsFrom(segs, from))
            BY <2>8 DEF Newest
        <3>2. Cardinality({q \in all : q > r}) \in Nat
            BY <1>5, NewerIsFinite
        <3> QED
            BY <1>1, <2>4, <2>5, <3>1, <3>2 DEF Newest
    <2>10. Upper(HitsFrom(segs, from), top)
        BY <1>6, <2>7, <2>9 DEF Upper
    <2>11. result.matches = Newest(top, Cardinality(result.matches))
        BY <1>6, <2>6, <2>10, UpperIsNewest
    <2>12. result.pending
        BY <1>2, <1>11
    <2> QED
        BY <1>2, <1>13, <2>5, <2>6, <2>11, <2>12
<1>12. CASE stops # {} /\ ~Pends(segs, entries)
    <2>1. from = Max(stops) /\ from \in DOMAIN segs /\ from \in stops
        BY <1>8, <1>12 DEF From
    <2>2. Limits(segs, from)
        BY <1>12, <2>1 DEF Pends, Stops
    <2>3. \A j \in (from + 1)..Len(segs) : ~Limits(segs, j)
        <3>1. \A j \in (from + 1)..Len(segs) : j \in DOMAIN segs
            BY <1>1, <2>1
        <3> QED
            BY <1>8, <1>9, <1>12, <2>1, <3>1
    <2>4. /\ Newest(MatchesFrom(segs, from), MatchLimit) = top
          /\ Cardinality(all) > MatchLimit
        BY <2>1, <2>2, <2>3, BeyondTheLimit
    <2>5. result.matches = top
        BY <1>2, <2>4
    <2>6. result.limited = TRUE /\ result.pending = FALSE
        <3>1. Pends(segs, entries) = FALSE /\ (stops # {} /\ ~Pends(segs, entries)) = TRUE
            BY <1>12 DEF Pends
        <3> HIDE DEF result, stops
        <3> QED
            BY <1>2, <3>1
    <2>7. (Cardinality(all) > MatchLimit) = TRUE
        BY <2>4
    <2>8. result.pending = Pends(segs, entries)
        <3> HIDE DEF result
        <3> QED
            BY <1>2
    <2> HIDE DEF result, top
    <2> QED
        BY <1>6, <1>7, <1>13, <2>8, <2>5, <2>6, <2>7 DEF result
<1> QED
    BY <1>10, <1>11, <1>12

-----------------------------------------------------------------------------
(* How far a turn gets.                                                    *)

MissingOf(segs, entries) == {i \in DOMAIN segs : segs[i].id \notin DOMAIN entries}

(* A pending turn keeps the results of all segments newer than the one it  *)
(* waits at, and has none of that one.                                     *)
LEMMA PendingKeepsTheNewer ==
    ASSUME LogSearchAssumption, NEW last \in Nat, NEW segs \in Segments(last), Ordered(segs),
           NEW entries, Valid(segs, entries), Pends(segs, entries)
    PROVE  \E x \in MissingOf(segs, entries) :
              /\ Waits(segs, entries, x)
              /\ x \in MissingOf(segs, Search(segs, entries).cache)
              /\ \A y \in MissingOf(segs, Search(segs, entries).cache) : y <= x
<1> DEFINE stops == Stops(segs, entries)
           x == Max(stops)
           done == Search(segs, entries)
<1>1. Len(segs) \in Nat /\ DOMAIN segs = 1..Len(segs)
    BY SegmentParts
<1>2. stops \in SUBSET Nat /\ stops # {} /\ \A i \in stops : i <= Len(segs)
    BY <1>1 DEF Stops, Pends
<1>3. x \in stops /\ \A i \in stops : i <= x
    <2> HIDE DEF stops
    <2> QED
        BY <1>1, <1>2, MaxIsGreatest
<1>4. Waits(segs, entries, x) /\ From(segs, entries) = x + 1
    BY DEF Pends, From
<1>5. PICK cached :
          /\ DOMAIN cached = (DOMAIN entries \cap Ids(segs)) \cup {segs[j].id : j \in (x + 1)..Len(segs)}
          /\ Valid(segs, cached)
          /\ DOMAIN done.cache = DOMAIN cached \cap Keeps(segs, cached)
    BY <1>4, SearchParts
<1>6. \A i \in stops : i \in DOMAIN segs
    BY DEF Stops
<1>7. \A i \in DOMAIN segs : i \notin stops => ~Limits(segs, i)
    BY DEF Stops
<1> HIDE DEF stops, x, done
<1>8. x \in DOMAIN segs /\ x \in Nat /\ x <= Len(segs)
    BY <1>1, <1>3, <1>6
<1>9. segs[x].id \notin DOMAIN entries
    BY <1>4 DEF Waits, Known
<1>10. segs[x].id \notin DOMAIN done.cache
    <2>1. \A j \in (x + 1)..Len(segs) : segs[j].id # segs[x].id
        BY <1>1, <1>8 DEF Ordered
    <2> QED
        BY <1>5, <1>9, <2>1
<1>11. \A j \in (x + 1)..Len(segs) : j \in DOMAIN segs /\ ~Limits(segs, j)
    <2>1. \A j \in (x + 1)..Len(segs) : j \in DOMAIN segs /\ ~(j <= x)
        BY <1>1, <1>8
    <2> QED
        BY <1>3, <1>7, <2>1
<1>12. ASSUME NEW j \in (x + 1)..Len(segs)
       PROVE  segs[j].id \in DOMAIN done.cache
    <2> DEFINE newer == UNION {cached[segs[k].id].matches :
                                  k \in {l \in (j + 1)..Len(segs) : segs[l].id \in DOMAIN cached}}
    <2>1. \A k \in (j + 1)..Len(segs) : k \in (x + 1)..Len(segs)
        BY <1>1, <1>8
    <2>2. \A k \in (j + 1)..Len(segs) :
              /\ segs[k].id \in DOMAIN cached
              /\ cached[segs[k].id].matches = Newest(HitsOf(segs, k), MatchLimit)
        BY <1>5, <1>11, <2>1, ExaminedParts DEF Valid
    <2>3. {l \in (j + 1)..Len(segs) : segs[l].id \in DOMAIN cached} = (j + 1)..Len(segs)
        BY <2>2
    <2>4. newer = MatchesFrom(segs, j + 1)
        BY <2>2, <2>3 DEF MatchesFrom
    <2>5. j + 1 \in 1..(Len(segs) + 1)
        BY <1>1, <1>8
    <2>6. Cardinality(newer) <= MatchLimit
        BY <1>11, <2>1, <2>4, <2>5, NothingIsLeftOut
    <2>7. j \in DOMAIN segs /\ segs[j].id \in DOMAIN cached
        BY <1>5, <1>11
    <2>8. segs[j].id \in Keeps(segs, cached)
        BY <2>6, <2>7 DEF Keeps
    <2> QED
        BY <1>5, <2>7, <2>8
<1>13. \A y \in MissingOf(segs, done.cache) : y <= x
    <2> SUFFICES ASSUME NEW y \in MissingOf(segs, done.cache), ~(y <= x)
                 PROVE  FALSE
        OBVIOUS
    <2>1. y \in DOMAIN segs /\ segs[y].id \notin DOMAIN done.cache
        BY DEF MissingOf
    <2>2. y \in (x + 1)..Len(segs)
        BY <1>1, <1>8, <2>1
    <2> QED
        BY <1>12, <2>1, <2>2
<1>14. x \in MissingOf(segs, entries) /\ x \in MissingOf(segs, done.cache)
    BY <1>8, <1>9, <1>10 DEF MissingOf
<1> QED
    BY <1>4, <1>13, <1>14 DEF done

LEMMA MissingIsBounded ==
    ASSUME NEW last \in Nat, NEW segs \in Segments(last), NEW entries,
           MissingOf(segs, entries) # {}
    PROVE  /\ Max(MissingOf(segs, entries)) \in MissingOf(segs, entries)
           /\ \A y \in MissingOf(segs, entries) : y <= Max(MissingOf(segs, entries))
           /\ MissingOf(segs, entries) \subseteq DOMAIN segs /\ DOMAIN segs \subseteq Nat
<1>1. Len(segs) \in Nat /\ DOMAIN segs = 1..Len(segs)
    BY SegmentParts
<1>2. MissingOf(segs, entries) \in SUBSET Nat /\ \A y \in MissingOf(segs, entries) : y <= Len(segs)
    BY <1>1 DEF MissingOf
<1>3. MissingOf(segs, entries) \subseteq DOMAIN segs
    BY DEF MissingOf
<1> DEFINE missing == MissingOf(segs, entries)
<1> HIDE DEF missing
<1>4. missing # {} => Max(missing) \in missing /\ \A y \in missing : y <= Max(missing)
    BY <1>1, <1>2, MaxIsGreatest DEF missing
<1> QED
    BY <1>1, <1>3, <1>4 DEF missing

LEMMA SearchAdvances ==
    ASSUME LogSearchAssumption, NEW last \in Nat, NEW segs \in Segments(last), Ordered(segs),
           NEW entries, Valid(segs, entries), Pends(segs, entries)
    PROVE  /\ MissingOf(segs, entries) # {} /\ MissingOf(segs, Search(segs, entries).cache) # {}
           /\ Max(MissingOf(segs, Search(segs, entries).cache)) < Max(MissingOf(segs, entries))
<1> DEFINE before == MissingOf(segs, entries)
           after == MissingOf(segs, Search(segs, entries).cache)
<1>1. PICK x \in before : /\ Waits(segs, entries, x)
                          /\ x \in after /\ \A y \in after : y <= x
    BY PendingKeepsTheNewer
<1>2. /\ Max(before) \in before /\ \A y \in before : y <= Max(before)
      /\ Max(after) \in after
      /\ before \subseteq Nat /\ after \subseteq Nat
    BY <1>1, MissingIsBounded
<1>3. Max(after) <= x /\ x <= Max(before)
    BY <1>1, <1>2
<1>4. Max(before) # x
    <2> SUFFICES ASSUME Max(before) = x
                 PROVE  FALSE
        OBVIOUS
    <2>1. Len(segs) \in Nat /\ DOMAIN segs = 1..Len(segs) /\ x \in Nat
        BY <1>1, <1>2, SegmentParts
    <2>2. \A k \in (x + 1)..Len(segs) : Known(segs, entries, k)
        <3> SUFFICES ASSUME NEW k \in (x + 1)..Len(segs), k \in before
                     PROVE  FALSE
            BY <2>1 DEF Known, MissingOf
        <3> QED
            BY <1>2, <2>1
    <2>3. WorkAfter(segs, entries, x) = {}
        BY <2>2 DEF WorkAfter
    <2>4. WorkLimit \in Nat \ {0} /\ Cardinality({}) = 0
        BY FS_EmptySet DEF LogSearchAssumption
    <2> QED
        BY <1>1, <2>3, <2>4 DEF Waits
<1>5. before # {} /\ after # {}
    BY <1>1
<1> HIDE DEF before, after
<1>6. Max(after) \in Nat /\ Max(before) \in Nat /\ x \in Nat
    BY <1>1, <1>2
<1>7. Max(after) < Max(before)
    BY <1>3, <1>4, <1>6
<1> QED
    BY <1>5, <1>7 DEF before, after

-----------------------------------------------------------------------------
(* Output arrives.                                                         *)

(* Of any finite set of addresses the k-th unused one exists.              *)
LEMMA AddressExists ==
    ASSUME NEW used, IsFiniteSet(used), NEW k \in Nat \ {0}
    PROVE  \E id \in (1..(Cardinality(used) + k)) \ used : Cardinality((1..id) \ used) = k
<1> DEFINE free(n) == Cardinality((1..n) \ used)
           bound == Cardinality(used) + k
           Enough == {n \in Nat : k <= free(n)}
<1>1. Cardinality(used) \in Nat /\ bound \in Nat
    BY FS_CardinalityType
<1>2. ASSUME NEW n \in Nat
      PROVE  IsFiniteSet((1..n) \ used) /\ free(n) \in Nat /\ free(n) >= n - Cardinality(used)
    <2>1. IsFiniteSet(1..n) /\ Cardinality(1..n) = n
        BY FS_Interval
    <2>2. /\ IsFiniteSet((1..n) \ used)
          /\ free(n) = n - Cardinality((1..n) \cap used)
        BY <2>1, FS_Difference
    <2>3. Cardinality((1..n) \cap used) <= Cardinality(used) /\ IsFiniteSet((1..n) \cap used)
        BY FS_Intersection
    <2>4. Cardinality((1..n) \cap used) \in Nat /\ free(n) \in Nat
        BY <2>2, <2>3, FS_CardinalityType
    <2> QED
        BY <1>1, <2>2, <2>3, <2>4
<1>3. bound \in Enough
    <2>1. free(bound) \in Nat /\ free(bound) >= bound - Cardinality(used)
        BY <1>1, <1>2
    <2> HIDE DEF free
    <2> QED
        BY <1>1, <2>1
<1>4. PICK id \in Enough : \A n \in Enough : id <= n
    BY <1>3, LeastNumber
<1>5. free(0) = 0
    <2>1. (1..0) \ used = {}
        OBVIOUS
    <2> QED
        BY <2>1, FS_EmptySet
<1>6. id \in Nat /\ k <= free(id) /\ id <= bound /\ free(id) \in Nat
    BY <1>2, <1>3, <1>4
<1>7. id # 0
    <2> HIDE DEF free
    <2> QED
        BY <1>5, <1>6
<1>8. id - 1 \in Nat /\ ~(k <= free(id - 1)) /\ free(id - 1) \in Nat
    <2>1. id - 1 \in Nat /\ ~(id <= id - 1)
        BY <1>6, <1>7
    <2>2. id - 1 \notin Enough
        BY <1>4, <2>1
    <2> QED
        BY <1>2, <2>1, <2>2
<1>9. IsFiniteSet((1..(id - 1)) \ used)
    BY <1>2, <1>8
<1>10. CASE id \in used
    <2>1. (1..id) \ used = (1..(id - 1)) \ used
        BY <1>6, <1>7, <1>10
    <2> QED
        BY <1>6, <1>8, <2>1
<1>11. CASE id \notin used
    <2>1. (1..id) \ used = ((1..(id - 1)) \ used) \cup {id} /\ id \notin (1..(id - 1)) \ used
        BY <1>6, <1>7, <1>11
    <2>2. free(id) = free(id - 1) + 1
        BY <1>9, <2>1, FS_AddElement
    <2>3. id \in (1..bound) \ used
        BY <1>1, <1>6, <1>7, <1>11
    <2> HIDE DEF free
    <2>4. free(id) = k
        BY <1>6, <1>8, <2>2
    <2> QED
        BY <2>3, <2>4 DEF free
<1> QED
    BY <1>10, <1>11

LEMMA AddressesAreFresh ==
    ASSUME IsFiniteSet(Ids(segments) \cup DOMAIN cache), NEW k \in Nat \ {0}
    PROVE  /\ Address(k) \in Nat
           /\ Address(k) \notin Ids(segments) /\ Address(k) \notin DOMAIN cache
           /\ \A l \in Nat \ {0} : l # k => Address(l) # Address(k)
<1> DEFINE used == Ids(segments) \cup DOMAIN cache
           Is(id, n) == Cardinality((1..id) \ used) = n
<1>1. ASSUME NEW n \in Nat \ {0}
      PROVE  Address(n) \in (1..(Cardinality(used) + n)) \ used /\ Is(Address(n), n)
    <2>1. \E id \in (1..(Cardinality(used) + n)) \ used : Cardinality((1..id) \ used) = n
        BY AddressExists
    <2> QED
        BY <2>1 DEF Address
<1>2. Cardinality(used) \in Nat
    BY FS_CardinalityType
<1>3. Address(k) \in Nat /\ Address(k) \notin used
    <2>1. Address(k) \in (1..(Cardinality(used) + k)) \ used
        BY <1>1
    <2>2. \A id \in 1..(Cardinality(used) + k) : id \in Nat
        BY <1>2
    <2> HIDE DEF used
    <2> QED
        BY <2>1, <2>2
<1>4. \A l \in Nat \ {0} : Address(l) = Address(k) => l = k
    BY <1>1
<1> QED
    BY <1>3, <1>4

(* The newest segment reaches to the last record.                          *)
Reaches(segs, last) ==
    segs # <<>> => \E lo \in 1..(last + 1) : segs[Len(segs)].records = lo..last

LEMMA DivisionIsOrdered ==
    ASSUME NEW a \in Nat, NEW b \in Nat, NEW size \in Nat \ {0}
    PROVE  /\ a \div size \in Nat
           /\ a <= b => a \div size <= b \div size
           /\ size * (a \div size) \in Nat /\ size * (a \div size) <= a
           /\ a >= size * (b \div size) => a \div size >= b \div size
OBVIOUS

Sound(segs, last) == segs \in Segments(last) /\ Ordered(segs) /\ Reaches(segs, last)

LEMMA IdsAreFinite ==
    ASSUME NEW last \in Nat, NEW segs \in Segments(last)
    PROVE  IsFiniteSet(Ids(segs))
<1> DEFINE f == [i \in 1..Len(segs) |-> segs[i].id]
<1>1. Len(segs) \in Nat /\ DOMAIN segs = 1..Len(segs)
    BY SegmentParts
<1>2. IsFiniteSet(1..Len(segs))
    BY <1>1, FS_Interval
<1>3. f \in Surjection(1..Len(segs), Ids(segs))
    BY <1>1 DEF Surjection, Ids
<1> QED
    BY <1>2, <1>3, FS_Surjection

(* The oldest segments expire.                                             *)
LEMMA ExpiryKeepsSound ==
    ASSUME NEW last \in Nat, NEW segs, Sound(segs, last), NEW entries, Valid(segs, entries),
           NEW gone \in Nat
    PROVE  LET rest == SubSeq(segs, gone + 1, Len(segs))
           IN  Sound(rest, last) /\ Valid(rest, entries)
<1> DEFINE rest == SubSeq(segs, gone + 1, Len(segs))
<1>1. segs \in Seq(Segment(last)) /\ Len(segs) \in Nat /\ DOMAIN segs = 1..Len(segs)
    BY SegmentParts DEF Sound, Segments
<1>2. \A i \in (gone + 1)..Len(segs) : i \in DOMAIN segs /\ segs[i] \in Segment(last)
    BY <1>1
<1>3. /\ rest \in Seq(Segment(last))
      /\ Len(rest) = IF gone + 1 <= Len(segs) THEN Len(segs) - (gone + 1) + 1 ELSE 0
      /\ \A i \in 1..(Len(segs) - (gone + 1) + 1) : rest[i] = segs[(gone + 1) + i - 1]
    BY <1>1, <1>2, SubSeqProperties
<1> HIDE DEF rest
<1>4. /\ DOMAIN rest = 1..Len(rest) /\ Len(rest) \in Nat
      /\ Len(rest) # 0 => Len(rest) = Len(segs) - gone
    <2>1. DOMAIN rest = 1..Len(rest) /\ Len(rest) \in Nat
        BY <1>3, LenProperties
    <2>2. Len(segs) - (gone + 1) + 1 = Len(segs) - gone
        BY <1>1
    <2>3. Len(rest) = Len(segs) - gone \/ Len(rest) = 0
        BY <1>3, <2>2
    <2> QED
        BY <2>1, <2>3
<1>5. ASSUME NEW i \in DOMAIN rest
      PROVE  rest[i] = segs[gone + i] /\ gone + i \in DOMAIN segs
    <2>1. i \in 1..Len(rest)
        BY <1>4
    <2>5. i \in Nat \ {0} /\ i <= Len(rest) /\ Len(rest) # 0
        BY <1>4, <2>1
    <2>2. i \in Nat \ {0} /\ i <= Len(segs) - gone
        BY <1>4, <2>5
    <2>3. i \in 1..(Len(segs) - (gone + 1) + 1)
        BY <1>1, <2>2
    <2>4. (gone + 1) + i - 1 = gone + i /\ gone + i \in DOMAIN segs
        BY <1>1, <2>2
    <2> QED
        BY <1>3, <2>3, <2>4
<1>6. Ordered(rest)
    <2> SUFFICES ASSUME NEW i \in DOMAIN rest, NEW j \in DOMAIN rest, i < j
                 PROVE  /\ rest[i].id # rest[j].id
                        /\ \A r \in rest[i].records, q \in rest[j].records : r < q
        BY DEF Ordered
    <2>1. gone + i < gone + j
        BY <1>4
    <2> QED
        BY <1>5, <2>1 DEF Sound, Ordered
<1>7. Valid(rest, entries)
    BY <1>5 DEF Valid
<1>8. Reaches(rest, last)
    <2> SUFFICES ASSUME rest # <<>>
                 PROVE  \E lo \in 1..(last + 1) : rest[Len(rest)].records = lo..last
        BY DEF Reaches
    <2>1. Len(rest) \in Nat \ {0}
        BY <1>3, EmptySeq
    <2>2. Len(rest) \in DOMAIN rest
        BY <1>4, <2>1
    <2>5. Len(rest) = Len(segs) - gone
        BY <1>4, <2>1
    <2>4. gone + Len(rest) = Len(segs)
        BY <1>1, <2>5
    <2>3. rest[Len(rest)] = segs[Len(segs)] /\ segs # <<>>
        BY <1>1, <1>5, <2>2, <2>4
    <2> QED
        BY <2>3 DEF Sound, Reaches
<1> QED
    BY <1>3, <1>6, <1>7, <1>8 DEF Sound, Segments, rest

(* Newer segments are added.                                               *)
LEMMA JoinKeepsSound ==
    ASSUME NEW last \in Nat, NEW s \in Segments(last), Ordered(s), NEW t, Sound(t, last), t # <<>>,
           \A i \in DOMAIN s, j \in DOMAIN t :
               s[i].id # t[j].id /\ \A r \in s[i].records, q \in t[j].records : r < q,
           NEW entries, Valid(s, entries), Valid(t, entries)
    PROVE  Sound(s \o t, last) /\ Valid(s \o t, entries) /\ Ids(s \o t) = Ids(s) \cup Ids(t)
<1> DEFINE st == s \o t
<1>1. /\ s \in Seq(Segment(last)) /\ Len(s) \in Nat /\ DOMAIN s = 1..Len(s)
      /\ t \in Seq(Segment(last)) /\ Len(t) \in Nat \ {0} /\ DOMAIN t = 1..Len(t)
    BY SegmentParts, EmptySeq DEF Sound, Segments
<1>2. /\ st \in Seq(Segment(last)) /\ Len(st) = Len(s) + Len(t)
      /\ \A i \in 1..(Len(s) + Len(t)) : st[i] = IF i <= Len(s) THEN s[i] ELSE t[i - Len(s)]
    BY <1>1, ConcatProperties
<1> HIDE DEF st
<1>3. DOMAIN st = 1..(Len(s) + Len(t))
    BY <1>2, LenProperties
<1>4. \A i \in DOMAIN st : /\ i <= Len(s) => i \in DOMAIN s /\ st[i] = s[i]
                           /\ ~(i <= Len(s)) => /\ i - Len(s) \in DOMAIN t
                                                /\ st[i] = t[i - Len(s)]
    BY <1>1, <1>2, <1>3
<1>5. Ordered(st)
    <2> SUFFICES ASSUME NEW i \in DOMAIN st, NEW j \in DOMAIN st, i < j
                 PROVE  /\ st[i].id # st[j].id
                        /\ \A r \in st[i].records, q \in st[j].records : r < q
        BY DEF Ordered
    <2>1. i \in Nat /\ j \in Nat
        BY <1>1, <1>3
    <2>2. CASE j <= Len(s)
        <3>1. i <= Len(s)
            BY <1>1, <2>1, <2>2
        <3> QED
            BY <1>4, <2>2, <3>1 DEF Ordered
    <2>3. CASE i <= Len(s) /\ ~(j <= Len(s))
        BY <1>4, <2>3
    <2>4. CASE ~(i <= Len(s))
        <3>1. ~(j <= Len(s)) /\ i - Len(s) < j - Len(s)
            BY <1>1, <2>1, <2>4
        <3> QED
            BY <1>4, <2>4, <3>1 DEF Sound, Ordered
    <2> QED
        BY <2>2, <2>3, <2>4
<1>6. Valid(st, entries)
    BY <1>4 DEF Valid
<1>7. Reaches(st, last)
    <2>1. /\ Len(st) \in DOMAIN st /\ ~(Len(st) <= Len(s)) /\ Len(st) - Len(s) = Len(t)
        BY <1>1, <1>2, <1>3
    <2>2. st[Len(st)] = t[Len(t)]
        BY <1>4, <2>1
    <2> QED
        BY <2>2 DEF Sound, Reaches
<1>8. Ids(st) = Ids(s) \cup Ids(t)
    <2>1. \A i \in DOMAIN s : i \in DOMAIN st /\ i <= Len(s)
        BY <1>1, <1>3
    <2>2. \A j \in DOMAIN t : /\ j + Len(s) \in DOMAIN st /\ ~(j + Len(s) <= Len(s))
                              /\ (j + Len(s)) - Len(s) = j
        BY <1>1, <1>3
    <2>3. \A i \in DOMAIN s : s[i].id \in Ids(st)
        BY <1>4, <2>1 DEF Ids
    <2>4. \A j \in DOMAIN t : t[j].id \in Ids(st)
        BY <1>4, <2>2 DEF Ids
    <2>5. \A i \in DOMAIN st : st[i].id \in Ids(s) \cup Ids(t)
        BY <1>4 DEF Ids
    <2> QED
        BY <2>3, <2>4, <2>5 DEF Ids
<1> QED
    BY <1>2, <1>5, <1>6, <1>7, <1>8 DEF Sound, Segments, st

(* The records from first on, cut into segments.                           *)
Cuts(ids, first, top, size) ==
    [k \in 1..((top - first) \div size + 1) |->
        [id |-> ids[k], records |-> {r \in first..top : (r - first) \div size = k - 1}]]

LEMMA CutsAreSound ==
    ASSUME NEW first \in Nat \ {0}, NEW top \in Nat, first <= top, NEW size \in Nat \ {0},
           NEW ids, \A k \in Nat \ {0} : /\ ids[k] \in Nat
                                         /\ \A l \in Nat \ {0} : l # k => ids[l] # ids[k]
    PROVE  LET t == Cuts(ids, first, top, size)
           IN  /\ Sound(t, top) /\ t # <<>>
               /\ \A j \in DOMAIN t : /\ j \in Nat \ {0} /\ t[j].id = ids[j]
                                      /\ t[j].records \subseteq first..top
<1> DEFINE n == (top - first) \div size + 1
           records(k) == {r \in first..top : (r - first) \div size = k - 1}
           t == Cuts(ids, first, top, size)
<1>1. top - first \in Nat /\ (top - first) \div size \in Nat /\ n \in Nat \ {0}
    BY DivisionIsOrdered
<1>12. t = [k \in 1..n |-> [id |-> ids[k], records |-> records(k)]]
    BY DEF Cuts
<1> HIDE DEF n, t
<1>2. \A k \in 1..n : k \in Nat \ {0} /\ records(k) \subseteq first..top /\ records(k) \subseteq 1..top
    BY <1>1
<1>3. DOMAIN t = 1..n /\ \A k \in 1..n : t[k] = [id |-> ids[k], records |-> records(k)]
    BY <1>12
<1>4. \A k \in 1..n : t[k].id = ids[k] /\ t[k].records = records(k)
    BY <1>3
<1>5. t \in Segments(top)
    <2>1. \A k \in 1..n : [id |-> ids[k], records |-> records(k)] \in Segment(top)
        BY <1>2 DEF Segment
    <2>2. t \in [1..n -> Segment(top)]
        BY <1>12, <2>1
    <2>3. \A S : [1..n -> S] \subseteq Seq(S)
        BY <1>1, SeqDef
    <2> QED
        BY <2>2, <2>3 DEF Segments
<1>6. Ordered(t)
    <2> SUFFICES ASSUME NEW i \in 1..n, NEW j \in 1..n, i < j
                 PROVE  /\ t[i].id # t[j].id
                        /\ \A r \in t[i].records, q \in t[j].records : r < q
        BY <1>3 DEF Ordered
    <2>1. i \in Nat \ {0} /\ j \in Nat \ {0} /\ i # j
        BY <1>1
    <2>2. t[i].id # t[j].id
        BY <1>4, <2>1
    <2>3. ASSUME NEW r \in records(i), NEW q \in records(j), ~(r < q)
          PROVE  FALSE
        <3>1. /\ r - first \in Nat /\ q - first \in Nat /\ q - first <= r - first
              /\ (r - first) \div size = i - 1 /\ (q - first) \div size = j - 1
            BY <2>3
        <3>2. (q - first) \div size <= (r - first) \div size
            BY <3>1, DivisionIsOrdered
        <3> QED
            BY <2>1, <3>1, <3>2
    <2> QED
        BY <1>4, <2>2, <2>3
<1>7. Len(t) = n /\ t # <<>>
    <2>1. t \in Seq(Segment(top))
        BY <1>5 DEF Segments
    <2>2. PICK m \in Nat : m = Len(t) /\ DOMAIN t = 1..m
        BY <2>1, LenProperties
    <2>3. 1..n = 1..m
        BY <1>3, <2>2, Zenon
    <2>4. n \in 1..m /\ (m # 0 => m \in 1..n)
        BY <1>1, <2>3
    <2>5. Len(t) = n
        BY <1>1, <2>2, <2>4
    <2>6. t # <<>>
        BY <1>1, <2>1, <2>5, EmptySeq
    <2> QED
        BY <2>5, <2>6
<1>8. Reaches(t, top)
    <2> DEFINE d == (top - first) \div size
               lo == first + size * d
    <2>1. d \in Nat /\ size * d \in Nat /\ size * d <= top - first
        BY <1>1, DivisionIsOrdered
    <2>2. lo \in 1..(top + 1)
        <3> DEFINE offset == size * d
        <3>1. offset \in Nat /\ offset <= top - first
            BY <2>1
        <3> HIDE DEF offset
        <3>2. first + offset \in 1..(top + 1)
            BY <3>1
        <3> QED
            BY <3>2 DEF offset
    <2>3. n - 1 = d
        BY <2>1 DEF n
    <2>4. ASSUME NEW r \in records(n)
          PROVE  r \in lo..top
        <3>1. r \in first..top /\ r - first \in Nat /\ (r - first) \div size = d
            BY <2>3
        <3>2. size * ((r - first) \div size) <= r - first
            BY <3>1, DivisionIsOrdered
        <3>3. size * d <= r - first
            BY <3>1, <3>2
        <3> DEFINE offset == size * d
        <3>4. offset \in Nat /\ offset <= r - first
            BY <2>1, <3>3
        <3> HIDE DEF offset
        <3>5. r \in (first + offset)..top
            BY <3>1, <3>4
        <3> QED
            BY <3>5 DEF offset
    <2>5. ASSUME NEW r \in lo..top
          PROVE  r \in records(n)
        <3> DEFINE offset == size * d
        <3>1. offset \in Nat /\ r \in (first + offset)..top
            BY <2>1
        <3> HIDE DEF offset
        <3>2. r \in first..top /\ r - first \in Nat /\ r - first <= top - first /\ r - first >= offset
            BY <3>1
        <3>3. (r - first) \div size <= d /\ (r - first) \div size \in Nat
            BY <1>1, <3>2, DivisionIsOrdered
        <3>4. r - first >= size * ((top - first) \div size)
            BY <3>2 DEF offset
        <3>5. (r - first) \div size >= (top - first) \div size
            BY <1>1, <3>2, <3>4, DivisionIsOrdered
        <3>6. (r - first) \div size = d
            <4> DEFINE e == (r - first) \div size
            <4>1. e \in Nat /\ e <= d /\ e >= d
                BY <3>3, <3>5
            <4> HIDE DEF e, d
            <4>2. e = d
                BY <2>1, <4>1
            <4> QED
                BY <4>2 DEF e
        <3> QED
            BY <2>3, <3>2, <3>6
    <2>6. t[Len(t)].records = lo..top
        <3>1. t[n].records = records(n)
            BY <1>1, <1>4
        <3>2. records(n) = lo..top
            BY <2>4, <2>5, <1>1, <2>1, <2>2
        <3> QED
            BY <1>7, <3>1, <3>2
    <2> QED
        BY <2>2, <2>6 DEF Reaches
<1>9. \A j \in DOMAIN t : j \in Nat \ {0} /\ t[j].id = ids[j] /\ t[j].records \subseteq first..top
    BY <1>2, <1>3, <1>4
<1> QED
    BY <1>5, <1>6, <1>7, <1>8, <1>9 DEF Sound, t

LEMMA LongerIsSound ==
    ASSUME LogSearchAssumption, appended \in Nat, Sound(segments, appended),
           IsFiniteSet(DOMAIN cache), Valid(segments, cache), NEW count \in Nat
    PROVE  /\ Sound(Longer(count), appended + count)
           /\ Valid(Longer(count), cache)
<1>1. CASE count = 0
    <2>1. Longer(count) = segments /\ appended + count = appended
        BY <1>1 DEF Longer
    <2> QED
        BY <2>1
<1>2. CASE count # 0
    <2> DEFINE last == IF segments = <<>> THEN {} ELSE segments[Len(segments)].records
               grows == last # {} /\ Cardinality(last) < SegmentRecords
               before == IF grows THEN SubSeq(segments, 1, Len(segments) - 1) ELSE segments
               first == appended + 1 - (IF grows THEN Cardinality(last) ELSE 0)
               top == appended + count
               ids == [k \in Nat \ {0} |-> Address(k)]
               t == Cuts(ids, first, top, SegmentRecords)
               u == [k \in 1..((appended + count - first) \div SegmentRecords + 1) |->
                        [id |-> Address(k),
                         records |-> {r \in first..top : (r - first) \div SegmentRecords = k - 1}]]
    <2>1. Longer(count) = before \o u
        <3>1. Longer(count) = IF count = 0 THEN segments ELSE before \o u
            BY DEF Longer
        <3> HIDE DEF before, u
        <3> QED
            BY <1>2, <3>1
    <2>2. /\ segments \in Segments(appended) /\ Len(segments) \in Nat
          /\ DOMAIN segments = 1..Len(segments)
          /\ \A i \in DOMAIN segments : /\ segments[i] \in Segment(appended)
                                        /\ segments[i].records \subseteq 1..appended
        BY SegmentParts, ElementOfSeq DEF Sound, Segments
    <2>3. top \in Nat /\ top > appended /\ SegmentRecords \in Nat \ {0}
        BY <1>2 DEF LogSearchAssumption
    <2>4. ASSUME grows
          PROVE  /\ Len(segments) \in Nat \ {0} /\ Len(segments) \in DOMAIN segments
                 /\ first \in Nat \ {0} /\ first <= appended
                 /\ segments[Len(segments)].records = first..appended
        <3>1. segments # <<>> /\ last = segments[Len(segments)].records
            BY <2>4
        <3>2. Len(segments) \in Nat \ {0}
            BY <2>2, <3>1, EmptySeq DEF Segments
        <3>3. PICK lo \in 1..(appended + 1) : last = lo..appended
            BY <3>1 DEF Sound, Reaches
        <3>4. lo <= appended /\ lo \in Nat \ {0}
            <4>1. last # {}
                BY <2>4
            <4> HIDE DEF last
            <4> QED
                BY <3>3, <4>1
        <3>5. Cardinality(last) = appended - lo + 1
            <4>1. Cardinality(lo..appended) = appended - lo + 1
                BY <3>4, FS_Interval
            <4> QED
                BY <3>3, <4>1
        <3>6. first = appended + 1 - Cardinality(last)
            BY <2>4
        <3> HIDE DEF first, last
        <3>7. first = lo
            BY <3>4, <3>5, <3>6
        <3> QED
            BY <2>2, <3>1, <3>2, <3>3, <3>4, <3>7
    <2>5. ~grows => first = appended + 1 /\ before = segments
        <3>1. ~grows => first = appended + 1 - 0 /\ before = segments
            OBVIOUS
        <3> HIDE DEF first, before, grows
        <3> QED
            BY <3>1
    <2>6. first \in Nat \ {0} /\ first <= top
        <3> HIDE DEF first, grows, before, top
        <3> QED
            BY <2>3, <2>4, <2>5
    <2>7. /\ before \in Seq(Segment(appended))
          /\ \A i \in DOMAIN before : /\ i \in DOMAIN segments /\ before[i] = segments[i]
                                      /\ grows => i < Len(segments)
        <3>1. CASE grows
            <4>1. before = SubSeq(segments, 1, Len(segments) - 1)
                BY <3>1
            <4>2. Len(segments) - 1 \in Nat
                  /\ \A i \in 1..(Len(segments) - 1) : i \in DOMAIN segments
                                                       /\ segments[i] \in Segment(appended)
                BY <2>2, <2>4, <3>1
            <4>3. /\ before \in Seq(Segment(appended))
                  /\ Len(before) = IF 1 <= Len(segments) - 1 THEN Len(segments) - 1 - 1 + 1 ELSE 0
                  /\ \A i \in 1..(Len(segments) - 1 - 1 + 1) : before[i] = segments[1 + i - 1]
                BY <4>1, <4>2, SubSeqProperties
            <4> HIDE DEF before, grows
            <4>4. Len(before) = Len(segments) - 1 \/ Len(before) = 0
                <5>1. Len(segments) - 1 - 1 + 1 = Len(segments) - 1
                    BY <4>2
                <5> QED
                    BY <4>3, <5>1
            <4>5. PICK m \in Nat : m = Len(before) /\ DOMAIN before = 1..m
                BY <4>3, LenProperties
            <4>6. ASSUME NEW i \in DOMAIN before
                  PROVE  i \in 1..(Len(segments) - 1)
                <5>1. i \in 1..m
                    BY <4>5
                <5>2. m = Len(segments) - 1
                    BY <4>4, <4>5, <5>1
                <5> QED
                    BY <5>1, <5>2
            <4>7. \A i \in 1..(Len(segments) - 1) : /\ i \in 1..(Len(segments) - 1 - 1 + 1)
                                                    /\ 1 + i - 1 = i /\ i < Len(segments)
                BY <4>2
            <4> QED
                BY <4>2, <4>3, <4>6, <4>7
        <3>2. CASE ~grows
            <4>1. before = segments
                BY <3>2
            <4> QED
                BY <2>2, <3>2, <4>1 DEF Segments
        <3> QED
            BY <3>1, <3>2
    <2> HIDE DEF grows, before, first
    <2>8. before \in Segments(top)
        <3>1. Segment(appended) \subseteq Segment(top)
            <4>1. 1..appended \subseteq 1..top
                BY <2>3
            <4> QED
                BY <4>1 DEF Segment
        <3> QED
            BY <2>7, <3>1, SeqMonotonic DEF Segments
    <2>9. Ordered(before)
        <3> SUFFICES ASSUME NEW i \in DOMAIN before, NEW j \in DOMAIN before, i < j
                     PROVE  /\ before[i].id # before[j].id
                            /\ \A r \in before[i].records, q \in before[j].records : r < q
            BY DEF Ordered
        <3> QED
            BY <2>7 DEF Sound, Ordered
    <2>10. \A i \in DOMAIN before : \A r \in before[i].records : r \in Nat /\ r < first
        <3> SUFFICES ASSUME NEW i \in DOMAIN before, NEW r \in before[i].records
                     PROVE  r \in Nat /\ r < first
            OBVIOUS
        <3>1. i \in DOMAIN segments /\ r \in segments[i].records /\ r \in 1..appended
            BY <2>2, <2>7
        <3>2. CASE ~grows
            BY <2>5, <3>1, <3>2
        <3>3. CASE grows
            <4>1. i < Len(segments) /\ Len(segments) \in DOMAIN segments
                BY <2>4, <2>7, <3>3
            <4>2. first \in segments[Len(segments)].records
                BY <2>4, <3>3
            <4>3. r < first
                BY <3>1, <4>1, <4>2 DEF Sound, Ordered
            <4> QED
                BY <3>1, <4>3
        <3> QED
            BY <3>2, <3>3
    <2>11. IsFiniteSet(Ids(segments) \cup DOMAIN cache)
        <3>1. IsFiniteSet(Ids(segments))
            BY <2>2, IdsAreFinite
        <3> QED
            BY <3>1, FS_Union
    <2>12. \A k \in Nat \ {0} : /\ ids[k] \in Nat /\ ids[k] = Address(k)
                                /\ ids[k] \notin Ids(segments) /\ ids[k] \notin DOMAIN cache
                                /\ \A l \in Nat \ {0} : l # k => ids[l] # ids[k]
        BY <2>11, AddressesAreFresh
    <2> HIDE DEF ids, t, top
    <2>13. /\ Sound(t, top) /\ t # <<>>
           /\ \A j \in DOMAIN t : /\ j \in Nat \ {0} /\ t[j].id = ids[j]
                                  /\ t[j].records \subseteq first..top
        BY <2>3, <2>6, <2>12, CutsAreSound DEF t
    <2>14. t = u
        <3>1. (top - first) \div SegmentRecords \in Nat
            <4>1. top - first \in Nat
                BY <2>3, <2>6
            <4> QED
                BY <2>3, <4>1, DivisionIsOrdered
        <3>2. \A k \in 1..((top - first) \div SegmentRecords + 1) : ids[k] = Address(k)
            BY <2>12, <3>1
        <3>3. appended + count - first = top - first
            BY <2>6 DEF top
        <3> QED
            BY <3>2, <3>3 DEF t, Cuts
    <2> HIDE DEF u
    <2>15. \A i \in DOMAIN before, j \in DOMAIN t :
               before[i].id # t[j].id /\ \A r \in before[i].records, q \in t[j].records : r < q
        <3> SUFFICES ASSUME NEW i \in DOMAIN before, NEW j \in DOMAIN t
                     PROVE  /\ before[i].id # t[j].id
                            /\ \A r \in before[i].records, q \in t[j].records : r < q
            OBVIOUS
        <3>1. before[i].id \in Ids(segments) /\ t[j].id \notin Ids(segments)
            BY <2>7, <2>12, <2>13 DEF Ids
        <3>2. \A r \in before[i].records, q \in t[j].records : r < q
            <4> SUFFICES ASSUME NEW r \in before[i].records, NEW q \in t[j].records
                         PROVE  r < q
                OBVIOUS
            <4>1. r \in Nat /\ r < first /\ q \in first..top
                BY <2>10, <2>13
            <4> QED
                BY <2>3, <2>6, <4>1
        <3> QED
            BY <3>1, <3>2
    <2>16. Valid(before, cache) /\ Valid(t, cache)
        <3>1. Valid(before, cache)
            BY <2>7 DEF Valid
        <3>2. \A j \in DOMAIN t : t[j].id \notin DOMAIN cache
            BY <2>12, <2>13
        <3> QED
            BY <3>1, <3>2 DEF Valid
    <2>17. Sound(before \o t, top) /\ Valid(before \o t, cache)
        BY <2>3, <2>8, <2>9, <2>13, <2>15, <2>16, JoinKeepsSound
    <2> QED
        BY <2>1, <2>14, <2>17 DEF top
<1> QED
    BY <1>1, <1>2

LEMMA NextSegmentsAreSound ==
    ASSUME LogSearchAssumption, appended \in Nat, Sound(segments, appended),
           IsFiniteSet(DOMAIN cache), Valid(segments, cache), NEW count \in Nat, NEW gone \in Nat
    PROVE  LET segs == SubSeq(Longer(count), gone + 1, Len(Longer(count)))
           IN  Sound(segs, appended + count) /\ Valid(segs, cache)
<1>1. Sound(Longer(count), appended + count) /\ Valid(Longer(count), cache)
    BY LongerIsSound
<1>2. appended + count \in Nat
    OBVIOUS
<1> QED
    BY <1>1, <1>2, ExpiryKeepsSound

-----------------------------------------------------------------------------
(* Every step.                                                             *)

(* The inductive invariant: the snapshot is in order, every result kept is *)
(* the one of its segment, and what is shown is the newest.                *)
SearchSound ==
    /\ appended \in Nat /\ Sound(segments, appended)
    /\ IsFiniteSet(DOMAIN cache) /\ Valid(segments, cache)
    /\ IsNewestFirst(segments, found)

LEMMA InitIsSound ==
    ASSUME LogSearchAssumption, Init
    PROVE  SearchSound
<1>1. Sound(segments, appended) /\ Valid(segments, cache) /\ IsFiniteSet(DOMAIN cache)
    <2>1. segments = <<>> /\ segments \in Segments(0) /\ DOMAIN segments = {}
        BY EmptySeq DEF Init, Segments
    <2>2. DOMAIN cache = {}
        BY DEF Init
    <2> QED
        BY <2>1, <2>2, FS_EmptySet DEF Sound, Ordered, Reaches, Valid, Init
<1>2. IsNewestFirst(segments, found)
    <2> DEFINE whole == Examined(UNION {segments[i].records : i \in DOMAIN segments})
    <2>1. DOMAIN segments = {}
        BY DEF Init
    <2>2. (UNION {segments[i].records : i \in DOMAIN segments}) \cap Hits = {}
        BY <2>1
    <2>3. \A limit : Newest({}, limit) = {}
        BY DEF Newest
    <2>4. (Cardinality({}) > MatchLimit) = FALSE
        BY FS_EmptySet DEF LogSearchAssumption
    <2>5. whole = [matches |-> {}, limited |-> FALSE]
        BY <2>2, <2>3, <2>4 DEF Examined
    <2>6. found.matches = {} /\ found.limited = FALSE
        BY DEF Init, Nothing
    <2> HIDE DEF whole
    <2>7. whole.matches = {} /\ whole.limited = FALSE
        BY <2>5
    <2> QED
        BY <2>3, <2>6, <2>7 DEF IsNewestFirst, whole
<1> QED
    BY <1>1, <1>2 DEF SearchSound, Init

(* A turn over sound segments.                                             *)
LEMMA RefreshIsSound ==
    ASSUME LogSearchAssumption, SearchSound, NEW last \in Nat, NEW segs,
           Sound(segs, last), Valid(segs, cache), Refresh(segs), segments' = segs, appended' = last
    PROVE  SearchSound'
<1>1. segs \in Segments(last) /\ Ordered(segs)
    BY DEF Sound
<1>2. cache' = Search(segs, cache).cache /\ found' = Search(segs, cache).found
    BY DEF Refresh
<1>3. IsNewestFirst(segs, Search(segs, cache).found)
    BY <1>1, SearchFindsTheNewest
<1>4. PICK cached :
          /\ DOMAIN cached = (DOMAIN cache \cap Ids(segs))
                                 \cup {segs[j].id : j \in From(segs, cache)..Len(segs)}
          /\ DOMAIN cache' = DOMAIN cached \cap Keeps(segs, cached)
          /\ Valid(segs, cache')
    BY <1>1, <1>2, SearchParts
<1>5. DOMAIN cache' \in SUBSET Ids(segs)
    BY <1>4 DEF Keeps, Ids
<1>6. IsFiniteSet(DOMAIN cache')
    BY <1>1, <1>5, IdsAreFinite, FS_Subset
<1> QED
    BY <1>2, <1>3, <1>4, <1>6 DEF SearchSound

LEMMA StepIsSound ==
    ASSUME LogSearchAssumption, SearchSound, [Next]_vars
    PROVE  SearchSound'
<1>1. CASE Turn
    BY <1>1, RefreshIsSound DEF Turn, SearchSound
<1>2. ASSUME NEW count \in 0..(2 * SegmentRecords), NEW gone \in 0..1, TurnWithOutput(count, gone)
      PROVE  SearchSound'
    <2>1. count \in Nat /\ gone \in Nat
        BY DEF LogSearchAssumption
    <2> DEFINE segs == SubSeq(Longer(count), gone + 1, Len(Longer(count)))
    <2>2. Sound(segs, appended + count) /\ Valid(segs, cache) /\ appended + count \in Nat
        BY <2>1, NextSegmentsAreSound DEF SearchSound
    <2>3. segments' = segs /\ appended' = appended + count /\ Refresh(segs)
        BY <1>2 DEF TurnWithOutput
    <2> HIDE DEF segs
    <2> QED
        BY <2>2, <2>3, RefreshIsSound
<1>3. CASE (\E match \in Hits : Select(match)) \/ UNCHANGED vars
    <2>1. UNCHANGED <<segments, appended, cache, found>>
        BY <1>3 DEF Select, vars
    <2> QED
        BY <2>1 DEF SearchSound
<1> QED
    BY <1>1, <1>2, <1>3 DEF Next

-----------------------------------------------------------------------------
(* The matches shown are always the newest there are, and a search that    *)
(* says that it is done has what a whole one would have; a pending search  *)
(* comes nearer to its end with every turn.                                *)
THEOREM SearchIsRight ==
    ASSUME LogSearchAssumption
    PROVE  Spec => [](ResultIsNewestFirst /\ PendingSearchAdvances)
<1>1. Init => SearchSound
    BY InitIsSound
<1>2. SearchSound /\ [Next]_vars => SearchSound'
    BY StepIsSound
<1>3. SearchSound => ResultIsNewestFirst
    BY DEF SearchSound, ResultIsNewestFirst, IsNewestFirst, Reference
<1>4. SearchSound => PendingSearchAdvances
    <2> SUFFICES ASSUME SearchSound, Search(segments, cache).found.pending
                 PROVE  Max(Missing(Search(segments, cache).cache)) < Max(Missing(cache))
        BY DEF PendingSearchAdvances
    <2>1. segments \in Segments(appended) /\ Ordered(segments) /\ Valid(segments, cache)
          /\ appended \in Nat
        BY DEF SearchSound, Sound
    <2>2. Pends(segments, cache)
        BY <2>1, SearchFindsTheNewest
    <2>3. \A entries : Missing(entries) = MissingOf(segments, entries)
        BY DEF Missing, MissingOf
    <2> QED
        BY <2>1, <2>2, <2>3, SearchAdvances
<1> QED
    BY <1>1, <1>2, <1>3, <1>4, PTL DEF Spec

(* The match that the user is at stays the current one whatever arrives,   *)
(* unless it is no longer among the newest matches or the search has not   *)
(* got to it yet.                                                          *)
THEOREM CurrentMatchStays ==
    ASSUME LogSearchAssumption
    PROVE  Spec => [][MatchStays]_vars
<1>1. Init => SearchSound
    BY InitIsSound
<1>2. SearchSound /\ [Next]_vars => SearchSound'
    BY StepIsSound
<1>3. ASSUME SearchSound, SearchSound', [Next]_vars
      PROVE  [MatchStays]_vars
    <2> SUFFICES ASSUME current # Awaiting, current' # current, found' # found, ~found'.pending
                 PROVE  current \notin Reference'.matches
        BY DEF MatchStays
    <2>1. PICK segs : Refresh(segs)
        BY <1>3 DEF Next, Turn, TurnWithOutput, Select, vars
    <2>2. found'.matches = Reference'.matches
        BY <1>3 DEF SearchSound, IsNewestFirst, Reference
    <2>3. current' = Reselected(found'.matches, current)
        BY <2>1 DEF Refresh
    <2>4. current \notin found'.matches
        BY <2>3 DEF Reselected
    <2> QED
        BY <2>2, <2>4
<1> QED
    BY <1>1, <1>2, <1>3, PTL DEF Spec
=============================================================================
