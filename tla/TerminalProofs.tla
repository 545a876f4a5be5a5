---------------------------- MODULE TerminalProofs ----------------------------
(***************************************************************************)
(* That a terminal's threads lose, repeat and reorder nothing between the  *)
(* client and the child, and account for every byte they hold, for all     *)
(* bounds of the queues and budgets; and that a client is never left       *)
(* without the frame it has not drawn or the failure it did not hear of,   *)
(* for every limit of the event queues and any number of changes and       *)
(* reports.                                                                *)
(***************************************************************************)
EXTENDS TerminalSession, SequenceTheorems, WellFoundedInduction, TLAPS

-----------------------------------------------------------------------------
(* Counting through a sequence.                                            *)

(* What holds of 0, and of n + 1 when of n, holds of every number.         *)
LEMMA FromZero ==
    ASSUME NEW S, 0 \in S, \A n \in Nat : n \in S => n + 1 \in S
    PROVE  Nat \subseteq S
<1> SUFFICES ASSUME Nat \ S # {}
             PROVE  FALSE
    OBVIOUS
<1>1. PICK least \in Nat \ S : \A x \in Nat \ S : ~(<<x, least>> \in OpToRel(<, Nat))
    BY WFMin, NatLessThanWellFounded
<1>2. \A x \in Nat \ S : ~(x < least)
    BY <1>1 DEF OpToRel
<1>3. least \in Nat /\ least \notin S
    OBVIOUS
<1>4. least # 0
    BY <1>3
<1>5. least - 1 \in Nat /\ least - 1 < least /\ (least - 1) + 1 = least
    BY <1>3, <1>4
<1>6. least - 1 \in S
    BY <1>2, <1>5
<1>7. (least - 1) + 1 \in S
    BY <1>5, <1>6
<1> QED
    BY <1>3, <1>5, <1>7

LEMMA CountsFacts ==
    ASSUME NEW s \in Seq(Nat), NEW from, NEW to, NEW ends \in Counts(s, from, to)
    PROVE  /\ Len(s) \in Nat /\ ends \in [0..Len(s) -> 0..to]
           /\ ends[0] = from /\ ends[Len(s)] = to
           /\ \A i \in 0..Len(s) : ends[i] \in 0..to
           /\ \A i \in 1..Len(s) : s[i] \in Nat
           /\ \A i \in 1..Len(s) : ends[i] = ends[i - 1] + s[i]
<1>1. Len(s) \in Nat /\ \A i \in 1..Len(s) : s[i] \in Nat
    OBVIOUS
<1>2. /\ ends \in [0..Len(s) -> 0..to] /\ ends[0] = from /\ ends[Len(s)] = to
      /\ \A i \in 1..Len(s) : ends[i] = ends[i - 1] + s[i]
    BY Zenon DEF Counts
<1>3. \A i \in 0..Len(s) : ends[i] \in 0..to
    BY <1>2
<1> QED
    BY <1>1, <1>2, <1>3

(* A count never falls.                                                    *)
LEMMA CountsGrow ==
    ASSUME NEW s \in Seq(Nat), NEW from \in Nat, NEW to \in Nat, NEW ends \in Counts(s, from, to)
    PROVE  /\ \A i \in 0..Len(s) : ends[i] \in Nat /\ from <= ends[i] /\ ends[i] <= to
           /\ \A i \in 1..Len(s) : from + s[1] <= ends[i]
<1>1. /\ ends \in [0..Len(s) -> 0..to] /\ Len(s) \in Nat
      /\ ends[0] = from /\ \A i \in 1..Len(s) : s[i] \in Nat /\ ends[i] = ends[i - 1] + s[i]
      /\ \A i \in 0..Len(s) : ends[i] \in 0..to
    BY CountsFacts
<1> DEFINE S == {n \in Nat : n <= Len(s) => from <= ends[n] /\ (n >= 1 => from + s[1] <= ends[n])}
<1>2. 0 \in S
    BY <1>1
<1>3. ASSUME NEW n \in Nat, n \in S
      PROVE  n + 1 \in S
    <2> SUFFICES ASSUME n + 1 <= Len(s)
                 PROVE  from <= ends[n + 1] /\ from + s[1] <= ends[n + 1]
        OBVIOUS
    <2>1. n + 1 \in 1..Len(s) /\ (n + 1) - 1 = n /\ n \in 0..Len(s)
        BY <1>1
    <2>6. s[n + 1] \in Nat /\ ends[n + 1] = ends[(n + 1) - 1] + s[n + 1]
        BY <1>1, <2>1
    <2>7. ends[n] \in 0..to
        BY <1>1, <2>1
    <2>2. ends[n + 1] = ends[n] + s[n + 1] /\ s[n + 1] \in Nat /\ ends[n] \in Nat
        BY <2>1, <2>6, <2>7
    <2>3. from <= ends[n] /\ (n >= 1 => from + s[1] <= ends[n])
        BY <1>1, <1>3, <2>1
    <2>4. CASE n = 0
        BY <1>1, <2>2, <2>4
    <2>5. CASE n >= 1
        <3>1. s[1] \in Nat
            BY <1>1, <2>1
        <3> QED
            BY SMTT(30), <2>2, <2>3, <2>5, <3>1
    <2> QED
        BY <2>4, <2>5
<1>4. Nat \subseteq S
    <2> HIDE DEF S
    <2> QED
        BY <1>2, <1>3, FromZero
<1>8. \A i \in 0..Len(s) : i \in Nat /\ i <= Len(s)
    BY <1>1
<1>5. \A i \in 0..Len(s) : i \in S /\ i \in Nat /\ i <= Len(s) /\ ends[i] \in 0..to
    <2> HIDE DEF S
    <2> QED
        BY <1>1, <1>4, <1>8, Zenon
<1>6. \A i \in 0..Len(s) : from <= ends[i] /\ (i >= 1 => from + s[1] <= ends[i])
    BY <1>5
<1>7. \A i \in 1..Len(s) : i \in 0..Len(s) /\ i >= 1
    BY <1>1
<1> HIDE DEF S
<1> QED
    BY <1>5, <1>6, <1>7

LEMMA CountsNothing ==
    ASSUME NEW from \in Nat, NEW s, Len(s) = 0
    PROVE  Counts(s, from, from) # {}
<1>1. [i \in 0..0 |-> from] \in Counts(s, from, from)
    BY DEF Counts
<1> QED
    BY <1>1

(* One more at the end.                                                    *)
WithMore(s, t, from, to, ends) ==
    \E after \in Counts(t, from, to + t[Len(t)]) :
        /\ \A i \in 0..Len(s) : after[i] = ends[i]
        /\ after[Len(t)] = to + t[Len(t)]

LEMMA CountsAppend ==
    ASSUME NEW s \in Seq(Nat), NEW t \in Seq(Nat), NEW from \in Nat, NEW to \in Nat,
           NEW ends \in Counts(s, from, to),
           Len(t) = Len(s) + 1, \A i \in 1..Len(s) : t[i] = s[i]
    PROVE  WithMore(s, t, from, to, ends)
<1> DEFINE n == Len(s)
           after == [i \in 0..(n + 1) |-> IF i <= n THEN ends[i] ELSE to + t[n + 1]]
<1>1. /\ n \in Nat /\ Len(t) = n + 1 /\ ends[0] = from /\ ends[n] = to /\ t[n + 1] \in Nat
      /\ \A i \in 0..n : ends[i] \in 0..to
      /\ \A i \in 1..n : ends[i] = ends[i - 1] + s[i]
    BY CountsFacts
<1> HIDE DEF n
<1>2. \A i \in 0..n : after[i] = ends[i]
    BY <1>1
<1>3. after[n + 1] = to + t[n + 1]
    BY <1>1
<1>4. after \in [0..(n + 1) -> 0..(to + t[n + 1])]
    BY <1>1
<1> HIDE DEF after
<1>5. \A i \in 1..(n + 1) : after[i] = after[i - 1] + t[i]
    <2> TAKE i \in 1..(n + 1)
    <2>1. CASE i = n + 1
        BY <1>1, <1>2, <1>3, <2>1
    <2>2. CASE i \in 1..n
        <3>1. i - 1 \in 0..n /\ i \in 0..n
            BY <1>1, <2>2
        <3> QED
            BY <1>1, <1>2, <2>2, <3>1 DEF n
    <2> QED
        BY <1>1, <2>1, <2>2
<1>6. after[0] = from
    BY <1>1, <1>2
<1>7. after \in Counts(t, from, to + t[n + 1])
    BY <1>1, <1>3, <1>4, <1>5, <1>6 DEF Counts
<1> QED
    BY <1>1, <1>2, <1>3, <1>7 DEF n, WithMore

(* Counts that start at nothing: what they add up to.                      *)
LEMMA TotalIsNatural ==
    ASSUME NEW s \in Seq(Nat), NEW total \in Int, Counts(s, 0, total) # {}
    PROVE  total \in Nat
<1>1. PICK ends \in Counts(s, 0, total) : TRUE
    OBVIOUS
<1>2. Len(s) \in Nat /\ ends[Len(s)] = total /\ \A i \in 0..Len(s) : ends[i] \in 0..total
    BY CountsFacts
<1>3. Len(s) \in 0..Len(s)
    BY <1>2
<1>4. total \in 0..total
    BY <1>2, <1>3, Zenon
<1> QED
    BY <1>4

(* Without the first, and counted from another number.                     *)
WithoutFirst(s, t, from, to, less, ends) ==
    /\ less <= to
    /\ \E after \in Counts(t, (from + s[1]) - less, to - less) :
          \A i \in 0..Len(t) : after[i] = ends[i + 1] - less

LEMMA CountsTail ==
    ASSUME NEW s \in Seq(Nat), NEW t \in Seq(Nat), NEW from \in Nat, NEW to \in Nat,
           NEW ends \in Counts(s, from, to), NEW less \in Nat,
           Len(s) >= 1, less <= from + s[1],
           Len(t) = Len(s) - 1, \A i \in 1..Len(t) : t[i] = s[i + 1]
    PROVE  WithoutFirst(s, t, from, to, less, ends)
<1> DEFINE n == Len(t)
           after == [i \in 0..n |-> ends[i + 1] - less]
<1>1. /\ n \in Nat /\ Len(s) = n + 1 /\ s[1] \in Nat /\ ends[0] = from /\ ends[n + 1] = to
      /\ \A i \in 1..(n + 1) : ends[i] = ends[i - 1] + s[i] /\ ends[i] \in 0..to
    <2>1. Len(s) \in Nat /\ n = Len(s) - 1 /\ 1 \in 1..Len(s) /\ 1..Len(s) \subseteq 0..Len(s)
        BY CountsFacts
    <2> HIDE DEF n
    <2>2. n \in Nat /\ Len(s) = n + 1
        BY <2>1
    <2>3. n + 1 \in 1..Len(s) /\ 1..(n + 1) = 1..Len(s)
        BY <2>1, <2>2
    <2>4. \A i \in 1..Len(s) : ends[i] = ends[i - 1] + s[i] /\ ends[i] \in 0..to /\ s[i] \in Nat
        BY SMTT(30), <2>1, CountsFacts
    <2>5. ends[0] = from /\ ends[Len(s)] = to
        BY CountsFacts
    <2> QED
        BY <2>1, <2>2, <2>3, <2>4, <2>5
<1>2. \A i \in 1..(n + 1) : from + s[1] <= ends[i]
    BY <1>1, CountsGrow
<1>3. \A i \in 0..n : i + 1 \in 1..(n + 1) /\ (i + 1) - 1 = i
    BY <1>1
<1>4. \A i \in 0..n : after[i] = ends[i + 1] - less
    OBVIOUS
<1>5. \A i \in 0..n : ends[i + 1] - less \in 0..(to - less)
    <2> TAKE i \in 0..n
    <2>1. i + 1 \in 1..(n + 1)
        BY <1>3
    <2>2. ends[i + 1] \in 0..to /\ from + s[1] <= ends[i + 1]
        BY <1>1, <1>2, <2>1
    <2> QED
        BY SMTT(30), <1>1, <2>2
<1>6. after \in [0..n -> 0..(to - less)]
    BY <1>5
<1>7. after[0] = (from + s[1]) - less
    BY <1>1, <1>3
<1>8. after[n] = to - less
    BY <1>1
<1> HIDE DEF after
<1>9. \A i \in 1..n : after[i] = after[i - 1] + t[i]
    <2> TAKE i \in 1..n
    <2>1. i \in 0..n /\ i - 1 \in 0..n /\ i + 1 \in 1..(n + 1) /\ (i - 1) + 1 = i /\ (i + 1) - 1 = i
          /\ i \in 1..(n + 1)
        BY <1>1
    <2>2. after[i] = ends[i + 1] - less /\ after[i - 1] = ends[i] - less
        BY <1>4, <2>1
    <2>3. ends[i + 1] = ends[i] + s[i + 1] /\ t[i] = s[i + 1]
        BY <1>1, <2>1
    <2>4. ends[i] \in 0..to /\ i + 1 \in 1..Len(s)
        BY <1>1, <2>1
    <2>5. s[i + 1] \in Nat
        BY <2>4, CountsFacts, Zenon
    <2> DEFINE at == ends[i]
               step == s[i + 1]
    <2>6. at \in Int /\ step \in Int /\ after[i] = (at + step) - less /\ after[i - 1] = at - less
          /\ t[i] = step
        BY SMTT(30), <2>2, <2>3, <2>4, <2>5
    <2> HIDE DEF at, step
    <2> QED
        BY <2>6
<1>10. after \in Counts(t, (from + s[1]) - less, to - less)
    BY <1>6, <1>7, <1>8, <1>9 DEF Counts
<1>11. less <= to
    <2>1. n + 1 \in 1..(n + 1)
        BY <1>1
    <2>2. from + s[1] <= ends[n + 1]
        BY <1>2, <2>1, Zenon
    <2>3. ends[n + 1] = to /\ s[1] \in Nat
        BY <1>1, Zenon
    <2>4. from + s[1] <= to
        BY <2>2, <2>3, Zenon
    <2> QED
        BY <2>3, <2>4
<1> QED
    BY <1>4, <1>10, <1>11 DEF WithoutFirst

(* Counted from another number.                                            *)
Shifted(s, from, to, less, ends) ==
    /\ less <= to
    /\ \E after \in Counts(s, from - less, to - less) :
          \A i \in 0..Len(s) : after[i] = ends[i] - less

LEMMA CountsShift ==
    ASSUME NEW s \in Seq(Nat), NEW from \in Nat, NEW to \in Nat, NEW ends \in Counts(s, from, to),
           NEW less \in Nat, less <= from
    PROVE  Shifted(s, from, to, less, ends)
<1> DEFINE n == Len(s)
           after == [i \in 0..n |-> ends[i] - less]
<1>1. /\ n \in Nat /\ ends[0] = from /\ ends[n] = to
      /\ \A i \in 0..n : ends[i] \in 0..to
      /\ \A i \in 1..n : ends[i] = ends[i - 1] + s[i] /\ s[i] \in Nat
    BY CountsFacts
<1>2. \A i \in 0..n : from <= ends[i]
    BY CountsGrow
<1>3. \A i \in 0..n : after[i] = ends[i] - less
    OBVIOUS
<1>4. after \in [0..n -> 0..(to - less)]
    <2>1. \A i \in 0..n : ends[i] - less \in 0..(to - less)
        <3> TAKE i \in 0..n
        <3>1. ends[i] \in 0..to /\ from <= ends[i]
            BY <1>1, <1>2
        <3> QED
            BY <3>1
    <2> QED
        BY <2>1
<1> HIDE DEF after, n
<1>5. \A i \in 1..n : after[i] = after[i - 1] + s[i]
    <2> TAKE i \in 1..n
    <2>1. i \in 0..n /\ i - 1 \in 0..n
        BY <1>1
    <2> DEFINE x == ends[i - 1]
               y == s[i]
    <2>2. x \in Int /\ y \in Int /\ after[i] = (x + y) - less /\ after[i - 1] = x - less
        <3>1. after[i] = ends[i] - less /\ after[i - 1] = ends[i - 1] - less
            BY <1>3, <2>1
        <3>2. ends[i] = ends[i - 1] + s[i] /\ s[i] \in Nat /\ ends[i - 1] \in 0..to
            BY <1>1, <2>1
        <3>3. ends[i - 1] \in Int
            BY <3>2
        <3> QED
            BY <3>1, <3>2, <3>3
    <2> HIDE DEF x
    <2>3. after[i] = after[i - 1] + y
        BY <2>2
    <2> QED
        BY <2>3
<1>6. 0 \in 0..n /\ n \in 0..n
    BY <1>1
<1>7. after[0] = from - less /\ after[n] = to - less
    BY <1>1, <1>3, <1>6
<1>8. after \in Counts(s, from - less, to - less)
    BY <1>4, <1>5, <1>7 DEF Counts, n
<1>9. less <= to
    BY <1>1, <1>2, <1>6
<1> QED
    BY <1>3, <1>8, <1>9 DEF Shifted, n

(* The last one grows.                                                     *)
WithLast(s, t, from, to, more, ends) ==
    \E after \in Counts(t, from, to + more) :
        /\ \A i \in 0..(Len(s) - 1) : after[i] = ends[i]
        /\ after[Len(s)] = to + more

LEMMA CountsLast ==
    ASSUME NEW s \in Seq(Nat), NEW t \in Seq(Nat), NEW from \in Nat, NEW to \in Nat,
           NEW ends \in Counts(s, from, to), NEW more \in Nat,
           Len(s) >= 1, Len(t) = Len(s), t[Len(s)] = s[Len(s)] + more,
           \A i \in 1..Len(s) : i # Len(s) => t[i] = s[i]
    PROVE  WithLast(s, t, from, to, more, ends)
<1> DEFINE n == Len(s)
           after == [i \in 0..n |-> IF i = n THEN to + more ELSE ends[i]]
<1>1. /\ n \in Nat /\ n >= 1 /\ ends[0] = from /\ ends[n] = to
      /\ \A i \in 0..n : ends[i] \in 0..to
      /\ \A i \in 1..n : ends[i] = ends[i - 1] + s[i] /\ s[i] \in Nat
    BY SMTT(30), CountsFacts
<1>2. t[n] = s[n] + more /\ Len(t) = n /\ \A i \in 1..n : i # n => t[i] = s[i]
    OBVIOUS
<1> HIDE DEF n
<1>3. after[n] = to + more /\ \A i \in 0..n : i # n => after[i] = ends[i]
    BY <1>1
<1>4. after \in [0..n -> 0..(to + more)]
    BY SMTT(30), <1>1
<1> HIDE DEF after
<1>5. \A i \in 1..n : after[i] = after[i - 1] + t[i]
    <2> TAKE i \in 1..n
    <2>1. i - 1 \in 0..n /\ i - 1 # n /\ i \in 0..n
        BY <1>1
    <2>2. after[i - 1] = ends[i - 1] /\ ends[i - 1] \in Nat
        BY SMTT(30), <1>1, <1>3, <2>1
    <2>3. CASE i = n
        <3>1. n \in 1..n
            BY <1>1
        <3>2. to = ends[n - 1] + s[n] /\ s[n] \in Nat /\ t[n] = s[n] + more
            BY <1>1, <1>2, <3>1
        <3> DEFINE at == ends[n - 1]
                   step == s[n]
        <3>3. /\ at \in Nat /\ step \in Nat /\ after[n] = (at + step) + more /\ after[n - 1] = at
              /\ t[n] = step + more
            BY <1>3, <2>2, <2>3, <3>2
        <3> HIDE DEF at, step
        <3> QED
            BY <2>3, <3>3
    <2>4. CASE i # n
        BY <1>1, <1>2, <1>3, <2>1, <2>2, <2>4
    <2> QED
        BY <2>3, <2>4
<1>6. after[0] = from
    BY SMTT(30), <1>1, <1>3
<1>7. after \in Counts(t, from, to + more)
    BY <1>2, <1>3, <1>4, <1>5, <1>6 DEF Counts
<1>8. \A i \in 0..(n - 1) : after[i] = ends[i]
    BY <1>1, <1>3
<1> QED
    BY <1>3, <1>7, <1>8 DEF n, WithLast

(* The same for totals: one more at the end, and without the first.        *)
LEMMA TotalOfAppend ==
    ASSUME NEW s \in Seq(Nat), NEW x \in Nat, NEW total \in Int, Counts(s, 0, total) # {}
    PROVE  Counts(Append(s, x), 0, total + x) # {}
<1> DEFINE t == Append(s, x)
<1>1. t \in Seq(Nat) /\ Len(t) = Len(s) + 1 /\ t[Len(s) + 1] = x /\ \A i \in 1..Len(s) : t[i] = s[i]
    BY AppendProperties
<1>2. total \in Nat
    BY TotalIsNatural
<1>3. PICK ends \in Counts(s, 0, total) : TRUE
    OBVIOUS
<1> HIDE DEF t
<1>4. WithMore(s, t, 0, total, ends)
    BY <1>1, <1>2, <1>3, CountsAppend
<1>5. t[Len(t)] = x
    BY <1>1
<1> QED
    BY <1>4, <1>5 DEF t, WithMore

LEMMA TotalOfTail ==
    ASSUME NEW s \in Seq(Nat), NEW total \in Int, s # <<>>, Counts(s, 0, total) # {}
    PROVE  s[1] <= total /\ Counts(Tail(s), 0, total - s[1]) # {}
<1> DEFINE t == Tail(s)
           x == s[1]
           zero == 0
<1>1. /\ t \in Seq(Nat) /\ Len(t) = Len(s) - 1 /\ Len(s) >= 1 /\ x \in Nat
      /\ \A i \in 1..Len(t) : t[i] = s[i + 1]
    BY HeadTailProperties
<1>2. total \in Nat
    BY TotalIsNatural
<1>3. PICK ends \in Counts(s, zero, total) : TRUE
    OBVIOUS
<1>4. x <= zero + s[1] /\ (zero + s[1]) - x = 0 /\ zero \in Nat
    BY <1>1
<1> HIDE DEF t, x, zero
<1>5. WithoutFirst(s, t, zero, total, x, ends)
    BY <1>1, <1>2, <1>4, CountsTail
<1>6. x <= total /\ Counts(t, 0, total - x) # {}
    BY <1>4, <1>5 DEF WithoutFirst
<1> QED
    BY <1>6 DEF t, x

-----------------------------------------------------------------------------
(* The state has its types.                                                *)

Command == [kind : Kinds \cup {"None"}, id : Nat, delta : Int]

Item == [id : Nat, bytes : Nat, asks : BOOLEAN]

Gate ==
    [open : BOOLEAN, scroll : Nat, at : {"free", "charge", "push", "keep"}, command : Command,
     seen : Int, next : Nat]

Places == {"top", "output", "joining", "returning", "dead"} \cup EffectPlaces \cup InputPlaces

Owner ==
    [at : Places, effect : BOOLEAN, effects : Int, overflowed : BOOLEAN, input : Command,
     turn : Int, batch : Int]

Writer == [at : {"recv", "write", "deliver", "fail", "ended"}, item : Item, left : Int]

SessionTypeOK ==
    /\ gate \in Gate
    /\ commands \in Seq(Command) /\ promised \in Seq(Command)
    /\ charged \in Int
    /\ receiving \in BOOLEAN
    /\ items \in Seq(Item) /\ enqueuing \in Item
    /\ reserved \in Int
    /\ writer \in Writer
    /\ due \in Seq(Nat)
    /\ owner \in Owner

LEMMA AfterEffectKeeps ==
    ASSUME NEW o \in Owner
    PROVE  /\ Return(o) \in Owner /\ Return(o).input = o.input /\ Return(o).at = "returning"
           /\ o.at \in EffectPlaces =>
                 /\ AfterEffect(o) \in Owner /\ AfterEffect(o).input = o.input
                 /\ AfterEffect(o).at \in {"returning", "output", "sliceInput", "input", "top"}
<1>1. Return(o) \in Owner /\ Return(o).input = o.input /\ Return(o).at = "returning"
    BY DEF Return, Owner, Places
<1>2. ASSUME o.at \in EffectPlaces
      PROVE  /\ AfterEffect(o) \in Owner /\ AfterEffect(o).input = o.input
             /\ AfterEffect(o).at \in {"returning", "output", "sliceInput", "input", "top"}
    BY <1>1, <1>2 DEF AfterEffect, Owner, Places, EffectPlaces, InputPlaces, EffectBlocksInput
<1> QED
    BY <1>1, <1>2

LEMMA ToEffectKeeps ==
    ASSUME NEW o \in Owner, NEW place \in EffectPlaces
    PROVE  /\ ToEffect(o, place) \in Owner /\ ToEffect(o, place).input = o.input
           /\ ToEffect(o, place).at \in
                 EffectPlaces \cup {"returning", "output", "sliceInput", "input", "top"}
<1> DEFINE there == [o EXCEPT !.at = place]
<1>1. there \in Owner /\ there.input = o.input /\ there.at = place
    BY DEF Owner, Places
<1>2. ToEffect(o, place) \in {there, AfterEffect(there)}
    BY DEF ToEffect
<1> HIDE DEF there
<1> QED
    BY <1>1, <1>2, AfterEffectKeeps

LEMMA TakeEffectKeeps ==
    ASSUME NEW o \in Owner
    PROVE  /\ TakeEffect(o) \in Owner /\ TakeEffect(o).input = o.input /\ TakeEffect(o).at = o.at
<1>1. CASE o.effect
    BY <1>1 DEF TakeEffect
<1>2. CASE ~o.effect
    <2> DEFINE taken == [o EXCEPT !.effects = @ - 1]
    <2>1. taken \in Owner /\ taken.input = o.input /\ taken.at = o.at
        BY DEF Owner
    <2>2. TakeEffect(o) = [taken EXCEPT !.effect = TRUE]
        BY <1>2 DEF TakeEffect, Owner
    <2> HIDE DEF taken
    <2> QED
        BY <2>1, <2>2 DEF Owner
<1> QED
    BY <1>1, <1>2

LEMMA AfterInputKeeps ==
    ASSUME NEW o \in Owner, NEW serviced \in BOOLEAN, o.at \in InputPlaces
    PROVE  /\ AfterInput(o, serviced) \in Owner /\ AfterInput(o, serviced).input = o.input
           /\ AfterInput(o, serviced).at \in {"output", "input", "top"}
<1> DEFINE onward == [o EXCEPT !.batch = @ + 1]
           over == [o EXCEPT !.at = "top", !.batch = 0, !.turn = 0]
           back == [o EXCEPT !.at = "output"]
<1>1. onward \in Owner /\ onward.input = o.input /\ onward.at = o.at
    BY DEF Owner
<1>2. over \in Owner /\ over.input = o.input /\ over.at = "top"
    <2> DEFINE first == [o EXCEPT !.at = "top"]
               second == [first EXCEPT !.batch = 0]
    <2>1. first \in Owner /\ first.input = o.input /\ first.at = "top"
        BY DEF Owner, Places
    <2>2. over = [second EXCEPT !.turn = 0]
        BY DEF Owner
    <2> HIDE DEF first
    <2>3. second \in Owner /\ second.input = o.input /\ second.at = "top"
        BY <2>1 DEF Owner
    <2> HIDE DEF over, second
    <2> QED
        BY <2>2, <2>3 DEF Owner
<1>3. back \in Owner /\ back.input = o.input /\ back.at = "output"
    BY DEF Owner, Places
<1>4. /\ o.at = "sliceInput" => AfterInput(o, serviced) = back
      /\ o.at = "input" => AfterInput(o, serviced) \in {onward, over}
    BY Zenon DEF AfterInput
<1> HIDE DEF onward, over, back
<1> QED
    BY <1>1, <1>2, <1>3, <1>4 DEF InputPlaces

-----------------------------------------------------------------------------
(* The inductive invariant.                                                *)

(* What the owner hands to the writer, which is only what it should.       *)
Handing ==
    \/ enqueuing = NoItem
    \/ owner.at \in EffectPlaces /\ enqueuing = Reply
    \/ owner.at \in InputPlaces /\ owner.input # None /\ enqueuing = ItemOf(owner.input)

Protocol ==
    /\ Handing
    /\ receiving <=> owner.at # "dead"
    /\ writer.at \in {"recv", "ended"} => writer.item = NoItem
    /\ owner.input # None => owner.input.kind \in {"Key", "Paste"} /\ owner.input.id >= 1

IsIssued(c) ==
    /\ c.kind \in Kinds /\ c.id \in 1..MaxCommands
    /\ c.kind = "Scroll" <=> c.delta # 0

(* Every command that was ever issued has a smaller number.                *)
Fresh == IF gate.at \in {"charge", "push"} THEN gate.next - 1 ELSE gate.next

(* Commands are queued in the order of their numbers, and only the last    *)
(* one may still be added to.                                              *)
Queued ==
    /\ gate.next \in 1..(MaxCommands + 1)
    /\ gate.at # "free" => /\ IsIssued(gate.command) /\ gate.command.id = gate.next - 1
                           /\ Size(gate.command) = 1
    /\ \A i \in 1..Len(commands) : IsIssued(commands[i]) /\ commands[i].id < Fresh
    /\ \A i, j \in 1..Len(commands) : i < j => commands[i].id < commands[j].id
    /\ gate.at # "keep" =>
          \A i \in 1..Len(commands) :
             gate.scroll # 0 /\ commands[i].id = gate.scroll => i = Len(commands)
    /\ gate.at \in {"charge", "push"} /\ gate.command.kind # "Scroll" => gate.scroll = 0
    /\ gate.at = "keep" =>
          \A i \in 1..Len(commands) : commands[i].id = gate.command.id => i = Len(commands)

Sizes == [i \in DOMAIN commands |-> Size(commands[i])]

CostsOf(s) == [i \in DOMAIN s |-> Cost(s[i])]

Charging == IF gate.at = "push" THEN Cost(gate.command) ELSE 0

InQueue == (charged - Cost(owner.input)) - Charging

ChargedRight ==
    /\ charged \in 0..CommandBytes /\ Charging <= charged
    /\ ~Ended => Counts(CostsOf(commands), 0, InQueue) # {}

BytesOf(s) == [i \in DOMAIN s |-> s[i].bytes]

Admitted == (reserved - enqueuing.bytes) - writer.item.bytes

ReservedRight ==
    /\ reserved \in 0..InputBytes /\ enqueuing.bytes <= reserved
    /\ writer.at # "ended" => Counts(BytesOf(items), 0, Admitted) # {}

(* The numbers of the input that is due only grow, and so do those of the  *)
(* commands behind it.                                                     *)
DueInTurn ==
    /\ \A i \in 1..Len(due) : due[i] >= 1 /\ due[i] < Fresh
    /\ \A i, j \in 1..Len(due) : i < j => due[i] < due[j]
    /\ \A i \in 1..Len(due) : \A j \in 1..Len(commands) : due[i] < commands[j].id
    /\ writer.at = "deliver" =>
          /\ writer.item.id < Fresh
          /\ \A i \in 1..Len(due) : writer.item.id # due[i]
          /\ \A j \in 1..Len(commands) : writer.item.id < commands[j].id

InputsOf(s) == [i \in DOMAIN s |-> IF s[i].id = 0 THEN 0 ELSE 1]

Written == IF BeingWritten THEN 1 ELSE 0

(* Of what is due, all but the last is on its way to the child; the last   *)
(* one is with the owner, or was when the owner ended.                     *)
OnItsWay(s, from, d, held) ==
    \E ends \in Counts(InputsOf(s), from, Len(d) - held) :
        \A i \in 1..Len(s) : s[i].id # 0 => d[ends[i]] = s[i].id

Delivering ==
    writer.at # "ended" =>
        /\ BeingWritten => due # <<>> /\ due[1] = writer.item.id
        /\ \E held \in 0..1 :
              /\ ~Ended => held = IF owner.input = None THEN 0 ELSE 1
              /\ OnItsWay(items, Written, due, held)
        /\ ~Ended /\ owner.input # None => due # <<>> /\ due[Len(due)] = owner.input.id

(* Neither what is due is confirmed nor what has yet to be.                *)
Pending ==
    {id \in 1..MaxCommands :
        \/ \E i \in 1..Len(due) : due[i] = id
        \/ \E j \in 1..Len(commands) : commands[j].id = id
        \/ Fresh <= id}

AnswersOfCommands == [1..MaxCommands -> {"none", "ok", "error", "lost"}]

NotConfirmed ==
    /\ answers \in AnswersOfCommands
    /\ \A id \in Pending : answers[id] # "ok"

IInv ==
    /\ SessionTypeOK /\ Protocol /\ Queued /\ ChargedRight /\ ReservedRight
    /\ CommandsKeepTheirOrder /\ DueInTurn /\ Delivering /\ NotConfirmed

-----------------------------------------------------------------------------
(* The values the threads hand around.                                     *)

LEMMA Values ==
    /\ NoItem \in Item /\ NoItem.bytes = 0 /\ NoItem.id = 0
    /\ Reply \in Item /\ Reply.bytes = 1 /\ Reply.id = 0 /\ Reply # NoItem
    /\ None \in Command /\ Cost(None) = 0 /\ None.id = 0 /\ None.kind = "None"
    /\ \A c \in Command :
          /\ Cost(c) \in 0..2 /\ Size(c) \in Nat
          /\ c.kind \in Kinds => Cost(c) \in 1..2
          /\ ItemOf(c) \in Item /\ ItemOf(c).id = c.id /\ ItemOf(c).bytes \in 1..2
          /\ ItemOf(c) # NoItem
<1>1. NoItem \in Item /\ NoItem.bytes = 0 /\ NoItem.id = 0
    BY DEF NoItem, Item
<1>2. Reply \in Item /\ Reply.bytes = 1 /\ Reply.id = 0 /\ Reply # NoItem
    BY DEF NoItem, Item, Reply
<1>3. None \in Command /\ Cost(None) = 0 /\ None.id = 0 /\ None.kind = "None"
    BY DEF None, Command, Cost, Kinds
<1>4. ASSUME NEW c \in Command
      PROVE  /\ Cost(c) \in 0..2 /\ Size(c) \in Nat
             /\ c.kind \in Kinds => Cost(c) \in 1..2
             /\ ItemOf(c) \in Item /\ ItemOf(c).id = c.id /\ ItemOf(c).bytes \in 1..2
             /\ ItemOf(c) # NoItem
    <2>1. c.kind \in Kinds \cup {"None"} /\ c.id \in Nat /\ c.delta \in Int
        BY DEF Command
    <2>2. Cost(c) \in 0..2 /\ (c.kind \in Kinds => Cost(c) \in 1..2)
        BY <2>1 DEF Cost, Kinds
    <2>3. Size(c) \in Nat
        BY <2>1 DEF Size
    <2>4. /\ ItemOf(c) \in Item /\ ItemOf(c).id = c.id /\ ItemOf(c).bytes \in 1..2
        BY <2>1 DEF ItemOf, Item
    <2>5. ItemOf(c) # NoItem
        BY <1>1, <2>4
    <2> QED
        BY <2>2, <2>3, <2>4, <2>5
<1> QED
    BY <1>1, <1>2, <1>3, <1>4

LEMMA IssuedAreCommands ==
    \A c \in Commands : c \in Command /\ c.kind \in Kinds /\ c.id \in 1..MaxCommands
                        /\ (c.kind = "Scroll" <=> c.delta # 0)
                        /\ (c.kind = "Scroll" => c.delta \in {-1, 1})
<1> TAKE c \in Commands
<1>1. CASE c \in [kind : Issued \ {"Scroll"}, id : 1..MaxCommands, delta : {0}]
    <2>1. c.kind \in Kinds /\ c.kind # "Scroll" /\ c.id \in 1..MaxCommands /\ c.delta = 0
          /\ c = [kind |-> c.kind, id |-> c.id, delta |-> c.delta]
        BY <1>1, GateAssumption
    <2> QED
        BY <2>1 DEF Command
<1>2. CASE c \in [kind : Issued \cap {"Scroll"}, id : 1..MaxCommands, delta : {-1, 1}]
    <2>1. c.kind \in Kinds /\ c.kind = "Scroll" /\ c.id \in 1..MaxCommands /\ c.delta \in {-1, 1}
          /\ c = [kind |-> c.kind, id |-> c.id, delta |-> c.delta]
        BY <1>2, GateAssumption
    <2> QED
        BY <2>1 DEF Command
<1> QED
    BY <1>1, <1>2 DEF Commands

LEMMA FreedKeeps ==
    ASSUME NEW g \in Gate
    PROVE  /\ Freed(g) \in Gate /\ Freed(g).at = "free" /\ Freed(g).scroll = g.scroll
           /\ Freed(g).next = g.next /\ Freed(g).command = None
<1> DEFINE one == [g EXCEPT !.at = "free"]
           two == [one EXCEPT !.command = None]
<1>1. /\ one \in Gate /\ one.at = "free" /\ one.scroll = g.scroll /\ one.next = g.next
    BY DEF Gate
<1>2. Freed(g) = [two EXCEPT !.seen = 0]
    BY DEF Freed, Gate
<1> HIDE DEF one
<1>3. two \in Gate /\ two.at = "free" /\ two.scroll = g.scroll /\ two.next = g.next /\ two.command = None
    BY <1>1, Values DEF Gate
<1> HIDE DEF two
<1> QED
    BY <1>2, <1>3 DEF Gate

LEMMA UnitKeeps ==
    ASSUME NEW c \in Command
    PROVE  Unit(c) \in Command
<1>1. CASE c.kind # "Scroll"
    BY <1>1 DEF Unit
<1>2. CASE c.kind = "Scroll"
    <2> DEFINE one == [c EXCEPT !.id = 0]
    <2>1. one \in Command
        BY DEF Command
    <2>2. Unit(c) = [one EXCEPT !.delta = IF @ < 0 THEN -1 ELSE 1]
        BY <1>2 DEF Unit, Command
    <2> HIDE DEF one
    <2> QED
        BY <2>1, <2>2 DEF Command
<1> QED
    BY <1>1, <1>2

-----------------------------------------------------------------------------
(* The owner's steps, by what they do to what it shares.                   *)

(* It goes on in its turn, or returns, with the input it has.              *)
Turned ==
    /\ owner' \in Owner /\ owner'.input = owner.input
    /\ ~Ended /\ owner'.at # "dead"

Turns == Turned /\ enqueuing = NoItem /\ UNCHANGED <<gateVars, writerVars>>

Reserves(item) ==
    /\ Turned /\ owner'.at = owner.at
    /\ \/ owner.at \in EffectPlaces /\ item = Reply
       \/ owner.at \in InputPlaces /\ owner.input # None /\ item = ItemOf(owner.input)
    /\ enqueuing = NoItem
    /\ Reserve(item) /\ UNCHANGED gateVars

QueuesReply == Turned /\ enqueuing = Reply /\ QueueItem /\ UNCHANGED gateVars

QueuesInput ==
    /\ owner' \in Owner /\ owner'.input = None /\ ~Ended /\ owner'.at \notin {"returning", "dead"}
    /\ owner.input # None /\ enqueuing = ItemOf(owner.input)
    /\ QueueItem /\ Completed(owner.input)
    /\ UNCHANGED <<gate, commands, receiving, promised>>

IsRefused ==
    /\ Turned /\ enqueuing # NoItem
    /\ \/ FindNoSlot
       \/ FindWriterGone /\ owner'.at = "returning"
    /\ UNCHANGED gateVars

Applies(c) ==
    /\ c \in Command /\ Take(c)
    /\ owner.input = None /\ owner.at \in InputPlaces
    /\ \/ /\ c.kind \in {"Key", "Paste"}
          /\ owner' \in Owner /\ owner'.input = c /\ owner'.at \notin {"returning", "dead"}
          /\ due' = Append(due, c.id)
          /\ UNCHANGED <<charged, answers>>
       \/ /\ c.kind # "Paste"
          /\ Turned /\ owner'.at # "returning"
          /\ Completed(c)
          /\ answers' = IF c.kind = "Copy" THEN [answers EXCEPT ![c.id] = "ok"] ELSE answers
          /\ UNCHANGED due
       \/ Turned /\ owner'.at = "returning" /\ UNCHANGED <<charged, due, answers>>
    /\ enqueuing = NoItem
    /\ UNCHANGED <<gate, receiving, items, enqueuing, reserved, writer>>

LEMMA OwnerStepKinds ==
    ASSUME SessionTypeOK, Protocol, OwnerStep
    PROVE  \/ Turns
           \/ \E item \in Item : Reserves(item)
           \/ QueuesReply \/ QueuesInput \/ IsRefused
           \/ \E c \in Command : Applies(c)
           \/ Die
<1>1. owner \in Owner /\ commands \in Seq(Command) /\ owner.input \in Command
    BY DEF SessionTypeOK, Owner
<1>2. CASE BeginTurn
    <2>1. owner.at = "top" /\ UNCHANGED <<gateVars, writerVars>> /\ enqueuing = NoItem
        BY <1>2 DEF BeginTurn, Protocol, Handing, EffectPlaces, InputPlaces
    <2>2. owner' \in Owner /\ owner'.input = owner.input /\ owner'.at # "dead"
        <3> DEFINE joining == [owner EXCEPT !.at = "joining"]
                   first == [owner EXCEPT !.turn = 0]
                   second == [first EXCEPT !.batch = 0]
        <3>1. joining \in Owner /\ joining.input = owner.input /\ joining.at = "joining"
            BY <1>1 DEF Owner, Places
        <3>2. first \in Owner /\ first.input = owner.input
            BY <1>1 DEF Owner
        <3>3. [owner EXCEPT !.turn = 0, !.batch = 0] = second
            BY <1>1 DEF Owner
        <3> HIDE DEF first
        <3>4. second \in Owner /\ second.input = owner.input
            BY <3>2 DEF Owner
        <3> HIDE DEF second, joining
        <3>5. owner' = joining \/ owner' = ToEffect(second, "effect")
            BY <1>2, <3>3 DEF BeginTurn, joining
        <3>6. "effect" \in EffectPlaces
            BY DEF EffectPlaces
        <3>7. ToEffect(second, "effect") \in Owner /\ ToEffect(second, "effect").input = owner.input
              /\ ToEffect(second, "effect").at # "dead"
            BY <3>4, <3>6, ToEffectKeeps DEF EffectPlaces
        <3> QED
            BY <3>1, <3>5, <3>7
    <2> QED
        BY <2>1, <2>2 DEF Turns, Turned, Ended
<1>3. CASE ParseChunk
    <2>1. owner.at = "output" /\ UNCHANGED <<gateVars, writerVars>> /\ enqueuing = NoItem
        BY <1>3 DEF ParseChunk, Protocol, Handing, EffectPlaces, InputPlaces
    <2>2. PICK replies \in BOOLEAN :
          LET full == replies /\ owner.effects = EffectSlots
              parsed == [owner EXCEPT !.turn = @ + 1, !.overflowed = full,
                                      !.effects = IF replies /\ ~full THEN @ + 1 ELSE @]
          IN  owner' = IF full THEN ToEffect(parsed, "lastEffect")
                       ELSE IF parsed.turn % SliceBudget = 0 THEN ToEffect(parsed, "sliceEffect")
                       ELSE parsed
        BY <1>3 DEF ParseChunk
    <2> DEFINE full == replies /\ owner.effects = EffectSlots
               first == [owner EXCEPT !.turn = @ + 1]
               second == [first EXCEPT !.overflowed = full]
               parsed == [second EXCEPT !.effects = IF replies /\ ~full THEN @ + 1 ELSE @]
    <2>3. full \in BOOLEAN
        OBVIOUS
    <2>4. first \in Owner /\ first.input = owner.input /\ first.at = owner.at
        BY <1>1 DEF Owner
    <2>5. owner' \in {ToEffect(parsed, "lastEffect"), ToEffect(parsed, "sliceEffect"), parsed}
        <3>1. [owner EXCEPT !.turn = @ + 1, !.overflowed = full,
                            !.effects = IF replies /\ ~full THEN @ + 1 ELSE @] = parsed
            BY <1>1 DEF Owner
        <3> QED
            BY <2>2, <3>1
    <2> HIDE DEF first, full
    <2>6. second \in Owner /\ second.input = owner.input /\ second.at = owner.at
        BY <2>3, <2>4 DEF Owner
    <2> HIDE DEF second
    <2>7. parsed \in Owner /\ parsed.input = owner.input /\ parsed.at = owner.at
        BY <2>6 DEF Owner
    <2> HIDE DEF parsed
    <2>8. {"lastEffect", "sliceEffect"} \subseteq EffectPlaces
        BY DEF EffectPlaces
    <2>9. \A place \in EffectPlaces :
             /\ ToEffect(parsed, place) \in Owner /\ ToEffect(parsed, place).input = owner.input
             /\ ToEffect(parsed, place).at # "dead"
        BY <2>7, ToEffectKeeps DEF EffectPlaces
    <2>10. owner' \in Owner /\ owner'.input = owner.input /\ owner'.at # "dead"
        BY <2>1, <2>5, <2>7, <2>8, <2>9
    <2> QED
        BY <2>1, <2>10 DEF Turns, Turned, Ended
<1>4. CASE EndOutput
    <2>1. owner.at = "output" /\ UNCHANGED <<gateVars, writerVars>> /\ enqueuing = NoItem
          /\ owner' = ToEffect(owner, "lastEffect")
        BY <1>4 DEF EndOutput, Protocol, Handing, EffectPlaces, InputPlaces
    <2>2. "lastEffect" \in EffectPlaces
        BY DEF EffectPlaces
    <2>3. owner' \in Owner /\ owner'.input = owner.input /\ owner'.at # "dead"
        BY <1>1, <2>1, <2>2, ToEffectKeeps DEF EffectPlaces
    <2> QED
        BY <2>1, <2>3 DEF Turns, Turned, Ended
<1>5. CASE NoCommand
    <2>1. owner.at \in InputPlaces /\ UNCHANGED <<gateVars, writerVars>> /\ enqueuing = NoItem
          /\ owner' = AfterInput(owner, FALSE)
        BY <1>5 DEF NoCommand, Servicing
    <2>2. owner' \in Owner /\ owner'.input = owner.input /\ owner'.at # "dead"
        BY <1>1, <2>1, AfterInputKeeps
    <2> QED
        BY <2>1, <2>2 DEF Turns, Turned, Ended, InputPlaces
<1>6. CASE JoinReader
    <2>1. owner.at = "joining" /\ UNCHANGED <<gateVars, writerVars>> /\ enqueuing = NoItem
          /\ owner' = Return(owner)
        BY <1>6 DEF JoinReader, Protocol, Handing, EffectPlaces, InputPlaces
    <2>2. owner' \in Owner /\ owner'.input = owner.input /\ owner'.at # "dead"
        BY <1>1, <2>1, AfterEffectKeeps
    <2> QED
        BY <2>1, <2>2 DEF Turns, Turned, Ended
<1>7. CASE OfferEffect
    <2>1. owner.at \in EffectPlaces /\ enqueuing = NoItem /\ UNCHANGED gateVars /\ ~Ended
        BY <1>7 DEF OfferEffect, Servicing, EffectPlaces, Ended
    <2>2. TakeEffect(owner) \in Owner /\ TakeEffect(owner).input = owner.input
          /\ TakeEffect(owner).at = owner.at
        BY <1>1, TakeEffectKeeps
    <2>3. CASE Reserve(Reply) /\ owner' = TakeEffect(owner)
        <3>1. Reserves(Reply)
            BY <2>1, <2>2, <2>3 DEF Reserves, Turned, Ended
        <3> QED
            BY <3>1, Values
    <2>4. CASE RefuseItem(Reply) /\ owner' = AfterEffect(TakeEffect(owner))
        <3>1. owner' \in Owner /\ owner'.input = owner.input /\ owner'.at # "dead"
            BY <2>1, <2>2, <2>4, AfterEffectKeeps
        <3> QED
            BY <2>1, <2>4, <3>1 DEF Turns, Turned, RefuseItem
    <2> QED
        BY <1>7, <2>3, <2>4 DEF OfferEffect
<1>8. CASE PushEffect
    <2>1. /\ owner.at \in EffectPlaces /\ enqueuing # NoItem /\ enqueuing = Reply /\ UNCHANGED gateVars
          /\ ~Ended
        BY <1>8 DEF PushEffect, Queueing, EffectPlaces, InputPlaces, Ended, Protocol, Handing
    <2> DEFINE sent == [owner EXCEPT !.effect = FALSE]
    <2>2. sent \in Owner /\ sent.input = owner.input /\ sent.at = owner.at
        BY <1>1 DEF Owner
    <2>3. \/ QueueItem /\ owner' = AfterEffect(sent)
          \/ FindNoSlot /\ owner' = AfterEffect(owner)
          \/ FindWriterGone /\ owner' = Return(owner)
        BY <1>8 DEF PushEffect
    <2> HIDE DEF sent
    <2>4. AfterEffect(sent) \in Owner /\ AfterEffect(sent).input = owner.input
          /\ AfterEffect(sent).at # "dead"
        BY <2>1, <2>2, AfterEffectKeeps
    <2>5. AfterEffect(owner) \in Owner /\ AfterEffect(owner).input = owner.input
          /\ AfterEffect(owner).at # "dead"
        BY <1>1, <2>1, AfterEffectKeeps
    <2>6. Return(owner) \in Owner /\ Return(owner).input = owner.input /\ Return(owner).at = "returning"
        BY <1>1, AfterEffectKeeps
    <2> QED
        <3>1. CASE QueueItem /\ owner' = AfterEffect(sent)
            BY <2>1, <2>4, <3>1 DEF QueuesReply, Turned
        <3>2. CASE FindNoSlot /\ owner' = AfterEffect(owner)
            BY <2>1, <2>5, <3>2 DEF IsRefused, Turned
        <3>3. CASE FindWriterGone /\ owner' = Return(owner)
            BY <2>1, <2>6, <3>3 DEF IsRefused, Turned
        <3> QED
            BY <2>3, <3>1, <3>2, <3>3
<1>9. CASE OfferInput
    <2>1. owner.at \in InputPlaces /\ enqueuing = NoItem /\ UNCHANGED gateVars /\ ~Ended
          /\ owner.input # None
        BY <1>9 DEF OfferInput, Servicing, InputPlaces, Ended
    <2>2. CASE Reserve(ItemOf(owner.input)) /\ UNCHANGED owner
        <3>1. Reserves(ItemOf(owner.input))
            BY <1>1, <2>1, <2>2 DEF Reserves, Turned, Ended
        <3> QED
            BY <1>1, <3>1, Values
    <2>3. CASE RefuseItem(ItemOf(owner.input)) /\ owner' = AfterInput(owner, FALSE)
        <3>1. owner' \in Owner /\ owner'.input = owner.input /\ owner'.at # "dead"
            BY <1>1, <2>1, <2>3, AfterInputKeeps
        <3> QED
            BY <2>1, <2>3, <3>1 DEF Turns, Turned, RefuseItem
    <2> QED
        BY <1>9, <2>2, <2>3 DEF OfferInput
<1>10. CASE PushInput
    <2>1. /\ owner.at \in InputPlaces /\ enqueuing # NoItem /\ enqueuing = ItemOf(owner.input)
          /\ owner.input # None
          /\ UNCHANGED <<gate, commands, receiving, promised>> /\ ~Ended
        BY <1>10 DEF PushInput, Queueing, EffectPlaces, InputPlaces, Ended, Protocol, Handing
    <2> DEFINE sent == [owner EXCEPT !.input = None]
    <2>2. sent \in Owner /\ sent.input = None /\ sent.at = owner.at
        BY <1>1, Values DEF Owner
    <2>3. \/ QueueItem /\ Completed(owner.input) /\ owner' = AfterInput(sent, TRUE)
          \/ FindNoSlot /\ owner' = AfterInput(owner, FALSE) /\ UNCHANGED charged
          \/ FindWriterGone /\ owner' = Return(owner) /\ UNCHANGED charged
        BY <1>10 DEF PushInput
    <2> HIDE DEF sent
    <2>4. AfterInput(sent, TRUE) \in Owner /\ AfterInput(sent, TRUE).input = None
          /\ AfterInput(sent, TRUE).at \notin {"returning", "dead"}
        BY <2>1, <2>2, AfterInputKeeps
    <2>5. AfterInput(owner, FALSE) \in Owner /\ AfterInput(owner, FALSE).input = owner.input
          /\ AfterInput(owner, FALSE).at # "dead"
        BY <1>1, <2>1, AfterInputKeeps
    <2>6. Return(owner) \in Owner /\ Return(owner).input = owner.input /\ Return(owner).at = "returning"
        BY <1>1, AfterEffectKeeps
    <2> QED
        <3>1. CASE QueueItem /\ Completed(owner.input) /\ owner' = AfterInput(sent, TRUE)
            BY <2>1, <2>4, <3>1 DEF QueuesInput
        <3>2. CASE FindNoSlot /\ owner' = AfterInput(owner, FALSE) /\ UNCHANGED charged
            BY <2>1, <2>5, <3>2 DEF IsRefused, Turned, gateVars
        <3>3. CASE FindWriterGone /\ owner' = Return(owner) /\ UNCHANGED charged
            BY <2>1, <2>6, <3>3 DEF IsRefused, Turned, gateVars
        <3> QED
            BY <2>3, <3>1, <3>2, <3>3
<1>11. CASE ApplyCommand
    <2>1. /\ owner.at \in InputPlaces /\ enqueuing = NoItem /\ owner.input = None /\ ~Ended
          /\ UNCHANGED <<gate, receiving, items, enqueuing, reserved, writer>>
        BY <1>11 DEF ApplyCommand, Servicing, InputPlaces, Ended, PendingFirst
    <2>2. PICK c \in {commands[i] : i \in DOMAIN commands} :
             Take(c) /\ (ApplyInput(c) \/ ApplyAtOnce(c) \/ ApplyFails(c))
        BY <1>11 DEF ApplyCommand
    <2>3. c \in Command
        BY <1>1, <2>2
    <2>4. CASE ApplyInput(c)
        <3> DEFINE holding == [owner EXCEPT !.input = c]
        <3>1. holding \in Owner /\ holding.input = c /\ holding.at = owner.at
            BY <1>1, <2>3 DEF Owner
        <3>2. owner' = AfterInput(holding, TRUE)
            BY <2>4 DEF ApplyInput
        <3> HIDE DEF holding
        <3>3. owner' \in Owner /\ owner'.input = c /\ owner'.at \notin {"returning", "dead"}
            BY <2>1, <3>1, <3>2, AfterInputKeeps
        <3> QED
            BY <2>1, <2>2, <2>3, <2>4, <3>3 DEF Applies, ApplyInput
    <2>5. CASE ApplyAtOnce(c)
        <3>1. owner' \in Owner /\ owner'.input = owner.input /\ owner'.at \notin {"returning", "dead"}
            BY <1>1, <2>1, <2>5, AfterInputKeeps DEF ApplyAtOnce
        <3> QED
            BY <2>1, <2>2, <2>3, <2>5, <3>1 DEF Applies, ApplyAtOnce, Turned
    <2>6. CASE ApplyFails(c)
        <3>1. owner' \in Owner /\ owner'.input = owner.input /\ owner'.at = "returning"
            BY <1>1, <2>6, AfterEffectKeeps DEF ApplyFails
        <3> QED
            BY <2>1, <2>2, <2>3, <2>6, <3>1 DEF Applies, ApplyFails, Turned
    <2> QED
        BY <2>2, <2>4, <2>5, <2>6
<1> QED
    BY <1>2, <1>3, <1>4, <1>5, <1>6, <1>7, <1>8, <1>9, <1>10, <1>11 DEF OwnerStep

-----------------------------------------------------------------------------
(* The types are kept.                                                     *)

LEMMA RestOf ==
    ASSUME NEW S, NEW s \in Seq(S), NEW k \in Nat
    PROVE  /\ SubSeq(s, k + 1, Len(s)) \in Seq(S)
           /\ k <= Len(s) =>
                 /\ Len(SubSeq(s, k + 1, Len(s))) = Len(s) - k
                 /\ \A i \in 1..(Len(s) - k) : SubSeq(s, k + 1, Len(s))[i] = s[k + i]
<1>1. Len(s) \in Nat /\ k + 1 \in Int /\ \A i \in (k + 1)..Len(s) : s[i] \in S
    OBVIOUS
<1> DEFINE rest == SubSeq(s, k + 1, Len(s))
<1>2. /\ rest \in Seq(S)
      /\ Len(rest) = IF k + 1 <= Len(s) THEN Len(s) - (k + 1) + 1 ELSE 0
      /\ \A i \in 1..(Len(s) - (k + 1) + 1) : rest[i] = s[(k + 1) + i - 1]
    BY <1>1, SubSeqProperties
<1> HIDE DEF rest
<1>3. ASSUME k <= Len(s)
      PROVE  Len(rest) = Len(s) - k /\ \A i \in 1..(Len(s) - k) : rest[i] = s[k + i]
    <2>1. Len(rest) = Len(s) - k
        BY <1>1, <1>2, <1>3
    <2>2. ASSUME NEW i \in 1..(Len(s) - k) PROVE rest[i] = s[k + i]
        <3>1. i \in 1..(Len(s) - (k + 1) + 1) /\ (k + 1) + i - 1 = k + i
            BY <1>1, <2>2
        <3> QED
            BY <1>2, <3>1
    <2> QED
        BY <2>1, <2>2
<1> QED
    BY <1>2, <1>3 DEF rest

LEMMA WriterStepTypes ==
    ASSUME SessionTypeOK, Protocol, Delivering, WriterStep \/ EndWithSender(owner.at = "dead")
    PROVE  /\ items' \in Seq(Item) /\ reserved' \in Int /\ writer' \in Writer /\ due' \in Seq(Nat)
           /\ writer'.at \in {"recv", "ended"} => writer'.item = NoItem
           /\ enqueuing' = enqueuing
<1>1. /\ items \in Seq(Item) /\ reserved \in Int /\ writer \in Writer /\ due \in Seq(Nat)
      /\ writer.item \in Item /\ writer.item.bytes \in Int
      /\ writer.at \in {"recv", "ended"} => writer.item = NoItem
    BY DEF SessionTypeOK, Writer, Item, Protocol
<1>2. CASE ReceiveItem
    <2>1. items # <<>> /\ items' = Tail(items) /\ Head(items) \in Item /\ Tail(items) \in Seq(Item)
          /\ UNCHANGED <<enqueuing, reserved, due, answers>>
          /\ writer' = [at |-> "write", item |-> Head(items), left |-> Head(items).bytes]
        BY <1>1, <1>2, HeadTailProperties DEF ReceiveItem
    <2>2. Head(items).bytes \in Int
        BY <2>1 DEF Item
    <2> QED
        BY <1>1, <2>1, <2>2 DEF Writer
<1>3. CASE WriteSome
    <2>1. writer.at = "write" /\ writer' = [writer EXCEPT !.left = @ - 1]
          /\ UNCHANGED <<items, enqueuing, reserved, due>>
        BY <1>3 DEF WriteSome
    <2>2. writer' \in Writer /\ writer'.at = "write"
        BY <1>1, <2>1 DEF Writer
    <2> QED
        BY <1>1, <2>1, <2>2
<1>4. CASE Flush
    <2>1. /\ writer.at = "write" /\ writer' = [writer EXCEPT !.at = "deliver"]
          /\ due' = due \/ (due' = Tail(due) /\ BeingWritten)
          /\ UNCHANGED <<items, enqueuing, reserved, answers>>
        BY <1>4 DEF Flush, BeingWritten
    <2>2. BeingWritten => due # <<>>
        BY <2>1 DEF Delivering
    <2>3. due' \in Seq(Nat)
        BY <1>1, <2>1, <2>2, HeadTailProperties
    <2> QED
        BY <1>1, <2>1, <2>3 DEF Writer
<1>5. CASE WriteFails
    BY <1>1, <1>5 DEF WriteFails, Writer
<1>6. CASE Deliver
    <2>1. reserved - writer.item.bytes \in Int
        BY <1>1
    <2> QED
        BY <1>1, <1>6, <2>1, Values DEF Deliver, Writer
<1>7. CASE EndAfterFailure
    <2>1. reserved - writer.item.bytes \in Int /\ <<>> \in Seq(Item)
        BY <1>1
    <2> QED
        BY <1>1, <1>7, <2>1, Values DEF EndAfterFailure, Writer
<1>8. CASE EndWithSender(owner.at = "dead")
    BY <1>1, <1>8 DEF EndWithSender, Writer
<1> QED
    BY <1>2, <1>3, <1>4, <1>5, <1>6, <1>7, <1>8 DEF WriterStep

LEMMA SenderTypes ==
    ASSUME SessionTypeOK, Sender
    PROVE  /\ gate' \in Gate /\ commands' \in Seq(Command) /\ promised' \in Seq(Command)
           /\ charged' \in Int /\ receiving' = receiving
<1>1. /\ gate \in Gate /\ commands \in Seq(Command) /\ promised \in Seq(Command) /\ charged \in Int
      /\ gate.command \in Command /\ gate.seen \in Int /\ gate.next \in Nat
    BY DEF SessionTypeOK, Gate
<1>2. \A c \in Command : Cost(c) \in Int /\ Unit(c) \in Command
    BY Values, UnitKeeps
<1>3. ASSUME NEW c \in Commands, c.id = gate.next, JoinBatch(c)
      PROVE  /\ gate' \in Gate /\ commands' \in Seq(Command) /\ promised' \in Seq(Command)
             /\ charged' \in Int /\ receiving' = receiving
    <2>1. PICK i \in OpenBatch : commands' = [commands EXCEPT ![i].delta = @ + c.delta]
        BY <1>3 DEF JoinBatch
    <2>2. c \in Command /\ c.delta \in Int /\ i \in DOMAIN commands /\ commands[i] \in Command
        <3>1. c \in Command /\ i \in DOMAIN commands
            BY <2>1, IssuedAreCommands DEF OpenBatch
        <3>2. commands[i] \in Command
            BY <1>1, <3>1
        <3> QED
            BY <3>1, <3>2 DEF Command
    <2> DEFINE more == [commands[i] EXCEPT !.delta = @ + c.delta]
    <2>3. more \in Command
        BY <2>2 DEF Command
    <2>4. commands' = [commands EXCEPT ![i] = more]
        BY <2>1
    <2> HIDE DEF more
    <2>5. commands' \in Seq(Command)
        BY <1>1, <2>2, <2>3, <2>4
    <2>6. gate' = [gate EXCEPT !.next = @ + 1] /\ promised' = Append(promised, Unit(c))
          /\ UNCHANGED <<charged, receiving>>
        BY <1>3 DEF JoinBatch, Accepted
    <2>7. gate' \in Gate
        BY <1>1, <2>6 DEF Gate
    <2> QED
        BY <1>1, <1>2, <2>2, <2>5, <2>6, <2>7
<1>4. ASSUME NEW c \in Commands, c.id = gate.next, LoadBudget(c)
      PROVE  /\ gate' \in Gate /\ UNCHANGED <<commands, charged, receiving, promised>>
    <2>1. c \in Command /\ ClosesScroll(c) \in Nat
        BY <1>1, IssuedAreCommands DEF ClosesScroll, Gate
    <2> DEFINE one == [gate EXCEPT !.at = "charge"]
               two == [one EXCEPT !.command = c]
               three == [two EXCEPT !.seen = charged]
               four == [three EXCEPT !.scroll = ClosesScroll(c)]
               five == [four EXCEPT !.next = @ + 1]
    <2>2. gate' = five /\ UNCHANGED <<commands, charged, receiving, promised>>
        BY <1>1, <1>4 DEF LoadBudget, Gate
    <2>3. one \in Gate
        BY <1>1 DEF Gate
    <2> HIDE DEF one
    <2>4. two \in Gate
        BY <2>1, <2>3 DEF Gate
    <2> HIDE DEF two
    <2>5. three \in Gate
        BY <1>1, <2>4 DEF Gate
    <2> HIDE DEF three
    <2>6. four \in Gate
        BY <2>1, <2>5 DEF Gate
    <2> HIDE DEF four
    <2>7. five \in Gate
        BY <2>6 DEF Gate
    <2> HIDE DEF five
    <2> QED
        BY <2>2, <2>7
<1>5. CASE SendCommand
    BY <1>1, <1>3, <1>4, <1>5 DEF SendCommand
<1>6. CASE RefuseBytes
    BY <1>1, <1>6, FreedKeeps DEF RefuseBytes
<1>7. CASE ChargeBudget
    <2>1. [gate EXCEPT !.at = "push"] \in Gate
        BY <1>1 DEF Gate
    <2>2. [gate EXCEPT !.seen = charged] \in Gate
        BY <1>1 DEF Gate
    <2>3. gate.seen + Cost(gate.command) \in Int
        BY <1>1, <1>2
    <2> QED
        BY <1>1, <1>7, <2>1, <2>2, <2>3 DEF ChargeBudget
<1>8. CASE Push
    <2>1. [gate EXCEPT !.at = "keep"] \in Gate
        BY <1>1 DEF Gate
    <2>2. charged - Cost(gate.command) \in Int
        BY <1>1, <1>2
    <2>3. Append(commands, gate.command) \in Seq(Command)
          /\ Append(promised, Unit(gate.command)) \in Seq(Command) /\ Freed(gate) \in Gate
        BY <1>1, <1>2, FreedKeeps
    <2> QED
        BY <1>1, <1>8, <2>1, <2>2, <2>3 DEF Push, Accepted
<1>9. CASE KeepBatch
    <2>1. Freed(gate) \in Gate /\ gate.command.id \in Nat
        BY <1>1, FreedKeeps DEF Command
    <2>2. [Freed(gate) EXCEPT !.scroll = gate.command.id] \in Gate
        BY <2>1 DEF Gate
    <2> QED
        BY <1>1, <1>9, <2>2 DEF KeepBatch
<1> QED
    BY <1>5, <1>6, <1>7, <1>8, <1>9 DEF Sender

LEMMA CloseGateTypes ==
    ASSUME SessionTypeOK, CloseGate
    PROVE  /\ gate' \in Gate /\ gate'.next = gate.next /\ gate'.at = gate.at
           /\ gate'.command = gate.command /\ gate'.scroll = 0 /\ gate.at = "free"
           /\ UNCHANGED <<commands, charged, receiving, promised>>
<1> DEFINE one == [gate EXCEPT !.open = FALSE]
<1>1. gate.at = "free" /\ gate' = [one EXCEPT !.scroll = 0]
      /\ UNCHANGED <<commands, charged, receiving, promised>>
    BY DEF CloseGate, SessionTypeOK, Gate
<1>2. one \in Gate /\ one.next = gate.next /\ one.at = gate.at /\ one.command = gate.command
    BY DEF SessionTypeOK, Gate
<1> HIDE DEF one
<1> QED
    BY <1>1, <1>2 DEF Gate

LEMMA ApplyingTypes ==
    ASSUME SessionTypeOK, NEW c \in Command, Applies(c)
    PROVE  /\ commands' \in Seq(Command) /\ promised' \in Seq(Command) /\ charged' \in Int
           /\ due' \in Seq(Nat) /\ owner' \in Owner
<1>1. commands \in Seq(Command) /\ promised \in Seq(Command) /\ charged \in Int /\ due \in Seq(Nat)
    BY DEF SessionTypeOK
<1>2. commands # <<>> /\ commands' = Tail(commands)
      /\ promised' = SubSeq(promised, Size(c) + 1, Len(promised))
    BY DEF Applies, Take
<1>3. Size(c) \in Nat /\ Cost(c) \in Int /\ c.id \in Nat
    BY Values DEF Command
<1>4. promised' \in Seq(Command)
    BY <1>1, <1>2, <1>3, RestOf
<1>5. commands' \in Seq(Command)
    BY <1>1, <1>2, HeadTailProperties
<1>6. charged' \in Int /\ due' \in Seq(Nat) /\ owner' \in Owner
    <2>1. charged - Cost(c) \in Int /\ Append(due, c.id) \in Seq(Nat)
        BY <1>1, <1>3
    <2>2. charged' \in {charged, charged - Cost(c)} /\ due' \in {due, Append(due, c.id)}
          /\ owner' \in Owner
        BY DEF Applies, Completed, Turned
    <2> QED
        BY <1>1, <2>1, <2>2
<1> QED
    BY <1>4, <1>5, <1>6

LEMMA TypesAreKept ==
    ASSUME SessionTypeOK, Protocol, Delivering, [Next]_vars
    PROVE  SessionTypeOK'
<1>1. /\ gate \in Gate /\ commands \in Seq(Command) /\ promised \in Seq(Command) /\ charged \in Int
      /\ receiving \in BOOLEAN /\ items \in Seq(Item) /\ enqueuing \in Item /\ reserved \in Int
      /\ writer \in Writer /\ due \in Seq(Nat) /\ owner \in Owner
      /\ owner.input \in Command /\ enqueuing.bytes \in Int
    BY DEF SessionTypeOK, Owner, Item
<1>2. CASE Turns
    BY <1>1, <1>2 DEF Turns, Turned, gateVars, writerVars, SessionTypeOK
<1>3. CASE \E item \in Item : Reserves(item)
    <2>1. PICK item \in Item : Reserves(item)
        BY <1>3
    <2>2. item.bytes \in Int
        BY DEF Item
    <2> QED
        BY <1>1, <2>1, <2>2 DEF Reserves, Turned, Reserve, gateVars, SessionTypeOK
<1>4. CASE QueuesReply
    BY <1>1, <1>4, Values DEF QueuesReply, Turned, QueueItem, gateVars, SessionTypeOK
<1>5. CASE QueuesInput
    <2>1. Cost(owner.input) \in Int
        BY <1>1, Values
    <2> QED
        BY <1>1, <1>5, <2>1, Values DEF QueuesInput, Turned, QueueItem, Completed, SessionTypeOK
<1>6. CASE IsRefused
    BY <1>1, <1>6, Values
    DEF IsRefused, Turned, FindNoSlot, FindWriterGone, ReleaseRefused, gateVars, SessionTypeOK
<1>7. CASE \E c \in Command : Applies(c)
    <2>1. PICK c \in Command : Applies(c)
        BY <1>7
    <2>2. UNCHANGED <<gate, receiving, items, enqueuing, reserved, writer>>
        BY <2>1 DEF Applies
    <2> QED
        BY <1>1, <2>1, <2>2, ApplyingTypes DEF SessionTypeOK
<1>8. CASE Die
    <2> DEFINE one == [owner EXCEPT !.at = "dead"]
    <2>1. one \in Owner
        BY <1>1 DEF Owner, Places
    <2>2. owner' = [one EXCEPT !.input = None]
        BY <1>1, <1>8 DEF Die, Owner
    <2> HIDE DEF one
    <2>3. owner' \in Owner
        BY <2>1, <2>2, Values DEF Owner
    <2> QED
        <3>1. commands' = <<>> /\ receiving' = FALSE /\ UNCHANGED <<gate, charged, promised>>
              /\ UNCHANGED <<items, enqueuing, reserved, writer, due>>
            BY <1>8 DEF Die, DropReceiver
        <3>2. commands' \in Seq(Command)
            BY <3>1
        <3>3. receiving' \in BOOLEAN
            BY <3>1, Zenon
        <3> QED
            BY <1>1, <2>3, <3>1, <3>2, <3>3 DEF SessionTypeOK
<1>9. CASE WriterRuns
    <2>1. WriterStep \/ EndWithSender(owner.at = "dead")
        BY <1>9 DEF WriterRuns
    <2>2. UNCHANGED <<gateVars, owner>>
        BY <1>9 DEF WriterRuns, ownerVars
    <2> QED
        BY <1>1, <2>1, <2>2, WriterStepTypes DEF gateVars, SessionTypeOK
<1>10. CASE ClientSends
    <2>1. Sender /\ UNCHANGED <<writerVars, owner>>
        BY <1>10 DEF ClientSends, ownerVars
    <2> QED
        BY <1>1, <2>1, SenderTypes DEF writerVars, SessionTypeOK
<1>11. CASE BeginShutdown
    <2>1. CloseGate /\ UNCHANGED <<writerVars, owner>>
        BY <1>11 DEF BeginShutdown
    <2> QED
        BY <1>1, <2>1, CloseGateTypes DEF writerVars, SessionTypeOK
<1>12. CASE ReadChunk \/ SendChunk \/ ReachEof \/ EndShutdown \/ UNCHANGED vars
    <2>1. UNCHANGED <<gateVars, writerVars, owner>>
        BY <1>12 DEF ReadChunk, SendChunk, ReachEof, EndShutdown, vars, ownerVars
    <2> QED
        BY <1>1, <2>1 DEF gateVars, writerVars, SessionTypeOK
<1> QED
    BY <1>2, <1>3, <1>4, <1>5, <1>6, <1>7, <1>8, <1>9, <1>10, <1>11, <1>12, OwnerStepKinds DEF Next

(* Each step of Next, by what it does to the state the invariant is about. *)
LEMMA Steps ==
    ASSUME SessionTypeOK, Protocol, [Next]_vars
    PROVE  \/ Turns
           \/ \E item \in Item : Reserves(item)
           \/ QueuesReply \/ QueuesInput \/ IsRefused
           \/ \E c \in Command : Applies(c)
           \/ Die
           \/ WriterStep /\ UNCHANGED <<gateVars, owner>>
           \/ EndWithSender(owner.at = "dead") /\ UNCHANGED <<gateVars, owner>>
           \/ Sender /\ UNCHANGED <<writerVars, owner>>
           \/ CloseGate /\ UNCHANGED <<writerVars, owner>>
           \/ UNCHANGED <<gateVars, writerVars, owner>>
<1>1. CASE OwnerStep
    BY <1>1, OwnerStepKinds
<1>2. CASE WriterRuns
    BY <1>2 DEF WriterRuns, ownerVars
<1>3. CASE ClientSends
    BY <1>3 DEF ClientSends, ownerVars
<1>4. CASE BeginShutdown
    BY <1>4 DEF BeginShutdown
<1>5. CASE ReadChunk \/ SendChunk \/ ReachEof \/ EndShutdown \/ UNCHANGED vars
    <2>1. UNCHANGED <<gateVars, writerVars, owner>>
        BY <1>5 DEF ReadChunk, SendChunk, ReachEof, EndShutdown, vars, ownerVars
    <2> QED
        BY <2>1
<1> QED
    BY <1>1, <1>2, <1>3, <1>4, <1>5 DEF Next

LEMMA ProtocolIsKept ==
    ASSUME SessionTypeOK, Protocol, Queued, Delivering, [Next]_vars
    PROVE  Protocol'
<1>1. /\ Handing /\ (receiving <=> owner.at # "dead")
      /\ writer.at \in {"recv", "ended"} => writer.item = NoItem
      /\ owner.input # None => owner.input.kind \in {"Key", "Paste"} /\ owner.input.id >= 1
      /\ owner \in Owner /\ owner.input \in Command
    BY DEF Protocol, SessionTypeOK, Owner
<1>2. CASE Turns
    <2>1. enqueuing' = NoItem /\ receiving' = receiving /\ writer' = writer /\ owner'.input = owner.input
          /\ owner.at # "dead" /\ owner'.at # "dead"
        BY <1>2 DEF Turns, Turned, Ended, gateVars, writerVars
    <2> QED
        BY <1>1, <2>1 DEF Protocol, Handing
<1>3. CASE \E item \in Item : Reserves(item)
    <2>1. PICK item \in Item : Reserves(item)
        BY <1>3
    <2>2. enqueuing' = item /\ receiving' = receiving /\ writer' = writer /\ owner'.input = owner.input
          /\ owner.at # "dead" /\ owner'.at = owner.at
        BY <2>1 DEF Reserves, Reserve, Turned, Ended, gateVars
    <2>3. \/ owner.at \in EffectPlaces /\ item = Reply
          \/ owner.at \in InputPlaces /\ owner.input # None /\ item = ItemOf(owner.input)
        BY <2>1 DEF Reserves
    <2>4. Handing'
        BY <2>2, <2>3 DEF Handing
    <2> QED
        BY <1>1, <2>2, <2>4 DEF Protocol
<1>4. CASE QueuesReply
    <2>1. enqueuing' = NoItem /\ receiving' = receiving /\ writer' = writer /\ owner'.input = owner.input
          /\ owner.at # "dead" /\ owner'.at # "dead"
        BY <1>4 DEF QueuesReply, QueueItem, Turned, Ended, gateVars
    <2> QED
        BY <1>1, <2>1 DEF Protocol, Handing
<1>5. CASE QueuesInput
    <2>1. enqueuing' = NoItem /\ receiving' = receiving /\ writer' = writer /\ owner'.input = None
          /\ owner.at # "dead" /\ owner'.at # "dead"
        BY <1>5 DEF QueuesInput, QueueItem, Ended
    <2> QED
        BY <1>1, <2>1 DEF Protocol, Handing
<1>6. CASE IsRefused
    <2>1. enqueuing' = NoItem /\ receiving' = receiving /\ writer' = writer /\ owner'.input = owner.input
          /\ owner.at # "dead" /\ owner'.at # "dead"
        BY <1>6 DEF IsRefused, FindNoSlot, FindWriterGone, Turned, Ended, gateVars
    <2> QED
        BY <1>1, <2>1 DEF Protocol, Handing
<1>7. CASE \E c \in Command : Applies(c)
    <2>1. PICK c \in Command : Applies(c)
        BY <1>7
    <2>2. enqueuing' = NoItem /\ receiving' = receiving /\ writer' = writer
          /\ owner.at # "dead" /\ owner'.at # "dead"
        BY <2>1 DEF Applies, Turned, InputPlaces
    <2>3. commands # <<>> /\ c = Head(commands) /\ commands \in Seq(Command)
        BY <2>1 DEF Applies, Take, SessionTypeOK
    <2>4. IsIssued(c)
        <3>1. 1 \in 1..Len(commands) /\ c = commands[1]
            BY <2>3
        <3> QED
            BY <3>1 DEF Queued
    <2>5. owner'.input = owner.input \/ (owner'.input = c /\ c.kind \in {"Key", "Paste"})
        BY <2>1 DEF Applies, Turned
    <2>6. c.id >= 1
        BY <2>4, GateAssumption DEF IsIssued
    <2> QED
        BY <1>1, <2>2, <2>5, <2>6 DEF Protocol, Handing
<1>8. CASE Die
    <2>1. enqueuing' = enqueuing /\ receiving' = FALSE /\ writer' = writer /\ owner.at = "returning"
          /\ owner'.at = "dead" /\ owner'.input = None
        BY <1>1, <1>8 DEF Die, DropReceiver, Owner
    <2>2. enqueuing = NoItem
        BY <1>1, <2>1 DEF Handing, EffectPlaces, InputPlaces
    <2> QED
        BY <1>1, <2>1, <2>2 DEF Protocol, Handing
<1>9. CASE (WriterStep \/ EndWithSender(owner.at = "dead")) /\ UNCHANGED <<gateVars, owner>>
    <2>1. enqueuing' = enqueuing /\ (writer'.at \in {"recv", "ended"} => writer'.item = NoItem)
        BY <1>9, WriterStepTypes
    <2>2. receiving' = receiving /\ owner' = owner
        BY <1>9 DEF gateVars
    <2> QED
        BY <1>1, <2>1, <2>2 DEF Protocol, Handing
<1>10. CASE (Sender \/ CloseGate) /\ UNCHANGED <<writerVars, owner>>
    <2>1. enqueuing' = enqueuing /\ writer' = writer /\ owner' = owner
        BY <1>10 DEF writerVars
    <2>2. receiving' = receiving
        BY <1>10, SenderTypes, CloseGateTypes
    <2> QED
        BY <1>1, <2>1, <2>2 DEF Protocol, Handing
<1>11. CASE UNCHANGED <<gateVars, writerVars, owner>>
    BY <1>1, <1>11 DEF Protocol, Handing, gateVars, writerVars
<1> QED
    BY <1>2, <1>3, <1>4, <1>5, <1>6, <1>7, <1>8, <1>9, <1>10, <1>11, Steps

-----------------------------------------------------------------------------
(* The gate and its queue.                                                 *)

LEMMA SendCommandGate ==
    ASSUME SessionTypeOK, NEW c \in Commands, c.id = gate.next, JoinBatch(c) \/ LoadBudget(c)
    PROVE  /\ c \in Command /\ IsIssued(c) /\ Size(c) = 1
           /\ LoadBudget(c) =>
                 /\ gate'.at = "charge" /\ gate'.command = c /\ gate'.next = gate.next + 1
                 /\ gate'.scroll = (IF c.kind = "Scroll" THEN gate.scroll ELSE 0)
           /\ JoinBatch(c) =>
                 /\ gate'.at = gate.at /\ gate'.command = gate.command
                 /\ gate'.next = gate.next + 1 /\ gate'.scroll = gate.scroll
<1>1. gate \in Gate
    BY DEF SessionTypeOK
<1>2. c \in Command /\ IsIssued(c) /\ Size(c) = 1
    <2>1. c \in Command /\ IsIssued(c) /\ (c.kind = "Scroll" => c.delta \in {-1, 1})
        BY IssuedAreCommands DEF IsIssued
    <2> QED
        BY <2>1 DEF Size
<1>3. ASSUME LoadBudget(c)
      PROVE  /\ gate'.at = "charge" /\ gate'.command = c /\ gate'.next = gate.next + 1
             /\ gate'.scroll = (IF c.kind = "Scroll" THEN gate.scroll ELSE 0)
    BY <1>1, <1>3 DEF LoadBudget, ClosesScroll, Gate
<1>4. ASSUME JoinBatch(c)
      PROVE  /\ gate'.at = gate.at /\ gate'.command = gate.command
             /\ gate'.next = gate.next + 1 /\ gate'.scroll = gate.scroll
    BY <1>1, <1>4 DEF JoinBatch, Gate
<1> QED
    BY <1>2, <1>3, <1>4

(* The batch that takes a scroll, and what becomes of it.                  *)
LEMMA JoinsTheLast ==
    ASSUME SessionTypeOK, Queued, gate.at = "free",
           NEW c \in Commands, c.id = gate.next, JoinBatch(c)
    PROVE  LET n == Len(commands)
               more == [commands[n] EXCEPT !.delta = @ + c.delta]
           IN  /\ n >= 1 /\ c.kind = "Scroll"
               /\ commands[n].kind = "Scroll" /\ more \in Command
               /\ IsIssued(more) /\ more.id = commands[n].id /\ more.kind = commands[n].kind
               /\ Size(more) = Size(commands[n]) + 1 /\ Size(commands[n]) >= 1
               /\ Unit(more) = Unit(commands[n]) /\ Unit(c) = Unit(more)
               /\ Cost(more) = Cost(commands[n])
               /\ commands' = [commands EXCEPT ![n] = more]
<1> DEFINE n == Len(commands)
           old == commands[n]
           more == [old EXCEPT !.delta = @ + c.delta]
<1>1. PICK i \in OpenBatch : Joins(c, i) /\ commands' = [commands EXCEPT ![i].delta = @ + c.delta]
    BY DEF JoinBatch
<1>2. commands \in Seq(Command) /\ n \in Nat
    BY DEF SessionTypeOK
<1>3. i \in 1..n /\ gate.scroll # 0 /\ commands[i].id = gate.scroll
    BY <1>1, <1>2 DEF OpenBatch
<1>4. i = n /\ n >= 1 /\ n \in 1..n
    BY <1>2, <1>3 DEF Queued
<1>5. old \in Command /\ IsIssued(old)
    BY <1>2, <1>4 DEF Queued
<1>6. old.delta \in Int /\ old.id \in Nat /\ (old.kind = "Scroll" <=> old.delta # 0)
    BY <1>5 DEF Command, IsIssued
<1>7. c \in Command /\ c.kind = "Scroll" /\ c.delta \in {-1, 1} /\ old.delta * c.delta > 0
    BY <1>1, <1>4, IssuedAreCommands DEF Joins
<1>8. commands' = [commands EXCEPT ![n] = more]
    BY <1>1, <1>4
<1> HIDE DEF old
<1>9. \/ c.delta = 1 /\ old.delta > 0
      \/ c.delta = -1 /\ old.delta < 0
    BY <1>6, <1>7
<1>10. old.kind = "Scroll"
    BY <1>6, <1>9
<1>11. more \in Command /\ more.id = old.id /\ more.kind = old.kind /\ more.delta = old.delta + c.delta
    BY <1>5, <1>7 DEF Command
<1> HIDE DEF more
<1>12. IsIssued(more)
    BY <1>5, <1>6, <1>9, <1>10, <1>11 DEF IsIssued
<1>13. Size(more) = Size(old) + 1 /\ Size(old) >= 1
    BY <1>6, <1>9, <1>10, <1>11 DEF Size
<1>14. Cost(more) = Cost(old)
    BY <1>10, <1>11 DEF Cost
<1>15. ASSUME NEW d \in Command, d.kind = "Scroll"
       PROVE  Unit(d) = [kind |-> "Scroll", id |-> 0, delta |-> IF d.delta < 0 THEN -1 ELSE 1]
    BY <1>15 DEF Unit, Command
<1>16. Unit(more) = Unit(old) /\ Unit(c) = Unit(more)
    BY <1>5, <1>6, <1>7, <1>9, <1>10, <1>11, <1>15
<1> QED
    BY <1>4, <1>7, <1>8, <1>10, <1>11, <1>12, <1>13, <1>14, <1>16 DEF old, more

LEMMA QueuedIsKept ==
    ASSUME SessionTypeOK, Protocol, Queued, [Next]_vars
    PROVE  Queued'
<1> DEFINE n == Len(commands)
<1>1. /\ gate \in Gate /\ gate.next \in Nat /\ gate.scroll \in Nat
      /\ gate.at \in {"free", "charge", "push", "keep"}
      /\ gate.command \in Command /\ gate.command.id \in Nat
      /\ commands \in Seq(Command) /\ n \in Nat /\ DOMAIN commands = 1..n
      /\ gate.next \in 1..(MaxCommands + 1) /\ MaxCommands \in Nat
      /\ \A i \in 1..n : commands[i] \in Command /\ commands[i].id \in Nat
      /\ Fresh \in Int /\ \A i \in 1..n : commands[i].id < Fresh
    <2>1. gate \in Gate /\ commands \in Seq(Command) /\ gate.next \in 1..(MaxCommands + 1)
          /\ MaxCommands \in Nat
        BY GateAssumption DEF SessionTypeOK, Queued
    <2>2. gate.next \in Nat /\ gate.scroll \in Nat /\ gate.at \in {"free", "charge", "push", "keep"}
          /\ gate.command \in Command
        BY <2>1 DEF Gate
    <2>3. \A c \in Command : c.id \in Nat
        BY DEF Command
    <2>4. n \in Nat /\ DOMAIN commands = 1..n /\ \A i \in 1..n : commands[i] \in Command
        BY <2>1
    <2>5. Fresh \in Int
        BY <2>2 DEF Fresh
    <2>6. \A i \in 1..n : commands[i].id < Fresh
        BY DEF Queued
    <2> QED
        BY <2>1, <2>2, <2>3, <2>4, <2>5, <2>6
<1>2. CASE gate' = gate /\ commands' = commands
    <2>1. Fresh' = Fresh
        BY <1>2 DEF Fresh
    <2> QED
        BY <1>2, <2>1 DEF Queued
<1>3. CASE gate' = gate /\ commands' = <<>>
    <2>1. Fresh' = Fresh
        BY <1>3 DEF Fresh
    <2>2. 1..Len(commands') = {}
        BY <1>3
    <2> QED
        BY <1>3, <2>1, <2>2 DEF Queued
<1>4. CASE gate' = gate /\ commands # <<>> /\ commands' = Tail(commands)
    <2>1. Len(commands') = n - 1 /\ n >= 1
          /\ \A i \in 1..(n - 1) : commands'[i] = commands[i + 1] /\ i + 1 \in 1..n
        BY <1>1, <1>4, HeadTailProperties
    <2>2. \A i, j \in 1..(n - 1) : i < j => i + 1 < j + 1
        BY <1>1
    <2> HIDE DEF n
    <2>3. \A i \in 1..(n - 1) : i + 1 = n => i = n - 1
        BY <1>1
    <2> QED
        BY ZenonT(40), <1>1, <1>4, <2>1, <2>2, <2>3 DEF Queued, Fresh, n
<1>5. CASE SendCommand
    <2>1. PICK c \in Commands : c.id = gate.next /\ (JoinBatch(c) \/ LoadBudget(c))
        BY <1>5 DEF SendCommand
    <2>2. gate.at = "free" /\ gate.next <= MaxCommands
        BY <1>5 DEF SendCommand
    <2>3. CASE JoinBatch(c)
        <3>1. /\ gate'.at = gate.at /\ gate'.command = gate.command
              /\ gate'.next = gate.next + 1 /\ gate'.scroll = gate.scroll
            BY <2>1, <2>3, SendCommandGate
        <3>2. PICK more \in Command :
                 /\ n >= 1 /\ IsIssued(more) /\ more.id = commands[n].id
                 /\ commands' = [commands EXCEPT ![n] = more]
            BY <2>1, <2>2, <2>3, JoinsTheLast
        <3>3. /\ Len(commands') = n /\ n \in 1..n
              /\ \A i \in 1..n : commands'[i] = IF i = n THEN more ELSE commands[i]
            BY <1>1, <3>2
        <3> HIDE DEF n
        <3>4. \A i \in 1..n : /\ commands'[i].id = commands[i].id
                              /\ IsIssued(commands'[i])
            BY <3>2, <3>3 DEF Queued, n
        <3>5. Fresh' = Fresh + 1 /\ Fresh = gate.next
            BY <1>1, <2>2, <3>1 DEF Fresh
        <3>6. \A i \in 1..n : commands'[i].id < Fresh'
            BY <1>1, <3>4, <3>5
        <3>7. gate'.next \in 1..(MaxCommands + 1)
            BY <1>1, <2>2, <3>1
        <3> QED
            BY <1>1, <2>2, <3>1, <3>3, <3>4, <3>6, <3>7 DEF Queued, n
    <2>4. CASE LoadBudget(c)
        <3>1. /\ gate'.at = "charge" /\ gate'.command = c /\ gate'.next = gate.next + 1
              /\ gate'.scroll = (IF c.kind = "Scroll" THEN gate.scroll ELSE 0)
              /\ IsIssued(c) /\ Size(c) = 1 /\ commands' = commands
            BY <2>1, <2>4, SendCommandGate DEF LoadBudget
        <3>2. Fresh' = Fresh
            BY <1>1, <2>2, <3>1 DEF Fresh
        <3>3. gate'.next \in 1..(MaxCommands + 1) /\ c.id = gate'.next - 1
            BY <1>1, <2>1, <2>2, <3>1
        <3> QED
            BY <1>1, <2>2, <3>1, <3>2, <3>3 DEF Queued
    <2> QED
        BY <2>1, <2>3, <2>4
<1>6. CASE RefuseBytes
    <2>1. gate'.at = "free" /\ gate'.scroll = gate.scroll /\ gate'.next = gate.next
          /\ gate.at = "charge" /\ commands' = commands
        BY <1>1, <1>6, FreedKeeps DEF RefuseBytes
    <2>2. Fresh' = Fresh + 1 /\ Fresh = gate.next - 1
        BY <1>1, <2>1 DEF Fresh
    <2>3. \A i \in 1..n : commands[i].id < Fresh'
        BY <1>1, <2>2
    <2> QED
        BY <1>1, <2>1, <2>3 DEF Queued
<1>7. CASE ChargeBudget
    <2>1. gate'.at \in {"charge", "push"} /\ gate'.scroll = gate.scroll /\ gate'.next = gate.next
          /\ gate.at = "charge" /\ commands' = commands /\ gate'.command = gate.command
        BY <1>1, <1>7 DEF ChargeBudget, Gate
    <2>2. Fresh' = Fresh
        BY <1>1, <2>1 DEF Fresh
    <2> QED
        BY <1>1, <2>1, <2>2 DEF Queued
<1>8. CASE Push
    <2>1. CASE commands' = commands
        <3>1. gate'.at = "free" /\ gate'.scroll = gate.scroll /\ gate'.next = gate.next
              /\ gate.at = "push"
            <4>1. commands' # Append(commands, gate.command)
                <5>1. Len(Append(commands, gate.command)) = Len(commands) + 1 /\ Len(commands) \in Nat
                    BY <1>1, AppendProperties
                <5> QED
                    BY <2>1, <5>1
            <4>2. gate' = Freed(gate) /\ gate.at = "push"
                BY <1>8, <4>1 DEF Push
            <4> QED
                BY <1>1, <4>2, FreedKeeps
        <3>2. Fresh' = Fresh + 1 /\ Fresh = gate.next - 1
            BY <1>1, <3>1 DEF Fresh
        <3>3. \A i \in 1..n : commands[i].id < Fresh'
            BY <1>1, <3>2
        <3> QED
            BY <1>1, <2>1, <3>1, <3>3 DEF Queued
    <2>2. CASE commands' # commands
        <3>1. gate.at = "push" /\ commands' = Append(commands, gate.command)
            BY <1>8, <2>2 DEF Push
        <3>2. gate' = (IF gate.command.kind = "Scroll" THEN [gate EXCEPT !.at = "keep"] ELSE Freed(gate))
            BY <1>8, <2>2 DEF Push
        <3>3. gate'.scroll = gate.scroll /\ gate'.next = gate.next
            BY <1>1, <3>2, FreedKeeps DEF Gate
        <3>4. gate.command.kind = "Scroll" => gate'.at = "keep" /\ gate'.command = gate.command
            BY <1>1, <3>2 DEF Gate
        <3>5. gate.command.kind # "Scroll" => gate'.at = "free" /\ gate.scroll = 0
            BY <1>1, <3>1, <3>2, FreedKeeps DEF Queued
        <3>6. /\ Len(commands') = n + 1 /\ commands'[n + 1] = gate.command
              /\ \A i \in 1..n : commands'[i] = commands[i]
            BY <1>1, <3>1
        <3>7. Fresh' = gate.next /\ Fresh = gate.next - 1
            BY <1>1, <3>1, <3>3, <3>4, <3>5 DEF Fresh
        <3>8. \A i \in 1..n : commands[i].id < gate.next - 1 /\ IsIssued(commands[i])
            BY <1>1, <3>7 DEF Queued
        <3>9. gate.command.id = gate.next - 1 /\ IsIssued(gate.command) /\ Size(gate.command) = 1
            BY <3>1 DEF Queued
        <3> HIDE DEF n
        <3>10. \A i \in 1..(n + 1) : i \in 1..n \/ i = n + 1
            BY <1>1
        <3>11. \A i \in 1..(n + 1) : IsIssued(commands'[i]) /\ commands'[i].id < gate.next
            BY <1>1, <3>6, <3>8, <3>9, <3>10
        <3>12. \A i, j \in 1..(n + 1) : i < j => commands'[i].id < commands'[j].id
            <4> TAKE i, j \in 1..(n + 1)
            <4> HAVE i < j
            <4>1. i \in 1..n
                BY <1>1
            <4>2. CASE j = n + 1
                BY <1>1, <3>6, <3>8, <3>9, <4>1, <4>2
            <4>3. CASE j \in 1..n
                BY <1>1, <3>6, <4>1, <4>3 DEF Queued, n
            <4> QED
                BY <3>10, <4>2, <4>3
        <3>13. \A i \in 1..(n + 1) : commands'[i].id = gate.command.id => i = n + 1
            BY <1>1, <3>6, <3>8, <3>9, <3>10
        <3> QED
            BY <1>1, <3>3, <3>4, <3>5, <3>6, <3>7, <3>9, <3>11, <3>12, <3>13 DEF Queued
    <2> QED
        BY <2>1, <2>2
<1>9. CASE KeepBatch
    <2>1. gate'.at = "free" /\ gate'.scroll = gate.command.id /\ gate'.next = gate.next
          /\ gate.at = "keep" /\ commands' = commands
        BY <1>1, <1>9, FreedKeeps DEF KeepBatch, Gate
    <2>2. Fresh' = Fresh
        BY <1>1, <2>1 DEF Fresh
    <2> QED
        BY <1>1, <2>1, <2>2 DEF Queued
<1>10. CASE CloseGate
    <2>1. gate'.at = "free" /\ gate'.scroll = 0 /\ gate'.next = gate.next /\ gate.at = "free"
          /\ commands' = commands
        BY <1>10, CloseGateTypes
    <2>2. Fresh' = Fresh
        BY <1>1, <2>1 DEF Fresh
    <2> QED
        BY <1>1, <2>1, <2>2 DEF Queued
<1>11. CASE \E c \in Command : Applies(c)
    BY <1>4, <1>11 DEF Applies, Take
<1>12. CASE Die
    BY <1>3, <1>12 DEF Die, DropReceiver
<1> QED
    <2>1. CASE Turns \/ (\E item \in Item : Reserves(item)) \/ QueuesReply \/ QueuesInput \/ IsRefused
        BY <1>2, <2>1 DEF Turns, Reserves, QueuesReply, QueuesInput, IsRefused, gateVars
    <2>2. CASE UNCHANGED gateVars
        BY <1>2, <2>2 DEF gateVars
    <2>3. CASE Sender
        BY <1>5, <1>6, <1>7, <1>8, <1>9, <2>3 DEF Sender
    <2> QED
        BY <1>10, <1>11, <1>12, <2>1, <2>2, <2>3, Steps DEF gateVars

-----------------------------------------------------------------------------
(* What is queued is what was accepted.                                    *)

SizesOf(s) == [i \in DOMAIN s |-> Size(s[i])]

InOrder(s, p) ==
    \E ends \in Counts(SizesOf(s), 0, Len(p)) :
        \A i \in DOMAIN s : \A k \in (ends[i - 1] + 1)..ends[i] : p[k] = Unit(s[i])

LEMMA SizesAreCounted ==
    ASSUME NEW s \in Seq(Command)
    PROVE  /\ SizesOf(s) \in Seq(Nat) /\ Len(SizesOf(s)) = Len(s) /\ Len(s) \in Nat
           /\ \A i \in 1..Len(s) : SizesOf(s)[i] = Size(s[i]) /\ s[i] \in Command
<1>1. Len(s) \in Nat /\ DOMAIN s = 1..Len(s) /\ \A i \in 1..Len(s) : s[i] \in Command
    OBVIOUS
<1>2. \A i \in 1..Len(s) : Size(s[i]) \in Nat
    BY <1>1, Values
<1> QED
    BY <1>1, <1>2 DEF SizesOf

LEMMA AppendKeepsOrder ==
    ASSUME NEW s \in Seq(Command), NEW p \in Seq(Command), NEW c \in Command,
           Size(c) = 1, InOrder(s, p)
    PROVE  InOrder(Append(s, c), Append(p, Unit(c)))
<1> DEFINE t == Append(s, c)
           q == Append(p, Unit(c))
           n == Len(s)
           m == Len(p)
<1>1. /\ t \in Seq(Command) /\ Len(t) = n + 1 /\ n \in Nat /\ t[n + 1] = c
      /\ \A i \in 1..n : t[i] = s[i]
    BY AppendProperties
<1>2. /\ Len(q) = m + 1 /\ m \in Nat /\ q[m + 1] = Unit(c)
      /\ \A k \in 1..m : q[k] = p[k]
    BY UnitKeeps, AppendProperties
<1> HIDE DEF t, q, n, m
<1>3. PICK ends \in Counts(SizesOf(s), 0, m) :
         \A i \in DOMAIN s : \A k \in (ends[i - 1] + 1)..ends[i] : p[k] = Unit(s[i])
    BY DEF InOrder, m
<1>4. DOMAIN s = 1..n /\ DOMAIN t = 1..(n + 1)
    BY <1>1 DEF n
<1>5. /\ SizesOf(s) \in Seq(Nat) /\ Len(SizesOf(s)) = n
      /\ SizesOf(t) \in Seq(Nat) /\ Len(SizesOf(t)) = n + 1
      /\ \A i \in 1..n : SizesOf(t)[i] = SizesOf(s)[i]
      /\ SizesOf(t)[n + 1] = 1
    <2>1. n + 1 \in 1..(n + 1) /\ \A i \in 1..n : i \in 1..(n + 1)
        BY <1>1
    <2>2. /\ SizesOf(s) \in Seq(Nat) /\ Len(SizesOf(s)) = n
          /\ \A i \in 1..n : SizesOf(s)[i] = Size(s[i])
        BY SizesAreCounted DEF n
    <2>3. /\ SizesOf(t) \in Seq(Nat) /\ Len(SizesOf(t)) = n + 1
          /\ \A i \in 1..(n + 1) : SizesOf(t)[i] = Size(t[i])
        BY <1>1, SizesAreCounted
    <2> QED
        BY <1>1, <2>1, <2>2, <2>3
<1>6. PICK after \in Counts(SizesOf(t), 0, m + 1) :
         /\ \A i \in 0..n : after[i] = ends[i]
         /\ after[n + 1] = m + 1
    <2> DEFINE a == SizesOf(s)
               b == SizesOf(t)
    <2>1. /\ a \in Seq(Nat) /\ b \in Seq(Nat) /\ Len(a) = n /\ Len(b) = n + 1 /\ b[n + 1] = 1
          /\ ends \in Counts(a, 0, m) /\ m \in Nat /\ 0 \in Nat
          /\ \A i \in 1..n : b[i] = a[i]
        BY <1>2, <1>5
    <2> HIDE DEF a, b
    <2>2. Len(b) = Len(a) + 1 /\ \A i \in 1..Len(a) : b[i] = a[i]
        BY <2>1
    <2>3. WithMore(a, b, 0, m, ends)
        BY <2>1, <2>2, CountsAppend
    <2>4. Len(a) = n /\ Len(b) = n + 1 /\ b[Len(b)] = 1
        BY <2>1
    <2> QED
        BY <2>3, <2>4 DEF b, WithMore
<1>7. /\ ends[n] = m /\ \A i \in 0..n : ends[i] \in 0..m
    BY <1>5, CountsFacts
<1>8. ASSUME NEW i \in 1..(n + 1), NEW k \in (after[i - 1] + 1)..after[i]
      PROVE  q[k] = Unit(t[i])
    <2>1. CASE i = n + 1
        <3>1. after[i - 1] = m /\ after[i] = m + 1
            BY <1>1, <1>6, <1>7, <2>1
        <3>2. k = m + 1
            BY <1>2, <1>8, <3>1
        <3> QED
            BY <1>1, <1>2, <2>1, <3>2
    <2>2. CASE i \in 1..n
        <3>1. i \in 0..n /\ i - 1 \in 0..n
            BY <1>1, <2>2
        <3>2. after[i - 1] = ends[i - 1] /\ after[i] = ends[i] /\ ends[i] \in 0..m /\ ends[i - 1] \in 0..m
            BY <1>6, <1>7, <3>1
        <3>3. k \in (ends[i - 1] + 1)..ends[i] /\ k \in 1..m
            BY <1>2, <1>8, <3>2
        <3>4. p[k] = Unit(s[i])
            BY <1>3, <1>4, <2>2, <3>3
        <3> QED
            BY <1>1, <1>2, <2>2, <3>3, <3>4
    <2> QED
        BY <1>1, <2>1, <2>2
<1>9. \E ends2 \in Counts(SizesOf(t), 0, Len(q)) :
          \A i \in DOMAIN t : \A k \in (ends2[i - 1] + 1)..ends2[i] : q[k] = Unit(t[i])
    BY <1>2, <1>4, <1>8
<1> QED
    BY <1>9 DEF InOrder, t, q

LEMMA TakeKeepsOrder ==
    ASSUME NEW s \in Seq(Command), NEW p \in Seq(Command), s # <<>>, InOrder(s, p)
    PROVE  LET k == Size(Head(s))
           IN  k <= Len(p) /\ InOrder(Tail(s), SubSeq(p, k + 1, Len(p)))
<1> DEFINE k == Size(Head(s))
           t == Tail(s)
           q == SubSeq(p, k + 1, Len(p))
           n == Len(t)
           m == Len(p)
<1>1. /\ t \in Seq(Command) /\ n \in Nat /\ Len(s) = n + 1 /\ Head(s) = s[1] /\ m \in Nat
      /\ \A i \in 1..n : t[i] = s[i + 1]
      /\ Head(s) \in Command
    BY HeadTailProperties
<1>2. k \in Nat
    BY <1>1, Values
<1>3. k <= m => Len(q) = m - k /\ \A i \in 1..(m - k) : q[i] = p[k + i]
    BY <1>2, RestOf
<1> HIDE DEF t, q, n, m
<1>4. PICK ends \in Counts(SizesOf(s), 0, m) :
         \A i \in DOMAIN s : \A j \in (ends[i - 1] + 1)..ends[i] : p[j] = Unit(s[i])
    BY DEF InOrder, m
<1>5. DOMAIN s = 1..(n + 1) /\ DOMAIN t = 1..n
    BY <1>1 DEF n
<1>6. /\ SizesOf(s) \in Seq(Nat) /\ Len(SizesOf(s)) = n + 1
      /\ SizesOf(t) \in Seq(Nat) /\ Len(SizesOf(t)) = n
      /\ \A i \in 1..n : SizesOf(t)[i] = SizesOf(s)[i + 1]
      /\ SizesOf(s)[1] = k
    <2>1. 1 \in 1..(n + 1) /\ \A i \in 1..n : i + 1 \in 1..(n + 1)
        BY <1>1
    <2>2. /\ SizesOf(s) \in Seq(Nat) /\ Len(SizesOf(s)) = n + 1
          /\ \A i \in 1..(n + 1) : SizesOf(s)[i] = Size(s[i])
        BY <1>1, SizesAreCounted
    <2>3. /\ SizesOf(t) \in Seq(Nat) /\ Len(SizesOf(t)) = n
          /\ \A i \in 1..n : SizesOf(t)[i] = Size(t[i])
        BY <1>1, SizesAreCounted DEF n
    <2>4. SizesOf(s)[1] = Size(s[1])
        BY <2>1, <2>2
    <2> QED
        BY <1>1, <2>1, <2>2, <2>3, <2>4
<1> HIDE DEF k
<1>7. /\ k <= m
      /\ \E after \in Counts(SizesOf(t), (0 + k) - k, m - k) :
            \A i \in 0..n : after[i] = ends[i + 1] - k
    <2> DEFINE a == SizesOf(s)
               b == SizesOf(t)
    <2>1. /\ a \in Seq(Nat) /\ b \in Seq(Nat) /\ Len(a) = n + 1 /\ Len(b) = n /\ a[1] = k
          /\ ends \in Counts(a, 0, m) /\ m \in Nat /\ 0 \in Nat /\ k \in Nat /\ n \in Nat
          /\ \A i \in 1..n : b[i] = a[i + 1]
        BY <1>1, <1>2, <1>4, <1>6
    <2> DEFINE zero == 0
    <2>2. /\ zero \in Nat /\ ends \in Counts(a, zero, m) /\ k <= zero + a[1]
        BY <2>1
    <2>3. (zero + a[1]) - k = (0 + k) - k
        BY <2>1
    <2> HIDE DEF a, b, zero
    <2>4. /\ Len(a) >= 1 /\ Len(b) = Len(a) - 1
          /\ \A i \in 1..Len(b) : b[i] = a[i + 1]
        BY <2>1
    <2>5. /\ k <= m
          /\ \E after \in Counts(b, (zero + a[1]) - k, m - k) :
                \A i \in 0..Len(b) : after[i] = ends[i + 1] - k
        <3>1. WithoutFirst(a, b, zero, m, k, ends)
            BY <2>1, <2>2, <2>4, CountsTail
        <3> QED
            BY <3>1 DEF WithoutFirst
    <2> QED
        BY <2>1, <2>3, <2>5 DEF b
<1>8. PICK after \in Counts(SizesOf(t), 0, m - k) : \A i \in 0..n : after[i] = ends[i + 1] - k
    <2>1. (0 + k) - k = 0
        BY <1>2
    <2> QED
        BY <1>7, <2>1
<1>9. \A i \in 0..(n + 1) : ends[i] \in 0..m
    BY <1>6, CountsFacts
<1>10. /\ k + 0 <= m /\ \A i \in 0..n : after[i] \in 0..(m - k)
    <2>1. m - k \in Nat
        BY <1>1, <1>2, <1>7
    <2> QED
        BY <1>1, <1>2, <1>6, <1>7, <2>1, CountsFacts
<1>11. ASSUME NEW i \in 1..n, NEW j \in (after[i - 1] + 1)..after[i]
       PROVE  q[j] = Unit(t[i])
    <2>1. i \in 0..n /\ i - 1 \in 0..n /\ i + 1 \in 1..(n + 1) /\ (i - 1) + 1 = i /\ (i + 1) - 1 = i
          /\ i + 1 \in 0..(n + 1) /\ i \in 0..(n + 1)
        BY <1>1
    <2>2. after[i] = ends[i + 1] - k /\ after[i - 1] = ends[i] - k
        BY <1>8, <2>1
    <2>3. ends[i + 1] \in 0..m /\ ends[i] \in 0..m /\ after[i - 1] \in 0..(m - k) /\ after[i] \in 0..(m - k)
        BY <1>9, <1>10, <2>1
    <2>4. j \in 1..(m - k) /\ k + j \in (ends[i] + 1)..ends[i + 1]
        <3> DEFINE x == ends[i]
                   y == ends[i + 1]
        <3>1. /\ x \in Int /\ y \in Int /\ x - k >= 0 /\ y - k <= m - k
              /\ j \in ((x - k) + 1)..(y - k)
            BY <1>11, <2>2, <2>3
        <3> HIDE DEF x, y
        <3>2. j \in Int /\ (x - k) + 1 <= j /\ j <= y - k
            BY <1>1, <1>2, <3>1
        <3>3. j \in 1..(m - k) /\ k + j \in (x + 1)..y
            BY <1>1, <1>2, <3>1, <3>2
        <3> QED
            BY <3>3 DEF x, y
    <2>5. p[k + j] = Unit(s[i + 1])
        <3>1. k + j \in (ends[(i + 1) - 1] + 1)..ends[i + 1] /\ i + 1 \in DOMAIN s
            BY <1>5, <2>1, <2>4
        <3> QED
            BY <1>4, <3>1, Zenon
    <2>6. q[j] = p[k + j]
        BY <1>3, <1>7, <2>4
    <2> QED
        BY <1>1, <2>5, <2>6
<1>12. \E ends2 \in Counts(SizesOf(t), 0, Len(q)) :
          \A i \in DOMAIN t : \A j \in (ends2[i - 1] + 1)..ends2[i] : q[j] = Unit(t[i])
    BY <1>3, <1>5, <1>7, <1>8, <1>11
<1> QED
    BY <1>7, <1>12 DEF InOrder, k, t, q, m

(* A scroll that joins the last batch grows it by one.                     *)
LEMMA JoinKeepsOrder ==
    ASSUME NEW s \in Seq(Command), NEW p \in Seq(Command), NEW more \in Command,
           Len(s) >= 1, Size(more) = Size(s[Len(s)]) + 1, Unit(more) = Unit(s[Len(s)]),
           InOrder(s, p)
    PROVE  InOrder([s EXCEPT ![Len(s)] = more], Append(p, Unit(more)))
<1> DEFINE n == Len(s)
           m == Len(p)
           t == [s EXCEPT ![n] = more]
           q == Append(p, Unit(more))
<1>1. /\ t \in Seq(Command) /\ Len(t) = n /\ n \in Nat /\ n >= 1 /\ n \in 1..n /\ t[n] = more
      /\ \A i \in 1..n : i # n => t[i] = s[i]
    OBVIOUS
<1>2. /\ Len(q) = m + 1 /\ m \in Nat /\ q[m + 1] = Unit(more)
      /\ \A k \in 1..m : q[k] = p[k]
    BY UnitKeeps, AppendProperties
<1>3. Size(more) = Size(s[n]) + 1 /\ Unit(more) = Unit(s[n])
    OBVIOUS
<1> HIDE DEF t, q, n, m
<1>4. PICK ends \in Counts(SizesOf(s), 0, m) :
         \A i \in DOMAIN s : \A k \in (ends[i - 1] + 1)..ends[i] : p[k] = Unit(s[i])
    BY DEF InOrder, m
<1>5. DOMAIN s = 1..n /\ DOMAIN t = 1..n
    BY <1>1 DEF n
<1>6. /\ SizesOf(s) \in Seq(Nat) /\ Len(SizesOf(s)) = n
      /\ SizesOf(t) \in Seq(Nat) /\ Len(SizesOf(t)) = n
      /\ \A i \in 1..n : i # n => SizesOf(t)[i] = SizesOf(s)[i]
      /\ SizesOf(t)[n] = SizesOf(s)[n] + 1
    <2>2. /\ SizesOf(s) \in Seq(Nat) /\ Len(SizesOf(s)) = n
          /\ \A i \in 1..n : SizesOf(s)[i] = Size(s[i])
        BY SizesAreCounted DEF n
    <2>3. /\ SizesOf(t) \in Seq(Nat) /\ Len(SizesOf(t)) = n
          /\ \A i \in 1..n : SizesOf(t)[i] = Size(t[i])
        BY <1>1, SizesAreCounted
    <2>4. SizesOf(t)[n] = Size(more) /\ SizesOf(s)[n] = Size(s[n])
        BY <1>1, <2>2, <2>3
    <2> QED
        BY <1>1, <1>3, <2>2, <2>3, <2>4
<1>7. PICK after \in Counts(SizesOf(t), 0, m + 1) :
         /\ \A i \in 0..(n - 1) : after[i] = ends[i]
         /\ after[n] = m + 1
    <2> DEFINE a == SizesOf(s)
               b == SizesOf(t)
    <2>1. /\ a \in Seq(Nat) /\ b \in Seq(Nat) /\ Len(a) = n /\ Len(b) = n /\ b[n] = a[n] + 1
          /\ ends \in Counts(a, 0, m) /\ m \in Nat /\ 0 \in Nat /\ 1 \in Nat /\ n >= 1
          /\ \A i \in 1..n : i # n => b[i] = a[i]
        BY <1>1, <1>2, <1>4, <1>6
    <2> DEFINE one == 1
    <2>2. /\ Len(a) >= 1 /\ Len(b) = Len(a) /\ b[Len(a)] = a[Len(a)] + one /\ one \in Nat
          /\ \A i \in 1..Len(a) : i # Len(a) => b[i] = a[i]
        BY <2>1
    <2> HIDE DEF a, b, one
    <2>3. \E after \in Counts(b, 0, m + one) :
             /\ \A i \in 0..(Len(a) - 1) : after[i] = ends[i]
             /\ after[Len(a)] = m + one
        <3>1. WithLast(a, b, 0, m, one, ends)
            BY <2>1, <2>2, CountsLast
        <3> QED
            BY <3>1 DEF WithLast
    <2> QED
        BY <2>1, <2>3 DEF b, one
<1>8. /\ ends[n] = m /\ \A i \in 0..n : ends[i] \in 0..m
    BY <1>6, CountsFacts
<1>9. ASSUME NEW i \in 1..n, NEW k \in (after[i - 1] + 1)..after[i]
      PROVE  q[k] = Unit(t[i])
    <2>1. i - 1 \in 0..(n - 1) /\ i - 1 \in 0..n /\ i \in 0..n
        BY <1>1
    <2>2. after[i - 1] = ends[i - 1] /\ ends[i - 1] \in 0..m
        BY <1>7, <1>8, <2>1
    <2>3. Unit(t[i]) = Unit(s[i])
        BY <1>1, <1>3
    <2>4. after[i] = (IF i = n THEN m + 1 ELSE ends[i]) /\ ends[i] \in 0..m
        BY <1>1, <1>7, <1>8, <2>1
    <2>5. CASE k = m + 1
        <3>1. i = n
            BY <1>2, <1>9, <2>2, <2>4, <2>5
        <3> QED
            BY <1>1, <1>2, <2>5, <3>1
    <2>6. CASE k # m + 1
        <3>1. k \in 1..m /\ k \in (ends[i - 1] + 1)..ends[i]
            BY <1>2, <1>8, <1>9, <2>2, <2>4, <2>6
        <3>2. p[k] = Unit(s[i])
            BY <1>4, <1>5, <3>1
        <3> QED
            BY <1>2, <2>3, <3>1, <3>2
    <2> QED
        BY <2>5, <2>6
<1>10. \E ends2 \in Counts(SizesOf(t), 0, Len(q)) :
          \A i \in DOMAIN t : \A k \in (ends2[i - 1] + 1)..ends2[i] : q[k] = Unit(t[i])
    BY <1>2, <1>5, <1>7, <1>9
<1> QED
    BY <1>10 DEF InOrder, t, q, n

LEMMA OrderIsKept ==
    ASSUME SessionTypeOK, Protocol, Queued, CommandsKeepTheirOrder, [Next]_vars
    PROVE  CommandsKeepTheirOrder'
<1>1. commands \in Seq(Command) /\ promised \in Seq(Command) /\ gate \in Gate /\ gate.command \in Command
    BY DEF SessionTypeOK, Gate
<1>2. /\ CommandsKeepTheirOrder <=> (receiving => InOrder(commands, promised))
      /\ CommandsKeepTheirOrder' <=> (receiving' => InOrder(commands', promised'))
    BY DEF CommandsKeepTheirOrder, InOrder, SizesOf
<1> SUFFICES ASSUME receiving'
             PROVE  InOrder(commands', promised')
    BY <1>2
<1>3. CASE UNCHANGED <<receiving, commands, promised>>
    BY <1>2, <1>3
<1>4. CASE \E c \in Command : Applies(c)
    <2>1. PICK c \in Command : Applies(c)
        BY <1>4
    <2>2. /\ commands # <<>> /\ c = Head(commands) /\ commands' = Tail(commands)
          /\ promised' = SubSeq(promised, Size(c) + 1, Len(promised)) /\ receiving' = receiving
        BY <2>1 DEF Applies, Take
    <2>3. InOrder(commands, promised)
        BY <1>2, <2>2
    <2> QED
        BY <1>1, <2>2, <2>3, TakeKeepsOrder
<1>5. CASE Die
    BY <1>5 DEF Die, DropReceiver
<1>6. CASE SendCommand
    <2>1. PICK c \in Commands : c.id = gate.next /\ (JoinBatch(c) \/ LoadBudget(c))
        BY <1>6 DEF SendCommand
    <2>2. gate.at = "free"
        BY <1>6 DEF SendCommand
    <2>3. CASE LoadBudget(c)
        BY <1>3, <2>3 DEF LoadBudget
    <2>4. CASE JoinBatch(c)
        <3> DEFINE n == Len(commands)
                   more == [commands[n] EXCEPT !.delta = @ + c.delta]
        <3>1. /\ n >= 1 /\ more \in Command
              /\ Size(more) = Size(commands[n]) + 1
              /\ Unit(more) = Unit(commands[n]) /\ Unit(c) = Unit(more)
              /\ commands' = [commands EXCEPT ![n] = more]
            BY <2>1, <2>2, <2>4, JoinsTheLast
        <3> HIDE DEF more
        <3>2. promised' = Append(promised, Unit(more)) /\ receiving' = receiving
            BY <2>4, <3>1 DEF JoinBatch, Accepted
        <3>3. InOrder(commands, promised)
            BY <1>2, <3>2
        <3> QED
            BY <1>1, <3>1, <3>2, <3>3, JoinKeepsOrder
    <2> QED
        BY <2>1, <2>3, <2>4
<1>7. CASE Push
    <2>1. CASE UNCHANGED <<commands, promised>>
        BY <1>3, <1>7, <2>1 DEF Push
    <2>2. CASE ~UNCHANGED <<commands, promised>>
        <3>1. /\ gate.at = "push" /\ receiving' = receiving /\ commands' = Append(commands, gate.command)
              /\ promised' = Append(promised, Unit(gate.command))
            BY <1>7, <2>2 DEF Push, Accepted
        <3>2. InOrder(commands, promised) /\ Size(gate.command) = 1
            BY <1>2, <3>1 DEF Queued
        <3> QED
            BY <1>1, <3>1, <3>2, AppendKeepsOrder
    <2> QED
        BY <2>1, <2>2
<1> QED
    <2>1. CASE Turns \/ (\E item \in Item : Reserves(item)) \/ QueuesReply \/ QueuesInput \/ IsRefused
        BY <1>3, <2>1 DEF Turns, Reserves, QueuesReply, QueuesInput, IsRefused, gateVars
    <2>2. CASE UNCHANGED gateVars
        BY <1>3, <2>2 DEF gateVars
    <2>3. CASE RefuseBytes \/ ChargeBudget \/ KeepBatch \/ CloseGate
        BY <1>3, <2>3 DEF RefuseBytes, ChargeBudget, KeepBatch, CloseGate
    <2> QED
        BY <1>4, <1>5, <1>6, <1>7, <2>1, <2>2, <2>3, Steps DEF gateVars, Sender

-----------------------------------------------------------------------------
(* The bytes of the commands.                                              *)

LEMMA CostsAreCounted ==
    ASSUME NEW s \in Seq(Command)
    PROVE  /\ CostsOf(s) \in Seq(Nat) /\ Len(CostsOf(s)) = Len(s) /\ Len(s) \in Nat
           /\ \A i \in 1..Len(s) : CostsOf(s)[i] = Cost(s[i]) /\ s[i] \in Command /\ Cost(s[i]) \in Nat
<1>1. Len(s) \in Nat /\ DOMAIN s = 1..Len(s) /\ \A i \in 1..Len(s) : s[i] \in Command
    OBVIOUS
<1>2. \A c \in Command : Cost(c) \in Nat
    BY Values
<1> QED
    BY <1>1, <1>2 DEF CostsOf

LEMMA CostsFollow ==
    ASSUME NEW s \in Seq(Command)
    PROVE  /\ \A c \in Command : CostsOf(Append(s, c)) = Append(CostsOf(s), Cost(c))
           /\ s # <<>> =>
                 /\ CostsOf(Tail(s)) = Tail(CostsOf(s)) /\ CostsOf(s) # <<>>
                 /\ CostsOf(s)[1] = Cost(Head(s)) /\ Head(s) \in Command
           /\ \A c \in Command :
                 Len(s) >= 1 /\ Cost(c) = Cost(s[Len(s)]) =>
                    CostsOf([s EXCEPT ![Len(s)] = c]) = CostsOf(s)
<1> DEFINE a == CostsOf(s)
<1>1. /\ Len(s) \in Nat /\ a \in Seq(Nat) /\ Len(a) = Len(s)
      /\ \A i \in 1..Len(s) : a[i] = Cost(s[i]) /\ s[i] \in Command
    BY CostsAreCounted
<1>2. \A c \in Command : Cost(c) \in Nat
    BY Values
<1> HIDE DEF a
<1>3. ASSUME NEW c \in Command
      PROVE  CostsOf(Append(s, c)) = Append(a, Cost(c))
    <2> DEFINE t == Append(s, c)
               b == CostsOf(t)
               d == Append(a, Cost(c))
    <2>1. t \in Seq(Command) /\ Len(t) = Len(s) + 1 /\ t[Len(s) + 1] = c
          /\ \A i \in 1..Len(s) : t[i] = s[i]
        BY AppendProperties
    <2>2. d \in Seq(Nat) /\ Len(d) = Len(s) + 1 /\ d[Len(s) + 1] = Cost(c)
          /\ \A i \in 1..Len(s) : d[i] = a[i]
        BY <1>1, <1>2, AppendProperties
    <2> HIDE DEF t, d
    <2>3. b \in Seq(Nat) /\ Len(b) = Len(s) + 1 /\ \A i \in 1..(Len(s) + 1) : b[i] = Cost(t[i])
        BY <2>1, CostsAreCounted
    <2> HIDE DEF b
    <2>4. \A i \in 1..(Len(s) + 1) : i \in 1..Len(s) \/ i = Len(s) + 1
        BY <1>1
    <2>5. \A i \in 1..Len(b) : b[i] = d[i]
        BY <1>1, <2>1, <2>2, <2>3, <2>4
    <2>6. b = d
        BY <2>2, <2>3, <2>5, SeqEqual
    <2> QED
        BY <2>6 DEF b, d, t
<1>4. ASSUME s # <<>>
      PROVE  /\ CostsOf(Tail(s)) = Tail(a) /\ a # <<>>
             /\ a[1] = Cost(Head(s)) /\ Head(s) \in Command
    <2> DEFINE t == Tail(s)
               b == CostsOf(t)
               d == Tail(a)
    <2>1. t \in Seq(Command) /\ Len(t) = Len(s) - 1 /\ Len(s) >= 1 /\ Head(s) = s[1] /\ s[1] \in Command
          /\ \A i \in 1..(Len(s) - 1) : t[i] = s[i + 1]
        BY <1>1, <1>4, HeadTailProperties
    <2>2. a # <<>> /\ a[1] = Cost(Head(s))
        BY <1>1, <2>1
    <2>3. d \in Seq(Nat) /\ Len(d) = Len(s) - 1 /\ \A i \in 1..(Len(s) - 1) : d[i] = a[i + 1]
        BY <1>1, <2>2, HeadTailProperties
    <2> HIDE DEF t, d
    <2>4. b \in Seq(Nat) /\ Len(b) = Len(s) - 1 /\ \A i \in 1..(Len(s) - 1) : b[i] = Cost(t[i])
        BY <2>1, CostsAreCounted
    <2> HIDE DEF b
    <2>5. \A i \in 1..(Len(s) - 1) : i + 1 \in 1..Len(s)
        BY <1>1
    <2>6. \A i \in 1..Len(b) : b[i] = d[i]
        BY <1>1, <2>1, <2>3, <2>4, <2>5
    <2>7. b = d
        BY <2>3, <2>4, <2>6, SeqEqual
    <2> QED
        BY <2>1, <2>2, <2>7 DEF b, d, t
<1>5. ASSUME NEW c \in Command, Len(s) >= 1, Cost(c) = Cost(s[Len(s)])
      PROVE  CostsOf([s EXCEPT ![Len(s)] = c]) = a
    BY <1>1, <1>5 DEF CostsOf, a
<1> QED
    BY <1>3, <1>4, <1>5 DEF a

LEMMA ChargesAreKept ==
    ASSUME SessionTypeOK, Protocol, Queued, ChargedRight, [Next]_vars
    PROVE  ChargedRight'
<1>1. /\ commands \in Seq(Command) /\ charged \in Int /\ gate \in Gate /\ gate.command \in Command
      /\ owner \in Owner /\ owner.input \in Command
      /\ gate.seen \in Int /\ CommandBytes \in Nat /\ Cost(None) = 0
      /\ charged \in 0..CommandBytes /\ Charging <= charged
    BY GateAssumption, Values DEF SessionTypeOK, Gate, Owner, ChargedRight
<1>2. \A c \in Command : Cost(c) \in Nat
    BY Values
<1>3. Charging \in Nat /\ InQueue \in Int /\ InQueue = (charged - Cost(owner.input)) - Charging
    BY <1>1, <1>2 DEF Charging, InQueue
<1>4. ~Ended => Counts(CostsOf(commands), 0, InQueue) # {} /\ InQueue \in Nat
    BY <1>1, <1>3, CostsAreCounted, TotalIsNatural DEF ChargedRight
<1>5. ASSUME charged' = charged, Charging' = Charging, owner'.input = owner.input \/ Ended',
             Ended => Ended', CostsOf(commands)' = CostsOf(commands) \/ Ended'
      PROVE  ChargedRight'
    <2>1. charged' \in 0..CommandBytes /\ Charging' <= charged'
        BY <1>1, <1>5
    <2>2. ~Ended' => Counts(CostsOf(commands), 0, InQueue)' # {}
        <3> SUFFICES ASSUME ~Ended'
                     PROVE  Counts(CostsOf(commands), 0, InQueue)' # {}
            OBVIOUS
        <3>1. InQueue' = InQueue
            BY <1>5 DEF InQueue
        <3>2. Counts(CostsOf(commands), 0, InQueue)' = Counts(CostsOf(commands)', 0, InQueue')
            BY DEF Counts
        <3>3. CostsOf(commands)' = CostsOf(commands) /\ ~Ended
            BY <1>5
        <3> QED
            BY <1>4, <3>1, <3>2, <3>3
    <2> QED
        BY <2>1, <2>2 DEF ChargedRight
<1>6. ASSUME charged' \in 0..CommandBytes, Charging' <= charged',
             ~Ended' => Counts(CostsOf(commands'), 0, (charged' - Cost(owner'.input)) - Charging') # {}
      PROVE  ChargedRight'
    BY <1>6 DEF ChargedRight, InQueue
<1>7. ASSUME UNCHANGED <<gate, commands, charged>>, Turned
      PROVE  ChargedRight'
    <2>1. Charging' = Charging /\ CostsOf(commands)' = CostsOf(commands)
        BY <1>7 DEF Charging, CostsOf
    <2> QED
        BY <1>5, <1>7, <2>1 DEF Turned
<1>8. CASE \E c \in Command : Applies(c)
    <2>1. PICK c \in Command : Applies(c)
        BY <1>8
    <2>2. /\ commands # <<>> /\ c = Head(commands) /\ commands' = Tail(commands) /\ ~Ended
          /\ owner.input = None /\ gate' = gate
        BY <2>1 DEF Applies, Take, Ended, InputPlaces
    <2> DEFINE total == charged - Charging
               cost == Cost(c)
    <2>3. /\ Charging' = Charging /\ InQueue = total /\ cost \in Nat /\ total \in Nat
        BY <1>1, <1>2, <1>3, <1>4, <2>2 DEF Charging
    <2>4. /\ CostsOf(commands) \in Seq(Nat) /\ CostsOf(commands) # <<>>
          /\ CostsOf(commands') = Tail(CostsOf(commands)) /\ CostsOf(commands)[1] = cost
        BY <1>1, <2>2, CostsAreCounted, CostsFollow
    <2>5. cost <= total /\ Counts(CostsOf(commands'), 0, total - cost) # {}
        <3>1. Counts(CostsOf(commands), 0, total) # {}
            BY <1>4, <2>2, <2>3
        <3> DEFINE a == CostsOf(commands)
        <3>2. a \in Seq(Nat) /\ a # <<>> /\ total \in Int /\ Counts(a, 0, total) # {}
              /\ a[1] = cost /\ CostsOf(commands') = Tail(a)
            BY <2>3, <2>4, <3>1
        <3> HIDE DEF total, cost, a
        <3>3. a[1] <= total /\ Counts(Tail(a), 0, total - a[1]) # {}
            BY <3>2, TotalOfTail
        <3> QED
            BY <3>2, <3>3
    <2>6. CASE owner'.input = c /\ UNCHANGED charged
        <3>1. (charged' - Cost(owner'.input)) - Charging' = total - cost
            BY <1>1, <1>3, <2>3, <2>6
        <3> QED
            BY <1>1, <1>6, <2>3, <2>5, <2>6, <3>1
    <2>7. CASE owner'.input = None /\ Completed(c)
        <3>1. charged' = charged - cost
            BY <2>7 DEF Completed
        <3>2. (charged' - Cost(owner'.input)) - Charging' = total - cost
            BY <1>1, <1>3, <2>3, <2>7, <3>1
        <3>3. charged' \in 0..CommandBytes /\ Charging' <= charged'
            BY <1>1, <1>3, <2>3, <2>5, <3>1
        <3> QED
            BY <1>6, <2>5, <3>2, <3>3
    <2>8. CASE owner'.at = "returning" /\ UNCHANGED charged
        BY <1>1, <1>6, <2>3, <2>8 DEF Ended
    <2> QED
        BY <2>1, <2>2, <2>6, <2>7, <2>8 DEF Applies, Turned
<1>9. CASE QueuesInput
    <2>1. /\ charged' = charged - Cost(owner.input) /\ owner'.input = None /\ ~Ended
          /\ UNCHANGED <<gate, commands>>
        BY <1>9 DEF QueuesInput, Completed
    <2>2. Charging' = Charging /\ CostsOf(commands') = CostsOf(commands)
        BY <2>1 DEF Charging
    <2>3. Cost(owner.input) \in Nat
        BY <1>1, <1>2
    <2>4. (charged' - Cost(owner'.input)) - Charging' = InQueue
        BY <1>1, <1>3, <2>1, <2>2, <2>3
    <2>5. charged' \in 0..CommandBytes /\ Charging' <= charged'
        BY <1>1, <1>3, <1>4, <2>1, <2>2, <2>3
    <2> QED
        BY <1>4, <1>6, <2>1, <2>2, <2>4, <2>5
<1>10. CASE Die
    <2>1. charged' = charged /\ gate' = gate /\ Ended /\ Ended'
        BY <1>1, <1>10 DEF Die, DropReceiver, Ended, Owner
    <2>2. Charging' = Charging
        BY <2>1 DEF Charging
    <2> QED
        BY <1>5, <2>1, <2>2
<1>11. CASE Sender /\ UNCHANGED owner
    <2>1. (Ended' <=> Ended) /\ owner'.input = owner.input
        BY <1>11 DEF Ended
    <2>2. CASE SendCommand
        <3>1. PICK c \in Commands : c.id = gate.next /\ (JoinBatch(c) \/ LoadBudget(c))
            BY <2>2 DEF SendCommand
        <3>2. gate.at = "free"
            BY <2>2 DEF SendCommand
        <3>3. CASE LoadBudget(c)
            <4>1. gate'.at = "charge" /\ UNCHANGED <<commands, charged>>
                BY <1>1, <3>3, SendCommandGate, <3>1 DEF LoadBudget
            <4>2. Charging' = Charging
                BY <3>2, <4>1 DEF Charging
            <4>3. CostsOf(commands)' = CostsOf(commands)
                BY <4>1 DEF CostsOf
            <4> QED
                BY <1>5, <2>1, <4>1, <4>2, <4>3
        <3>4. CASE JoinBatch(c)
            <4> DEFINE n == Len(commands)
                       more == [commands[n] EXCEPT !.delta = @ + c.delta]
            <4>1. /\ n >= 1 /\ more \in Command /\ Cost(more) = Cost(commands[n])
                  /\ commands' = [commands EXCEPT ![n] = more]
                BY <3>1, <3>2, <3>4, JoinsTheLast
            <4>2. gate'.at = "free" /\ charged' = charged
                BY <3>1, <3>2, <3>4, SendCommandGate DEF JoinBatch
            <4>3. Charging' = Charging
                BY <3>2, <4>2 DEF Charging
            <4> HIDE DEF more
            <4>4. CostsOf(commands') = CostsOf(commands)
                BY <1>1, <4>1, CostsFollow
            <4> QED
                BY <1>5, <2>1, <4>2, <4>3, <4>4
        <3> QED
            BY <3>1, <3>3, <3>4
    <2>3. CASE RefuseBytes \/ KeepBatch
        <3>1. gate.at \in {"charge", "keep"} /\ gate'.at = "free" /\ UNCHANGED <<commands, charged>>
            BY <1>1, <2>3, FreedKeeps DEF RefuseBytes, KeepBatch, Gate
        <3>2. Charging' = Charging /\ CostsOf(commands)' = CostsOf(commands)
            BY <3>1 DEF Charging, CostsOf
        <3> QED
            BY <1>5, <2>1, <3>1, <3>2
    <2>4. CASE ChargeBudget
        <3>1. gate.at = "charge" /\ commands' = commands /\ Charging = 0
              /\ gate.seen + Cost(gate.command) <= CommandBytes
            BY <2>4 DEF ChargeBudget, Charging, Fits
        <3>2. CASE charged = gate.seen
            <4>1. charged' = charged + Cost(gate.command) /\ gate' = [gate EXCEPT !.at = "push"]
                BY <2>4, <3>2 DEF ChargeBudget, Swaps
            <4>2. Charging' = Cost(gate.command) /\ Cost(gate.command) \in Nat
                <5>1. gate'.at = "push" /\ gate'.command = gate.command
                    BY <1>1, <4>1 DEF Gate
                <5> QED
                    BY <1>1, <1>2, <5>1 DEF Charging
            <4>3. charged' \in 0..CommandBytes /\ Charging' <= charged'
                BY <1>1, <3>1, <3>2, <4>1, <4>2
            <4>4. Cost(owner.input) \in Nat
                BY <1>1, <1>2
            <4>5. (charged' - Cost(owner'.input)) - Charging' = InQueue
                BY <1>1, <1>3, <2>1, <3>1, <4>1, <4>2, <4>4
            <4> QED
                BY <1>4, <1>6, <2>1, <3>1, <4>3, <4>5
        <3>3. CASE charged # gate.seen
            <4>1. charged' = charged /\ gate' = [gate EXCEPT !.seen = charged]
                BY <2>4, <3>3 DEF ChargeBudget, Swaps
            <4>2. gate'.at = "charge"
                BY <1>1, <3>1, <4>1 DEF Gate
            <4>3. Charging' = Charging
                BY <3>1, <4>2 DEF Charging
            <4>4. CostsOf(commands)' = CostsOf(commands)
                BY <3>1 DEF CostsOf
            <4> QED
                BY <1>5, <2>1, <4>1, <4>3, <4>4
        <3> QED
            BY <3>2, <3>3
    <2>5. CASE Push
        <3> DEFINE cost == Cost(gate.command)
        <3>1. gate.at = "push" /\ Charging = cost /\ cost \in Nat /\ Cost(owner.input) \in Nat
            BY <1>1, <1>2, <2>5 DEF Push, Charging
        <3>2. gate'.at \in {"free", "keep"}
            BY <1>1, <2>5, FreedKeeps DEF Push, Gate
        <3>3. Charging' = 0
            BY <3>2 DEF Charging
        <3>4. CASE commands' = Append(commands, gate.command) /\ charged' = charged
            <4>1. CostsOf(commands') = Append(CostsOf(commands), cost) /\ CostsOf(commands) \in Seq(Nat)
                BY <1>1, <3>4, CostsFollow, CostsAreCounted
            <4>2. (charged' - Cost(owner'.input)) - Charging' = InQueue + cost
                BY <1>1, <1>3, <2>1, <3>1, <3>3, <3>4
            <4>3. ~Ended => Counts(CostsOf(commands'), 0, InQueue + cost) # {}
                <5> HIDE DEF cost
                <5> QED
                    BY <1>3, <1>4, <3>1, <4>1, TotalOfAppend
            <4> QED
                BY <1>1, <1>6, <2>1, <3>3, <3>4, <4>2, <4>3
        <3>5. CASE charged' = charged - cost /\ commands' = commands
            <4>1. (charged' - Cost(owner'.input)) - Charging' = InQueue
                BY <1>1, <1>3, <2>1, <3>1, <3>3, <3>5
            <4>2. charged' \in 0..CommandBytes /\ Charging' <= charged'
                BY <1>1, <3>1, <3>3, <3>5
            <4> QED
                BY <1>4, <1>6, <2>1, <3>5, <4>1, <4>2
        <3> QED
            BY <2>5, <3>4, <3>5 DEF Push
    <2> QED
        BY <1>11, <2>2, <2>3, <2>4, <2>5 DEF Sender
<1>12. CASE CloseGate /\ UNCHANGED owner
    <2>1. gate.at = "free" /\ gate'.at = gate.at /\ UNCHANGED <<commands, charged>>
        BY <1>12, CloseGateTypes
    <2>2. Charging' = Charging /\ CostsOf(commands)' = CostsOf(commands)
        BY <2>1 DEF Charging, CostsOf
    <2> QED
        BY <1>5, <1>12, <2>1, <2>2 DEF Ended
<1>13. CASE UNCHANGED <<gateVars, owner>>
    <2>1. UNCHANGED <<gate, commands, charged, owner>>
        BY <1>13 DEF gateVars
    <2>2. Charging' = Charging /\ CostsOf(commands)' = CostsOf(commands)
        BY <2>1 DEF Charging, CostsOf
    <2> QED
        BY <1>5, <2>1, <2>2 DEF Ended
<1> QED
    <2>1. CASE Turns \/ (\E item \in Item : Reserves(item)) \/ QueuesReply \/ IsRefused
        BY <1>7, <2>1 DEF Turns, Reserves, QueuesReply, IsRefused, gateVars
    <2> QED
        BY <1>8, <1>9, <1>10, <1>11, <1>12, <1>13, <2>1, Steps DEF gateVars

-----------------------------------------------------------------------------
(* The bytes of the input.                                                 *)

LEMMA BytesAreCounted ==
    ASSUME NEW s \in Seq(Item)
    PROVE  /\ BytesOf(s) \in Seq(Nat) /\ Len(BytesOf(s)) = Len(s) /\ Len(s) \in Nat
           /\ \A i \in 1..Len(s) : BytesOf(s)[i] = s[i].bytes /\ s[i] \in Item
<1>1. Len(s) \in Nat /\ DOMAIN s = 1..Len(s) /\ \A i \in 1..Len(s) : s[i] \in Item
    OBVIOUS
<1>2. \A item \in Item : item.bytes \in Nat
    BY DEF Item
<1> QED
    BY <1>1, <1>2 DEF BytesOf

LEMMA BytesFollow ==
    ASSUME NEW s \in Seq(Item)
    PROVE  /\ \A item \in Item : BytesOf(Append(s, item)) = Append(BytesOf(s), item.bytes)
           /\ s # <<>> =>
                 /\ BytesOf(Tail(s)) = Tail(BytesOf(s)) /\ BytesOf(s) # <<>>
                 /\ BytesOf(s)[1] = Head(s).bytes /\ Head(s) \in Item
<1> DEFINE a == BytesOf(s)
<1>1. /\ Len(s) \in Nat /\ a \in Seq(Nat) /\ Len(a) = Len(s)
      /\ \A i \in 1..Len(s) : a[i] = s[i].bytes /\ s[i] \in Item
    BY BytesAreCounted
<1>2. \A item \in Item : item.bytes \in Nat
    BY DEF Item
<1> HIDE DEF a
<1>3. ASSUME NEW item \in Item
      PROVE  BytesOf(Append(s, item)) = Append(a, item.bytes)
    <2> DEFINE t == Append(s, item)
               b == BytesOf(t)
               d == Append(a, item.bytes)
    <2>1. t \in Seq(Item) /\ Len(t) = Len(s) + 1 /\ t[Len(s) + 1] = item
          /\ \A i \in 1..Len(s) : t[i] = s[i]
        BY AppendProperties
    <2>2. d \in Seq(Nat) /\ Len(d) = Len(s) + 1 /\ d[Len(s) + 1] = item.bytes
          /\ \A i \in 1..Len(s) : d[i] = a[i]
        BY <1>1, <1>2, AppendProperties
    <2> HIDE DEF t, d
    <2>3. b \in Seq(Nat) /\ Len(b) = Len(s) + 1 /\ \A i \in 1..(Len(s) + 1) : b[i] = t[i].bytes
        BY <2>1, BytesAreCounted
    <2> HIDE DEF b
    <2>4. \A i \in 1..(Len(s) + 1) : i \in 1..Len(s) \/ i = Len(s) + 1
        BY <1>1
    <2>5. \A i \in 1..Len(b) : b[i] = d[i]
        BY ZenonT(40), <1>1, <2>1, <2>2, <2>3, <2>4
    <2>6. b = d
        BY <2>2, <2>3, <2>5, SeqEqual
    <2> QED
        BY <2>6 DEF b, d, t
<1>4. ASSUME s # <<>>
      PROVE  /\ BytesOf(Tail(s)) = Tail(a) /\ a # <<>>
             /\ a[1] = Head(s).bytes /\ Head(s) \in Item
    <2> DEFINE t == Tail(s)
               b == BytesOf(t)
               d == Tail(a)
    <2>1. t \in Seq(Item) /\ Len(t) = Len(s) - 1 /\ Len(s) >= 1 /\ Head(s) = s[1] /\ s[1] \in Item
          /\ \A i \in 1..(Len(s) - 1) : t[i] = s[i + 1]
        BY <1>1, <1>4, HeadTailProperties
    <2>2. a # <<>> /\ a[1] = Head(s).bytes
        BY <1>1, <2>1
    <2>3. d \in Seq(Nat) /\ Len(d) = Len(s) - 1 /\ \A i \in 1..(Len(s) - 1) : d[i] = a[i + 1]
        BY <1>1, <2>2, HeadTailProperties
    <2> HIDE DEF t, d
    <2>4. b \in Seq(Nat) /\ Len(b) = Len(s) - 1 /\ \A i \in 1..(Len(s) - 1) : b[i] = t[i].bytes
        BY <2>1, BytesAreCounted
    <2> HIDE DEF b
    <2>5. \A i \in 1..(Len(s) - 1) : i + 1 \in 1..Len(s)
        BY <1>1
    <2>6. \A i \in 1..Len(b) : b[i] = d[i]
        BY ZenonT(40), <1>1, <2>1, <2>3, <2>4, <2>5
    <2>7. b = d
        BY <2>3, <2>4, <2>6, SeqEqual
    <2> QED
        BY <2>1, <2>2, <2>7 DEF b, d, t
<1> QED
    BY <1>3, <1>4 DEF a

LEMMA ReservationsAreKept ==
    ASSUME SessionTypeOK, Protocol, ReservedRight, [Next]_vars
    PROVE  ReservedRight'
<1>1. /\ items \in Seq(Item) /\ reserved \in Int /\ enqueuing \in Item /\ writer \in Writer
      /\ writer.item \in Item /\ NoItem.bytes = 0 /\ InputBytes \in Nat
      /\ reserved \in 0..InputBytes /\ enqueuing.bytes <= reserved
      /\ writer.at \in {"recv", "ended"} => writer.item = NoItem
    BY WriterAssumption, Values DEF SessionTypeOK, Writer, ReservedRight, Protocol
<1>2. \A item \in Item : item.bytes \in Nat
    BY DEF Item
<1>3. Admitted \in Int /\ Admitted = (reserved - enqueuing.bytes) - writer.item.bytes
      /\ enqueuing.bytes \in Nat /\ writer.item.bytes \in Nat
    BY <1>1, <1>2 DEF Admitted
<1>4. writer.at # "ended" => Counts(BytesOf(items), 0, Admitted) # {} /\ Admitted \in Nat
    BY <1>1, <1>3, BytesAreCounted, TotalIsNatural DEF ReservedRight
<1>5. ASSUME reserved' \in 0..InputBytes, enqueuing'.bytes <= reserved',
             writer'.at # "ended" =>
                Counts(BytesOf(items'), 0, (reserved' - enqueuing'.bytes) - writer'.item.bytes) # {}
      PROVE  ReservedRight'
    BY <1>5 DEF ReservedRight, Admitted
<1>6. ASSUME UNCHANGED <<items, reserved, enqueuing>>,
             writer'.at = "ended" \/ (writer'.item = writer.item /\ writer.at # "ended")
      PROVE  ReservedRight'
    BY <1>1, <1>3, <1>4, <1>5, <1>6
<1>7. CASE \E item \in Item : Reserves(item)
    <2>1. PICK item \in Item : Reserves(item)
        BY <1>7
    <2>2. /\ enqueuing = NoItem /\ enqueuing' = item /\ reserved' = reserved + item.bytes
          /\ reserved + item.bytes <= InputBytes /\ UNCHANGED <<items, writer>> /\ item.bytes \in Nat
        BY <1>2, <2>1 DEF Reserves, Reserve, Reservable
    <2>3. (reserved' - enqueuing'.bytes) - writer'.item.bytes = Admitted
        BY <1>1, <1>3, <2>2
    <2> QED
        BY <1>1, <1>4, <1>5, <2>2, <2>3
<1>8. CASE QueueItem
    <2>1. /\ writer.at # "ended" /\ items' = Append(items, enqueuing) /\ enqueuing' = NoItem
          /\ UNCHANGED <<reserved, writer>>
        BY <1>8 DEF QueueItem
    <2> DEFINE more == enqueuing.bytes
               a == BytesOf(items)
    <2>2. (reserved' - enqueuing'.bytes) - writer'.item.bytes = Admitted + more
        BY <1>1, <1>3, <2>1
    <2>3. BytesOf(items') = Append(a, more) /\ a \in Seq(Nat) /\ more \in Nat /\ Counts(a, 0, Admitted) # {}
        BY <1>1, <1>3, <1>4, <2>1, BytesFollow, BytesAreCounted
    <2>4. enqueuing'.bytes <= reserved' /\ reserved' \in 0..InputBytes
        BY <1>1, <2>1
    <2> HIDE DEF more, a
    <2>5. Counts(Append(a, more), 0, Admitted + more) # {}
        BY <1>3, <2>3, TotalOfAppend
    <2> QED
        BY <1>5, <2>2, <2>3, <2>4, <2>5
<1>9. CASE FindNoSlot \/ FindWriterGone
    <2>1. /\ enqueuing' = NoItem /\ reserved' = reserved - enqueuing.bytes /\ UNCHANGED <<items, writer>>
        BY <1>9 DEF FindNoSlot, FindWriterGone, ReleaseRefused
    <2>2. (reserved' - enqueuing'.bytes) - writer'.item.bytes = Admitted
        BY <1>1, <1>3, <2>1
    <2>3. reserved' \in 0..InputBytes /\ enqueuing'.bytes <= reserved'
        BY <1>1, <1>3, <2>1
    <2> QED
        BY <1>4, <1>5, <2>1, <2>2, <2>3
<1>10. CASE WriterStep
    <2>1. CASE ReceiveItem
        <3>1. /\ writer.at = "recv" /\ items # <<>> /\ items' = Tail(items)
              /\ writer' = [at |-> "write", item |-> Head(items), left |-> Head(items).bytes]
              /\ UNCHANGED <<enqueuing, reserved>>
            BY <2>1 DEF ReceiveItem
        <3> DEFINE a == BytesOf(items)
                   x == Head(items).bytes
        <3>2. /\ a \in Seq(Nat) /\ a # <<>> /\ BytesOf(items') = Tail(a) /\ a[1] = x /\ x \in Nat
              /\ Counts(a, 0, Admitted) # {}
            BY <1>1, <1>2, <1>4, <3>1, BytesFollow, BytesAreCounted
        <3>3. (reserved' - enqueuing'.bytes) - writer'.item.bytes = Admitted - x
            BY SMTT(30), <1>1, <1>3, <3>1, <3>2
        <3> HIDE DEF a, x
        <3>4. Counts(Tail(a), 0, Admitted - a[1]) # {}
            BY <1>3, <3>2, TotalOfTail
        <3> QED
            BY <1>1, <1>5, <3>1, <3>2, <3>3, <3>4
    <2>2. CASE WriteSome \/ Flush \/ WriteFails
        <3>1. UNCHANGED <<items, reserved, enqueuing>> /\ writer.at = "write"
            BY <2>2 DEF WriteSome, Flush, WriteFails
        <3>2. writer'.item = writer.item
            BY <1>1, <2>2 DEF WriteSome, Flush, WriteFails, Writer
        <3> QED
            BY <1>6, <3>1, <3>2
    <2>3. CASE Deliver \/ EndAfterFailure
        <3>1. /\ writer.at # "ended" /\ reserved' = reserved - writer.item.bytes /\ enqueuing' = enqueuing
              /\ writer'.item = NoItem /\ (writer'.at = "ended" \/ items' = items)
            BY <2>3 DEF Deliver, EndAfterFailure
        <3>2. (reserved' - enqueuing'.bytes) - writer'.item.bytes = Admitted
            BY <1>1, <1>3, <3>1
        <3>3. reserved' \in 0..InputBytes /\ enqueuing'.bytes <= reserved'
            BY SMTT(30), <1>1, <1>3, <1>4, <3>1
        <3> QED
            BY <1>4, <1>5, <3>1, <3>2, <3>3
    <2> QED
        BY <1>10, <2>1, <2>2, <2>3 DEF WriterStep
<1>11. CASE EndWithSender(owner.at = "dead")
    <2>1. writer'.at = "ended" /\ UNCHANGED <<items, reserved, enqueuing>>
        BY <1>1, <1>11 DEF EndWithSender, Writer
    <2> QED
        BY <1>6, <2>1
<1>12. CASE UNCHANGED <<items, reserved, enqueuing, writer>>
    BY <1>1, <1>3, <1>4, <1>5, <1>12
<1> QED
    <2>1. CASE Turns \/ UNCHANGED writerVars
        BY <1>12, <2>1 DEF Turns, writerVars
    <2>2. CASE QueuesReply \/ QueuesInput
        BY <1>8, <2>2 DEF QueuesReply, QueuesInput
    <2>3. CASE IsRefused
        BY <1>9, <2>3 DEF IsRefused
    <2>4. CASE (\E c \in Command : Applies(c)) \/ Die
        BY <1>12, <2>4 DEF Applies, Die
    <2> QED
        BY <1>7, <1>10, <1>11, <2>1, <2>2, <2>3, <2>4, Steps

-----------------------------------------------------------------------------
(* The input that is due.                                                  *)

(* Numbers are never used again: what the sender queues is new.            *)
LEMMA GateMoves ==
    ASSUME SessionTypeOK, Queued, Sender \/ CloseGate
    PROVE  /\ Fresh \in Nat \ {0} /\ Fresh' \in Nat /\ Fresh <= Fresh'
           /\ \A j \in 1..Len(commands') :
                 /\ commands'[j].id \in Nat
                 /\ \/ \E k \in 1..Len(commands) : commands'[j].id = commands[k].id
                    \/ commands'[j].id = Fresh /\ Fresh < Fresh'
<1>1. /\ gate \in Gate /\ gate.next \in Nat \ {0} /\ gate.at \in {"free", "charge", "push", "keep"}
      /\ gate.command \in Command /\ commands \in Seq(Command) /\ Len(commands) \in Nat
      /\ \A j \in 1..Len(commands) : commands[j] \in Command /\ commands[j].id \in Nat
    <2>1. gate \in Gate /\ commands \in Seq(Command) /\ gate.next \in 1..(MaxCommands + 1)
        BY DEF SessionTypeOK, Queued
    <2>2. \A c \in Command : c.id \in Nat
        BY DEF Command
    <2>3. gate.next \in Nat /\ gate.at \in {"free", "charge", "push", "keep"} /\ gate.command \in Command
        BY <2>1 DEF Gate
    <2> QED
        BY <2>1, <2>2, <2>3
<1>2. gate.at # "free" => gate.command.id = gate.next - 1 /\ gate.command.id >= 1
    BY GateAssumption DEF Queued, IsIssued
<1>3. Fresh \in Nat \ {0}
    BY <1>1, <1>2 DEF Fresh
<1>4. ASSUME commands' = commands, Fresh' \in Nat, Fresh <= Fresh'
      PROVE  /\ Fresh' \in Nat /\ Fresh <= Fresh'
             /\ \A j \in 1..Len(commands') :
                   /\ commands'[j].id \in Nat
                   /\ \/ \E k \in 1..Len(commands) : commands'[j].id = commands[k].id
                      \/ commands'[j].id = Fresh /\ Fresh < Fresh'
    BY <1>1, <1>4
<1>5. CASE SendCommand
    <2>1. PICK c \in Commands : c.id = gate.next /\ (JoinBatch(c) \/ LoadBudget(c))
        BY <1>5 DEF SendCommand
    <2>2. gate.at = "free"
        BY <1>5 DEF SendCommand
    <2>3. CASE LoadBudget(c)
        <3>1. gate'.at = "charge" /\ gate'.next = gate.next + 1 /\ commands' = commands
            BY <2>1, <2>3, SendCommandGate DEF LoadBudget
        <3>2. Fresh' = Fresh
            BY <1>1, <2>2, <3>1 DEF Fresh
        <3> QED
            BY <1>3, <1>4, <3>1, <3>2
    <2>4. CASE JoinBatch(c)
        <3>1. gate'.at = "free" /\ gate'.next = gate.next + 1
            BY <2>1, <2>2, <2>4, SendCommandGate
        <3>2. PICK more \in Command :
                 /\ Len(commands) >= 1 /\ more.id = commands[Len(commands)].id
                 /\ commands' = [commands EXCEPT ![Len(commands)] = more]
            BY <2>1, <2>2, <2>4, JoinsTheLast
        <3>3. Len(commands') = Len(commands)
              /\ \A j \in 1..Len(commands) : commands'[j].id = commands[j].id
            BY <1>1, <3>2
        <3>4. Fresh' \in Nat /\ Fresh <= Fresh'
            BY <1>1, <2>2, <3>1 DEF Fresh
        <3> QED
            BY <1>1, <1>3, <3>3, <3>4
    <2> QED
        BY <2>1, <2>3, <2>4
<1>6. CASE RefuseBytes
    <2>1. gate.at = "charge" /\ gate'.at = "free" /\ gate'.next = gate.next /\ commands' = commands
        BY <1>1, <1>6, FreedKeeps DEF RefuseBytes
    <2>2. Fresh' \in Nat /\ Fresh <= Fresh'
        BY <1>1, <2>1 DEF Fresh
    <2> QED
        BY <1>3, <1>4, <2>1, <2>2
<1>7. CASE ChargeBudget
    <2>1. gate.at = "charge" /\ gate'.at \in {"charge", "push"} /\ gate'.next = gate.next
          /\ commands' = commands
        BY <1>1, <1>7 DEF ChargeBudget, Gate
    <2>2. Fresh' = Fresh
        BY <1>1, <2>1 DEF Fresh
    <2> QED
        BY <1>3, <1>4, <2>1, <2>2
<1>8. CASE Push
    <2>1. gate.at = "push" /\ gate'.at \in {"free", "keep"} /\ gate'.next = gate.next
        BY <1>1, <1>8, FreedKeeps DEF Push, Gate
    <2>2. Fresh' = gate.next /\ Fresh = gate.next - 1
        BY <1>1, <2>1 DEF Fresh
    <2>3. CASE commands' = commands
        BY <1>1, <1>3, <1>4, <2>2, <2>3
    <2>4. CASE commands' = Append(commands, gate.command)
        <3>1. gate.command.id = Fresh
            BY <1>2, <2>1, <2>2
        <3>2. /\ Len(commands') = Len(commands) + 1 /\ commands'[Len(commands) + 1] = gate.command
              /\ \A j \in 1..Len(commands) : commands'[j] = commands[j]
            BY <1>1, <2>4, AppendProperties
        <3>3. \A j \in 1..(Len(commands) + 1) : j \in 1..Len(commands) \/ j = Len(commands) + 1
            BY <1>1
        <3>4. Fresh' \in Nat /\ Fresh <= Fresh' /\ Fresh < Fresh'
            BY <1>1, <2>2
        <3> QED
            BY <1>1, <1>3, <3>1, <3>2, <3>3, <3>4
    <2> QED
        BY <1>8, <2>3, <2>4 DEF Push
<1>9. CASE KeepBatch
    <2>1. gate.at = "keep" /\ gate'.at = "free" /\ gate'.next = gate.next /\ commands' = commands
        BY <1>1, <1>9, FreedKeeps DEF KeepBatch, Gate
    <2>2. Fresh' = Fresh
        BY <1>1, <2>1 DEF Fresh
    <2> QED
        BY <1>3, <1>4, <2>1, <2>2
<1>10. CASE CloseGate
    <2>1. gate.at = "free" /\ gate'.at = "free" /\ gate'.next = gate.next /\ commands' = commands
        BY <1>10, CloseGateTypes
    <2>2. Fresh' = Fresh
        BY <1>1, <2>1 DEF Fresh
    <2> QED
        BY <1>3, <1>4, <2>1, <2>2
<1> QED
    BY <1>3, <1>5, <1>6, <1>7, <1>8, <1>9, <1>10 DEF Sender

(* What the owner takes is the first of the queue, before all the others.  *)
LEMMA TakesTheFirst ==
    ASSUME SessionTypeOK, Queued, NEW c \in Command, Applies(c)
    PROVE  /\ Fresh' = Fresh /\ IsIssued(c) /\ c.id \in Nat /\ c.id < Fresh
           /\ 1 \in 1..Len(commands) /\ c = commands[1]
           /\ \A j \in 1..Len(commands') :
                 /\ j + 1 \in 1..Len(commands) /\ commands'[j] = commands[j + 1]
                 /\ c.id < commands'[j].id
<1>1. commands \in Seq(Command) /\ commands # <<>> /\ c = Head(commands) /\ commands' = Tail(commands)
      /\ gate' = gate
    BY DEF SessionTypeOK, Applies, Take
<1>2. Fresh' = Fresh
    BY <1>1 DEF Fresh
<1>3. /\ Len(commands) \in Nat /\ Len(commands') = Len(commands) - 1 /\ c = commands[1]
      /\ 1 \in 1..Len(commands)
      /\ \A j \in 1..Len(commands') : commands'[j] = commands[j + 1] /\ j + 1 \in 1..Len(commands)
                                      /\ 1 < j + 1
    BY <1>1, HeadTailProperties
<1>4. IsIssued(c) /\ c.id \in Nat /\ c.id < Fresh
    <2>1. c.id \in Nat
        BY DEF Command
    <2> QED
        BY <1>3, <2>1 DEF Queued
<1>5. \A j \in 1..Len(commands') : commands[1].id < commands[j + 1].id
    BY <1>3 DEF Queued
<1> QED
    BY <1>2, <1>3, <1>4, <1>5

LEMMA TurnsAreKept ==
    ASSUME SessionTypeOK, Protocol, Queued, DueInTurn, Delivering, [Next]_vars
    PROVE  DueInTurn'
<1> DEFINE n == Len(due)
<1>1. /\ due \in Seq(Nat) /\ n \in Nat /\ \A i \in 1..n : due[i] \in Nat
      /\ writer \in Writer /\ writer.item.id \in Nat
    BY DEF SessionTypeOK, Writer, Item
<1>2. Fresh \in Nat \ {0} /\ commands \in Seq(Command)
      /\ \A j \in 1..Len(commands) : commands[j].id \in Nat /\ commands[j].id >= 1 /\ commands[j].id < Fresh
    <2>1. gate.next \in Nat \ {0} /\ gate.at \in {"free", "charge", "push", "keep"}
        BY GateAssumption DEF SessionTypeOK, Gate, Queued
    <2>2. gate.at # "free" => gate.command.id = gate.next - 1 /\ gate.command.id >= 1
        BY GateAssumption DEF Queued, IsIssued
    <2>3. Fresh \in Nat \ {0}
        BY <2>1, <2>2 DEF Fresh
    <2>4. \A j \in 1..Len(commands) : commands[j].id \in Nat /\ commands[j].id >= 1 /\ commands[j].id < Fresh
        BY GateAssumption DEF Queued, IsIssued
    <2> QED
        BY <2>3, <2>4 DEF SessionTypeOK
<1>3. /\ \A i \in 1..n : due[i] >= 1 /\ due[i] < Fresh
      /\ \A i, j \in 1..n : i < j => due[i] < due[j]
      /\ \A i \in 1..n : \A j \in 1..Len(commands) : due[i] < commands[j].id
      /\ writer.at = "deliver" =>
            /\ writer.item.id < Fresh
            /\ \A i \in 1..n : writer.item.id # due[i]
            /\ \A j \in 1..Len(commands) : writer.item.id < commands[j].id
    BY DEF DueInTurn
(* The queue, the gate and the writer move; what is due stays.             *)
<1>4. ASSUME due' = due, writer'.at = "deliver" => writer.at = "deliver" /\ writer'.item = writer.item,
             Fresh' \in Nat, Fresh <= Fresh',
             \A j \in 1..Len(commands') :
                /\ commands'[j].id \in Nat
                /\ \/ \E k \in 1..Len(commands) : commands'[j].id = commands[k].id
                   \/ commands'[j].id = Fresh /\ Fresh < Fresh'
      PROVE  DueInTurn'
    <2> HIDE DEF n
    <2>1. Len(due') = n
        BY <1>4 DEF n
    <2>2. \A i \in 1..n : due'[i] >= 1 /\ due'[i] < Fresh'
        BY <1>1, <1>2, <1>3, <1>4
    <2>3. ASSUME NEW i \in 1..n, NEW j \in 1..Len(commands')
          PROVE  due'[i] < commands'[j].id
        <3>1. due'[i] = due[i] /\ due[i] < Fresh /\ due[i] \in Nat
            BY <1>1, <1>3, <1>4
        <3>2. CASE \E k \in 1..Len(commands) : commands'[j].id = commands[k].id
            BY <1>3, <3>1, <3>2
        <3>3. CASE commands'[j].id = Fresh
            BY <3>1, <3>3
        <3> QED
            BY <1>4, <3>2, <3>3
    <2>4. ASSUME writer'.at = "deliver"
          PROVE  /\ writer'.item.id < Fresh'
                 /\ \A i \in 1..n : writer'.item.id # due'[i]
                 /\ \A j \in 1..Len(commands') : writer'.item.id < commands'[j].id
        <3>1. writer.at = "deliver" /\ writer'.item.id = writer.item.id
            BY <1>4, <2>4
        <3>2. writer'.item.id < Fresh'
            BY <1>1, <1>2, <1>3, <1>4, <3>1
        <3>3. \A i \in 1..n : writer'.item.id # due'[i]
            BY <1>3, <1>4, <3>1
        <3>4. ASSUME NEW j \in 1..Len(commands')
              PROVE  writer'.item.id < commands'[j].id
            <4>1. CASE \E k \in 1..Len(commands) : commands'[j].id = commands[k].id
                BY <1>3, <3>1, <4>1
            <4>2. CASE commands'[j].id = Fresh
                BY <1>3, <3>1, <4>2
            <4> QED
                BY <1>4, <4>1, <4>2
        <3> QED
            BY <3>2, <3>3, <3>4
    <2>5. \A i, j \in 1..n : i < j => due'[i] < due'[j]
        BY <1>3, <1>4
    <2> QED
        BY <2>1, <2>2, <2>3, <2>4, <2>5 DEF DueInTurn
<1>5. CASE UNCHANGED <<due, writer, gate, commands>>
    <2>1. Fresh' = Fresh
        BY <1>5 DEF Fresh
    <2> QED
        BY <1>2, <1>4, <1>5, <2>1
<1>6. CASE \E c \in Command : Applies(c)
    <2>1. PICK c \in Command : Applies(c)
        BY <1>6
    <2>2. /\ Fresh' = Fresh /\ IsIssued(c) /\ c.id \in Nat /\ c.id < Fresh /\ c = commands[1]
          /\ 1 \in 1..Len(commands)
          /\ \A j \in 1..Len(commands') :
                j + 1 \in 1..Len(commands) /\ commands'[j] = commands[j + 1] /\ c.id < commands'[j].id
        BY <2>1, TakesTheFirst
    <2>3. writer' = writer
        BY <2>1 DEF Applies
    <2>4. \A j \in 1..Len(commands') :
             /\ commands'[j].id \in Nat
             /\ \E k \in 1..Len(commands) : commands'[j].id = commands[k].id
        BY <1>2, <2>2
    <2>5. CASE due' = due
        BY <1>2, <1>4, <2>2, <2>3, <2>4, <2>5
    <2>6. CASE due' = Append(due, c.id)
        <3>1. Len(due') = n + 1 /\ due'[n + 1] = c.id /\ \A i \in 1..n : due'[i] = due[i]
            BY <1>1, <2>2, <2>6, AppendProperties
        <3>2. c.id >= 1 /\ \A i \in 1..n : due[i] < c.id
            BY <1>2, <1>3, <2>2
        <3> HIDE DEF n
        <3>3. \A i \in 1..(n + 1) : i \in 1..n \/ i = n + 1
            BY <1>1
        <3>4. \A i \in 1..(n + 1) : due'[i] >= 1 /\ due'[i] < Fresh'
            BY <1>3, <2>2, <3>1, <3>2, <3>3
        <3>5. ASSUME NEW i \in 1..(n + 1), NEW j \in 1..(n + 1), i < j
              PROVE  due'[i] < due'[j]
            <4>1. i \in 1..n
                BY <1>1, <3>5
            <4>2. CASE j = n + 1
                BY <3>1, <3>2, <4>1, <4>2
            <4>3. CASE j \in 1..n
                BY <1>3, <3>1, <3>5, <4>1, <4>3
            <4> QED
                BY <3>3, <4>2, <4>3
        <3>6. ASSUME NEW i \in 1..(n + 1), NEW j \in 1..Len(commands')
              PROVE  due'[i] < commands'[j].id
            <4>1. CASE i = n + 1
                BY <2>2, <3>1, <4>1
            <4>2. CASE i \in 1..n
                BY <1>3, <2>2, <3>1, <4>2
            <4> QED
                BY <3>3, <4>1, <4>2
        <3>7. ASSUME writer.at = "deliver"
              PROVE  /\ writer.item.id < Fresh'
                     /\ \A i \in 1..(n + 1) : writer.item.id # due'[i]
                     /\ \A j \in 1..Len(commands') : writer.item.id < commands'[j].id
            <4>1. writer.item.id < c.id
                BY <1>3, <2>2, <3>7
            <4> QED
                BY <1>1, <1>3, <2>2, <3>1, <3>3, <3>7, <4>1
        <3> QED
            BY <2>3, <3>1, <3>4, <3>5, <3>6, <3>7 DEF DueInTurn
    <2> QED
        BY <2>1, <2>5, <2>6 DEF Applies
<1>7. CASE Die
    <2>1. UNCHANGED <<gate, due, writer>> /\ 1..Len(commands') = {}
        BY <1>7 DEF Die, DropReceiver
    <2>2. Fresh' = Fresh
        BY <2>1 DEF Fresh
    <2> QED
        BY <1>2, <1>4, <2>1, <2>2
<1>8. CASE (Sender \/ CloseGate) /\ UNCHANGED writerVars
    <2>1. UNCHANGED <<due, writer>>
        BY <1>8 DEF writerVars
    <2> QED
        BY <1>4, <1>8, <2>1, GateMoves
<1>9. CASE (WriterStep \/ EndWithSender(owner.at = "dead")) /\ UNCHANGED gateVars
    <2>1. UNCHANGED <<gate, commands>>
        BY <1>9 DEF gateVars
    <2>2. Fresh' = Fresh
        BY <2>1 DEF Fresh
    <2>3. CASE Flush /\ writer.item.id # 0
        <3>1. /\ writer.at = "write" /\ writer' = [writer EXCEPT !.at = "deliver"] /\ due' = Tail(due)
              /\ BeingWritten
            BY <2>3 DEF Flush, BeingWritten
        <3>2. writer'.item = writer.item
            BY <1>1, <3>1 DEF Writer
        <3>3. due # <<>> /\ due[1] = writer.item.id
            BY <3>1 DEF Delivering
        <3>4. /\ Len(due') = n - 1 /\ n >= 1
              /\ \A i \in 1..(n - 1) : due'[i] = due[i + 1] /\ i + 1 \in 1..n /\ 1 \in 1..n /\ 1 < i + 1
            BY <1>1, <3>1, <3>3, HeadTailProperties
        <3> HIDE DEF n
        <3>5. \A i \in 1..(n - 1) : due'[i] >= 1 /\ due'[i] < Fresh'
            BY <1>3, <2>2, <3>4
        <3>6. \A i, j \in 1..(n - 1) : i < j => due'[i] < due'[j]
            <4>1. \A i, j \in 1..(n - 1) : i < j => i + 1 < j + 1
                BY <1>1
            <4> QED
                BY <1>3, <3>4, <4>1
        <3>7. \A i \in 1..(n - 1) : \A j \in 1..Len(commands') : due'[i] < commands'[j].id
            BY <1>3, <2>1, <3>4
        <3>8. 1 \in 1..n /\ writer'.item.id = due[1]
            BY <1>1, <3>2, <3>3, <3>4
        <3>9. /\ writer'.item.id < Fresh'
              /\ \A i \in 1..(n - 1) : writer'.item.id < due'[i]
              /\ \A j \in 1..Len(commands') : writer'.item.id < commands'[j].id
            BY <1>3, <2>1, <2>2, <3>4, <3>8
        <3>10. \A i \in 1..(n - 1) : writer'.item.id # due'[i]
            <4>1. \A i \in 1..(n - 1) : due'[i] \in Nat
                BY <1>1, <3>4
            <4> QED
                BY <1>1, <3>2, <3>9, <4>1
        <3> QED
            BY <3>4, <3>5, <3>6, <3>7, <3>9, <3>10 DEF DueInTurn
    <2>4. CASE Flush /\ writer.item.id = 0
        <3>1. writer' = [writer EXCEPT !.at = "deliver"] /\ due' = due
            BY <2>4 DEF Flush
        <3>2. writer'.item = writer.item
            BY <1>1, <3>1 DEF Writer
        <3>3. /\ writer'.item.id < Fresh' /\ \A i \in 1..n : writer'.item.id # due'[i]
              /\ \A j \in 1..Len(commands') : writer'.item.id < commands'[j].id
            BY <1>1, <1>2, <1>3, <2>1, <2>2, <2>4, <3>1, <3>2
        <3> QED
            BY <1>3, <2>1, <2>2, <3>1, <3>3 DEF DueInTurn
    <2>5. CASE ~Flush
        <3>1. due' = due /\ writer'.at # "deliver"
            <4>1. writer.at \in {"recv", "write", "deliver", "fail", "ended"}
                BY <1>1 DEF Writer
            <4> QED
                BY <1>1, <1>9, <2>5, <4>1
                DEF WriterStep, ReceiveItem, WriteSome, WriteFails, Deliver, EndAfterFailure,
                    EndWithSender, Writer
        <3> QED
            BY <1>2, <1>4, <2>1, <2>2, <3>1
    <2> QED
        BY <2>3, <2>4, <2>5
<1> QED
    <2>1. CASE Turns \/ (\E item \in Item : Reserves(item)) \/ QueuesReply \/ QueuesInput \/ IsRefused
        <3>1. UNCHANGED <<due, writer, gate, commands>>
            BY <2>1 DEF Turns, Reserves, Reserve, QueuesReply, QueuesInput, QueueItem, IsRefused,
                        FindNoSlot, FindWriterGone, gateVars, writerVars
        <3> QED
            BY <1>5, <3>1
    <2>2. CASE UNCHANGED <<gateVars, writerVars>>
        BY <1>5, <2>2 DEF gateVars, writerVars
    <2> QED
        BY <1>6, <1>7, <1>8, <1>9, <2>1, <2>2, Steps

-----------------------------------------------------------------------------
(* The answers.                                                            *)

LEMMA Answering ==
    ASSUME answers \in AnswersOfCommands, NEW item \in Item, NEW answer \in {"ok", "error"}
    PROVE  /\ Answered(item, answer) \in AnswersOfCommands
           /\ \A id \in 1..MaxCommands :
                 \/ Answered(item, answer)[id] = answers[id]
                 \/ id = item.id /\ Answered(item, answer)[id] = answer
    BY DEF Answered, AnswersOfCommands

LEMMA Losing ==
    ASSUME NEW before \in AnswersOfCommands, NEW ids
    PROVE  /\ Lost(before, ids) \in AnswersOfCommands
           /\ \A id \in 1..MaxCommands :
                 Lost(before, ids)[id] = before[id] \/ Lost(before, ids)[id] = "lost"
    BY DEF Lost, AnswersOfCommands

(* Nothing that was under way comes back.                                  *)
LEMMA PendingShrinks ==
    ASSUME SessionTypeOK, Protocol, Queued, Delivering, [Next]_vars
    PROVE  Pending' \subseteq Pending
<1>1. due \in Seq(Nat) /\ Len(due) \in Nat
    BY DEF SessionTypeOK
<1>2. ASSUME Fresh' = Fresh,
             \A i \in 1..Len(due') :
                \/ \E k \in 1..Len(due) : due'[i] = due[k]
                \/ \E j \in 1..Len(commands) : due'[i] = commands[j].id,
             \A j \in 1..Len(commands') : \E k \in 1..Len(commands) : commands'[j].id = commands[k].id
      PROVE  Pending' \subseteq Pending
    <2> SUFFICES ASSUME NEW id \in Pending'
                 PROVE  id \in Pending
        OBVIOUS
    <2>1. /\ id \in 1..MaxCommands
          /\ \/ \E i \in 1..Len(due') : due'[i] = id
             \/ \E j \in 1..Len(commands') : commands'[j].id = id
             \/ Fresh' <= id
        BY Zenon DEF Pending
    <2> QED
        BY <1>2, <2>1, Zenon DEF Pending
<1>3. CASE UNCHANGED <<due, gate, commands>>
    <2>1. Fresh' = Fresh
        BY <1>3 DEF Fresh
    <2> QED
        BY <1>2, <1>3, <2>1
<1>4. CASE \E c \in Command : Applies(c)
    <2>1. PICK c \in Command : Applies(c)
        BY <1>4
    <2>2. /\ Fresh' = Fresh /\ c.id \in Nat /\ c = commands[1] /\ 1 \in 1..Len(commands)
          /\ \A j \in 1..Len(commands') : j + 1 \in 1..Len(commands) /\ commands'[j] = commands[j + 1]
        BY <2>1, TakesTheFirst
    <2>3. CASE due' = due
        BY <1>2, <2>2, <2>3
    <2>4. CASE due' = Append(due, c.id)
        <3>1. Len(due') = Len(due) + 1 /\ due'[Len(due) + 1] = c.id
              /\ \A i \in 1..Len(due) : due'[i] = due[i]
            BY <1>1, <2>2, <2>4, AppendProperties
        <3>2. \A i \in 1..(Len(due) + 1) : i \in 1..Len(due) \/ i = Len(due) + 1
            BY <1>1
        <3> QED
            BY <1>2, <2>2, <3>1, <3>2
    <2> QED
        BY <2>1, <2>3, <2>4 DEF Applies
<1>5. CASE Die
    <2>1. UNCHANGED <<gate, due>> /\ 1..Len(commands') = {}
        BY <1>5 DEF Die, DropReceiver
    <2>2. Fresh' = Fresh
        BY <2>1 DEF Fresh
    <2> QED
        BY <1>2, <2>1, <2>2
<1>6. CASE (Sender \/ CloseGate) /\ UNCHANGED writerVars
    <2> SUFFICES ASSUME NEW id \in Pending'
                 PROVE  id \in Pending
        OBVIOUS
    <2>1. /\ id \in 1..MaxCommands
          /\ \/ \E i \in 1..Len(due') : due'[i] = id
             \/ \E j \in 1..Len(commands') : commands'[j].id = id
             \/ Fresh' <= id
        BY Zenon DEF Pending
    <2>2. due' = due /\ Fresh \in Nat /\ Fresh' \in Nat /\ Fresh <= Fresh'
        BY <1>6, GateMoves DEF writerVars
    <2>3. CASE \E i \in 1..Len(due') : due'[i] = id
        BY <2>1, <2>2, <2>3 DEF Pending
    <2>4. CASE Fresh' <= id
        <3>1. Fresh <= id
            BY <2>1, <2>2, <2>4, GateAssumption
        <3> QED
            BY <2>1, <3>1 DEF Pending
    <2>5. CASE \E j \in 1..Len(commands') : commands'[j].id = id
        <3>1. (\E k \in 1..Len(commands) : commands[k].id = id) \/ id = Fresh
            BY <1>6, <2>5, GateMoves
        <3>2. Fresh <= Fresh
            BY <2>2
        <3> QED
            BY <2>1, <3>1, <3>2 DEF Pending
    <2> QED
        BY <2>1, <2>3, <2>4, <2>5
<1>7. CASE (WriterStep \/ EndWithSender(owner.at = "dead")) /\ UNCHANGED gateVars
    <2>1. UNCHANGED <<gate, commands>>
        BY <1>7 DEF gateVars
    <2>2. Fresh' = Fresh
        BY <2>1 DEF Fresh
    <2>3. CASE Flush /\ writer.item.id # 0
        <3>1. due' = Tail(due) /\ BeingWritten /\ writer.at = "write"
            BY <2>3 DEF Flush, BeingWritten
        <3>2. due # <<>>
            BY <3>1 DEF Delivering
        <3>3. \A i \in 1..Len(due') : due'[i] = due[i + 1] /\ i + 1 \in 1..Len(due)
            BY <1>1, <3>1, <3>2, HeadTailProperties
        <3> QED
            BY <1>2, <2>1, <2>2, <3>3
    <2>4. CASE ~(Flush /\ writer.item.id # 0)
        <3>1. due' = due
            BY <1>7, <2>4
            DEF WriterStep, ReceiveItem, WriteSome, WriteFails, Flush, Deliver, EndAfterFailure, EndWithSender
        <3> QED
            BY <1>3, <2>1, <3>1
    <2> QED
        BY <2>3, <2>4
<1> QED
    <2>1. CASE Turns \/ (\E item \in Item : Reserves(item)) \/ QueuesReply \/ QueuesInput \/ IsRefused
        <3>1. UNCHANGED <<due, gate, commands>>
            BY <2>1 DEF Turns, Reserves, Reserve, QueuesReply, QueuesInput, QueueItem, IsRefused,
                        FindNoSlot, FindWriterGone, gateVars, writerVars
        <3> QED
            BY <1>3, <3>1
    <2>2. CASE UNCHANGED <<gateVars, writerVars>>
        BY <1>3, <2>2 DEF gateVars, writerVars
    <2> QED
        BY <1>4, <1>5, <1>6, <1>7, <2>1, <2>2, Steps

LEMMA ConfirmationsAreKept ==
    ASSUME SessionTypeOK, Protocol, Queued, DueInTurn, Delivering, NotConfirmed, [Next]_vars
    PROVE  NotConfirmed'
<1>1. /\ answers \in AnswersOfCommands /\ \A id \in Pending : answers[id] # "ok"
      /\ Pending' \subseteq Pending /\ Pending \subseteq 1..MaxCommands
      /\ writer \in Writer /\ writer.item \in Item /\ enqueuing \in Item
    BY PendingShrinks DEF NotConfirmed, Pending, SessionTypeOK, Writer
<1>2. ASSUME answers' \in AnswersOfCommands,
             \A id \in Pending' : answers'[id] = "ok" => answers[id] = "ok"
      PROVE  NotConfirmed'
    BY <1>1, <1>2 DEF NotConfirmed, AnswersOfCommands
<1>3. CASE answers' = answers
    BY <1>1, <1>2, <1>3
<1>4. CASE IsRefused
    <2>1. CASE answers' = Answered(enqueuing, "error")
        <3>1. answers' \in AnswersOfCommands
              /\ \A id \in 1..MaxCommands : answers'[id] = answers[id] \/ answers'[id] = "error"
            BY <1>1, <2>1, Answering
        <3> QED
            BY <1>1, <1>2, <3>1
    <2> QED
        BY <1>3, <1>4, <2>1 DEF IsRefused, FindNoSlot, FindWriterGone
<1>5. CASE \E c \in Command : Applies(c)
    <2>1. PICK c \in Command : Applies(c)
        BY <1>5
    <2>2. CASE answers' = [answers EXCEPT ![c.id] = "ok"] /\ due' = due
        <3>1. /\ Fresh' = Fresh /\ c.id \in Nat /\ c.id < Fresh /\ c = commands[1]
              /\ 1 \in 1..Len(commands)
              /\ \A j \in 1..Len(commands') : commands'[j] = commands[j + 1] /\ j + 1 \in 1..Len(commands)
                                              /\ c.id < commands'[j].id
            BY <2>1, TakesTheFirst
        <3>2. answers' \in AnswersOfCommands
              /\ \A id \in 1..MaxCommands : id # c.id => answers'[id] = answers[id]
            BY <1>1, <2>2 DEF AnswersOfCommands
        <3>3. c.id \notin Pending'
            <4> SUFFICES ASSUME c.id \in Pending'
                         PROVE  FALSE
                OBVIOUS
            <4>1. \/ \E i \in 1..Len(due') : due'[i] = c.id
                  \/ \E j \in 1..Len(commands') : commands'[j].id = c.id
                  \/ Fresh' <= c.id
                BY Zenon DEF Pending
            <4>2. CASE \E i \in 1..Len(due') : due'[i] = c.id
                <5>1. PICK i \in 1..Len(due) : due[i] = c.id
                    BY <2>2, <4>2
                <5>2. due[i] < commands[1].id
                    BY <3>1 DEF DueInTurn
                <5> QED
                    BY <3>1, <5>1, <5>2
            <4>3. CASE \E j \in 1..Len(commands') : commands'[j].id = c.id
                BY <3>1, <4>3
            <4>4. CASE Fresh' <= c.id
                <5>1. Fresh \in Int
                    BY DEF Fresh, SessionTypeOK, Gate
                <5> QED
                    BY <3>1, <4>4, <5>1
            <4> QED
                BY <4>1, <4>2, <4>3, <4>4
        <3> QED
            BY <1>1, <1>2, <3>2, <3>3
    <2> QED
        BY <1>3, <2>1, <2>2 DEF Applies
<1>6. CASE Die
    <2>1. answers' = Lost(answers, {c.id : c \in {commands[i] : i \in DOMAIN commands} \cup {owner.input}})
        BY <1>6 DEF Die
    <2>2. answers' \in AnswersOfCommands
          /\ \A id \in 1..MaxCommands : answers'[id] = answers[id] \/ answers'[id] = "lost"
        BY <1>1, <2>1, Losing
    <2> QED
        BY <1>1, <1>2, <2>2
<1>7. CASE (WriterStep \/ EndWithSender(owner.at = "dead")) /\ UNCHANGED gateVars
    <2>1. CASE Deliver
        <3>1. /\ writer.at = "deliver" /\ answers' = Answered(writer.item, "ok") /\ due' = due
              /\ UNCHANGED <<gate, commands>>
            BY <1>7, <2>1 DEF Deliver, gateVars
        <3>2. Fresh' = Fresh
            BY <3>1 DEF Fresh
        <3>3. answers' \in AnswersOfCommands
              /\ \A id \in 1..MaxCommands : id # writer.item.id => answers'[id] = answers[id]
            BY <1>1, <3>1, Answering
        <3>4. writer.item.id \notin Pending'
            <4> SUFFICES ASSUME writer.item.id \in Pending'
                         PROVE  FALSE
                OBVIOUS
            <4> DEFINE id == writer.item.id
            <4>1. \/ \E i \in 1..Len(due) : due[i] = id
                  \/ \E j \in 1..Len(commands) : commands[j].id = id
                  \/ Fresh <= id
                BY <3>1, <3>2 DEF Pending
            <4>2. /\ id < Fresh /\ \A i \in 1..Len(due) : id # due[i]
                  /\ \A j \in 1..Len(commands) : id < commands[j].id
                BY <3>1 DEF DueInTurn
            <4>3. id \in Int /\ Fresh \in Int
                BY <1>1 DEF Fresh, SessionTypeOK, Gate, Item
            <4> HIDE DEF id
            <4>4. CASE Fresh <= id
                BY <4>2, <4>3, <4>4
            <4>5. CASE \E j \in 1..Len(commands) : commands[j].id = id
                BY <4>2, <4>3, <4>5
            <4> QED
                BY <4>1, <4>2, <4>4, <4>5
        <3> QED
            BY <1>1, <1>2, <3>3, <3>4
    <2>2. CASE EndAfterFailure
        <3> DEFINE told == Answered(writer.item, "error")
                   lost == AskersOf(items)
        <3>1. answers' = Lost(told, lost)
            BY <2>2 DEF EndAfterFailure
        <3>2. told \in AnswersOfCommands
              /\ \A id \in 1..MaxCommands : told[id] = answers[id] \/ told[id] = "error"
            BY <1>1, Answering
        <3> HIDE DEF told, lost
        <3>3. answers' \in AnswersOfCommands
              /\ \A id \in 1..MaxCommands : answers'[id] = told[id] \/ answers'[id] = "lost"
            BY <3>1, <3>2, Losing
        <3> QED
            BY <1>1, <1>2, <3>2, <3>3
    <2>3. CASE ReceiveItem \/ WriteSome \/ Flush \/ WriteFails \/ EndWithSender(owner.at = "dead")
        BY <1>3, <2>3 DEF ReceiveItem, WriteSome, Flush, WriteFails, EndWithSender
    <2> QED
        BY <1>7, <2>1, <2>2, <2>3 DEF WriterStep
<1> QED
    <2>1. CASE Turns \/ (\E item \in Item : Reserves(item)) \/ QueuesReply \/ QueuesInput
        BY <1>3, <2>1 DEF Turns, Reserves, Reserve, QueuesReply, QueuesInput, QueueItem, writerVars
    <2>2. CASE UNCHANGED writerVars
        BY <1>3, <2>2 DEF writerVars
    <2> QED
        BY <1>4, <1>5, <1>6, <1>7, <2>1, <2>2, Steps

-----------------------------------------------------------------------------
(* The input on its way.                                                   *)

LEMMA InputsAreCounted ==
    ASSUME NEW s \in Seq(Item)
    PROVE  /\ InputsOf(s) \in Seq(Nat) /\ Len(InputsOf(s)) = Len(s) /\ Len(s) \in Nat
           /\ \A i \in 1..Len(s) : InputsOf(s)[i] = (IF s[i].id = 0 THEN 0 ELSE 1) /\ s[i] \in Item
    BY DEF InputsOf

(* Where an item's end is in what is due.                                  *)
LEMMA EndsAreDue ==
    ASSUME NEW s \in Seq(Item), NEW from \in Nat, NEW to \in Nat,
           NEW ends \in Counts(InputsOf(s), from, to), NEW i \in 1..Len(s)
    PROVE  /\ ends[i] \in 0..to /\ ends[i - 1] \in 0..to
           /\ s[i].id # 0 => ends[i] = ends[i - 1] + 1 /\ ends[i] \in 1..to
<1>1. InputsOf(s) \in Seq(Nat) /\ Len(InputsOf(s)) = Len(s) /\ Len(s) \in Nat
      /\ InputsOf(s)[i] = (IF s[i].id = 0 THEN 0 ELSE 1)
    BY InputsAreCounted
<1>2. i \in 0..Len(s) /\ i - 1 \in 0..Len(s) /\ i \in 1..Len(s)
    BY <1>1
<1>3. ends[i] \in 0..to /\ ends[i - 1] \in 0..to /\ ends[i] = ends[i - 1] + InputsOf(s)[i]
    BY <1>1, <1>2, CountsFacts
<1>4. ASSUME s[i].id # 0
      PROVE  ends[i] = ends[i - 1] + 1 /\ ends[i] \in 1..to
    BY <1>1, <1>3, <1>4
<1> QED
    BY <1>3, <1>4

LEMMA WayOfAppended ==
    ASSUME NEW s \in Seq(Item), NEW item \in Item, NEW from \in Nat, NEW d \in Seq(Nat),
           NEW held \in Nat, held <= Len(d), OnItsWay(s, from, d, held),
           NEW more \in Nat, more = (IF item.id = 0 THEN 0 ELSE 1), more <= held,
           item.id # 0 => d[(Len(d) - held) + 1] = item.id
    PROVE  OnItsWay(Append(s, item), from, d, held - more)
<1> DEFINE t == Append(s, item)
           n == Len(s)
           to == Len(d) - held
           a == InputsOf(s)
           b == InputsOf(t)
<1>1. /\ t \in Seq(Item) /\ Len(t) = n + 1 /\ n \in Nat /\ t[n + 1] = item
      /\ \A i \in 1..n : t[i] = s[i]
    BY AppendProperties
<1>2. to \in Nat /\ Len(d) - (held - more) = to + more
    OBVIOUS
<1>3. PICK ends \in Counts(a, from, to) : \A i \in 1..n : s[i].id # 0 => d[ends[i]] = s[i].id
    BY DEF OnItsWay
<1> HIDE DEF t
<1>4. /\ a \in Seq(Nat) /\ Len(a) = n /\ \A i \in 1..n : a[i] = (IF s[i].id = 0 THEN 0 ELSE 1)
      /\ b \in Seq(Nat) /\ Len(b) = n + 1
      /\ \A i \in 1..(n + 1) : b[i] = (IF t[i].id = 0 THEN 0 ELSE 1)
    BY <1>1, InputsAreCounted
<1> HIDE DEF n, to, a, b
<1>5. n + 1 \in 1..(n + 1) /\ \A i \in 1..n : i \in 1..(n + 1)
    BY <1>1
<1>6. Len(b) = Len(a) + 1 /\ b[Len(b)] = more /\ \A i \in 1..Len(a) : b[i] = a[i]
    BY <1>1, <1>4, <1>5
<1>7. PICK after \in Counts(b, from, to + b[Len(b)]) :
         /\ \A i \in 0..Len(a) : after[i] = ends[i]
         /\ after[Len(b)] = to + b[Len(b)]
    <2>1. WithMore(a, b, from, to, ends)
        BY <1>2, <1>3, <1>4, <1>6, CountsAppend
    <2> QED
        BY <2>1 DEF WithMore
<1>8. \A i \in 0..n : after[i] = ends[i]
    BY <1>4, <1>7
<1>9. after \in Counts(b, from, to + more) /\ after[n + 1] = to + more
    BY <1>4, <1>6, <1>7
<1>10. ASSUME NEW i \in 1..(n + 1), t[i].id # 0
       PROVE  d[after[i]] = t[i].id
    <2>1. CASE i = n + 1
        <3>1. more = 1 /\ t[i] = item
            BY <1>1, <1>10, <2>1
        <3> QED
            BY <1>9, <1>10, <2>1, <3>1 DEF to
    <2>2. CASE i \in 1..n
        <3>1. i \in 0..n
            BY <1>1, <2>2
        <3> QED
            BY <1>1, <1>3, <1>8, <1>10, <2>2, <3>1
    <2> QED
        BY <1>1, <2>1, <2>2
<1> QED
    BY ZenonT(40), <1>1, <1>2, <1>9, <1>10 DEF OnItsWay, b, t

LEMMA WayOfMoreDue ==
    ASSUME NEW s \in Seq(Item), NEW from \in Nat, NEW d \in Seq(Nat), NEW x \in Nat,
           OnItsWay(s, from, d, 0)
    PROVE  OnItsWay(s, from, Append(d, x), 1)
<1> DEFINE e == Append(d, x)
           to == Len(d)
<1>1. Len(e) - 1 = to /\ to \in Nat /\ \A k \in 1..to : e[k] = d[k]
    BY AppendProperties
<1>2. to - 0 = to
    BY <1>1
<1>3. PICK ends \in Counts(InputsOf(s), from, to) : \A i \in 1..Len(s) : s[i].id # 0 => d[ends[i]] = s[i].id
    BY <1>2 DEF OnItsWay
<1> HIDE DEF e, to
<1>4. \A i \in 1..Len(s) : s[i].id # 0 => ends[i] \in 1..to
    BY <1>1, EndsAreDue
<1>5. \A i \in 1..Len(s) : s[i].id # 0 => e[ends[i]] = s[i].id
    BY <1>1, <1>3, <1>4
<1> QED
    BY <1>1, <1>3, <1>5 DEF OnItsWay, e

LEMMA WayOfTaken ==
    ASSUME NEW s \in Seq(Item), NEW d \in Seq(Nat), NEW held \in Nat, held <= Len(d),
           s # <<>>, OnItsWay(s, 0, d, held)
    PROVE  LET from == IF Head(s).id = 0 THEN 0 ELSE 1
           IN  /\ OnItsWay(Tail(s), from, d, held)
               /\ Head(s).id # 0 => Len(d) >= 1 /\ d[1] = Head(s).id
<1> DEFINE t == Tail(s)
           n == Len(t)
           to == Len(d) - held
           a == InputsOf(s)
           b == InputsOf(t)
           from == IF Head(s).id = 0 THEN 0 ELSE 1
           zero == 0
<1>1. /\ t \in Seq(Item) /\ Len(s) = n + 1 /\ n \in Nat /\ Head(s) = s[1] /\ to \in Nat /\ from \in Nat
      /\ \A i \in 1..n : t[i] = s[i + 1]
    BY HeadTailProperties
<1>2. PICK ends \in Counts(a, zero, to) : \A i \in 1..Len(s) : s[i].id # 0 => d[ends[i]] = s[i].id
    BY DEF OnItsWay
<1> HIDE DEF t, n
<1>3. /\ a \in Seq(Nat) /\ Len(a) = n + 1 /\ \A i \in 1..(n + 1) : a[i] = (IF s[i].id = 0 THEN 0 ELSE 1)
      /\ b \in Seq(Nat) /\ Len(b) = n /\ \A i \in 1..n : b[i] = (IF t[i].id = 0 THEN 0 ELSE 1)
    BY <1>1, InputsAreCounted DEF n
<1>4. \A i \in 1..n : i + 1 \in 1..(n + 1)
    BY <1>1
<1>5. /\ Len(a) >= 1 /\ Len(b) = Len(a) - 1 /\ a[1] = from
      /\ \A i \in 1..Len(b) : b[i] = a[i + 1]
    <2>1. 1 \in 1..(n + 1) /\ n + 1 >= 1 /\ (n + 1) - 1 = n
        BY <1>1
    <2>2. a[1] = from
        BY <1>1, <1>3, <2>1
    <2>3. \A i \in 1..n : b[i] = a[i + 1]
        BY ZenonT(40), <1>1, <1>3, <1>4
    <2> QED
        BY <1>1, <1>3, <2>1, <2>2, <2>3
<1>6. zero \in Nat /\ zero <= zero + a[1] /\ (zero + a[1]) - zero = from /\ to - zero = to
    BY <1>1, <1>5
<1>7. ASSUME Head(s).id # 0
      PROVE  Len(d) >= 1 /\ d[1] = Head(s).id
    <2>1. 1 \in 1..Len(s) /\ 1 - 1 = 0
        BY <1>1
    <2>2. ends[1] = ends[1 - 1] + 1 /\ ends[1] \in 1..to
        BY <1>1, <1>6, <1>7, <2>1, EndsAreDue
    <2>3. ends[0] = zero
        BY <1>3, CountsFacts
    <2>4. ends[1] = 1
        BY <2>1, <2>2, <2>3
    <2> QED
        BY <1>1, <1>2, <1>7, <2>1, <2>2, <2>4
<1> HIDE DEF a, b, zero, to, from
<1>8. WithoutFirst(a, b, zero, to, zero, ends)
    BY <1>1, <1>3, <1>5, <1>6, CountsTail
<1>9. PICK after \in Counts(b, from, to) : \A i \in 0..n : after[i] = ends[i + 1] - zero
    BY <1>3, <1>6, <1>8 DEF WithoutFirst
<1>10. ASSUME NEW i \in 1..n, t[i].id # 0
       PROVE  d[after[i]] = t[i].id
    <2>1. i \in 0..n /\ i + 1 \in 1..(n + 1) /\ i + 1 \in 1..Len(s)
        BY <1>1, <1>4
    <2>2. ends[i + 1] \in 0..to
        BY <1>1, <1>6, <2>1, EndsAreDue DEF a
    <2>3. after[i] = ends[i + 1]
        BY <1>9, <2>1, <2>2 DEF zero
    <2> QED
        BY <1>1, <1>2, <1>10, <2>1, <2>3
<1> QED
    BY <1>1, <1>7, <1>9, <1>10 DEF OnItsWay, b, t, from, to, n

LEMMA WayOfWritten ==
    ASSUME NEW s \in Seq(Item), NEW d \in Seq(Nat), NEW held \in Nat, held <= Len(d),
           OnItsWay(s, 1, d, held)
    PROVE  /\ held + 1 <= Len(d)
           /\ OnItsWay(s, 0, Tail(d), held)
<1> DEFINE e == Tail(d)
           n == Len(s)
           to == Len(d) - held
           a == InputsOf(s)
           one == 1
<1>1. PICK ends \in Counts(a, one, to) : \A i \in 1..n : s[i].id # 0 => d[ends[i]] = s[i].id
    BY DEF OnItsWay
<1>2. a \in Seq(Nat) /\ Len(a) = n /\ n \in Nat /\ to \in Nat /\ one \in Nat
    BY InputsAreCounted
<1>3. one <= one /\ one - one = 0
    OBVIOUS
<1>4. Shifted(a, one, to, one, ends)
    <2> HIDE DEF a, one, to
    <2> QED
        BY <1>1, <1>2, <1>3, CountsShift
<1>5. one <= to /\ held + 1 <= Len(d) /\ d # <<>>
    BY <1>2, <1>4 DEF Shifted
<1>6. /\ Len(e) = Len(d) - 1 /\ \A k \in 1..(Len(d) - 1) : e[k] = d[k + 1]
    BY <1>5, HeadTailProperties
<1>7. Len(e) - held = to - one
    BY <1>6
<1>8. PICK after \in Counts(a, 0, to - one) : \A i \in 0..n : after[i] = ends[i] - one
    BY <1>2, <1>3, <1>4 DEF Shifted
<1>9. ASSUME NEW i \in 1..n, s[i].id # 0
      PROVE  e[after[i]] = s[i].id
    <2>1. i \in 0..n /\ i - 1 \in 0..n
        BY <1>2
    <2>2. ends[i] = ends[i - 1] + 1 /\ ends[i] \in 1..to /\ ends[i - 1] \in 0..to
        BY <1>1, <1>2, <1>9, EndsAreDue
    <2>3. one <= ends[i - 1]
        <3> HIDE DEF a, to, one
        <3>1. one <= ends[i - 1]
            BY <1>1, <1>2, <2>1, CountsGrow
        <3> QED
            BY <3>1
    <2>4. ends[i] - 1 \in 1..(Len(d) - 1) /\ (ends[i] - 1) + 1 = ends[i]
        BY SMTT(30), <2>2, <2>3
    <2>5. after[i] = ends[i] - 1
        BY <1>8, <2>1
    <2>6. e[ends[i] - 1] = d[ends[i]]
        BY <1>6, <2>4
    <2> QED
        BY <1>1, <1>9, <2>5, <2>6
<1> QED
    BY <1>5, <1>7, <1>8, <1>9 DEF OnItsWay

(* Nobody brings a writer back that ended, and only it writes items.       *)
LEMMA WriterMoves ==
    ASSUME SessionTypeOK, Protocol, [Next]_vars, writer'.at # "ended"
    PROVE  writer.at # "ended"
<1>1. CASE WriterStep
    BY <1>1 DEF WriterStep, ReceiveItem, WriteSome, Flush, WriteFails, Deliver, EndAfterFailure
<1>2. CASE EndWithSender(owner.at = "dead")
    BY <1>2 DEF EndWithSender
<1>3. CASE writer' = writer
    BY <1>3
<1>4. CASE Turns \/ (\E item \in Item : Reserves(item)) \/ QueuesReply \/ QueuesInput \/ IsRefused
           \/ (\E c \in Command : Applies(c)) \/ Die
    <2>1. writer' = writer
        BY <1>4 DEF Turns, Reserves, Reserve, QueuesReply, QueuesInput, QueueItem, IsRefused,
                    FindNoSlot, FindWriterGone, Applies, Die, writerVars
    <2> QED
        BY <1>3, <2>1
<1> QED
    BY <1>1, <1>2, <1>3, <1>4, Steps DEF writerVars

(* What is on its way is bounded by what is due.                           *)
LEMMA WayIsDue ==
    ASSUME NEW s \in Seq(Item), NEW from \in Nat, NEW d \in Seq(Nat), NEW held \in Nat,
           OnItsWay(s, from, d, held)
    PROVE  held <= Len(d)
<1> DEFINE to == Len(d) - held
           a == InputsOf(s)
<1>1. PICK ends \in Counts(a, from, to) : TRUE
    BY DEF OnItsWay
<1>2. a \in Seq(Nat) /\ Len(a) \in Nat /\ to \in Int
    BY InputsAreCounted
<1> HIDE DEF to, a
<1>3. ends[Len(a)] = to /\ ends[Len(a)] \in 0..to
    <2>1. ends \in [0..Len(a) -> 0..to] /\ ends[Len(a)] = to
        BY <1>1 DEF Counts
    <2>2. Len(a) \in 0..Len(a)
        BY <1>2
    <2> QED
        BY <2>1, <2>2
<1>4. to >= 0
    BY <1>2, <1>3
<1> QED
    BY <1>4 DEF to

LEMMA DeliveringIsKept ==
    ASSUME SessionTypeOK, Protocol, Queued, Delivering, [Next]_vars
    PROVE  Delivering'
<1> SUFFICES ASSUME writer'.at # "ended"
             PROVE  Delivering'
    BY DEF Delivering
<1>1. /\ due \in Seq(Nat) /\ items \in Seq(Item) /\ writer \in Writer /\ writer.item \in Item
      /\ owner \in Owner /\ owner.input \in Command /\ enqueuing \in Item
      /\ writer.item.id \in Nat
    BY DEF SessionTypeOK, Writer, Owner, Item
<1>2. writer.at # "ended"
    BY WriterMoves
<1>3. /\ BeingWritten => due # <<>> /\ due[1] = writer.item.id
      /\ ~Ended /\ owner.input # None => due # <<>> /\ due[Len(due)] = owner.input.id
    BY <1>2 DEF Delivering
<1>4. PICK held \in 0..1 :
         /\ ~Ended => held = IF owner.input = None THEN 0 ELSE 1
         /\ OnItsWay(items, Written, due, held)
    BY <1>2 DEF Delivering
<1>5. Written \in {0, 1} /\ held \in Nat /\ held <= Len(due)
    <2>1. Written \in {0, 1} /\ Written \in Nat /\ held \in Nat
        BY <1>4 DEF Written
    <2> QED
        BY <1>1, <1>4, <2>1, WayIsDue
<1>6. ASSUME UNCHANGED <<due, items>>, BeingWritten' <=> BeingWritten,
             BeingWritten' => writer'.item = writer.item,
             ~Ended' => ~Ended /\ owner'.input = owner.input
      PROVE  Delivering'
    <2>1. Written' = Written
        BY <1>6 DEF Written
    <2>2. OnItsWay(items', Written', due', held)
        BY <1>4, <1>6, <2>1
    <2> QED
        BY <1>3, <1>4, <1>6, <2>2 DEF Delivering
(* The steps that change neither the input held nor what is on its way.    *)
<1>7. CASE Turns \/ (\E item \in Item : Reserves(item))
    <2>1. UNCHANGED <<due, items, writer>> /\ owner'.input = owner.input /\ ~Ended
        BY <1>7 DEF Turns, Reserves, Reserve, Turned, writerVars
    <2> QED
        BY <1>6, <2>1 DEF BeingWritten
<1>8. CASE IsRefused
    <2>1. UNCHANGED <<due, items, writer>> /\ owner'.input = owner.input /\ ~Ended
        BY <1>2, <1>8 DEF IsRefused, FindNoSlot, FindWriterGone, Turned
    <2> QED
        BY <1>6, <2>1 DEF BeingWritten
<1>9. CASE UNCHANGED <<writerVars, owner>>
    <2>1. UNCHANGED <<due, items, writer, owner>>
        BY <1>9 DEF writerVars
    <2> QED
        BY <1>6, <2>1 DEF BeingWritten, Ended
<1>10. CASE Die
    <2>1. UNCHANGED <<due, items, writer>> /\ owner'.at = "dead"
        BY <1>1, <1>10 DEF Die, Owner
    <2> QED
        BY <1>6, <2>1 DEF BeingWritten, Ended
(* The owner hands an item on.                                             *)
<1>11. CASE QueuesReply
    <2>1. UNCHANGED <<due, writer>> /\ owner'.input = owner.input /\ ~Ended
          /\ enqueuing.id = 0 /\ items' = Append(items, enqueuing)
        BY <1>11, Values DEF QueuesReply, QueueItem, Turned
    <2>2. Written' = Written /\ (BeingWritten' <=> BeingWritten)
        BY <2>1 DEF Written, BeingWritten
    <2>3. OnItsWay(Append(items, enqueuing), Written, due, held - 0)
        <3>1. 0 \in Nat /\ 0 <= held /\ Written \in Nat
            BY <1>5
        <3> QED
            BY <1>1, <1>4, <1>5, <2>1, <3>1, WayOfAppended
    <2>4. OnItsWay(items', Written', due', held)
        BY <1>5, <2>1, <2>2, <2>3
    <2> QED
        BY <1>3, <1>4, <2>1, <2>2, <2>4 DEF Delivering
<1>12. CASE QueuesInput
    <2>1. /\ UNCHANGED <<due, writer>> /\ owner'.input = None /\ ~Ended /\ owner.input # None
          /\ enqueuing.id = owner.input.id /\ items' = Append(items, enqueuing)
        BY <1>1, <1>12, Values DEF QueuesInput, QueueItem
    <2>2. Written' = Written /\ (BeingWritten' <=> BeingWritten)
        BY <2>1 DEF Written, BeingWritten
    <2>3. /\ enqueuing.id # 0 /\ held = 1 /\ due[Len(due)] = enqueuing.id /\ Len(due) >= 1
        BY <1>1, <1>3, <1>4, <1>5, <2>1 DEF Protocol, Command
    <2>4. OnItsWay(Append(items, enqueuing), Written, due, held - 1)
        <3>1. 1 \in Nat /\ 1 <= held /\ Written \in Nat /\ (Len(due) - held) + 1 = Len(due)
            BY <1>1, <1>5, <2>3
        <3> QED
            BY <1>1, <1>4, <1>5, <2>3, <3>1, WayOfAppended
    <2>5. OnItsWay(items', Written', due', 0)
        BY <2>1, <2>2, <2>3, <2>4
    <2> QED
        BY <1>3, <2>1, <2>2, <2>5 DEF Delivering
(* The owner encodes the next input, and holds it.                         *)
<1>13. CASE \E c \in Command : Applies(c)
    <2>1. PICK c \in Command : Applies(c)
        BY <1>13
    <2>2. UNCHANGED <<items, writer>> /\ owner.input = None /\ ~Ended /\ c.id \in Nat
        BY <2>1 DEF Applies, Ended, InputPlaces, Command
    <2>3. CASE due' = Append(due, c.id) /\ owner'.input = c
        <3>1. Written' = Written /\ (BeingWritten' <=> BeingWritten)
            BY <2>2 DEF Written, BeingWritten
        <3>2. OnItsWay(items, Written, due, 0)
            BY <1>4, <2>2
        <3>3. OnItsWay(items', Written', due', 1)
            <4>1. Written \in Nat
                BY <1>5
            <4>2. OnItsWay(items, Written, Append(due, c.id), 1)
                BY <1>1, <2>2, <3>2, <4>1, WayOfMoreDue
            <4> QED
                BY <2>2, <2>3, <3>1, <4>2
        <3>4. /\ due' # <<>> /\ due'[Len(due')] = owner'.input.id
              /\ due # <<>> => due'[1] = due[1]
            BY <1>1, <2>2, <2>3, AppendProperties
        <3>5. c # None
            BY <2>1, Values, TakesTheFirst DEF IsIssued, Kinds
        <3> QED
            BY <1>3, <2>2, <2>3, <3>1, <3>3, <3>4, <3>5 DEF Delivering
    <2>4. CASE due' = due /\ owner'.input = owner.input
        BY <1>6, <2>2, <2>4 DEF BeingWritten
    <2> QED
        BY <2>1, <2>3, <2>4 DEF Applies, Turned
(* The writer takes an item, writes it and delivers it.                    *)
<1>14. CASE (WriterStep \/ EndWithSender(owner.at = "dead")) /\ owner' = owner
    <2>1. Ended' = Ended
        BY <1>14 DEF Ended
    <2>2. CASE ReceiveItem
        <3> DEFINE from == IF Head(items).id = 0 THEN 0 ELSE 1
        <3>1. /\ writer.at = "recv" /\ items # <<>> /\ items' = Tail(items) /\ due' = due
              /\ writer' = [at |-> "write", item |-> Head(items), left |-> Head(items).bytes]
            BY <2>2 DEF ReceiveItem
        <3>2. Written = 0
            BY <3>1 DEF Written, BeingWritten
        <3>3. writer'.at = "write" /\ writer'.item = Head(items)
            BY <3>1
        <3>4. Written' = from /\ (BeingWritten' => Head(items).id # 0)
            BY <3>3 DEF Written, BeingWritten
        <3> HIDE DEF from
        <3>5. /\ OnItsWay(Tail(items), from, due, held)
              /\ Head(items).id # 0 => Len(due) >= 1 /\ due[1] = Head(items).id
            BY <1>1, <1>4, <1>5, <3>1, <3>2, WayOfTaken DEF from
        <3>6. OnItsWay(items', Written', due', held)
            BY <3>1, <3>4, <3>5
        <3>7. BeingWritten' => due' # <<>> /\ due'[1] = writer'.item.id
            BY <1>1, <3>1, <3>3, <3>4, <3>5
        <3> QED
            BY <1>3, <1>4, <1>14, <2>1, <3>1, <3>6, <3>7 DEF Delivering
    <2>3. CASE WriteSome \/ WriteFails
        <3>1. UNCHANGED <<due, items>> /\ writer.at = "write" /\ writer'.at \in {"write", "fail"}
              /\ writer'.item = writer.item
            BY <1>1, <2>3 DEF WriteSome, WriteFails, Writer
        <3> QED
            BY <1>6, <1>14, <2>1, <3>1 DEF BeingWritten
    <2>4. CASE Flush
        <3>1. /\ writer.at = "write" /\ writer'.at = "deliver" /\ items' = items
              /\ due' = IF writer.item.id = 0 THEN due ELSE Tail(due)
            BY <1>1, <2>4 DEF Flush, Writer
        <3>2. ~BeingWritten' /\ Written' = 0
            BY <3>1 DEF Written, BeingWritten
        <3>3. CASE writer.item.id = 0
            BY <1>6, <1>14, <2>1, <3>1, <3>2, <3>3 DEF BeingWritten
        <3>4. CASE writer.item.id # 0
            <4>1. BeingWritten /\ Written = 1 /\ due' = Tail(due)
                BY <3>1, <3>4 DEF Written, BeingWritten
            <4>2. held + 1 <= Len(due) /\ OnItsWay(items, 0, Tail(due), held)
                BY <1>1, <1>4, <1>5, <4>1, WayOfWritten
            <4>3. OnItsWay(items', Written', due', held)
                BY <3>1, <3>2, <4>1, <4>2
            <4>4. ASSUME ~Ended', owner'.input # None
                  PROVE  due' # <<>> /\ due'[Len(due')] = owner'.input.id
                <5>1. held = 1 /\ due # <<>> /\ due[Len(due)] = owner.input.id
                    BY <1>3, <1>4, <1>14, <2>1, <4>4
                <5>2. Len(due') = Len(due) - 1 /\ Len(due) \in Nat /\ due' \in Seq(Nat)
                      /\ \A k \in 1..(Len(due) - 1) : due'[k] = due[k + 1]
                    BY <1>1, <4>1, <5>1, HeadTailProperties
                <5>3. Len(due) - 1 \in 1..(Len(due) - 1) /\ (Len(due) - 1) + 1 = Len(due)
                    BY <4>2, <5>1, <5>2
                <5> QED
                    BY <1>14, <5>1, <5>2, <5>3
            <4> QED
                BY <1>4, <1>14, <2>1, <3>2, <4>3, <4>4 DEF Delivering
        <3> QED
            BY <3>3, <3>4
    <2>5. CASE Deliver
        <3>1. UNCHANGED <<due, items>> /\ writer.at = "deliver" /\ writer'.at = "recv"
            BY <2>5 DEF Deliver
        <3> QED
            BY <1>6, <1>14, <2>1, <3>1 DEF BeingWritten
    <2>6. CASE EndAfterFailure \/ EndWithSender(owner.at = "dead")
        BY <1>1, <2>6 DEF EndAfterFailure, EndWithSender, Writer
    <2> QED
        BY <1>14, <2>2, <2>3, <2>4, <2>5, <2>6 DEF WriterStep
<1> QED
    BY <1>7, <1>8, <1>9, <1>10, <1>11, <1>12, <1>13, <1>14, Steps DEF writerVars

-----------------------------------------------------------------------------
(* The theorems.                                                           *)

LEMMA InitIsSound ==
    ASSUME Init
    PROVE  IInv
<1>1. /\ commands = <<>> /\ charged = 0 /\ receiving = TRUE /\ promised = <<>>
      /\ gate = [open |-> TRUE, scroll |-> 0, at |-> "free", command |-> None, seen |-> 0, next |-> 1]
      /\ items = <<>> /\ enqueuing = NoItem /\ reserved = 0 /\ due = <<>>
      /\ writer = [at |-> "recv", item |-> NoItem, left |-> 0]
      /\ answers = [id \in 1..MaxCommands |-> "none"]
      /\ owner = [at |-> "top", effect |-> FALSE, effects |-> 0, overflowed |-> FALSE,
                  input |-> None, turn |-> 0, batch |-> 0]
    BY DEF Init, GateInit, WriterInit
<1>2. SessionTypeOK
    <2>1. gate \in Gate
        BY <1>1, Values DEF Gate
    <2>2. owner \in Owner
        BY <1>1, Values DEF Owner, Places
    <2>3. writer \in Writer
        BY <1>1, Values DEF Writer
    <2> QED
        BY <1>1, <2>1, <2>2, <2>3, Values DEF SessionTypeOK
<1>3. /\ owner.input = None /\ owner.at = "top" /\ ~Ended /\ writer.at = "recv" /\ writer.item = NoItem
      /\ gate.at = "free" /\ gate.next = 1 /\ Len(commands) = 0 /\ Len(items) = 0 /\ Len(due) = 0
      /\ Len(promised) = 0
    BY <1>1 DEF Ended
<1>4. Protocol
    BY <1>1, <1>3 DEF Protocol, Handing
<1>5. Queued
    BY <1>3, GateAssumption DEF Queued
<1>6. ChargedRight
    <2>1. Charging = 0 /\ InQueue = 0
        BY <1>1, <1>3, Values DEF Charging, InQueue
    <2>2. Len(CostsOf(commands)) = 0
        BY <1>2, <1>3, CostsAreCounted DEF SessionTypeOK
    <2>3. Counts(CostsOf(commands), 0, 0) # {}
        BY <2>2, CountsNothing
    <2> QED
        BY <1>1, <2>1, <2>3, GateAssumption DEF ChargedRight
<1>7. ReservedRight
    <2>1. Admitted = 0 /\ enqueuing.bytes = 0
        BY <1>1, <1>3, Values DEF Admitted
    <2>2. Len(BytesOf(items)) = 0
        BY <1>2, <1>3, BytesAreCounted DEF SessionTypeOK
    <2>3. Counts(BytesOf(items), 0, 0) # {}
        BY <2>2, CountsNothing
    <2> QED
        BY <1>1, <2>1, <2>3, WriterAssumption DEF ReservedRight
<1>8. CommandsKeepTheirOrder
    <2>1. Len([i \in DOMAIN commands |-> Size(commands[i])]) = 0 /\ DOMAIN commands = {}
        BY <1>1
    <2>2. Counts([i \in DOMAIN commands |-> Size(commands[i])], 0, 0) # {}
        BY <2>1, CountsNothing
    <2> QED
        BY <1>3, <2>1, <2>2 DEF CommandsKeepTheirOrder
<1>9. DueInTurn
    BY <1>3 DEF DueInTurn
<1>10. Delivering
    <2>1. ~BeingWritten /\ Written = 0
        BY <1>3 DEF BeingWritten, Written
    <2>2. Counts(InputsOf(items), 0, 0) # {}
        <3>1. Len(InputsOf(items)) = 0
            BY <1>2, <1>3, InputsAreCounted DEF SessionTypeOK
        <3> QED
            BY <3>1, CountsNothing
    <2>3. OnItsWay(items, Written, due, 0)
        BY <1>3, <2>1, <2>2 DEF OnItsWay
    <2> QED
        BY <1>3, <2>1, <2>3 DEF Delivering
<1>11. NotConfirmed
    BY <1>1 DEF NotConfirmed, AnswersOfCommands, Pending
<1> QED
    BY <1>2, <1>4, <1>5, <1>6, <1>7, <1>8, <1>9, <1>10, <1>11 DEF IInv

LEMMA StepKeepsInvariant ==
    ASSUME IInv, [Next]_vars
    PROVE  IInv'
<1>1. /\ SessionTypeOK /\ Protocol /\ Queued /\ ChargedRight /\ ReservedRight
      /\ CommandsKeepTheirOrder /\ DueInTurn /\ Delivering /\ NotConfirmed
    BY DEF IInv
<1>2. SessionTypeOK'
    BY <1>1, TypesAreKept
<1>3. Protocol'
    BY <1>1, ProtocolIsKept
<1>4. Queued'
    BY <1>1, QueuedIsKept
<1>5. ChargedRight'
    BY <1>1, ChargesAreKept
<1>6. ReservedRight'
    BY <1>1, ReservationsAreKept
<1>7. CommandsKeepTheirOrder'
    BY <1>1, OrderIsKept
<1>8. DueInTurn'
    BY <1>1, TurnsAreKept
<1>9. Delivering'
    BY <1>1, DeliveringIsKept
<1>10. NotConfirmed'
    BY <1>1, ConfirmationsAreKept
<1> QED
    BY <1>2, <1>3, <1>4, <1>5, <1>6, <1>7, <1>8, <1>9, <1>10 DEF IInv

LEMMA InvariantAccountsForBytes ==
    ASSUME IInv
    PROVE  BytesAreAccounted
<1>1. ChargedRight /\ ReservedRight
    BY DEF IInv
<1>2. charged \in 0..CommandBytes /\ reserved \in 0..InputBytes
    BY <1>1 DEF ChargedRight, ReservedRight
<1>3. ASSUME ~Ended
      PROVE  Counts([i \in DOMAIN commands |-> Cost(commands[i])], 0,
                    charged - Cost(owner.input)
                       - (IF gate.at = "push" THEN Cost(gate.command) ELSE 0)) # {}
    BY <1>1, <1>3 DEF ChargedRight, CostsOf, InQueue, Charging
<1>4. ASSUME writer.at # "ended"
      PROVE  Counts([i \in DOMAIN items |-> items[i].bytes], 0,
                    reserved - enqueuing.bytes - writer.item.bytes) # {}
    BY <1>1, <1>4 DEF ReservedRight, BytesOf, Admitted
<1> QED
    BY <1>2, <1>3, <1>4 DEF BytesAreAccounted

LEMMA InvariantDeliversInOrder ==
    ASSUME IInv
    PROVE  InputIsDeliveredInOrder
<1>1. SessionTypeOK /\ Queued /\ DueInTurn /\ Delivering /\ NotConfirmed
    BY DEF IInv
<1>2. due \in Seq(Nat) /\ items \in Seq(Item)
    BY <1>1 DEF SessionTypeOK
<1>3. ASSUME ~Ended, writer.at # "ended"
      PROVE  /\ BeingWritten => due # <<>> /\ due[1] = writer.item.id
             /\ owner.input # None => due # <<>> /\ due[Len(due)] = owner.input.id
             /\ \E ends \in Counts([i \in DOMAIN items |-> IF items[i].id = 0 THEN 0 ELSE 1],
                                   IF BeingWritten THEN 1 ELSE 0,
                                   Len(due) - (IF owner.input = None THEN 0 ELSE 1)) :
                   \A i \in DOMAIN items : items[i].id # 0 => due[ends[i]] = items[i].id
    <2>1. /\ BeingWritten => due # <<>> /\ due[1] = writer.item.id
          /\ owner.input # None => due # <<>> /\ due[Len(due)] = owner.input.id
          /\ OnItsWay(items, Written, due, IF owner.input = None THEN 0 ELSE 1)
        BY <1>1, <1>3 DEF Delivering
    <2>2. DOMAIN items = 1..Len(items)
        BY <1>2
    <2> QED
        BY <2>1, <2>2 DEF OnItsWay, InputsOf, Written
<1>4. ASSUME NEW i \in DOMAIN due
      PROVE  answers[due[i]] # "ok"
    <2>1. i \in 1..Len(due) /\ due[i] \in Nat
        BY <1>2
    <2>2. due[i] >= 1 /\ due[i] < Fresh
        BY <1>1, <2>1 DEF DueInTurn
    <2>3. Fresh \in Int /\ Fresh <= MaxCommands + 1
        BY <1>1, GateAssumption DEF Fresh, Queued, SessionTypeOK, Gate
    <2>4. due[i] \in 1..MaxCommands
        BY <2>1, <2>2, <2>3, GateAssumption
    <2>5. due[i] \in Pending
        BY <2>1, <2>4 DEF Pending
    <2> QED
        BY <1>1, <2>5 DEF NotConfirmed
<1> QED
    BY <1>3, <1>4 DEF InputIsDeliveredInOrder

(* The threads of a terminal keep, step by step, what the next three       *)
(* theorems read off: who may hold what, the queue and its order, and      *)
(* where every byte and every piece of input is.                           *)
THEOREM TerminalInvariantHolds == Spec => []IInv
<1>1. Init => IInv
    BY InitIsSound
<1>2. IInv /\ [Next]_vars => IInv'
    BY StepKeepsInvariant
<1> QED
    BY <1>1, <1>2, PTL DEF Spec

(* Whatever the limits are and however the client, the owner and the       *)
(* writer interleave, each of the two byte budgets is exactly what is      *)
(* still held, within its limit: no reservation of byte_budget.rs is       *)
(* released twice or forgotten, also when a push or a write is refused.    *)
THEOREM BudgetsHold == Spec => []BytesAreAccounted
<1>1. IInv => BytesAreAccounted
    BY InvariantAccountsForBytes
<1> QED
    BY <1>1, TerminalInvariantHolds, PTL

(* The queue of command_gate.rs holds what was accepted, in order: a       *)
(* scroll joins a batch only while that batch is the last command in the   *)
(* queue, also when the owner takes it between push and keep, and a        *)
(* command that is refused has closed the batch for good.                  *)
THEOREM CommandOrderHolds == Spec => []CommandsKeepTheirOrder
<1>1. IInv => CommandsKeepTheirOrder
    BY DEF IInv
<1> QED
    BY <1>1, TerminalInvariantHolds, PTL

(* Input goes through the owner's retries, the queue of input_writer.rs    *)
(* and its partial writes once, in order and with nothing dropped between, *)
(* and no paste is confirmed before it was written.                        *)
THEOREM InputOrderHolds == Spec => []InputIsDeliveredInOrder
<1>1. IInv => InputIsDeliveredInOrder
    BY InvariantDeliversInOrder
<1> QED
    BY <1>1, TerminalInvariantHolds, PTL

-----------------------------------------------------------------------------
(* What the client sees of all this: frames and events.  They share no     *)
(* state with what is above; publisher is where the owner thread is in     *)
(* publishing a frame.                                                     *)

CONSTANTS EventSlots, MaxChanges, MaxReports
VARIABLES screen, shared, publisher, client, events, reports, owed

Frames == INSTANCE TerminalFrames WITH owner <- publisher

Events == {"pressure", "changed", "exited", "failed"}

Queues == {queue \in Seq(Events) : Len(queue) <= EventSlots}

FramesTypeOK ==
    /\ screen \in Nat
    /\ shared \in [frame : Nat, locked : BOOLEAN, dirty : BOOLEAN]
    /\ publisher \in {"work", "write", "raise", "tell", "exit", "dead"}
    /\ client \in [at : {"poll", "copy", "draw"}, redraw : BOOLEAN, drawn : Nat]
    /\ events \in [gate : Queues, writer : Queues, latched : BOOLEAN, owner : Queues]
    /\ reports \in Nat
    /\ owed \subseteq Frames!Sources

(* The lock is held from the frame to the flag; a client that has copied   *)
(* the frame may be behind it, but only if the flag is up again.           *)
Announced ==
    /\ shared.locked => publisher = "raise"
    /\ screen # shared.frame => publisher = "write"
    /\ client.at # "copy" /\ publisher # "raise" /\ client.drawn # shared.frame => shared.dirty

FramesInvariant == FramesTypeOK /\ Announced /\ Frames!FailureIsHeard

-----------------------------------------------------------------------------
(* The queues: what they take, and that a failure in one is not lost.      *)
LEMMA Appended ==
    ASSUME Frames!FramesAssumption, NEW queue \in Queues, ~Frames!Full(queue), NEW event \in Events
    PROVE  /\ Append(queue, event) \in Queues
           /\ Frames!Failing(queue) \/ event = "failed" => Frames!Failing(Append(queue, event))
<1> DEFINE n == Len(queue)
           long == Append(queue, event)
<1>1. queue \in Seq(Events) /\ n \in Nat /\ n < EventSlots
    BY DEF Queues, Frames!Full, Frames!FramesAssumption
<1>2. /\ long \in Seq(Events) /\ Len(long) = n + 1 /\ DOMAIN long = 1..(n + 1)
      /\ \A i \in 1..n : long[i] = queue[i]
      /\ long[n + 1] = event
    BY <1>1
<1>3. long \in Queues
    BY <1>1, <1>2 DEF Queues, Frames!FramesAssumption
<1>4. Frames!Failing(queue) => Frames!Failing(long)
    BY <1>1, <1>2 DEF Frames!Failing
<1>5. event = "failed" => Frames!Failing(long)
    BY <1>1, <1>2 DEF Frames!Failing
<1> QED
    BY <1>3, <1>4, <1>5

LEMMA TailKeepsFailure ==
    ASSUME Frames!FramesAssumption, NEW queue \in Queues, queue # <<>>
    PROVE  /\ Head(queue) \in Events
           /\ Tail(queue) \in Queues
           /\ Frames!Failing(queue) /\ Head(queue) # "failed" => Frames!Failing(Tail(queue))
           /\ ~Frames!Full(Tail(queue))
<1> DEFINE n == Len(queue)
           rest == Tail(queue)
<1>1. queue \in Seq(Events) /\ n \in Nat /\ n >= 1 /\ n <= EventSlots
    BY DEF Queues, Frames!FramesAssumption
<1>2. /\ rest \in Seq(Events) /\ Len(rest) = n - 1 /\ DOMAIN rest = 1..(n - 1)
      /\ \A i \in 1..(n - 1) : rest[i] = queue[i + 1]
      /\ Head(queue) = queue[1]
    <2>1. queue # <<>>
        OBVIOUS
    <2>2. rest \in Seq(Events) /\ Len(rest) = n - 1 /\ Head(queue) = queue[1]
        BY <1>1, <2>1
    <2>3. \A i \in 1..(n - 1) : rest[i] = queue[i + 1]
        BY <1>1, <2>1
    <2> QED
        BY <1>1, <2>2, <2>3
<1>3. rest \in Queues /\ ~Frames!Full(rest)
    <2>1. Len(rest) < EventSlots
        BY <1>1, <1>2 DEF Frames!FramesAssumption
    <2> HIDE DEF rest
    <2>2. rest \in Queues
        BY <1>2, <2>1 DEF Queues, Frames!FramesAssumption
    <2>3. ~Frames!Full(rest)
        BY <1>2, <2>1 DEF Frames!Full, Frames!FramesAssumption
    <2> QED
        BY <2>2, <2>3
<1>4. ASSUME NEW i \in 1..n, queue[i] = "failed", Head(queue) # "failed"
      PROVE  Frames!Failing(rest)
    <2>1. i - 1 \in 1..(n - 1) /\ (i - 1) + 1 = i
        BY <1>1, <1>2, <1>4
    <2>2. rest[i - 1] = "failed"
        BY <1>2, <1>4, <2>1
    <2> QED
        BY <1>2, <2>1, <2>2 DEF Frames!Failing
<1>5. Frames!Failing(queue) /\ Head(queue) # "failed" => Frames!Failing(rest)
    BY <1>1, <1>4 DEF Frames!Failing
<1> QED
    BY <1>1, <1>2, <1>3, <1>5

LEMMA GateKeepsFailure ==
    ASSUME Frames!FramesAssumption, NEW queue \in Queues, NEW event \in Events
    PROVE  /\ Frames!GateRecords(queue, event) \in Queues
           /\ Frames!Failing(queue) \/ event = "failed" => Frames!Failing(Frames!GateRecords(queue, event))
<1>1. CASE ~Frames!Full(queue)
    BY <1>1, Appended DEF Frames!GateRecords
<1>2. CASE Frames!Full(queue) /\ event = "failed" /\ ~Frames!Failing(queue)
    <2>1. queue # <<>>
        BY <1>2 DEF Frames!Full, Frames!FramesAssumption
    <2>2. Tail(queue) \in Queues /\ ~Frames!Full(Tail(queue))
        BY <2>1, TailKeepsFailure
    <2>3. Frames!GateRecords(queue, event) = Append(Tail(queue), event)
        BY <1>2 DEF Frames!GateRecords
    <2> QED
        BY <1>2, <2>2, <2>3, Appended
<1>3. CASE Frames!Full(queue) /\ ~(event = "failed" /\ ~Frames!Failing(queue))
    BY <1>3 DEF Frames!GateRecords
<1> QED
    BY <1>1, <1>2, <1>3

(* The owner makes room for a failure, unless there are failures only.     *)
LEMMA FirstEvictable ==
    ASSUME NEW queue \in Queues, Frames!Evictable(queue) # {}
    PROVE  \E i \in Frames!Evictable(queue) : \A j \in Frames!Evictable(queue) : i <= j
<1>1. Frames!Evictable(queue) \subseteq Nat
    BY DEF Frames!Evictable, Queues
<1>2. PICK i \in Frames!Evictable(queue) :
         \A j \in Frames!Evictable(queue) : ~(<<j, i>> \in OpToRel(<, Nat))
    BY <1>1, WFMin, NatLessThanWellFounded
<1>3. \A j \in Frames!Evictable(queue) : ~(j < i)
    BY <1>1, <1>2 DEF OpToRel
<1>4. \A j \in Frames!Evictable(queue) : j \in Nat /\ i \in Nat
    BY <1>1
<1> QED
    BY <1>3, <1>4

LEMMA EvictionMakesRoom ==
    ASSUME Frames!FramesAssumption, NEW queue \in Queues, NEW i \in 1..Len(queue)
    PROVE  Frames!RemoveAt(queue, i) \in Queues /\ ~Frames!Full(Frames!RemoveAt(queue, i))
<1>1. queue \in Seq(Events) /\ Len(queue) \in Nat /\ Len(queue) <= EventSlots
    BY DEF Queues
<1> DEFINE a == SubSeq(queue, 1, i - 1)
           b == SubSeq(queue, i + 1, Len(queue))
<1>2. a \in Seq(Events) /\ Len(a) = i - 1 /\ b \in Seq(Events) /\ Len(b) = Len(queue) - i
    BY <1>1
<1> HIDE DEF a, b
<1>3. a \o b \in Seq(Events) /\ Len(a \o b) = Len(a) + Len(b)
    BY <1>2, ConcatProperties
<1>4. Frames!RemoveAt(queue, i) = a \o b
    BY DEF Frames!RemoveAt, a, b
<1> QED
    BY <1>1, <1>2, <1>3, <1>4 DEF Queues, Frames!Full, Frames!FramesAssumption

LEMMA OwnerKeepsFailure ==
    ASSUME Frames!FramesAssumption, NEW queue \in Queues, NEW event \in {"changed", "exited", "failed"}
    PROVE  /\ Frames!OwnerRecords(queue, event) \in Queues
           /\ Frames!Failing(queue) \/ event = "failed" => Frames!Failing(Frames!OwnerRecords(queue, event))
<1>1. CASE event = "changed" /\ Frames!Contains(queue, event)
    BY <1>1 DEF Frames!OwnerRecords
<1>2. CASE ~(event = "changed" /\ Frames!Contains(queue, event)) /\ ~Frames!Full(queue)
    BY <1>2, Appended DEF Frames!OwnerRecords, Events
<1>3. CASE Frames!Full(queue) /\ event = "failed" /\ Frames!Evictable(queue) # {}
    <2> DEFINE first == CHOOSE i \in Frames!Evictable(queue) : \A j \in Frames!Evictable(queue) : i <= j
    <2>1. first \in Frames!Evictable(queue)
        BY <1>3, FirstEvictable
    <2>2. first \in 1..Len(queue)
        BY <2>1 DEF Frames!Evictable, Queues
    <2>3. Frames!OwnerRecords(queue, event) = Append(Frames!RemoveAt(queue, first), event)
        BY <1>3 DEF Frames!OwnerRecords
    <2> HIDE DEF first
    <2>4. Frames!RemoveAt(queue, first) \in Queues /\ ~Frames!Full(Frames!RemoveAt(queue, first))
        BY <2>2, EvictionMakesRoom
    <2> QED
        BY <1>3, <2>3, <2>4, Appended DEF Events
<1>4. CASE Frames!Full(queue) /\ event = "failed" /\ Frames!Evictable(queue) = {}
    <2>1. Frames!OwnerRecords(queue, event) = queue
        BY <1>4 DEF Frames!OwnerRecords
    <2>2. 1 \in DOMAIN queue
        BY <1>4 DEF Queues, Frames!Full, Frames!FramesAssumption
    <2>3. Frames!Failing(queue)
        BY <1>4, <2>2 DEF Frames!Failing, Frames!Evictable
    <2> QED
        BY <2>1, <2>3
<1>5. CASE ~(event = "changed" /\ Frames!Contains(queue, event)) /\ Frames!Full(queue) /\ event # "failed"
    BY <1>5 DEF Frames!OwnerRecords
<1> QED
    BY <1>1, <1>2, <1>3, <1>4, <1>5

-----------------------------------------------------------------------------
LEMMA FramesStart == Frames!FramesAssumption /\ Frames!Init => FramesInvariant
<1> SUFFICES ASSUME Frames!FramesAssumption, Frames!Init PROVE FramesInvariant
    OBVIOUS
<1>1. <<>> \in Queues
    BY DEF Queues, Frames!FramesAssumption
<1>2. FramesTypeOK
    BY <1>1 DEF Frames!Init, FramesTypeOK
<1>3. Announced /\ Frames!FailureIsHeard
    BY DEF Frames!Init, Announced, Frames!FailureIsHeard
<1> QED
    BY <1>2, <1>3 DEF FramesInvariant

(* What leaves the queues alone keeps failures to be heard.                *)
LEMMA HeardStays ==
    ASSUME Frames!FailureIsHeard, UNCHANGED events, owed' \subseteq owed
    PROVE  Frames!FailureIsHeard'
BY DEF Frames!FailureIsHeard, Frames!Failing

(* One source's queue takes an event, and a failure is owed from then on.  *)
LEMMA ReportsKeep ==
    ASSUME Frames!FramesAssumption, FramesTypeOK, Frames!FailureIsHeard, NEW source \in Frames!Sources, NEW failed \in BOOLEAN,
           events' \in [gate : Queues, writer : Queues, latched : BOOLEAN, owner : Queues],
           \A other \in Frames!Sources : other # source => events'[other] = events[other],
           events.latched => events'.latched,
           Frames!Failing(events[source]) => Frames!Failing(events'[source]),
           failed => Frames!Failing(events'[source]) \/ (source = "writer" /\ events'.latched),
           owed' = IF failed THEN owed \cup {source} ELSE owed
    PROVE  Frames!FailureIsHeard'
<1> SUFFICES ASSUME NEW heard \in owed'
             PROVE  \/ Frames!Failing(events'[heard])
                    \/ heard = "writer" /\ events'.latched
    BY DEF Frames!FailureIsHeard, Frames!Failing
<1>1. CASE heard \in owed
    <2>1. Frames!Failing(events[heard]) \/ (heard = "writer" /\ events.latched)
        BY <1>1 DEF Frames!FailureIsHeard
    <2> QED
        BY <1>1, <2>1 DEF FramesTypeOK
<1>2. CASE heard \notin owed
    BY <1>2
<1> QED
    BY <1>1, <1>2

LEMMA WriterKeeps ==
    ASSUME Frames!FramesAssumption, FramesInvariant, Frames!WriterReports
    PROVE  FramesInvariant'
<1> USE DEF FramesInvariant
<1>1. PICK event \in {"pressure", "failed"} :
         /\ events' = [events EXCEPT
                          !.writer = IF Frames!Full(@) THEN @ ELSE Append(@, event),
                          !.latched = @ \/ Frames!Latches(event)]
         /\ owed' = IF event = "failed" THEN owed \cup {"writer"} ELSE owed
    BY DEF Frames!WriterReports
<1>2. UNCHANGED <<screen, shared, publisher, client>> /\ reports' = reports + 1
    BY DEF Frames!WriterReports
<1> DEFINE q == events.writer
           taken == IF Frames!Full(q) THEN q ELSE Append(q, event)
<1>3. q \in Queues /\ taken \in Queues /\ (Frames!Failing(q) => Frames!Failing(taken))
    BY Appended DEF FramesTypeOK, Events
<1>4. /\ events' = [events EXCEPT !.writer = taken,
                                  !.latched = events.latched \/ Frames!Latches(event)]
      /\ Frames!Latches(event) \in BOOLEAN
    BY <1>1 DEF Frames!Latches
<1> HIDE DEF taken
<1>5. /\ events' \in [gate : Queues, writer : Queues, latched : BOOLEAN, owner : Queues]
      /\ events'.writer = taken /\ events'.gate = events.gate /\ events'.owner = events.owner
      /\ events'.latched = (events.latched \/ Frames!Latches(event))
    BY <1>3, <1>4 DEF FramesTypeOK
<1>6. event = "failed" => Frames!Failing(taken) \/ Frames!Latches(event)
    BY <1>3, Appended DEF taken, Frames!Latches, Events
<1>7. Frames!FailureIsHeard'
    <2> DEFINE failed == event = "failed"
    <2>1. failed \in BOOLEAN /\ "writer" \in Frames!Sources
        BY DEF Frames!Sources
    <2>2. \A other \in Frames!Sources : other # "writer" => events'[other] = events[other]
        BY <1>5 DEF Frames!Sources
    <2> QED
        BY <1>1, <1>3, <1>5, <1>6, <2>1, <2>2, ReportsKeep
<1>8. FramesTypeOK'
    BY <1>1, <1>2, <1>5 DEF FramesTypeOK, Frames!Sources
<1>9. Announced'
    BY <1>2 DEF Announced
<1> QED
    BY <1>7, <1>8, <1>9

LEMMA GateKeeps ==
    ASSUME Frames!FramesAssumption, FramesInvariant, Frames!GateReports
    PROVE  FramesInvariant'
<1> USE DEF FramesInvariant
<1>1. PICK event \in {"pressure", "failed"} :
         /\ events' = [events EXCEPT !.gate = Frames!GateRecords(@, event)]
         /\ owed' = IF event = "failed" THEN owed \cup {"gate"} ELSE owed
    BY DEF Frames!GateReports
<1>2. UNCHANGED <<screen, shared, publisher, client>> /\ reports' = reports + 1
    BY DEF Frames!GateReports
<1> DEFINE taken == Frames!GateRecords(events.gate, event)
<1>3. /\ taken \in Queues /\ (Frames!Failing(events.gate) => Frames!Failing(taken))
      /\ event = "failed" => Frames!Failing(taken)
    BY GateKeepsFailure DEF FramesTypeOK, Events
<1> HIDE DEF taken
<1>4. events' = [events EXCEPT !.gate = taken]
    BY <1>1 DEF taken
<1>5. /\ events' \in [gate : Queues, writer : Queues, latched : BOOLEAN, owner : Queues]
      /\ events'.gate = taken /\ events'.writer = events.writer /\ events'.owner = events.owner
      /\ events'.latched = events.latched
    BY <1>3, <1>4 DEF FramesTypeOK
<1>6. Frames!FailureIsHeard'
    <2> DEFINE failed == event = "failed"
    <2>1. failed \in BOOLEAN /\ "gate" \in Frames!Sources
        BY DEF Frames!Sources
    <2>2. \A other \in Frames!Sources : other # "gate" => events'[other] = events[other]
        BY <1>5 DEF Frames!Sources
    <2> QED
        BY <1>1, <1>3, <1>5, <2>1, <2>2, ReportsKeep
<1>7. FramesTypeOK'
    BY <1>1, <1>2, <1>5 DEF FramesTypeOK, Frames!Sources
<1>8. Announced'
    BY <1>2 DEF Announced
<1> QED
    BY <1>6, <1>7, <1>8

LEMMA OwnerTells ==
    ASSUME Frames!FramesAssumption, FramesTypeOK, Frames!FailureIsHeard,
           NEW event \in {"changed", "exited", "failed"},
           events' = [events EXCEPT !.owner = Frames!OwnerRecords(@, event)],
           owed' = IF event = "failed" THEN owed \cup {"owner"} ELSE owed
    PROVE  /\ events' \in [gate : Queues, writer : Queues, latched : BOOLEAN, owner : Queues]
           /\ owed' \subseteq Frames!Sources /\ Frames!FailureIsHeard'
<1> DEFINE taken == Frames!OwnerRecords(events.owner, event)
<1>1. /\ taken \in Queues /\ (Frames!Failing(events.owner) => Frames!Failing(taken))
      /\ event = "failed" => Frames!Failing(taken)
    BY OwnerKeepsFailure DEF FramesTypeOK
<1>2. events' = [events EXCEPT !.owner = taken]
    OBVIOUS
<1> HIDE DEF taken
<1>3. /\ events' \in [gate : Queues, writer : Queues, latched : BOOLEAN, owner : Queues]
      /\ events'.owner = taken /\ events'.writer = events.writer /\ events'.gate = events.gate
      /\ events'.latched = events.latched
    BY <1>1, <1>2 DEF FramesTypeOK
<1>4. Frames!FailureIsHeard'
    <2> DEFINE failed == event = "failed"
    <2>1. failed \in BOOLEAN /\ "owner" \in Frames!Sources
        BY DEF Frames!Sources
    <2>2. \A other \in Frames!Sources : other # "owner" => events'[other] = events[other]
        BY <1>3 DEF Frames!Sources
    <2> QED
        BY <1>1, <1>3, <2>1, <2>2, ReportsKeep
<1> QED
    BY <1>3, <1>4 DEF FramesTypeOK, Frames!Sources

LEMMA TellKeeps ==
    ASSUME Frames!FramesAssumption, FramesInvariant, Frames!TellChange \/ Frames!EndOwner \/ Frames!TellExit
    PROVE  FramesInvariant'
<1> USE DEF FramesInvariant
<1>1. /\ UNCHANGED <<screen, shared, client, reports>>
      /\ publisher \in {"tell", "work", "exit"} /\ publisher' \in {"work", "exit", "dead"}
    BY DEF Frames!TellChange, Frames!EndOwner, Frames!TellExit
<1>2. /\ events' \in [gate : Queues, writer : Queues, latched : BOOLEAN, owner : Queues]
      /\ owed' \subseteq Frames!Sources /\ Frames!FailureIsHeard'
    <2>1. CASE Frames!TellChange
        BY <2>1, OwnerTells DEF Frames!TellChange
    <2>2. CASE Frames!TellExit
        BY <2>2, OwnerTells DEF Frames!TellExit
    <2>3. CASE events' = [events EXCEPT !.owner = Frames!OwnerRecords(@, "failed")]
               /\ owed' = owed \cup {"owner"}
        BY <2>3, OwnerTells
    <2>4. CASE UNCHANGED <<events, owed>>
        BY <2>4, HeardStays DEF FramesTypeOK
    <2> QED
        BY <2>1, <2>2, <2>3, <2>4 DEF Frames!EndOwner
<1>3. FramesTypeOK'
    BY <1>1, <1>2 DEF FramesTypeOK
<1>4. Announced'
    BY <1>1 DEF Announced
<1> QED
    BY <1>2, <1>3, <1>4

(* Publishing: the frame, under the lock, and then the flag.               *)
LEMMA PublishKeeps ==
    ASSUME Frames!FramesAssumption, FramesInvariant, Frames!Change \/ Frames!WriteFrame \/ Frames!RaiseFlag
    PROVE  FramesInvariant'
<1> USE DEF FramesInvariant
<1>1. UNCHANGED <<client, events, reports, owed>>
    BY DEF Frames!Change, Frames!WriteFrame, Frames!RaiseFlag
<1>2. Frames!FailureIsHeard'
    BY <1>1, HeardStays
<1>3. CASE Frames!Change
    BY <1>1, <1>2, <1>3 DEF Frames!Change, FramesTypeOK, Announced
<1>4. CASE Frames!WriteFrame
    <2>1. shared' = [shared EXCEPT !.locked = TRUE, !.frame = screen] /\ publisher' = "raise"
          /\ screen' = screen
        BY <1>4 DEF Frames!WriteFrame
    <2>2. FramesTypeOK'
        BY <1>1, <2>1 DEF FramesTypeOK
    <2>3. shared'.frame = screen
        BY <2>1 DEF FramesTypeOK
    <2> QED
        BY <1>1, <1>2, <2>1, <2>2, <2>3 DEF Announced
<1>5. CASE Frames!RaiseFlag
    <2>1. shared' = [shared EXCEPT !.locked = FALSE, !.dirty = TRUE] /\ publisher = "raise"
          /\ publisher' = "tell" /\ screen' = screen
        BY <1>5 DEF Frames!RaiseFlag
    <2>2. FramesTypeOK'
        BY <1>1, <2>1 DEF FramesTypeOK
    <2>3. shared'.frame = shared.frame /\ shared'.dirty = TRUE /\ shared'.locked = FALSE
        BY <2>1 DEF FramesTypeOK
    <2> QED
        BY <1>1, <1>2, <2>1, <2>2, <2>3 DEF Announced
<1> QED
    BY <1>3, <1>4, <1>5

(* A client takes the first event of a queue, and hears it if it is a      *)
(* failure.                                                                *)
LEMMA TakesKeep ==
    ASSUME Frames!FramesAssumption, FramesTypeOK, Frames!FailureIsHeard, NEW source \in Frames!Sources,
           events[source] # <<>>,
           owed' = Frames!Heard(source, Head(events[source])),
           events'[source] = Tail(events[source]),
           \A other \in Frames!Sources : other # source => events'[other] = events[other],
           events'.latched = events.latched
    PROVE  Frames!FailureIsHeard' /\ owed' \subseteq Frames!Sources
<1> DEFINE q == events[source]
<1>1. q \in Queues
    BY DEF FramesTypeOK, Frames!Sources
<1>2. Frames!Failing(q) /\ Head(q) # "failed" => Frames!Failing(Tail(q))
    BY <1>1, TailKeepsFailure
<1>3. owed' \subseteq owed /\ (Head(q) = "failed" => source \notin owed')
    BY DEF Frames!Heard
<1> HIDE DEF q
<1>4. ASSUME NEW heard \in owed'
      PROVE  Frames!Failing(events'[heard]) \/ (heard = "writer" /\ events'.latched)
    <2>1. Frames!Failing(events[heard]) \/ (heard = "writer" /\ events.latched)
        BY <1>3 DEF Frames!FailureIsHeard
    <2>2. heard \in Frames!Sources
        BY <1>3 DEF FramesTypeOK
    <2>3. CASE heard = source
        BY <1>2, <1>3, <2>1, <2>3 DEF q
    <2>4. CASE heard # source
        BY <2>1, <2>2, <2>4
    <2> QED
        BY <2>3, <2>4
<1>5. Frames!FailureIsHeard'
    BY <1>4 DEF Frames!FailureIsHeard, Frames!Failing
<1> QED
    BY <1>3, <1>5 DEF FramesTypeOK

LEMMA PollKeeps ==
    ASSUME Frames!FramesAssumption, FramesInvariant, Frames!PollEvent
    PROVE  FramesInvariant'
<1> USE DEF FramesInvariant
<1> DEFINE Typed == events' \in [gate : Queues, writer : Queues, latched : BOOLEAN, owner : Queues]
<1>0. /\ UNCHANGED <<screen, shared, publisher, reports>> /\ client.at = "poll"
      /\ \E source \in Frames!Sources, event \in Events : Frames!Hear(source, event)
    <2>1. /\ \A source \in Frames!Sources : events[source] # <<>> => Head(events[source]) \in Events
        BY TailKeepsFailure DEF FramesTypeOK, Frames!Sources
    <2> QED
        BY <2>1 DEF Frames!PollEvent, Frames!Sources, Events
<1>1. ASSUME NEW source \in Frames!Sources, events[source] # <<>>,
             Frames!Hear(source, Head(events[source])),
             events' = [events EXCEPT ![source] = Tail(@)]
      PROVE  Frames!FailureIsHeard' /\ owed' \subseteq Frames!Sources /\ Typed
    <2>1. Tail(events[source]) \in Queues
        BY <1>1, TailKeepsFailure DEF FramesTypeOK, Frames!Sources
    <2>2. Typed /\ events'[source] = Tail(events[source]) /\ events'.latched = events.latched
        BY <1>1, <2>1 DEF FramesTypeOK, Frames!Sources
    <2>3. \A other \in Frames!Sources : other # source => events'[other] = events[other]
        BY <1>1 DEF FramesTypeOK, Frames!Sources
    <2> QED
        BY <1>1, <2>2, <2>3, TakesKeep DEF Frames!Hear
<1>2. ASSUME events.writer = <<>>, Frames!Hear("writer", "failed"),
             events' = [events EXCEPT !.latched = FALSE]
      PROVE  Frames!FailureIsHeard' /\ owed' \subseteq Frames!Sources /\ Typed
    <2>1. owed' = owed \ {"writer"}
        BY <1>2 DEF Frames!Hear, Frames!Heard
    <2>2. Typed /\ \A source \in Frames!Sources : events'[source] = events[source]
        BY <1>2 DEF FramesTypeOK, Frames!Sources
    <2>3. ASSUME NEW heard \in owed' PROVE Frames!Failing(events'[heard])
        BY <2>1, <2>2 DEF Frames!FailureIsHeard, FramesTypeOK
    <2>4. Frames!FailureIsHeard'
        BY <2>3 DEF Frames!FailureIsHeard, Frames!Failing
    <2> QED
        BY <2>1, <2>2, <2>4 DEF FramesTypeOK
<1>3. Frames!FailureIsHeard' /\ owed' \subseteq Frames!Sources /\ Typed
    BY <1>1, <1>2 DEF Frames!PollEvent, Frames!Sources
<1>4. /\ client' \in [at : {"poll", "copy", "draw"}, redraw : BOOLEAN, drawn : Nat]
      /\ client'.at = client.at /\ client'.drawn = client.drawn
    BY <1>0 DEF Frames!Hear, FramesTypeOK
<1>5. FramesTypeOK'
    BY <1>0, <1>3, <1>4 DEF FramesTypeOK
<1>6. Announced'
    BY <1>0, <1>4 DEF Announced
<1> QED
    BY <1>3, <1>5, <1>6

(* The flag is lowered before the frame is copied, and the frame is copied *)
(* whole.                                                                  *)
LEMMA DrawKeeps ==
    ASSUME Frames!FramesAssumption, FramesInvariant, Frames!LookAtFlag \/ Frames!CopyFrame \/ Frames!DrawFrame
    PROVE  FramesInvariant'
<1> USE DEF FramesInvariant
<1>1. UNCHANGED <<screen, publisher, events, reports, owed>>
    BY DEF Frames!LookAtFlag, Frames!CopyFrame, Frames!DrawFrame
<1>2. Frames!FailureIsHeard'
    BY <1>1, HeardStays
<1>3. CASE Frames!LookAtFlag
    <2>1. /\ shared' = [shared EXCEPT !.dirty = shared.dirty /\ "poll" # "poll"]
          /\ client' = [client EXCEPT !.at = "copy", !.redraw = FALSE]
        BY <1>3 DEF Frames!LookAtFlag, Frames!Lowered
    <2>2. FramesTypeOK' /\ client'.at = "copy"
        BY <1>1, <2>1 DEF FramesTypeOK
    <2>3. shared'.frame = shared.frame /\ shared'.locked = shared.locked
        BY <2>1 DEF FramesTypeOK
    <2> QED
        BY <1>1, <1>2, <2>2, <2>3 DEF Announced
<1>4. CASE Frames!CopyFrame
    <2>1. /\ client' = [client EXCEPT !.at = "draw", !.drawn = shared.frame]
          /\ UNCHANGED shared
        BY <1>4 DEF Frames!CopyFrame
    <2>2. FramesTypeOK' /\ client'.drawn = shared.frame
        BY <1>1, <2>1 DEF FramesTypeOK
    <2> QED
        BY <1>1, <1>2, <2>1, <2>2 DEF Announced
<1>5. CASE Frames!DrawFrame
    <2>1. /\ shared' = [shared EXCEPT !.dirty = shared.dirty /\ "draw" # "poll"]
          /\ client' = [client EXCEPT !.at = "poll"] /\ client.at = "draw"
        BY <1>5 DEF Frames!DrawFrame, Frames!Lowered
    <2>2. FramesTypeOK' /\ client'.drawn = client.drawn
        BY <1>1, <2>1 DEF FramesTypeOK
    <2>3. shared'.frame = shared.frame /\ shared'.locked = shared.locked
          /\ (shared.dirty => shared'.dirty)
        BY <2>1 DEF FramesTypeOK
    <2> QED
        BY <1>1, <1>2, <2>1, <2>2, <2>3 DEF Announced
<1> QED
    BY <1>3, <1>4, <1>5

-----------------------------------------------------------------------------
(* Whatever the limit of the queues (at least one), every step of owner,   *)
(* gate, writer and client keeps the invariant.                            *)
THEOREM FramesInvariantHolds ==
    ASSUME Frames!FramesAssumption
    PROVE  Frames!Spec => []FramesInvariant
<1>1. Frames!Init => FramesInvariant
    BY FramesStart
<1>2. FramesInvariant /\ [Frames!Next]_(Frames!vars) => FramesInvariant'
    <2> SUFFICES ASSUME FramesInvariant, [Frames!Next]_(Frames!vars) PROVE FramesInvariant'
        OBVIOUS
    <2>1. CASE Frames!WriterReports
        BY <2>1, WriterKeeps
    <2>2. CASE Frames!GateReports
        BY <2>2, GateKeeps
    <2>3. CASE Frames!Change \/ Frames!WriteFrame \/ Frames!RaiseFlag
        BY <2>3, PublishKeeps
    <2>4. CASE Frames!TellChange \/ Frames!EndOwner \/ Frames!TellExit
        BY <2>4, TellKeeps
    <2>5. CASE Frames!PollEvent
        BY <2>5, PollKeeps
    <2>6. CASE Frames!LookAtFlag \/ Frames!CopyFrame \/ Frames!DrawFrame
        BY <2>6, DrawKeeps
    <2>7. CASE UNCHANGED Frames!vars
        BY <2>7 DEF Frames!vars, FramesInvariant, FramesTypeOK, Announced, Frames!FailureIsHeard,
           Frames!Failing
    <2> QED
        BY <2>1, <2>2, <2>3, <2>4, <2>5, <2>6, <2>7 DEF Frames!Next
<1> QED
    BY <1>1, <1>2, PTL DEF Frames!Spec

(* A client that is about to look has drawn the frame there is, or the     *)
(* flag tells it to; and the frame there is is the screen, unless the      *)
(* owner is about to publish it.                                           *)
THEOREM FramesAreAnnounced ==
    ASSUME Frames!FramesAssumption
    PROVE  Frames!Spec => []Frames!FrameIsNotMissed
<1>1. FramesInvariant => Frames!FrameIsNotMissed
    BY DEF FramesInvariant, Announced, Frames!FrameIsNotMissed
<1> QED
    BY <1>1, FramesInvariantHolds, PTL

(* A failure reported by the gate, the writer or the owner stays in its    *)
(* queue, or beside it, until the client hears of a failure from there.    *)
THEOREM FailuresAreHeard ==
    ASSUME Frames!FramesAssumption
    PROVE  Frames!Spec => []Frames!FailureIsHeard
<1>1. FramesInvariant => Frames!FailureIsHeard
    BY DEF FramesInvariant
<1> QED
    BY <1>1, FramesInvariantHolds, PTL
=============================================================================
