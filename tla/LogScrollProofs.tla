---------------------------- MODULE LogScrollProofs ----------------------------
(***************************************************************************)
(* That the page of Logs is a window of what is retained, stays where a    *)
(* reader left it whatever arrives or expires, and shows what is asked     *)
(* for, for every height of the pane and any output.                       *)
(***************************************************************************)
EXTENDS LogScroll, SequenceTheorems, WellFoundedInduction, TLAPS

Outputs == {out \in [first : Nat \ {0}, last : Nat] : out.first <= out.last + 1}

-----------------------------------------------------------------------------
(* What a snapshot displays, by its positions.                             *)

Notices(out) == IF Truncated(out) THEN 1 ELSE 0
LineAt(out, position) ==
    IF Truncated(out) /\ position = 0 THEN None ELSE out.first + position - Notices(out)

LEMMA DisplayIs ==
    ASSUME NEW out \in Outputs
    PROVE  /\ Display(out) \in Seq(Nat)
           /\ Total(out) \in Nat /\ Total(out) = Notices(out) + out.last + 1 - out.first
           /\ DOMAIN Display(out) = 1..Total(out)
           /\ \A position \in 0..(Total(out) - 1) :
                 /\ Display(out)[position + 1] = LineAt(out, position)
                 /\ LineAt(out, position) \in Nat
                 /\ LineAt(out, position) # None => /\ Retained(out, LineAt(out, position))
                                                    /\ PositionOf(out, LineAt(out, position)) = position
                 /\ LineAt(out, position) = None => Truncated(out) /\ position = 0
<1> DEFINE notice == IF Truncated(out) THEN <<None>> ELSE <<>>
           n == out.last + 1 - out.first
           lines == [i \in 1..n |-> out.first + i - 1]
<1>1. out.first \in Nat \ {0} /\ out.last \in Nat /\ n \in Nat
    BY DEF Outputs
<1>2. notice \in Seq(Nat) /\ Len(notice) = Notices(out) /\ (Truncated(out) => notice[1] = None)
    BY DEF Notices, None
<1>3. lines \in Seq(Nat) /\ Len(lines) = n /\ \A i \in 1..n : lines[i] = out.first + i - 1
    BY <1>1
<1>4. Display(out) = notice \o lines
    BY DEF Display
<1>5. Notices(out) \in {0, 1}
    BY DEF Notices
<1>6. /\ Display(out) \in Seq(Nat) /\ Len(Display(out)) = Notices(out) + n
      /\ \A i \in 1..(Notices(out) + n) :
            Display(out)[i] = IF i <= Notices(out) THEN notice[i] ELSE lines[i - Notices(out)]
    <2>1. notice \in Seq(Nat) /\ lines \in Seq(Nat)
        BY <1>2, <1>3
    <2> HIDE DEF notice, lines, n
    <2>2. /\ notice \o lines \in Seq(Nat) /\ Len(notice \o lines) = Len(notice) + Len(lines)
          /\ \A i \in 1..(Len(notice) + Len(lines)) :
                (notice \o lines)[i] = IF i <= Len(notice) THEN notice[i] ELSE lines[i - Len(notice)]
        BY <2>1, ConcatProperties, Zenon
    <2> QED
        BY <1>2, <1>3, <1>4, <2>2
<1>7. Total(out) = Notices(out) + n /\ Total(out) \in Nat /\ DOMAIN Display(out) = 1..Total(out)
    BY <1>1, <1>5, <1>6 DEF Total
<1>8. ASSUME NEW position \in 0..(Total(out) - 1)
      PROVE  Display(out)[position + 1] = LineAt(out, position)
    <2>1. position + 1 \in 1..(Notices(out) + n)
        BY <1>7
    <2>2. CASE position + 1 <= Notices(out)
        <3>1. Truncated(out) /\ position = 0
            BY <2>1, <2>2 DEF Notices
        <3>2. Display(out)[position + 1] = notice[position + 1]
            BY <1>6, <2>1, <2>2
        <3>3. notice[position + 1] = None
            BY <1>2, <3>1
        <3> QED
            BY <3>1, <3>2, <3>3 DEF LineAt
    <2>3. CASE ~(position + 1 <= Notices(out))
        <3>1. position + 1 - Notices(out) \in 1..n
            <4> HIDE DEF n
            <4> QED
                BY <1>1, <1>5, <2>1, <2>3
        <3>2. Display(out)[position + 1] = lines[position + 1 - Notices(out)]
            <4> HIDE DEF n, lines, notice
            <4> QED
                BY <1>1, <1>5, <1>6, <1>7, <2>1, <2>3
        <3>3. Display(out)[position + 1] = out.first + (position + 1 - Notices(out)) - 1
            BY <1>3, <3>1, <3>2
        <3>4. ~(Truncated(out) /\ position = 0)
            BY <2>3 DEF Notices
        <3> QED
            BY <1>1, <1>5, <3>3, <3>4 DEF LineAt
    <2> QED
        BY <2>2, <2>3
<1>9. ASSUME NEW position \in 0..(Total(out) - 1)
      PROVE  /\ LineAt(out, position) \in Nat
             /\ LineAt(out, position) # None => /\ Retained(out, LineAt(out, position))
                                                /\ PositionOf(out, LineAt(out, position)) = position
             /\ LineAt(out, position) = None => Truncated(out) /\ position = 0
    <2>1. CASE Truncated(out) /\ position = 0
        BY <2>1 DEF LineAt, None
    <2>2. CASE ~(Truncated(out) /\ position = 0)
        <3> DEFINE line == out.first + position - Notices(out)
        <3>1. LineAt(out, position) = line
            BY <2>2 DEF LineAt
        <3>2. position \in Nat /\ position <= Notices(out) + n - 1
            BY <1>1, <1>5, <1>7
        <3>3. Notices(out) <= position
            <4>1. position = 0 => Notices(out) = 0
                BY <2>2 DEF Notices
            <4> QED
                BY <1>5, <3>2, <4>1
        <3>4. /\ line \in Nat /\ line >= out.first /\ line <= out.last /\ line # 0
              /\ line - out.first + Notices(out) = position
            BY <1>1, <1>5, <3>2, <3>3
        <3> HIDE DEF line
        <3>5. Retained(out, line)
            BY <1>1, <3>4 DEF Retained
        <3>6. PositionOf(out, line) = position
            BY <3>4 DEF PositionOf, Notices, None
        <3> QED
            BY <3>1, <3>4, <3>5, <3>6 DEF None
    <2> QED
        BY <2>1, <2>2
<1>10. Total(out) = Notices(out) + out.last + 1 - out.first
    BY <1>1, <1>5, <1>7
<1> QED
    BY <1>6, <1>7, <1>8, <1>9, <1>10, Zenon

LEMMA RetainedIsAt ==
    ASSUME NEW out \in Outputs, NEW line, Retained(out, line)
    PROVE  /\ line \in Nat \ {0}
           /\ PositionOf(out, line) \in 0..(Total(out) - 1)
           /\ PositionOf(out, line) = line - out.first + Notices(out)
           /\ LineAt(out, PositionOf(out, line)) = line
<1>1. out.first \in Nat \ {0} /\ out.last \in Nat /\ line \in Nat \ {0} /\ line >= out.first /\ line <= out.last
    BY DEF Outputs, Retained
<1>2. PositionOf(out, line) = line - out.first + Notices(out)
    BY <1>1 DEF PositionOf, None, Notices
<1>3. Notices(out) \in {0, 1} /\ (Truncated(out) <=> Notices(out) = 1)
    BY DEF Notices
<1>4. Total(out) = Notices(out) + out.last + 1 - out.first
    BY DisplayIs
<1>5. PositionOf(out, line) \in 0..(Total(out) - 1)
    BY <1>1, <1>2, <1>3, <1>4
<1> QED
    BY <1>1, <1>2, <1>3, <1>5 DEF LineAt

LEMMA LinesBelow ==
    ASSUME NEW out \in Outputs, NEW line, Retained(out, line)
    PROVE  /\ Total(out) - PositionOf(out, line) = out.last + 1 - line
           /\ \A k \in Nat : LineAt(out, PositionOf(out, line) + k) = line + k
<1> DEFINE at == PositionOf(out, line)
<1>1. /\ out.first \in Nat /\ out.last \in Nat /\ line \in Nat /\ line >= out.first
      /\ Notices(out) \in 0..1 /\ (Truncated(out) <=> Notices(out) = 1)
    BY DEF Outputs, Retained, Notices
<1>2. at = line - out.first + Notices(out)
    BY RetainedIsAt
<1>3. Total(out) = Notices(out) + out.last + 1 - out.first
    BY DisplayIs
<1> HIDE DEF at
<1>4. Total(out) - at = out.last + 1 - line
    BY <1>1, <1>2, <1>3
<1>5. ASSUME NEW k \in Nat
      PROVE  LineAt(out, at + k) = line + k
    <2>1. ~(Truncated(out) /\ at + k = 0)
        BY <1>1, <1>2
    <2>2. out.first + (at + k) - Notices(out) = line + k
        BY <1>1, <1>2
    <2> QED
        BY <2>1, <2>2 DEF LineAt
<1> QED
    BY <1>4, <1>5 DEF at

LEMMA WindowIs ==
    ASSUME NEW out \in Outputs, NEW start \in 0..Total(out), NEW rows \in Nat
    PROVE  /\ Window(out, start, rows) \in Seq(Nat)
           /\ Len(Window(out, start, rows)) = Least(rows, Total(out) - start)
           /\ \A i \in 1..Len(Window(out, start, rows)) :
                 Window(out, start, rows)[i] = LineAt(out, start + i - 1)
           /\ Window(out, start, rows) = <<>> <=> start = Total(out) \/ rows = 0
<1> DEFINE end == Least(start + rows, Total(out))
           w == Window(out, start, rows)
<1>1. Total(out) \in Nat /\ start \in Nat /\ start <= Total(out)
    BY DisplayIs
<1>2. end \in Nat /\ end <= Total(out) /\ end - start = Least(rows, Total(out) - start) /\ end >= start
    BY <1>1 DEF Least
<1>3. w = SubSeq(Display(out), start + 1, end)
    BY DEF Window
<1>4. \A i \in (start + 1)..end : Display(out)[i] \in Nat
    <2> SUFFICES ASSUME NEW i \in (start + 1)..end
                 PROVE  Display(out)[i] \in Nat
        OBVIOUS
    <2>1. i - 1 \in 0..(Total(out) - 1) /\ (i - 1) + 1 = i
        BY <1>1, <1>2
    <2>2. Display(out)[(i - 1) + 1] \in Nat
        BY <2>1, DisplayIs
    <2> QED
        BY <2>1, <2>2
<1>5. /\ w \in Seq(Nat) /\ Len(w) = end - start
      /\ \A i \in 1..(end - start) : w[i] = Display(out)[start + i]
    <2> HIDE DEF end, w
    <2>1. /\ w \in Seq(Nat)
          /\ Len(w) = IF start + 1 <= end THEN end - (start + 1) + 1 ELSE 0
          /\ \A i \in 1..(end - (start + 1) + 1) : w[i] = Display(out)[(start + 1) + i - 1]
        BY <1>1, <1>2, <1>3, <1>4, SubSeqProperties
    <2>2. Len(w) = end - start
        BY <1>1, <1>2, <2>1
    <2>3. ASSUME NEW i \in 1..(end - start)
          PROVE  w[i] = Display(out)[start + i]
        <3>1. i \in 1..(end - (start + 1) + 1) /\ (start + 1) + i - 1 = start + i
            BY <1>1, <1>2
        <3>2. w[i] = Display(out)[(start + 1) + i - 1]
            BY <2>1, <3>1
        <3> QED
            BY <3>1, <3>2
    <2> QED
        BY <2>1, <2>2, <2>3
<1>6. ASSUME NEW i \in 1..Len(w)
      PROVE  w[i] = LineAt(out, start + i - 1)
    <2>1. i \in 1..(end - start) /\ start + i - 1 \in 0..(Total(out) - 1) /\ (start + i - 1) + 1 = start + i
        BY <1>1, <1>2, <1>5
    <2>2. Display(out)[(start + i - 1) + 1] = LineAt(out, start + i - 1)
        BY <2>1, DisplayIs
    <2> QED
        BY <1>5, <2>1, <2>2
<1>7. w = <<>> <=> Len(w) = 0
    BY <1>5, EmptySeq
<1>8. Len(w) = 0 <=> start = Total(out) \/ rows = 0
    BY <1>1, <1>2, <1>5 DEF Least
<1> QED
    BY <1>2, <1>5, <1>6, <1>7, <1>8

-----------------------------------------------------------------------------
(* The page.                                                               *)

Moves == [lines : Nat, up : BOOLEAN]
Places == {Following, TopOfHistory} \cup {Source(line) : line \in Nat \ {0}}

(* Of a target nothing is needed but that it stays.                        *)
Scrolls(targets) ==
    [position : Places, pending : Seq(Moves), target : targets, page : Seq(Nat),
     held : BOOLEAN, expired : BOOLEAN]

(* A page that is not frozen is the window at its position, and while it   *)
(* neither follows nor is held there is more below it.                     *)
PageSound(s, out) ==
    s.page # <<>> /\ ~s.expired =>
        IF s.position = Following THEN s.page = Newest(out, Rows)
        ELSE /\ s.position = TopOfHistory \/ Retained(out, s.position.line)
             /\ s.page = Window(out, PositionOf(out, s.position.line), Rows)
             /\ ~s.held => PositionOf(out, s.position.line) + Rows < Total(out)

LEMMA PlacesAre ==
    ASSUME NEW place \in Places
    PROVE  /\ place = Following \/ place = TopOfHistory
              \/ (place.at = "source" /\ place.line \in Nat \ {0} /\ place = Source(place.line))
           /\ place = TopOfHistory => place.line = None /\ place.at = "head" /\ place # Following
           /\ place = Following => place.at = "following"
           /\ place.at = "source" => place # TopOfHistory /\ place # Following
BY DEF Places, Following, TopOfHistory, Source

LEMMA NewestIs ==
    ASSUME LogScrollAssumption, NEW out \in Outputs
    PROVE  /\ Less(Total(out), Rows) \in 0..Total(out)
           /\ Newest(out, Rows) = Window(out, Less(Total(out), Rows), Rows)
           /\ Newest(out, Least(Rows, Total(out))) = Newest(out, Rows)
           /\ Newest(out, Rows) \in Seq(Nat)
           /\ Newest(out, Rows) = <<>> <=> Total(out) = 0
<1>1. Total(out) \in Nat /\ Rows \in Nat \ {0}
    BY DisplayIs DEF LogScrollAssumption
<1>2. Less(Total(out), Rows) \in 0..Total(out)
    BY <1>1 DEF Less
<1>3. Newest(out, Rows) = Window(out, Less(Total(out), Rows), Rows)
    BY DEF Newest
<1>4. Newest(out, Rows) \in Seq(Nat) /\ (Newest(out, Rows) = <<>> <=> Less(Total(out), Rows) = Total(out))
    BY <1>1, <1>2, <1>3, WindowIs
<1>5. Less(Total(out), Rows) = Total(out) <=> Total(out) = 0
    BY <1>1 DEF Less
<1>6. Newest(out, Least(Rows, Total(out))) = Newest(out, Rows)
    <2> DEFINE h == Least(Rows, Total(out))
    <2>1. Less(Total(out), h) = Less(Total(out), Rows)
        BY <1>1 DEF Less, Least
    <2>2. Least(Less(Total(out), Rows) + h, Total(out)) = Least(Less(Total(out), Rows) + Rows, Total(out))
        BY <1>1 DEF Less, Least
    <2> QED
        BY <2>1, <2>2 DEF Newest, Window
<1> QED
    BY <1>2, <1>3, <1>4, <1>5, <1>6

(* A position that is retained is within what is displayed.                *)
LEMMA PositionIs ==
    ASSUME NEW out \in Outputs, NEW place \in Places, place # Following,
           place = TopOfHistory \/ Retained(out, place.line)
    PROVE  /\ PositionOf(out, place.line) \in 0..Total(out)
           /\ PositionOf(out, place.line) = Total(out) => Total(out) = 0
<1>1. Total(out) \in Nat
    BY DisplayIs
<1>2. CASE place = TopOfHistory
    BY <1>1, <1>2 DEF TopOfHistory, PositionOf
<1>3. CASE Retained(out, place.line)
    BY <1>1, <1>3, RetainedIsAt
<1> QED
    BY <1>2, <1>3

LEMMA RefreshIsSound ==
    ASSUME LogScrollAssumption, NEW targets, NEW s \in Scrolls(targets), NEW out \in Outputs
    PROVE  /\ Refresh(s, out) \in Scrolls(targets)
           /\ PageSound(Refresh(s, out), out)
           /\ Refresh(s, out).expired = s.expired
           /\ Refresh(s, out).page = <<>> <=> Total(out) = 0
<1> DEFINE gone == s.position.at = "source" /\ ~Retained(out, s.position.line)
           position == IF gone THEN TopOfHistory ELSE s.position
           start == PositionOf(out, position.line)
           page == Window(out, start, Rows + 1)
           cut == SubSeq(page, 1, Least(Rows, Len(page)))
           follows == position = Following \/ (Len(page) <= Rows /\ ~s.held)
<1>1. Total(out) \in Nat /\ Rows \in Nat \ {0} /\ s.position \in Places /\ s.held \in BOOLEAN
    BY DisplayIs DEF LogScrollAssumption, Scrolls
<1>2. /\ Refresh(s, out) = IF follows THEN [s EXCEPT !.position = Following, !.page = Newest(out, Rows)]
                           ELSE [s EXCEPT !.position = position, !.page = cut]
    BY DEF Refresh
<1>3. position \in Places
    BY <1>1 DEF Places
<1>4. CASE follows
    <2>1. Refresh(s, out) = [s EXCEPT !.position = Following, !.page = Newest(out, Rows)]
        BY <1>2, <1>4
    <2>2. Newest(out, Rows) \in Seq(Nat) /\ Following \in Places /\ (Newest(out, Rows) = <<>> <=> Total(out) = 0)
        BY NewestIs DEF Places
    <2>3. /\ Refresh(s, out) \in Scrolls(targets) /\ Refresh(s, out).expired = s.expired
          /\ Refresh(s, out).position = Following /\ Refresh(s, out).page = Newest(out, Rows)
        BY <2>1, <2>2 DEF Scrolls
    <2> QED
        BY <2>2, <2>3 DEF PageSound
<1>5. CASE ~follows
    <2>1. Refresh(s, out) = [s EXCEPT !.position = position, !.page = cut]
        BY <1>2, <1>5
    <2>2. position # Following
        BY <1>5
    <2>3. position = TopOfHistory \/ Retained(out, position.line)
        <3>1. CASE gone
            BY <3>1
        <3>2. CASE ~gone
            BY <1>1, <2>2, <3>2, PlacesAre
        <3> QED
            BY <3>1, <3>2
    <2> HIDE DEF position
    <2>4. start \in 0..Total(out) /\ (start = Total(out) => Total(out) = 0)
        BY <1>3, <2>2, <2>3, PositionIs
    <2> HIDE DEF start
    <2>5. /\ page \in Seq(Nat) /\ Len(page) = Least(Rows + 1, Total(out) - start)
          /\ \A i \in 1..Len(page) : page[i] = LineAt(out, start + i - 1)
        BY <1>1, <2>4, WindowIs
    <2>6. /\ Window(out, start, Rows) \in Seq(Nat)
          /\ Len(Window(out, start, Rows)) = Least(Rows, Total(out) - start)
          /\ \A i \in 1..Len(Window(out, start, Rows)) :
                Window(out, start, Rows)[i] = LineAt(out, start + i - 1)
          /\ Window(out, start, Rows) = <<>> <=> start = Total(out)
        BY <1>1, <2>4, WindowIs
    <2>7. cut = Window(out, start, Rows)
        <3> HIDE DEF page
        <3> DEFINE n == Least(Rows, Len(page))
                   w == Window(out, start, Rows)
        <3>1. n \in Nat /\ n <= Len(page) /\ n = Least(Rows, Total(out) - start) /\ Len(page) \in Nat
            BY <1>1, <2>4, <2>5 DEF Least
        <3> HIDE DEF n, w
        <3>2. \A i \in 1..n : page[i] \in Nat
            BY <2>5, <3>1, ElementOfSeq
        <3>3. /\ SubSeq(page, 1, n) \in Seq(Nat)
              /\ Len(SubSeq(page, 1, n)) = IF 1 <= n THEN n - 1 + 1 ELSE 0
              /\ \A i \in 1..(n - 1 + 1) : SubSeq(page, 1, n)[i] = page[1 + i - 1]
            BY <3>1, <3>2, SubSeqProperties
        <3>4. Len(SubSeq(page, 1, n)) = n /\ \A i \in 1..n : SubSeq(page, 1, n)[i] = page[i]
            BY <3>1, <3>3
        <3>5. Len(w) = n /\ w \in Seq(Nat) /\ \A i \in 1..n : w[i] = LineAt(out, start + i - 1)
            BY <2>6, <3>1 DEF w
        <3>6. \A i \in 1..n : SubSeq(page, 1, n)[i] = w[i]
            <4> SUFFICES ASSUME NEW i \in 1..n
                         PROVE  SubSeq(page, 1, n)[i] = w[i]
                OBVIOUS
            <4>1. i \in 1..Len(page)
                BY <3>1
            <4> QED
                BY <2>5, <3>4, <3>5, <4>1
        <3>7. SubSeq(page, 1, n) = w
            BY <3>3, <3>4, <3>5, <3>6, SeqEqual
        <3> QED
            BY <3>7 DEF n, w
    <2>8. ~s.held => start + Rows < Total(out)
        BY <1>1, <1>5, <2>4, <2>5 DEF Least
    <2> HIDE DEF page, cut
    <2>9. /\ Refresh(s, out) \in Scrolls(targets) /\ Refresh(s, out).expired = s.expired
          /\ Refresh(s, out).position = position /\ Refresh(s, out).page = cut
          /\ Refresh(s, out).held = s.held
        BY <1>3, <2>1, <2>6, <2>7 DEF Scrolls
    <2>10. PageSound(Refresh(s, out), out)
        BY <2>2, <2>3, <2>7, <2>8, <2>9 DEF PageSound, start
    <2> QED
        BY <2>4, <2>6, <2>7, <2>9, <2>10
<1> QED
    BY <1>4, <1>5

LEMMA PlaceIsSound ==
    ASSUME LogScrollAssumption, NEW targets, NEW s \in Scrolls(targets), NEW out \in Outputs,
           Total(out) # 0, NEW start \in 0..(Total(out) - Least(Rows, Total(out)))
    PROVE  LET next == Place(s, out, Least(Rows, Total(out)), start)
           IN  /\ next \in Scrolls(targets)
               /\ PageSound(next, out)
               /\ next.expired = s.expired /\ next.held = s.held
               /\ next.page = Window(out, start, Least(Rows, Total(out))) /\ next.page # <<>>
<1> DEFINE height == Least(Rows, Total(out))
           end == Total(out) - height
           position == IF start = end /\ ~s.held THEN Following
                       ELSE IF start = 0 /\ Truncated(out) THEN TopOfHistory
                       ELSE Source(Display(out)[start + 1])
           page == IF position = Following THEN Newest(out, height)
                   ELSE Window(out, PositionOf(out, position.line), height)
           next == Place(s, out, height, start)
<1>1. /\ Total(out) \in Nat \ {0} /\ Rows \in Nat \ {0} /\ s.held \in BOOLEAN
      /\ height \in 1..Total(out) /\ height <= Rows /\ end \in Nat /\ start \in 0..end
    <2>1. Total(out) \in Nat \ {0} /\ Rows \in Nat \ {0}
        BY DisplayIs DEF LogScrollAssumption
    <2>2. s.held \in BOOLEAN
        BY DEF Scrolls
    <2> QED
        BY <2>1, <2>2 DEF Least
<1>2. next = [s EXCEPT !.position = position, !.page = page]
    BY DEF Place
<1>3. start \in 0..(Total(out) - 1)
    BY <1>1
<1>4. Window(out, start, height) = Window(out, start, Rows)
    <2>1. Least(start + height, Total(out)) = Least(start + Rows, Total(out))
        BY <1>1 DEF Least
    <2> QED
        BY <2>1 DEF Window
<1>5. Window(out, start, height) \in Seq(Nat) /\ Window(out, start, height) # <<>>
    <2>1. start \in 0..Total(out) /\ height \in Nat /\ height # 0 /\ start # Total(out)
        BY <1>1, <1>3
    <2> QED
        BY <2>1, WindowIs
<1>6. CASE start = end /\ ~s.held
    <2>1. position = Following /\ page = Newest(out, height) /\ Following \in Places
        BY <1>6 DEF Places
    <2>2. end = Less(Total(out), height) /\ Newest(out, height) = Window(out, start, height)
        BY <1>1, <1>6 DEF Newest, Less
    <2>3. Newest(out, height) = Newest(out, Rows)
        BY NewestIs
    <2> HIDE DEF position, page
    <2>4. /\ next \in Scrolls(targets) /\ next.expired = s.expired /\ next.held = s.held
          /\ next.position = Following /\ next.page = page
        BY <1>2, <1>5, <2>1, <2>2 DEF Scrolls
    <2> HIDE DEF next, height
    <2>5. PageSound(next, out)
        BY <2>1, <2>3, <2>4 DEF PageSound
    <2> QED
        BY <1>5, <2>1, <2>2, <2>4, <2>5 DEF next, height
<1>7. CASE ~(start = end /\ ~s.held)
    <2>1. /\ position \in Places /\ position # Following
          /\ position = TopOfHistory \/ Retained(out, position.line)
          /\ PositionOf(out, position.line) = start
        <3>1. CASE start = 0 /\ Truncated(out)
            <4>1. position = TopOfHistory
                BY <1>7, <3>1
            <4> QED
                BY <3>1, <4>1 DEF Places, TopOfHistory, Following, PositionOf
        <3>2. CASE ~(start = 0 /\ Truncated(out))
            <4>1. position = Source(LineAt(out, start))
                BY <1>3, <1>7, <3>2, DisplayIs
            <4>2. /\ LineAt(out, start) \in Nat \ {0} /\ Retained(out, LineAt(out, start))
                  /\ PositionOf(out, LineAt(out, start)) = start
                BY <1>3, <3>2, DisplayIs DEF None
            <4> HIDE DEF position
            <4> QED
                BY <4>1, <4>2 DEF Places, Source, Following
        <3> QED
            BY <3>1, <3>2
    <2>2. page = Window(out, start, height)
        BY <2>1
    <2>3. ~s.held => start + Rows < Total(out)
        BY <1>1, <1>7 DEF Least
    <2> HIDE DEF position, page
    <2>4. /\ next \in Scrolls(targets) /\ next.expired = s.expired /\ next.held = s.held
          /\ next.position = position /\ next.page = page
        BY <1>2, <1>5, <2>1, <2>2 DEF Scrolls
    <2> HIDE DEF next, height
    <2>5. PageSound(next, out)
        BY <1>4, <2>1, <2>2, <2>3, <2>4 DEF PageSound
    <2> QED
        BY <1>5, <2>2, <2>4, <2>5 DEF next, height
<1> QED
    BY <1>6, <1>7

-----------------------------------------------------------------------------
(* Navigation ends within the output.                                      *)

LEMMA FromZero ==
    ASSUME NEW S, 0 \in S, \A n \in Nat : n \in S => n + 1 \in S
    PROVE  Nat \subseteq S
<1> SUFFICES ASSUME Nat \ S # {}
             PROVE  FALSE
    OBVIOUS
<1>1. PICK least \in Nat \ S : \A x \in Nat \ S : ~(<<x, least>> \in OpToRel(<, Nat))
    BY WFMin, NatLessThanWellFounded
<1>2. least # 0 /\ least \in Nat /\ \A x \in Nat \ S : ~(x < least)
    BY <1>1 DEF OpToRel
<1>3. least - 1 \in Nat /\ least - 1 < least /\ (least - 1) + 1 = least
    BY <1>2
<1>4. least - 1 \in S
    BY <1>2, <1>3
<1> QED
    BY <1>1, <1>3, <1>4
(* A step that stays in S, taken n times from a start, does so somewhere   *)
(* and ends there.                                                         *)
Taken(n, S, step) ==
    {f \in [0..n -> S] : \A i \in 1..n : f[i] = step[i][f[i - 1]]}

LEMMA StepsExist ==
    ASSUME NEW S, NEW start \in S, NEW n \in Nat, NEW step \in [1..n -> [S -> S]]
    PROVE  \E f \in Taken(n, S, step) : f[0] = start
<1> DEFINE Steps(f, k) == f[0] = start /\ \A i \in 1..k : f[i] = step[i][f[i - 1]]
           T == {k \in Nat : k <= n => \E f \in [0..k -> S] : Steps(f, k)}
<1>1. 0 \in T
    <2> DEFINE f == [i \in 0..0 |-> start]
    <2>1. f \in [0..0 -> S] /\ Steps(f, 0)
        OBVIOUS
    <2> QED
        BY <2>1
<1>2. ASSUME NEW k \in Nat, k \in T
      PROVE  k + 1 \in T
    <2>0. k + 1 \in Nat
        OBVIOUS
    <2> SUFFICES ASSUME k + 1 <= n
                 PROVE  \E f \in [0..(k + 1) -> S] : Steps(f, k + 1)
        BY <2>0, Zenon
    <2>1. PICK g \in [0..k -> S] : Steps(g, k)
        BY <1>2
    <2> DEFINE f == [i \in 0..(k + 1) |-> IF i = k + 1 THEN step[k + 1][g[k]] ELSE g[i]]
    <2>2. \A i \in 0..(k + 1) : i # k + 1 => i \in 0..k
        OBVIOUS
    <2>3. g[k] \in S /\ (\A i \in 0..k : g[i] \in S) /\ k + 1 \in 1..n
        BY <2>1
    <2>4. step[k + 1][g[k]] \in S
        BY <2>3
    <2>5. f \in [0..(k + 1) -> S]
        BY <2>2, <2>3, <2>4
    <2>6. f[0] = start
        <3>1. 0 \in 0..(k + 1) /\ 0 # k + 1
            OBVIOUS
        <3> QED
            BY <2>1, <3>1
    <2>7. ASSUME NEW i \in 1..(k + 1)
          PROVE  f[i] = step[i][f[i - 1]]
        <3>1. /\ i \in 0..(k + 1) /\ i - 1 \in 0..(k + 1) /\ i - 1 # k + 1
              /\ i # k + 1 => i \in 1..k
            OBVIOUS
        <3>2. f[i - 1] = g[i - 1]
            BY <3>1
        <3>3. CASE i = k + 1
            <4>1. f[i] = step[k + 1][g[k]] /\ i - 1 = k
                BY <3>3
            <4> HIDE DEF f
            <4> QED
                BY <3>2, <3>3, <4>1
        <3>4. CASE i # k + 1
            <4>1. f[i] = g[i]
                BY <3>1, <3>4
            <4> HIDE DEF f
            <4> QED
                BY <2>1, <3>1, <3>2, <3>4, <4>1
        <3> QED
            BY <3>3, <3>4
    <2> HIDE DEF f
    <2> QED
        BY <2>5, <2>6, <2>7
<1>3. n \in T
    <2> HIDE DEF T
    <2> QED
        BY <1>1, <1>2, FromZero
<1>4. PICK f \in [0..n -> S] : Steps(f, n)
    BY <1>3
<1> QED
    BY <1>4 DEF Taken

LEMMA StepsStay ==
    ASSUME NEW S, NEW n \in Nat, NEW f, f[0] \in S,
           \A i \in 1..n : f[i - 1] \in S => f[i] \in S
    PROVE  f[n] \in S
<1> DEFINE T == {k \in Nat : k <= n => f[k] \in S}
<1>1. 0 \in T
    OBVIOUS
<1>2. ASSUME NEW k \in Nat, k \in T
      PROVE  k + 1 \in T
    <2> SUFFICES ASSUME k + 1 <= n
                 PROVE  f[k + 1] \in S
        OBVIOUS
    <2>1. k + 1 \in 1..n /\ (k + 1) - 1 = k /\ f[k] \in S
        BY <1>2
    <2> QED
        BY <2>1
<1>3. n \in T
    <2> HIDE DEF T
    <2> QED
        BY <1>1, <1>2, FromZero
<1> QED
    BY <1>3

LEMMA MovedByIsWithin ==
    ASSUME NEW end \in Nat, NEW at \in 0..end, NEW m \in Moves
    PROVE  MovedBy(at, m, end) \in 0..end
BY DEF Moves, MovedBy, Less, Least

Follows(f, n, from, moves, end) ==
    f = [i \in 0..n |-> IF i = 0 THEN from ELSE MovedBy(f[i - 1], moves[i], end)]

LEMMA ArrivedFollows ==
    ASSUME NEW from, NEW moves, NEW end, NEW f, Follows(f, Len(moves), from, moves, end)
    PROVE  \E g : Follows(g, Len(moves), from, moves, end)
                   /\ Arrived(from, moves, end) = g[Len(moves)]
<1> DEFINE g == CHOOSE h : Follows(h, Len(moves), from, moves, end)
<1>1. Follows(g, Len(moves), from, moves, end)
    OBVIOUS
<1>2. Arrived(from, moves, end) = g[Len(moves)]
    BY Zenon DEF Arrived, Follows
<1> QED
    BY <1>1, <1>2

LEMMA ArrivedStays ==
    ASSUME NEW S, NEW from \in S, NEW moves \in Seq(Moves), NEW end,
           \A at \in S, m \in Moves : MovedBy(at, m, end) \in S
    PROVE  Arrived(from, moves, end) \in S
<1> DEFINE n == Len(moves)
           step == [i \in 1..n |-> [at \in S |-> MovedBy(at, moves[i], end)]]
<1>1. n \in Nat /\ \A i \in 1..n : moves[i] \in Moves
    BY LenProperties, ElementOfSeq
<1>2. step \in [1..n -> [S -> S]]
    BY <1>1
<1>3. \A at \in S, i \in 1..n : step[i][at] = MovedBy(at, moves[i], end)
    OBVIOUS
<1> HIDE DEF n, step
<1>4. PICK f \in Taken(n, S, step) : f[0] = from
    <2>1. n \in Nat
        BY <1>1
    <2>2. \E f \in Taken(n, S, step) : f[0] = from
        BY ONLY from \in S, <2>1, <1>2, StepsExist
    <2> QED
        BY <2>2
<1>5. \A i \in 0..n : f[i] = IF i = 0 THEN from ELSE MovedBy(f[i - 1], moves[i], end)
    <2>1. \A i \in 0..n : i # 0 => i - 1 \in 0..n /\ i \in 1..n
        BY <1>1
    <2> QED
        BY <1>3, <1>4, <2>1 DEF Taken
<1>6. Follows(f, n, from, moves, end)
    BY <1>4, <1>5 DEF Follows, Taken
<1>7. PICK g : Follows(g, n, from, moves, end) /\ Arrived(from, moves, end) = g[n]
    BY <1>6, ArrivedFollows DEF n
<1>8. \A i \in 0..n : g[i] = IF i = 0 THEN from ELSE MovedBy(g[i - 1], moves[i], end)
    BY <1>7 DEF Follows
<1>9. g[0] \in S
    BY <1>1, <1>8
<1>10. ASSUME NEW i \in 1..n, g[i - 1] \in S
       PROVE  g[i] \in S
    <2>1. i \in 0..n /\ i # 0
        BY <1>1
    <2>2. g[i] = MovedBy(g[i - 1], moves[i], end)
        BY <1>8, <2>1
    <2> QED
        BY <1>1, <1>10, <2>2
<1>11. g[n] \in S
    BY <1>1, <1>9, <1>10, StepsStay
<1> QED
    BY <1>7, <1>11

LEMMA ArrivedIsWithin ==
    ASSUME NEW end \in Nat, NEW from \in 0..end, NEW moves \in Seq(Moves)
    PROVE  Arrived(from, moves, end) \in 0..end
BY MovedByIsWithin, ArrivedStays

-----------------------------------------------------------------------------
(* The page of a pass.                                                     *)

LEMMA FollowIs ==
    ASSUME NEW targets, None \in targets, NEW s \in Scrolls(targets), NEW out
    PROVE  /\ Follow(s) \in Scrolls(targets) /\ PageSound(Follow(s), out)
           /\ Follow(s).page = <<>> /\ Follow(s).expired = FALSE /\ Follow(s).position = Following
<1>1. <<>> \in Seq(Nat) /\ <<>> \in Seq(Moves) /\ Following \in Places
    BY EmptySeq DEF Places
<1>2. Follow(s) \in Scrolls(targets) /\ Follow(s).page = <<>> /\ Follow(s).expired = FALSE
      /\ Follow(s).position = Following
    BY <1>1 DEF Follow, Scrolls
<1> QED
    BY <1>2 DEF PageSound

LEMMA NavigateIsSound ==
    ASSUME LogScrollAssumption, NEW targets, None \in targets, NEW s \in Scrolls(targets),
           NEW out \in Outputs, s.expired = FALSE
    PROVE  /\ Navigate(s, out) \in Scrolls(targets)
           /\ PageSound(Navigate(s, out), out)
           /\ Navigate(s, out).expired = FALSE
           /\ Navigate(s, out).page = <<>> <=> Total(out) = 0
<1> DEFINE height == Least(Rows, Total(out))
           end == Total(out) - height
           from == Least(end,
                     CASE s.position = Following -> end
                       [] s.position = TopOfHistory -> 0
                       [] OTHER -> IF Retained(out, s.position.line)
                                   THEN PositionOf(out, s.position.line) ELSE 0)
           arrived == Arrived(from, s.pending, end)
           placed == Place(s, out, height, arrived)
<1>1. Total(out) \in Nat /\ Rows \in Nat \ {0} /\ s.position \in Places /\ s.pending \in Seq(Moves)
    BY DisplayIs DEF LogScrollAssumption, Scrolls
<1>2. Navigate(s, out) = IF Total(out) = 0 THEN Follow(s) ELSE [placed EXCEPT !.pending = <<>>]
    BY DEF Navigate, StartOf, EndOf
<1>3. CASE Total(out) = 0
    BY <1>2, <1>3, FollowIs
<1>4. CASE Total(out) # 0
    <2>1. height \in 1..Total(out) /\ end \in Nat
        BY <1>1, <1>4 DEF Least
    <2>2. from \in 0..end
        <3> DEFINE given == CASE s.position = Following -> end
                              [] s.position = TopOfHistory -> 0
                              [] OTHER -> IF Retained(out, s.position.line)
                                          THEN PositionOf(out, s.position.line) ELSE 0
        <3>1. given \in Nat
            <4>1. CASE s.position = Following
                BY <2>1, <4>1
            <4>2. CASE s.position # Following /\ s.position = TopOfHistory
                BY <4>2
            <4>3. CASE s.position # Following /\ s.position # TopOfHistory
                <5>1. Retained(out, s.position.line) => PositionOf(out, s.position.line) \in Nat
                    BY RetainedIsAt
                <5>2. given = IF Retained(out, s.position.line)
                              THEN PositionOf(out, s.position.line) ELSE 0
                    BY <4>3
                <5> QED
                    BY <5>1, <5>2
            <4> QED
                BY <4>1, <4>2, <4>3
        <3>2. from = Least(end, given)
            OBVIOUS
        <3> HIDE DEF given, from, end
        <3> QED
            BY <2>1, <3>1, <3>2 DEF Least
    <2> HIDE DEF from
    <2>3. arrived \in 0..end
        BY <1>1, <2>1, <2>2, ArrivedIsWithin
    <2> HIDE DEF arrived
    <2>4. /\ placed \in Scrolls(targets) /\ PageSound(placed, out)
          /\ placed.expired = s.expired /\ placed.page # <<>>
        BY <1>4, <2>3, PlaceIsSound
    <2> HIDE DEF placed
    <2>5. <<>> \in Seq(Moves)
        BY EmptySeq
    <2>6. /\ Navigate(s, out) \in Scrolls(targets)
          /\ Navigate(s, out).page = placed.page /\ Navigate(s, out).expired = placed.expired
          /\ Navigate(s, out).held = placed.held /\ Navigate(s, out).position = placed.position
        BY <1>2, <1>4, <2>4, <2>5 DEF Scrolls
    <2> QED
        BY <1>4, <2>4, <2>6 DEF PageSound
<1> QED
    BY <1>3, <1>4

LEMMA PlaceTargetIsSound ==
    ASSUME LogScrollAssumption, NEW targets, None \in targets, NEW s \in Scrolls(targets),
           NEW out \in Outputs, s.expired = FALSE
    PROVE  /\ PlaceTarget(s, out) \in Scrolls(targets)
           /\ PageSound(PlaceTarget(s, out), out)
           /\ PlaceTarget(s, out).expired = FALSE
           /\ PlaceTarget(s, out).page = <<>> <=> Total(out) = 0
           /\ Retained(out, s.target) => s.target \in ToSet(PlaceTarget(s, out).page)
<1> DEFINE height == Least(Rows, Total(out))
           without == [s EXCEPT !.target = None]
           start == Least(Centered(out, s.target, height), Total(out) - height)
<1>1. Total(out) \in Nat /\ Rows \in Nat \ {0}
    BY DisplayIs DEF LogScrollAssumption
<1>2. without \in Scrolls(targets) /\ without.expired = FALSE
    BY DEF Scrolls
<1>3. CASE Total(out) = 0
    <2>1. PlaceTarget(s, out) = Follow(s)
        BY <1>3 DEF PlaceTarget
    <2>2. ~Retained(out, s.target)
        BY <1>3, RetainedIsAt
    <2> QED
        BY <1>3, <2>1, <2>2, FollowIs
<1>4. CASE Total(out) # 0 /\ ~Retained(out, s.target)
    <2> DEFINE top == [without EXCEPT !.position = TopOfHistory]
    <2>1. PlaceTarget(s, out) = Refresh(top, out)
        BY <1>4 DEF PlaceTarget
    <2>2. top \in Scrolls(targets) /\ top.expired = FALSE
        BY <1>2 DEF Scrolls, Places
    <2> HIDE DEF top
    <2> QED
        BY <1>4, <2>1, <2>2, RefreshIsSound
<1>5. CASE Total(out) # 0 /\ Retained(out, s.target)
    <2> DEFINE at == PositionOf(out, s.target)
               placed == Place(without, out, height, start)
               w == Window(out, start, height)
    <2>1. PlaceTarget(s, out) = placed
        BY <1>5 DEF PlaceTarget
    <2>2. at \in 0..(Total(out) - 1) /\ LineAt(out, at) = s.target
        BY <1>5, RetainedIsAt
    <2>3. height \in 1..Total(out)
        BY <1>1, <1>5 DEF Least
    <2>4. /\ start \in 0..(Total(out) - height)
          /\ at >= start /\ at < start + height
        <3> HIDE DEF at, height
        <3> DEFINE half == height \div 2
        <3>1. half \in Nat /\ half < height
            BY <2>3
        <3>2. start = Least(Less(at, half), Total(out) - height)
            BY DEF Centered, at
        <3> HIDE DEF half, start
        <3> QED
            BY <1>1, <2>2, <2>3, <3>1, <3>2 DEF Less, Least
    <2> HIDE DEF start
    <2>5. /\ placed \in Scrolls(targets) /\ PageSound(placed, out)
          /\ placed.expired = FALSE /\ placed.page = w /\ placed.page # <<>>
        <3>1. start \in 0..(Total(out) - Least(Rows, Total(out)))
            BY <2>4
        <3> QED
            BY <1>2, <1>5, <3>1, PlaceIsSound, ZenonT(40)
    <2>6. s.target \in ToSet(w)
        <3> DEFINE i == at - start + 1
        <3>1. start \in 0..Total(out) /\ height \in Nat
            BY <1>1, <2>3, <2>4
        <3>2. /\ w \in Seq(Nat) /\ Len(w) = Least(height, Total(out) - start)
              /\ \A j \in 1..Len(w) : w[j] = LineAt(out, start + j - 1)
            BY <3>1, WindowIs
        <3> HIDE DEF w, at
        <3>3. i \in 1..Len(w) /\ start + i - 1 = at
            <4> HIDE DEF height
            <4> QED
                BY <1>1, <2>2, <2>3, <2>4, <3>2 DEF Least
        <3> HIDE DEF i
        <3>4. w[i] = s.target
            BY <2>2, <3>2, <3>3
        <3>5. i \in DOMAIN w
            BY <3>2, <3>3, LenProperties
        <3> QED
            BY <3>4, <3>5 DEF ToSet
    <2> QED
        BY <1>5, <2>1, <2>5, <2>6
<1> QED
    BY <1>3, <1>4, <1>5

(* A page is frozen, or drawn anew.                                        *)
LEMMA NextPageIsSound ==
    ASSUME LogScrollAssumption, NEW targets, None \in targets, NEW s \in Scrolls(targets),
           NEW out \in Outputs
    PROVE  /\ NextPage(s, out) \in Scrolls(targets)
           /\ PageSound(NextPage(s, out), out)
           /\ NextPage(s, out).expired \/ (NextPage(s, out).page = <<>> <=> Total(out) = 0)
<1> DEFINE fresh == [s EXCEPT !.expired = FALSE]
<1>1. fresh \in Scrolls(targets) /\ fresh.expired = FALSE
    BY DEF Scrolls
<1>2. CASE Freezes(s, out)
    <2>1. NextPage(s, out) = [s EXCEPT !.expired = TRUE]
        BY <1>2 DEF NextPage
    <2>2. NextPage(s, out) \in Scrolls(targets) /\ NextPage(s, out).expired = TRUE
        BY <2>1 DEF Scrolls
    <2> QED
        BY <2>2 DEF PageSound
<1>3. CASE ~Freezes(s, out)
    <2>1. NextPage(s, out) = IF s.target # None THEN PlaceTarget(fresh, out)
                             ELSE IF s.pending # <<>> THEN Navigate(fresh, out)
                             ELSE Refresh(fresh, out)
        BY <1>3 DEF NextPage
    <2> HIDE DEF fresh
    <2>2. CASE s.target # None
        BY <1>1, <2>1, <2>2, PlaceTargetIsSound
    <2>3. CASE s.target = None /\ s.pending # <<>>
        BY <1>1, <2>1, <2>3, NavigateIsSound
    <2>4. CASE s.target = None /\ s.pending = <<>>
        BY <1>1, <2>1, <2>4, RefreshIsSound
    <2> QED
        BY <2>2, <2>3, <2>4
<1> QED
    BY <1>2, <1>3

-----------------------------------------------------------------------------
(* A page that does not follow stays.                                      *)

LEMMA PrefixByElements ==
    ASSUME NEW p \in Seq(Nat), NEW q \in Seq(Nat), Len(p) <= Len(q),
           \A i \in 1..Len(p) : p[i] = q[i]
    PROVE  IsPrefix(p, q)
<1>1. Len(p) \in Nat /\ Len(q) \in Nat
    BY LenProperties
<1>2. \A i \in 1..Len(p) : p[i] \in Nat /\ q[i] \in Nat
    BY <1>1, ElementOfSeq
<1>3. /\ SubSeq(p, 1, Len(p)) \in Seq(Nat) /\ SubSeq(q, 1, Len(p)) \in Seq(Nat)
      /\ Len(SubSeq(p, 1, Len(p))) = IF 1 <= Len(p) THEN Len(p) - 1 + 1 ELSE 0
      /\ Len(SubSeq(q, 1, Len(p))) = IF 1 <= Len(p) THEN Len(p) - 1 + 1 ELSE 0
      /\ \A i \in 1..(Len(p) - 1 + 1) : SubSeq(p, 1, Len(p))[i] = p[1 + i - 1]
      /\ \A i \in 1..(Len(p) - 1 + 1) : SubSeq(q, 1, Len(p))[i] = q[1 + i - 1]
    BY <1>1, <1>2, SubSeqProperties
<1>4. Len(SubSeq(p, 1, Len(p))) = Len(p) /\ Len(SubSeq(q, 1, Len(p))) = Len(p)
    BY <1>1, <1>3
<1>5. \A i \in 1..Len(p) : SubSeq(p, 1, Len(p))[i] = p[i] /\ SubSeq(q, 1, Len(p))[i] = q[i]
    BY <1>1, <1>3
<1>6. SubSeq(p, 1, Len(p)) = SubSeq(q, 1, Len(p))
    BY <1>3, <1>4, <1>5, SeqEqual
<1> QED
    BY <1>6 DEF IsPrefix

LEMMA RefreshStays ==
    ASSUME LogScrollAssumption, NEW targets, NEW s \in Scrolls(targets), NEW out \in Outputs,
           Total(out) # 0, s.expired = FALSE, s.position # Following,
           s.position = TopOfHistory \/ Retained(out, s.position.line),
           s.held \/ PositionOf(out, s.position.line) + Rows < Total(out)
    PROVE  Refresh(s, out).page = Window(out, PositionOf(out, s.position.line), Rows)
<1> DEFINE start == PositionOf(out, s.position.line)
           page == Window(out, start, Rows + 1)
           gone == s.position.at = "source" /\ ~Retained(out, s.position.line)
           position == IF gone THEN TopOfHistory ELSE s.position
<1>1. Total(out) \in Nat /\ Rows \in Nat \ {0} /\ s.position \in Places /\ s.held \in BOOLEAN
    BY DisplayIs DEF LogScrollAssumption, Scrolls
<1>2. start \in 0..Total(out)
    BY <1>1, PositionIs
<1>3. ~gone
    BY <1>1, PlacesAre
<1>4. Len(page) = Least(Rows + 1, Total(out) - start)
    BY <1>1, <1>2, WindowIs
<1>5. ~(Len(page) <= Rows /\ ~s.held)
    <2> HIDE DEF page
    <2> QED
        BY <1>1, <1>2, <1>4 DEF Least
<1>6. Refresh(s, out) = [s EXCEPT !.position = position, !.page = SubSeq(page, 1, Least(Rows, Len(page)))]
    BY <1>3, <1>5 DEF Refresh
<1>7. Refresh(s, out).position = s.position
    <2> DEFINE cut == SubSeq(page, 1, Least(Rows, Len(page)))
    <2>1. position = s.position
        BY <1>3
    <2> HIDE DEF position, cut
    <2>2. Refresh(s, out) = [s EXCEPT !.position = position, !.page = cut]
        BY <1>6 DEF cut
    <2> QED
        BY <2>1, <2>2 DEF Scrolls
<1>8. /\ PageSound(Refresh(s, out), out) /\ Refresh(s, out).expired = FALSE
      /\ Refresh(s, out).page # <<>>
    BY RefreshIsSound
<1> QED
    BY <1>7, <1>8 DEF PageSound

LEMMA PausedPageIsKept ==
    ASSUME LogScrollAssumption, NEW targets, None \in targets, NEW s \in Scrolls(targets),
           NEW old \in Outputs, NEW out \in Outputs, out.first >= old.first, out.last >= old.last,
           PageSound(s, old), ~IsFollowing(s), ~Requested(s), s.page # <<>>
    PROVE  IsPrefix(s.page, NextPage(s, out).page)
<1> DEFINE fresh == [s EXCEPT !.expired = FALSE]
           line == s.position.line
           p == PositionOf(old, line)
           q == PositionOf(out, line)
           next == Refresh(fresh, out)
<1>1. /\ Total(out) \in Nat /\ Rows \in Nat \ {0} /\ Total(old) \in Nat
      /\ s.position \in Places /\ s.page \in Seq(Nat) /\ s.position # Following
    BY DisplayIs DEF LogScrollAssumption, Scrolls, IsFollowing, Requested
<1>2. CASE Freezes(s, out)
    <2>1. NextPage(s, out).page = s.page
        BY <1>2 DEF NextPage, Scrolls
    <2>2. Len(s.page) \in Nat
        BY <1>1, LenProperties
    <2> QED
        BY <1>1, <2>1, <2>2, PrefixByElements
<1>3. CASE ~Freezes(s, out)
    <2>1. NextPage(s, out) = next
        BY <1>3 DEF NextPage, Requested
    <2>2. /\ s.expired = FALSE
          /\ \A i \in DOMAIN s.page : IsFirstLine(s.page, i) => Retained(out, s.page[i])
        BY <1>3 DEF Freezes, Scrolls
    <2>3. /\ s.position = TopOfHistory \/ Retained(old, line)
          /\ s.page = Window(old, p, Rows)
          /\ ~s.held => p + Rows < Total(old)
        BY <1>1, <2>2 DEF PageSound
    <2>4. p \in 0..Total(old) /\ (p = Total(old) => Total(old) = 0)
        BY <1>1, <2>3, PositionIs
    <2> HIDE DEF p
    <2>5. /\ Len(s.page) = Least(Rows, Total(old) - p)
          /\ \A i \in 1..Len(s.page) : s.page[i] = LineAt(old, p + i - 1)
          /\ p # Total(old)
        BY <1>1, <2>3, <2>4, WindowIs
    <2>6. DOMAIN s.page = 1..Len(s.page) /\ Len(s.page) \in Nat \ {0}
        BY <1>1, EmptySeq, LenProperties
    <2>7. /\ fresh \in Scrolls(targets) /\ fresh.expired = FALSE /\ fresh.position = s.position
          /\ fresh.held = s.held
        BY DEF Scrolls
    <2> HIDE DEF fresh, next
    <2>8. next.page \in Seq(Nat) /\ (next.page = <<>> <=> Total(out) = 0)
        BY <2>7, RefreshIsSound DEF next, Scrolls
    <2>9. ASSUME q \in 0..(Total(out) - 1), next.page = Window(out, q, Rows),
                 Total(old) - p <= Total(out) - q \/ Len(s.page) = 1,
                 \A i \in 1..Len(s.page) : LineAt(old, p + i - 1) = LineAt(out, q + i - 1)
          PROVE  IsPrefix(s.page, next.page)
        <3>1. /\ Len(next.page) = Least(Rows, Total(out) - q)
              /\ \A i \in 1..Len(next.page) : next.page[i] = LineAt(out, q + i - 1)
            <4>1. q \in 0..Total(out)
                <5> HIDE DEF q
                <5> QED
                    BY <1>1, <2>9
            <4>2. next.page = Window(out, q, Rows) /\ Rows \in Nat
                BY <1>1, <2>9
            <4> HIDE DEF q
            <4>3. /\ Len(Window(out, q, Rows)) = Least(Rows, Total(out) - q)
                  /\ \A i \in 1..Len(Window(out, q, Rows)) :
                        Window(out, q, Rows)[i] = LineAt(out, q + i - 1)
                BY <4>1, <4>2, WindowIs
            <4> QED
                BY <4>2, <4>3
        <3> HIDE DEF q
        <3>2. Len(s.page) <= Len(next.page) /\ Len(next.page) \in Nat
            <4>1. Len(s.page) = Least(Rows, Total(old) - p) /\ Total(old) - p \in Nat \ {0}
                BY <1>1, <2>4, <2>5
            <4>2. Len(next.page) = Least(Rows, Total(out) - q) /\ Total(out) - q \in Nat \ {0}
                BY <1>1, <2>9, <3>1
            <4>3. Rows \in Nat \ {0}
                BY <1>1
            <4> QED
                BY <2>9, <4>1, <4>2, <4>3 DEF Least
        <3>3. \A i \in 1..Len(s.page) : s.page[i] = next.page[i]
            <4> SUFFICES ASSUME NEW i \in 1..Len(s.page)
                         PROVE  s.page[i] = next.page[i]
                OBVIOUS
            <4>1. i \in 1..Len(next.page)
                BY <2>6, <3>2
            <4> QED
                BY <2>5, <2>9, <3>1, <4>1
        <3> QED
            BY <1>1, <2>8, <3>2, <3>3, PrefixByElements
    <2>10. /\ old.first \in Nat \ {0} /\ old.last \in Nat /\ out.first \in Nat \ {0} /\ out.last \in Nat
           /\ Total(old) = Notices(old) + old.last + 1 - old.first
           /\ Total(out) = Notices(out) + out.last + 1 - out.first
           /\ Notices(old) \in 0..1 /\ Notices(out) \in 0..1
           /\ (Truncated(old) <=> Notices(old) = 1) /\ (Truncated(out) <=> Notices(out) = 1)
        <3>1. \A o \in {old, out} : o.first \in Nat \ {0} /\ o.last \in Nat
            BY DEF Outputs
        <3>2. \A o \in {old, out} : Total(o) = Notices(o) + o.last + 1 - o.first
            BY DisplayIs
        <3>3. \A o : Notices(o) \in 0..1 /\ (Truncated(o) <=> Notices(o) = 1)
            BY DEF Notices
        <3> QED
            BY <3>1, <3>2, <3>3
    <2>11. CASE Retained(old, line)
        <3>1. /\ line \in Nat \ {0} /\ p = line - old.first + Notices(old) /\ LineAt(old, p) = line
            BY <2>11, RetainedIsAt DEF p
        <3>2. s.page[1] = line
            <4>1. 1 \in 1..Len(s.page) /\ p + 1 - 1 = p
                BY <2>4, <2>6
            <4> QED
                BY <2>5, <3>1, <4>1
        <3>3. Retained(out, line)
            <4>1. IsFirstLine(s.page, 1)
                BY <3>1, <3>2 DEF IsFirstLine, None
            <4> QED
                BY <2>2, <2>6, <3>2, <4>1
        <3>4. q \in 0..(Total(out) - 1) /\ q = line - out.first + Notices(out)
            BY <3>3, RetainedIsAt
        <3>5. Total(old) - p <= Total(out) - q
            <4>1. Total(old) - p = old.last + 1 - line
                BY <2>11, LinesBelow DEF p
            <4>2. Total(out) - q = out.last + 1 - line
                BY <3>3, LinesBelow
            <4> HIDE DEF q, line
            <4> QED
                BY <2>10, <3>1, <4>1, <4>2
        <3>6. next.page = Window(out, q, Rows)
            <4>1. s.held \/ q + Rows < Total(out)
                BY <1>1, <2>3, <2>4, <3>4, <3>5
            <4>2. Total(out) # 0
                BY <3>4
            <4> QED
                BY <1>1, <2>7, <3>3, <4>1, <4>2, RefreshStays DEF next
        <3>7. ASSUME NEW i \in 1..Len(s.page)
              PROVE  LineAt(old, p + i - 1) = LineAt(out, q + i - 1)
            <4>1. i - 1 \in Nat
                BY <2>6
            <4>2. LineAt(old, p + (i - 1)) = line + (i - 1)
                BY <2>11, <4>1, LinesBelow DEF p
            <4>3. LineAt(out, q + (i - 1)) = line + (i - 1)
                BY <3>3, <4>1, LinesBelow
            <4>4. p + (i - 1) = p + i - 1 /\ q + (i - 1) = q + i - 1
                <5> HIDE DEF q
                <5> QED
                    BY <2>4, <2>6, <3>4
            <4> QED
                BY <4>2, <4>3, <4>4
        <3> QED
            BY <2>1, <2>9, <3>4, <3>5, <3>6, <3>7
    <2>12. CASE s.position = TopOfHistory /\ out.first = old.first
        <3>1. p = 0 /\ q = 0 /\ fresh.position.line = line
            BY <2>7, <2>12 DEF p, PositionOf, TopOfHistory
        <3>2. Notices(out) = Notices(old) /\ (Truncated(out) <=> Truncated(old))
            BY <2>12 DEF Notices, Truncated
        <3>3. Total(old) <= Total(out) /\ Total(old) # 0 /\ Total(out) # 0
            <4>1. Total(old) # 0
                BY <2>5, <3>1
            <4>2. Total(old) <= Total(out)
                <5> HIDE DEF q, line
                <5> QED
                    BY <2>10, <2>12, <3>2
            <4> QED
                BY <1>1, <4>1, <4>2
        <3>4. next.page = Window(out, q, Rows)
            <4>1. s.held \/ q + Rows < Total(out)
                BY <1>1, <2>3, <3>1, <3>3
            <4> QED
                BY <1>1, <2>7, <2>12, <3>1, <3>3, <4>1, RefreshStays DEF next
        <3>5. \A i \in 1..Len(s.page) : LineAt(old, p + i - 1) = LineAt(out, q + i - 1)
            BY <2>12, <3>1, <3>2 DEF LineAt
        <3> QED
            BY <1>1, <2>1, <2>9, <3>1, <3>3, <3>4, <3>5
    (* Only a page that is nothing but the notice can stay so.             *)
    <2>13. CASE s.position = TopOfHistory /\ out.first # old.first
        <3>1. p = 0 /\ q = 0 /\ fresh.position.line = line
            BY <2>7, <2>13 DEF p, PositionOf, TopOfHistory
        <3>2. out.first > old.first /\ Truncated(out)
            BY <2>10, <2>13 DEF Truncated
        <3>3. s.page[1] = LineAt(old, 0)
            <4>1. 1 \in 1..Len(s.page) /\ 0 + 1 - 1 = 0
                BY <2>6
            <4> QED
                BY <2>5, <3>1, <4>1
        <3>4. Truncated(old)
            <4> SUFFICES ASSUME ~Truncated(old)
                         PROVE  FALSE
                OBVIOUS
            <4>1. s.page[1] = old.first
                BY <2>10, <3>3 DEF LineAt, Notices
            <4>2. IsFirstLine(s.page, 1)
                BY <2>10, <4>1 DEF IsFirstLine, None
            <4>3. Retained(out, old.first)
                BY <2>2, <2>6, <4>1, <4>2
            <4> QED
                BY <2>10, <3>2, <4>3 DEF Retained
        <3>5. s.page[1] = None
            BY <3>3, <3>4 DEF LineAt
        <3>6. Len(s.page) = 1
            <4> SUFFICES ASSUME Len(s.page) # 1
                         PROVE  FALSE
                OBVIOUS
            <4>1. 2 \in 1..Len(s.page) /\ 0 + 2 - 1 = 1
                <5> DEFINE n == Len(s.page)
                <5>1. n \in Nat \ {0} /\ n # 1
                    BY <2>6
                <5> HIDE DEF n
                <5>2. 2 \in 1..n
                    BY <5>1
                <5> QED
                    BY <5>2 DEF n
            <4>2. s.page[2] = LineAt(old, 1)
                BY <2>5, <3>1, <4>1
            <4>3. s.page[2] = old.first
                BY <2>10, <3>4, <4>2 DEF LineAt, Notices
            <4>4. IsFirstLine(s.page, 2)
                BY <2>10, <3>5, <4>3 DEF IsFirstLine, None
            <4>5. Retained(out, old.first)
                BY <2>2, <2>6, <4>1, <4>3, <4>4
            <4> QED
                BY <2>10, <3>2, <4>5 DEF Retained
        <3>7. Total(out) \in Nat \ {0}
            <4>1. out.first <= out.last + 1
                BY DEF Outputs
            <4> QED
                BY <1>1, <2>10, <3>2, <4>1 DEF Notices
        <3>8. next.page = Window(out, q, Rows)
            <4>1. CASE s.held \/ Rows < Total(out)
                <5>1. s.held \/ q + Rows < Total(out)
                    BY <1>1, <3>1, <3>7, <4>1
                <5> QED
                    BY <1>1, <2>7, <2>13, <3>1, <3>7, <5>1, RefreshStays DEF next
            <4>2. CASE ~(s.held \/ Rows < Total(out))
                <5>1. Rows < Total(old)
                    BY <1>1, <2>3, <3>1, <4>2
                <5>2. Rows = 1 /\ Total(out) = 1
                    <6>1. Least(Rows, Total(old)) = 1
                        <7>1. Total(old) - p = Total(old)
                            BY <1>1, <3>1
                        <7> QED
                            BY <2>5, <3>6, <7>1
                    <6>2. Rows = 1
                        BY <1>1, <5>1, <6>1 DEF Least
                    <6> QED
                        BY <1>1, <3>7, <4>2, <6>2
                <5>3. Less(Total(out), Rows) = 0
                    BY <5>2 DEF Less
                <5>4. \/ next.page = Newest(out, Rows)
                      \/ next.page = Window(out, PositionOf(out, next.position.line), Rows)
                    BY <2>7, <2>8, <3>7, RefreshIsSound DEF next, PageSound
                <5>5. next.page = Newest(out, Rows)
                    <6> DEFINE page == Window(out, 0, Rows + 1)
                    <6>1. Len(page) <= Rows
                        <7>1. Len(page) = Least(Rows + 1, Total(out) - 0)
                            BY <1>1, <3>7, WindowIs
                        <7> QED
                            <8> HIDE DEF page
                            <8>1. Len(page) = Least(2, 1)
                                BY <5>2, <7>1
                            <8> QED
                                BY <5>2, <8>1 DEF Least
                    <6>2. fresh.position.at # "source" /\ PositionOf(out, fresh.position.line) = 0
                        BY <2>7, <2>13, <3>1 DEF TopOfHistory
                    <6> HIDE DEF page
                    <6>3. next = [fresh EXCEPT !.position = Following, !.page = Newest(out, Rows)]
                        BY <2>7, <4>2, <6>1, <6>2 DEF next, Refresh, page
                    <6> QED
                        BY <2>7, <6>3 DEF Scrolls
                <5> QED
                    BY <3>1, <5>3, <5>5, NewestIs
            <4> QED
                BY <4>1, <4>2
        <3>9. \A i \in 1..Len(s.page) : LineAt(old, p + i - 1) = LineAt(out, q + i - 1)
            <4>1. LineAt(old, 0) = None /\ LineAt(out, 0) = None
                BY <3>2, <3>4 DEF LineAt
            <4> SUFFICES ASSUME NEW i \in 1..Len(s.page)
                         PROVE  LineAt(old, p + i - 1) = LineAt(out, q + i - 1)
                OBVIOUS
            <4>2. p + i - 1 = 0 /\ q + i - 1 = 0
                BY <3>1, <3>6
            <4> QED
                BY <4>1, <4>2
        <3> QED
            BY <2>1, <2>9, <3>1, <3>6, <3>7, <3>8, <3>9
    <2> QED
        BY <2>3, <2>11, <2>12, <2>13
<1> QED
    BY <1>2, <1>3

-----------------------------------------------------------------------------
(* What a sound page shows.                                                *)

LEMMA PageIs ==
    ASSUME LogScrollAssumption, NEW targets, NEW s \in Scrolls(targets), NEW out \in Outputs,
           PageSound(s, out), s.page # <<>>, ~s.expired
    PROVE  \E start \in 0..(Total(out) - 1) :
              /\ s.page = Window(out, start, Rows)
              /\ Len(s.page) = Least(Rows, Total(out) - start)
              /\ Len(s.page) \in 1..Total(out)
              /\ \A i \in 1..Len(s.page) :
                    s.page[i] = LineAt(out, start + i - 1) /\ start + i - 1 \in 0..(Total(out) - 1)
              /\ s.position = Following => start = Less(Total(out), Rows)
              /\ s.position # Following /\ ~s.held => start + Rows < Total(out)
<1>1. /\ Total(out) \in Nat /\ Rows \in Nat \ {0} /\ s.position \in Places /\ s.page \in Seq(Nat)
    BY DisplayIs DEF LogScrollAssumption, Scrolls
<1>2. PICK start \in 0..Total(out) :
          /\ s.page = Window(out, start, Rows)
          /\ s.position = Following => start = Less(Total(out), Rows)
          /\ s.position # Following /\ ~s.held => start + Rows < Total(out)
    <2>1. CASE s.position = Following
        BY <2>1, NewestIs DEF PageSound
    <2>2. CASE s.position # Following
        <3>1. /\ s.position = TopOfHistory \/ Retained(out, s.position.line)
              /\ s.page = Window(out, PositionOf(out, s.position.line), Rows)
              /\ ~s.held => PositionOf(out, s.position.line) + Rows < Total(out)
            BY <2>2 DEF PageSound
        <3>2. PositionOf(out, s.position.line) \in 0..Total(out)
            BY <1>1, <2>2, <3>1, PositionIs
        <3> QED
            BY <2>2, <3>1, <3>2
    <2> QED
        BY <2>1, <2>2
<1>3. /\ Len(s.page) = Least(Rows, Total(out) - start) /\ start # Total(out)
      /\ \A i \in 1..Len(s.page) : s.page[i] = LineAt(out, start + i - 1)
    BY <1>1, <1>2, WindowIs
<1>4. start \in 0..(Total(out) - 1) /\ Len(s.page) \in 1..Total(out) /\ Len(s.page) <= Total(out) - start
    BY <1>1, <1>2, <1>3 DEF Least
<1>5. \A i \in 1..Len(s.page) : start + i - 1 \in 0..(Total(out) - 1)
    BY <1>1, <1>4
<1> QED
    BY <1>2, <1>3, <1>4, <1>5

LEMMA PausedIsSound ==
    ASSUME LogScrollAssumption, NEW targets, None \in targets, NEW s \in Scrolls(targets),
           NEW out \in Outputs, PageSound(s, out)
    PROVE  /\ Paused(s) \in Scrolls(targets) /\ PageSound(Paused(s), out)
           /\ Paused(s).expired = s.expired
<1> DEFINE position == IF s.page # <<>> /\ s.page[1] # None THEN Source(s.page[1]) ELSE TopOfHistory
<1>1. s.page \in Seq(Nat) /\ (s.page # <<>> => s.page[1] \in Nat)
    <2>1. s.page \in Seq(Nat)
        BY DEF Scrolls
    <2>2. s.page # <<>> => 1 \in 1..Len(s.page)
        BY <2>1, EmptySeq
    <2> QED
        BY <2>1, <2>2, ElementOfSeq
<1>2. position \in Places /\ position # Following
    <2>1. CASE s.page # <<>> /\ s.page[1] # None
        <3>1. position = Source(s.page[1]) /\ s.page[1] \in Nat \ {0}
            BY <1>1, <2>1 DEF None
        <3> HIDE DEF position
        <3> QED
            BY <3>1 DEF Places, Source, Following
    <2>2. CASE ~(s.page # <<>> /\ s.page[1] # None)
        <3>1. position = TopOfHistory
            BY <2>2
        <3> HIDE DEF position
        <3> QED
            BY <3>1 DEF Places, TopOfHistory, Following
    <2> QED
        BY <2>1, <2>2
<1>3. <<>> \in Seq(Moves)
    BY EmptySeq
<1>4. Paused(s) = [s EXCEPT !.position = position, !.pending = <<>>, !.target = None, !.held = TRUE]
    BY DEF Paused
<1>5. ASSUME s.page # <<>>, ~s.expired
      PROVE  /\ position = TopOfHistory \/ Retained(out, position.line)
             /\ s.page = Window(out, PositionOf(out, position.line), Rows)
    <2>1. PICK start \in 0..(Total(out) - 1) :
              /\ s.page = Window(out, start, Rows) /\ Len(s.page) \in 1..Total(out)
              /\ \A i \in 1..Len(s.page) : s.page[i] = LineAt(out, start + i - 1)
        BY <1>5, PageIs
    <2>2. s.page[1] = LineAt(out, start)
        <3>1. Total(out) \in Nat
            BY DisplayIs
        <3>2. 1 \in 1..Len(s.page) /\ start + 1 - 1 = start
            BY <2>1, <3>1
        <3> QED
            BY <2>1, <3>2
    <2>3. CASE s.page[1] # None
        <3>1. Retained(out, s.page[1]) /\ PositionOf(out, s.page[1]) = start
            BY <2>2, <2>3, DisplayIs
        <3>2. position.line = s.page[1]
            BY <1>5, <2>3 DEF Source
        <3> HIDE DEF position
        <3> QED
            BY <2>1, <3>1, <3>2
    <2>4. CASE s.page[1] = None
        <3>1. start = 0
            BY <2>2, <2>4, DisplayIs
        <3>2. position = TopOfHistory
            BY <2>4
        <3>3. PositionOf(out, TopOfHistory.line) = 0
            BY DEF PositionOf, TopOfHistory
        <3> QED
            BY <2>1, <3>1, <3>2, <3>3
    <2> QED
        BY <2>3, <2>4
<1> HIDE DEF position
<1>6. /\ Paused(s) \in Scrolls(targets) /\ Paused(s).expired = s.expired
      /\ Paused(s).position = position /\ Paused(s).page = s.page /\ Paused(s).held = TRUE
    BY <1>2, <1>3, <1>4 DEF Scrolls
<1> QED
    BY <1>2, <1>5, <1>6 DEF PageSound

-----------------------------------------------------------------------------
(* The scrollbar.                                                          *)

Bars == [position : Nat, content : Nat, viewport : Nat]

(* The bar is that of the output on the screen.                            *)
BarFits(bar, out) == bar # NoBar => bar.content \in 1..Total(out) /\ bar.viewport # 0

LEMMA BarIsSound ==
    ASSUME LogScrollAssumption, NEW targets, NEW s \in Scrolls(targets), NEW out \in Outputs,
           PageSound(s, out), ~s.expired, s.page = <<>> => Total(out) = 0
    PROVE  BarOf(s, out) \in Bars /\ BarFits(BarOf(s, out), out)
<1>1. Total(out) \in Nat /\ Rows \in Nat \ {0}
    BY DisplayIs DEF LogScrollAssumption
<1>2. CASE Total(out) <= Rows
    <2>1. BarOf(s, out) = NoBar
        BY <1>2 DEF BarOf
    <2> QED
        BY <2>1 DEF BarFits, NoBar, Bars
<1>3. CASE ~(Total(out) <= Rows)
    <2>1. s.page # <<>>
        BY <1>1, <1>3
    <2>2. PICK start \in 0..(Total(out) - 1) :
              /\ Len(s.page) \in 1..Total(out)
              /\ \A i \in 1..Len(s.page) : s.page[i] = LineAt(out, start + i - 1)
        BY <2>1, PageIs
    <2>3. PositionOf(out, s.page[1]) \in Nat
        <3>1. 1 \in 1..Len(s.page) /\ start + 1 - 1 = start
            BY <1>1, <2>2
        <3>2. s.page[1] = LineAt(out, start)
            BY <2>2, <3>1
        <3>3. CASE s.page[1] = None
            BY <3>3 DEF PositionOf
        <3>4. CASE s.page[1] # None
            BY <3>2, <3>4, DisplayIs
        <3> QED
            BY <3>3, <3>4
    <2> DEFINE n == Len(s.page)
               position == PositionOf(out, s.page[1])
    <2>4. BarOf(s, out) = [position |-> position, content |-> Total(out) - n + 1, viewport |-> n]
        BY <1>3, <2>1 DEF BarOf
    <2>5. n \in Nat /\ n # 0 /\ Total(out) - n + 1 \in 1..Total(out)
        BY <1>1, <2>2
    <2> HIDE DEF n, position
    <2>6. BarOf(s, out) \in Bars
        BY <2>3, <2>4, <2>5 DEF Bars, position
    <2> QED
        BY <2>4, <2>5, <2>6 DEF BarFits
<1> QED
    BY <1>2, <1>3

LEMMA ProductIsNatural ==
    ASSUME NEW a \in Nat, NEW b \in Nat
    PROVE  a * b \in Nat
OBVIOUS

LEMMA QuotientIsNatural ==
    ASSUME NEW a \in Nat, NEW b \in Nat \ {0}
    PROVE  a \div b \in Nat
OBVIOUS

LEMMA ScaledIsWithin ==
    ASSUME NEW range \in Nat \ {0}, NEW at \in 0..range, NEW length \in Nat
    PROVE  (at * length) \div range \in 0..length
<1> DEFINE q == (at * length) \div range
<1>1. at * length \in Nat /\ range * length \in Nat
    BY ProductIsNatural
<1>2. q \in Nat
    BY <1>1, QuotientIsNatural
<1>3. range * q <= at * length
    BY <1>1
<1>4. at * length <= range * length
    OBVIOUS
<1>5. q <= length
    <2> SUFFICES ASSUME q >= length + 1
                 PROVE  FALSE
        BY <1>2
    <2> HIDE DEF q
    <2>1. range * q >= range * (length + 1)
        BY <1>2
    <2>2. range * (length + 1) = range * length + range
        OBVIOUS
    <2>3. range * q \in Nat
        BY <1>2, ProductIsNatural
    <2> QED
        BY <1>1, <1>3, <1>4, <2>1, <2>2, <2>3 DEF q
<1> QED
    BY <1>2, <1>5

LEMMA ThumbIsShort ==
    ASSUME LogScrollAssumption, NEW bar \in Bars, bar.content # 0, bar.viewport # 0
    PROVE  ThumbLength(bar) \in 1..Rows
<1> DEFINE source == bar.content - 1 + bar.viewport
           rounded == Rounded(bar.viewport, Rows, source)
           least == Least(Rows, rounded)
<1>1. Rows \in Nat \ {0} /\ bar.viewport \in Nat /\ source \in Nat \ {0}
    <2>1. Rows \in Nat \ {0}
        BY DEF LogScrollAssumption
    <2>2. bar.viewport \in Nat /\ bar.content \in Nat
        BY DEF Bars
    <2> QED
        BY <2>1, <2>2
<1>2. rounded \in Nat
    <2>1. bar.viewport * Rows \in Nat /\ source \div 2 \in Nat
        BY <1>1, ProductIsNatural
    <2>2. bar.viewport * Rows + source \div 2 \in Nat
        BY <2>1
    <2> HIDE DEF source
    <2>3. (bar.viewport * Rows + source \div 2) \div source \in Nat
        BY <1>1, <2>2, QuotientIsNatural
    <2> QED
        BY <2>3 DEF Rounded
<1> HIDE DEF rounded
<1>3. least \in 0..Rows
    BY <1>1, <1>2 DEF Least
<1>4. ThumbLength(bar) = Max({1, least})
    BY DEF ThumbLength, rounded
<1> HIDE DEF least
<1>5. Max({1, least}) \in {1, least} /\ \A x \in {1, least} : Max({1, least}) >= x
    <2>1. \E x \in {1, least} : \A y \in {1, least} : x >= y
        BY <1>1, <1>3
    <2> QED
        BY <2>1 DEF Max
<1> QED
    BY <1>1, <1>3, <1>4, <1>5

LEMMA DraggedIsSound ==
    ASSUME LogScrollAssumption, NEW targets, None \in targets, NEW s \in Scrolls(targets),
           NEW out \in Outputs, NEW bar \in Bars, bar # NoBar, BarFits(bar, out), NEW start \in Nat
    PROVE  LET next == Dragged(s, bar, start, out)
           IN  /\ next \in Scrolls(targets) /\ PageSound(next, out) /\ next.expired = s.expired
               /\ next.page = <<>> <=> Total(out) = 0
<1> DEFINE range == Rows - ThumbLength(bar)
           position == IF range = 0 THEN 0 ELSE (Least(start, range) * (bar.content - 1)) \div range
           line == Display(out)[position + 1]
           place == IF line = None THEN TopOfHistory ELSE Source(line)
           moved == [s EXCEPT !.position = place, !.pending = <<>>, !.target = None]
<1>1. /\ Total(out) \in Nat /\ bar.content \in 1..Total(out) /\ bar.viewport # 0
    BY DisplayIs DEF BarFits
<1>2. range \in Nat
    <2>1. bar.content # 0
        BY <1>1
    <2>2. ThumbLength(bar) \in 1..Rows
        BY <1>1, <2>1, ThumbIsShort
    <2>3. Rows \in Nat
        BY DEF LogScrollAssumption
    <2> QED
        BY <2>2, <2>3
<1> HIDE DEF range
<1>3. position \in 0..(Total(out) - 1)
    <2>1. CASE range = 0
        BY <1>1, <2>1
    <2>2. CASE range # 0
        <3>1. Least(start, range) \in 0..range /\ bar.content - 1 \in Nat
            BY <1>1, <1>2 DEF Least
        <3>2. (Least(start, range) * (bar.content - 1)) \div range \in 0..(bar.content - 1)
            BY <1>2, <2>2, <3>1, ScaledIsWithin
        <3>3. position \in 0..(bar.content - 1)
            BY <2>2, <3>2
        <3> HIDE DEF position
        <3> QED
            BY <1>1, <3>3
    <2> QED
        BY <2>1, <2>2
<1> HIDE DEF position
<1>4. line \in Nat
    BY <1>3, DisplayIs
<1> HIDE DEF line
<1>5. place \in Places
    BY <1>4 DEF Places, None
<1> HIDE DEF place
<1>6. moved \in Scrolls(targets) /\ moved.expired = s.expired
    <2>1. <<>> \in Seq(Moves)
        BY EmptySeq
    <2> QED
        BY <1>5, <2>1 DEF Scrolls
<1>7. Dragged(s, bar, start, out) = Refresh(moved, out)
    BY DEF Dragged, range, position, line, place
<1> HIDE DEF moved
<1> QED
    BY <1>6, <1>7, RefreshIsSound

-----------------------------------------------------------------------------
(* The invariant.                                                          *)

Points == Nat \X Nat
Selections == [anchor : Points, cursor : Points, row : Nat, column : Nat, dragging : BOOLEAN]
Markings == [selection : Selections, bar : Bars, gesture : {"none", "thumb", "track"}]

TypeOK ==
    /\ output \in Outputs
    /\ scroll \in Scrolls({None, scroll.target})
    /\ marks \in Markings
    /\ unseen \in BOOLEAN

Announced == output.last > shown => unseen

DragIsOnThePane(m) == m.dragging => m.row \in 1..Rows

IInv ==
    /\ TypeOK
    /\ PageSound(scroll, output)
    /\ scroll.expired => marks.bar = NoBar
    /\ BarFits(marks.bar, output)
    /\ DragIsOnThePane(marks.selection)
    /\ Announced

LEMMA ScrollsNarrow ==
    ASSUME NEW targets, NEW s \in Scrolls(targets)
    PROVE  s \in Scrolls({None, s.target})
BY DEF Scrolls

(* What is known of a page depends on its place and on its lines only.     *)
LEMMA PageSoundKept ==
    ASSUME NEW s, NEW t, NEW out, PageSound(s, out), t.position = s.position, t.page = s.page,
           t.expired = s.expired, t.held = s.held \/ t.held = TRUE
    PROVE  PageSound(t, out)
BY DEF PageSound

LEMMA ShowSourceIs ==
    ASSUME NEW targets, NEW s \in Scrolls(targets), NEW line, NEW out, PageSound(s, out)
    PROVE  /\ ShowSource(s, line) \in Scrolls({None, line})
           /\ ShowSource(s, line).target = line /\ ShowSource(s, line).expired = s.expired
           /\ PageSound(ShowSource(s, line), out)
<1>1. <<>> \in Seq(Moves)
    BY EmptySeq
<1>2. /\ ShowSource(s, line) \in Scrolls({None, line})
      /\ ShowSource(s, line).target = line /\ ShowSource(s, line).expired = s.expired
      /\ ShowSource(s, line).position = s.position /\ ShowSource(s, line).page = s.page
      /\ ShowSource(s, line).held = TRUE
    BY <1>1 DEF Scrolls, ShowSource
<1> QED
    BY <1>2, PageSoundKept

LEMMA NoMarkIs ==
    /\ NoMark \in Selections /\ ~HasSelection(NoMark) /\ NoMark.dragging = FALSE
    /\ NoBar \in Bars /\ \A out : BarFits(NoBar, out)
BY DEF NoMark, Selections, Points, HasSelection, NoBar, Bars, BarFits

LEMMA InitIsSound ==
    ASSUME LogScrollAssumption, Init
    PROVE  IInv
<1>1. output = [first |-> 1, last |-> 0] /\ shown = 0
    BY Zenon DEF Init
<1>2. scroll \in Scrolls({None, scroll.target}) /\ scroll.page = <<>> /\ scroll.expired = FALSE
    <2>1. <<>> \in Seq(Moves) /\ <<>> \in Seq(Nat)
        BY EmptySeq
    <2>2. Following \in Places
        BY DEF Places
    <2> QED
        BY <2>1, <2>2 DEF Init, Scrolls
<1>3. marks \in Markings /\ marks.selection = NoMark /\ marks.bar = NoBar
    BY NoMarkIs DEF Init, Markings
<1>4. output \in Outputs /\ ~(output.last > shown) /\ unseen \in BOOLEAN
    <2>1. output.first = 1 /\ output.last = 0
        BY <1>1
    <2>2. [first |-> 1, last |-> 0] \in [first : Nat \ {0}, last : Nat]
        OBVIOUS
    <2>3. output \in Outputs
        BY <1>1, <2>1, <2>2 DEF Outputs
    <2>4. ~(output.last > shown)
        BY <1>1, <2>1
    <2>5. unseen \in BOOLEAN
        BY Zenon DEF Init
    <2> QED
        BY <2>3, <2>4, <2>5
<1> QED
    BY <1>2, <1>3, <1>4, NoMarkIs DEF IInv, TypeOK, PageSound, DragIsOnThePane, Announced

(* A gesture leaves what arrived alone.                                    *)
LEMMA GestureIsSound ==
    ASSUME IInv, UNCHANGED <<output, unseen, shown>>,
           NEW targets, scroll' \in Scrolls(targets), PageSound(scroll', output),
           marks' \in Markings, scroll'.expired => marks'.bar = NoBar,
           BarFits(marks'.bar, output), DragIsOnThePane(marks'.selection)
    PROVE  IInv'
<1>1. output' = output /\ unseen' = unseen /\ shown' = shown
    OBVIOUS
<1>2. scroll' \in Scrolls({None, scroll'.target})
    BY ScrollsNarrow
<1>3. TypeOK' /\ Announced'
    BY <1>1, <1>2 DEF IInv, TypeOK, Announced
<1> QED
    BY <1>1, <1>3 DEF IInv

-----------------------------------------------------------------------------
(* A pass.                                                                 *)

LEMMA DrawIs ==
    ASSUME NEW out, Draw(out)
    PROVE  \E asked, selection :
              /\ \/ asked = scroll /\ selection = marks.selection
                 \/ /\ asked = ShowSource(scroll, CurrentMatch(search')) /\ selection = NoMark
                    /\ CurrentMatch(search) = None /\ CurrentMatch(search') # None
              /\ scroll' = NextPage(asked, out)
              /\ IF scroll'.expired
                 THEN marks' = [selection |-> selection, bar |-> NoBar, gesture |-> "none"]
                 ELSE marks' =
                     [selection |-> IF SelectionIsRetained(selection, out)
                                    THEN Extended(selection, asked, scroll', out) ELSE NoMark,
                      bar |-> BarOf(scroll', out),
                      gesture |-> IF BarOf(scroll', out) = NoBar THEN "none" ELSE marks.gesture]
              /\ unseen' = Unseen(out, scroll')
              /\ shown' = IF IsFollowing(scroll) \/ IsFollowing(scroll') THEN out.last ELSE shown
<1> DEFINE shows == CurrentMatch(search) = None /\ CurrentMatch(search') # None
           asked == IF shows THEN ShowSource(scroll, CurrentMatch(search')) ELSE scroll
           selection == IF shows THEN NoMark ELSE marks.selection
<1>1. /\ scroll' = NextPage(asked, out)
      /\ marks' = IF scroll'.expired
                  THEN [selection |-> selection, bar |-> NoBar, gesture |-> "none"]
                  ELSE [selection |-> IF SelectionIsRetained(selection, out)
                                      THEN Extended(selection, asked, scroll', out) ELSE NoMark,
                        bar |-> BarOf(scroll', out),
                        gesture |-> IF BarOf(scroll', out) = NoBar THEN "none" ELSE marks.gesture]
      /\ unseen' = Unseen(out, scroll')
      /\ shown' = IF IsFollowing(scroll) \/ IsFollowing(scroll') THEN out.last ELSE shown
    <2>1. PICK found, next :
              /\ search' = found /\ scroll' = next
              /\ next = NextPage(IF CurrentMatch(search) = None /\ CurrentMatch(found) # None
                                 THEN ShowSource(scroll, CurrentMatch(found)) ELSE scroll, out)
              /\ marks' = IF next.expired
                          THEN [selection |-> IF CurrentMatch(search) = None /\ CurrentMatch(found) # None
                                              THEN NoMark ELSE marks.selection,
                                bar |-> NoBar, gesture |-> "none"]
                          ELSE [selection |->
                                    IF SelectionIsRetained(
                                           IF CurrentMatch(search) = None /\ CurrentMatch(found) # None
                                           THEN NoMark ELSE marks.selection, out)
                                    THEN Extended(
                                           IF CurrentMatch(search) = None /\ CurrentMatch(found) # None
                                           THEN NoMark ELSE marks.selection,
                                           IF CurrentMatch(search) = None /\ CurrentMatch(found) # None
                                           THEN ShowSource(scroll, CurrentMatch(found)) ELSE scroll, next, out)
                                    ELSE NoMark,
                                bar |-> BarOf(next, out),
                                gesture |-> IF BarOf(next, out) = NoBar THEN "none" ELSE marks.gesture]
              /\ unseen' = Unseen(out, next)
              /\ shown' = IF IsFollowing(scroll) \/ IsFollowing(next) THEN out.last ELSE shown
        BY DEF Draw
    <2> QED
        BY <2>1
<1>2. CASE shows
    BY <1>1, <1>2, Zenon
<1>3. CASE ~shows
    BY <1>1, <1>3, Zenon
<1> QED
    BY <1>2, <1>3

(* The point of a selection is on a line of the page.                      *)
LEMMA PointIs ==
    ASSUME NEW page \in Seq(Nat), page # <<>>, NEW row \in Nat \ {0}, NEW column \in Nat,
           NEW whole \in BOOLEAN
    PROVE  /\ PointAt(page, row, column, whole) \in Points
           /\ \E i \in 1..Len(page) :
                 /\ PointAt(page, row, column, whole)[1] = page[i]
                 /\ row <= Len(page) => i = row
<1> DEFINE i == Least(row, Len(page))
<1>1. Len(page) \in Nat \ {0}
    BY EmptySeq
<1>2. i \in 1..Len(page) /\ (row <= Len(page) => i = row)
    BY <1>1 DEF Least
<1>3. page[i] \in Nat
    BY <1>2, ElementOfSeq
<1> DEFINE byte == IF column < Width THEN column + (IF whole THEN 1 ELSE 0) ELSE Width
<1>4. byte \in Nat
    BY DEF Width
<1>5. PointAt(page, row, column, whole) = <<page[i], byte>>
    BY DEF PointAt
<1> HIDE DEF i, byte
<1> QED
    BY <1>2, <1>3, <1>4, <1>5 DEF Points

LEMMA ExtendedIsSound ==
    ASSUME LogScrollAssumption, NEW targets, NEW m \in Selections, NEW before,
           NEW out, NEW after \in Scrolls(targets), DragIsOnThePane(m)
    PROVE  LET extended == Extended(m, before, after, out)
           IN  /\ extended \in Selections /\ DragIsOnThePane(extended)
               /\ extended.anchor = m.anchor
               /\ \/ extended = m
                  \/ \E i \in 1..Len(after.page) :
                        extended.cursor[1] = after.page[i] /\ after.page[i] # None
<1> DEFINE extended == Extended(m, before, after, out)
           moved == PointAt(after.page, m.row, m.column, TRUE)
<1>1. CASE extended = m
    BY <1>1
<1>2. CASE extended # m
    <2>1. /\ m.dragging /\ m.row <= Len(after.page) /\ after.page[m.row] # None
          /\ extended = [m EXCEPT !.cursor = moved]
        BY <1>2 DEF Extended
    <2>2. /\ m.row \in Nat \ {0} /\ m.column \in Nat /\ after.page \in Seq(Nat)
        BY <2>1 DEF DragIsOnThePane, Selections, Scrolls
    <2>3. after.page # <<>>
        BY <2>1, <2>2
    <2>4. moved \in Points /\ m.row \in 1..Len(after.page) /\ moved[1] = after.page[m.row]
        <3>1. TRUE \in BOOLEAN
            OBVIOUS
        <3>2. PICK i \in 1..Len(after.page) :
                 moved[1] = after.page[i] /\ (m.row <= Len(after.page) => i = m.row)
            BY <2>2, <2>3, <3>1, PointIs, ZenonT(30)
        <3>3. moved \in Points
            BY <2>2, <2>3, <3>1, PointIs, ZenonT(30)
        <3> QED
            BY <2>1, <3>2, <3>3
    <2> HIDE DEF moved, extended
    <2>5. /\ extended \in Selections /\ extended.anchor = m.anchor /\ extended.cursor = moved
          /\ extended.row = m.row /\ extended.dragging = m.dragging
        BY <2>1, <2>4 DEF Selections
    <2>6. \E i \in 1..Len(after.page) : extended.cursor[1] = after.page[i] /\ after.page[i] # None
        BY <2>1, <2>4, <2>5
    <2> QED
        BY <2>5, <2>6 DEF DragIsOnThePane, extended
<1> QED
    BY <1>1, <1>2

(* What lies between two retained lines is retained.                       *)
LEMMA SelectionSpans ==
    ASSUME NEW out \in Outputs, NEW m \in Selections,
           Retained(out, m.anchor[1]), Retained(out, m.cursor[1])
    PROVE  \A line \in First(m)[1]..Second(m)[1] : Retained(out, line)
<1>1. out.first \in Nat /\ out.last \in Nat
    BY DEF Outputs
<1>2. m.anchor[1] \in Nat /\ m.cursor[1] \in Nat
    BY DEF Selections, Points
<1>3. First(m) \in {m.anchor, m.cursor} /\ Second(m) \in {m.anchor, m.cursor}
    BY DEF First, Second
<1>4. First(m)[1] \in {m.anchor[1], m.cursor[1]} /\ Second(m)[1] \in {m.anchor[1], m.cursor[1]}
    BY <1>3
<1> QED
    BY <1>1, <1>2, <1>4 DEF Retained

LEMMA LinesOfThePage ==
    ASSUME LogScrollAssumption, NEW targets, NEW s \in Scrolls(targets), NEW out \in Outputs,
           PageSound(s, out), ~s.expired, NEW i \in 1..Len(s.page), s.page[i] # None
    PROVE  Retained(out, s.page[i])
<1>1. s.page # <<>>
    BY EmptySeq DEF Scrolls
<1>2. PICK start \in 0..(Total(out) - 1) :
          \A j \in 1..Len(s.page) :
              s.page[j] = LineAt(out, start + j - 1) /\ start + j - 1 \in 0..(Total(out) - 1)
    BY <1>1, PageIs
<1> QED
    BY <1>2, DisplayIs

(* A pass, and the copy of the page.                                       *)
LEMMA DrawIsSound ==
    ASSUME LogScrollAssumption, IInv, NEW out \in Outputs, output' = out, Draw(out)
    PROVE  /\ IInv'
           /\ HasSelection(marks'.selection) /\ ~scroll'.expired =>
                  \A line \in First(marks'.selection)[1]..Second(marks'.selection)[1] : Retained(out, line)
<1>1. PICK asked, selection :
          /\ \/ asked = scroll /\ selection = marks.selection
             \/ asked = ShowSource(scroll, CurrentMatch(search')) /\ selection = NoMark
          /\ scroll' = NextPage(asked, out)
          /\ IF scroll'.expired
             THEN marks' = [selection |-> selection, bar |-> NoBar, gesture |-> "none"]
             ELSE marks' =
                 [selection |-> IF SelectionIsRetained(selection, out)
                                THEN Extended(selection, asked, scroll', out) ELSE NoMark,
                  bar |-> BarOf(scroll', out),
                  gesture |-> IF BarOf(scroll', out) = NoBar THEN "none" ELSE marks.gesture]
          /\ unseen' = Unseen(out, scroll')
          /\ shown' = IF IsFollowing(scroll) \/ IsFollowing(scroll') THEN out.last ELSE shown
    BY DrawIs, Zenon
<1>2. /\ output \in Outputs /\ scroll \in Scrolls({None, scroll.target}) /\ PageSound(scroll, output)
      /\ marks.selection \in Selections /\ marks.gesture \in {"none", "thumb", "track"}
      /\ DragIsOnThePane(marks.selection) /\ unseen \in BOOLEAN
    BY DEF IInv, TypeOK, Markings
<1>3. asked \in Scrolls({None, asked.target})
    <2>1. CASE asked = scroll
        BY <1>2, <2>1
    <2>2. CASE asked = ShowSource(scroll, CurrentMatch(search'))
        <3>1. ShowSource(scroll, CurrentMatch(search')) \in Scrolls({None, CurrentMatch(search')})
            BY <1>2, ShowSourceIs
        <3> QED
            BY <2>2, <3>1, ScrollsNarrow
    <2> QED
        BY <1>1, <2>1, <2>2
<1>4. /\ scroll' \in Scrolls({None, asked.target}) /\ PageSound(scroll', out)
      /\ scroll'.expired \/ (scroll'.page = <<>> <=> Total(out) = 0)
    BY <1>1, <1>2, <1>3, NextPageIsSound
<1>5. selection \in Selections /\ DragIsOnThePane(selection)
    BY <1>1, <1>2, NoMarkIs DEF DragIsOnThePane
<1> DEFINE kept == IF SelectionIsRetained(selection, out)
                   THEN Extended(selection, asked, scroll', out) ELSE NoMark
<1>6. /\ kept \in Selections /\ DragIsOnThePane(kept)
      /\ HasSelection(kept) =>
            /\ Retained(out, kept.anchor[1])
            /\ \/ kept.cursor = selection.cursor /\ Retained(out, kept.cursor[1])
               \/ \E i \in 1..Len(scroll'.page) :
                     kept.cursor[1] = scroll'.page[i] /\ scroll'.page[i] # None
    <2>1. CASE kept = NoMark
        BY <2>1, NoMarkIs DEF DragIsOnThePane
    <2>2. CASE SelectionIsRetained(selection, out) /\ kept = Extended(selection, asked, scroll', out)
        <3>1. /\ kept \in Selections /\ DragIsOnThePane(kept) /\ kept.anchor = selection.anchor
              /\ \/ kept = selection
                 \/ \E i \in 1..Len(scroll'.page) :
                       kept.cursor[1] = scroll'.page[i] /\ scroll'.page[i] # None
            BY <1>4, <1>5, <2>2, ExtendedIsSound
        <3>2. CASE selection = NoMark
            <4>1. kept = NoMark
                BY <2>2, <3>2, NoMarkIs DEF Extended
            <4> QED
                BY <4>1, NoMarkIs DEF DragIsOnThePane
        <3>3. CASE selection # NoMark
            BY <2>2, <3>1, <3>3 DEF SelectionIsRetained
        <3> QED
            BY <3>2, <3>3
    <2> QED
        BY <2>1, <2>2
<1> HIDE DEF kept
<1>7. /\ marks' \in Markings /\ (scroll'.expired => marks'.bar = NoBar)
      /\ BarFits(marks'.bar, out) /\ DragIsOnThePane(marks'.selection)
    <2>1. CASE scroll'.expired
        <3>1. marks' = [selection |-> selection, bar |-> NoBar, gesture |-> "none"]
            BY <1>1, <2>1
        <3> QED
            BY <1>5, <3>1, NoMarkIs DEF Markings
    <2>2. CASE ~scroll'.expired
        <3>1. marks' = [selection |-> kept, bar |-> BarOf(scroll', out),
                        gesture |-> IF BarOf(scroll', out) = NoBar THEN "none" ELSE marks.gesture]
            BY <1>1, <2>2 DEF kept
        <3>2. BarOf(scroll', out) \in Bars /\ BarFits(BarOf(scroll', out), out)
            BY <1>4, <2>2, BarIsSound
        <3>3. (IF BarOf(scroll', out) = NoBar THEN "none" ELSE marks.gesture) \in {"none", "thumb", "track"}
            BY <1>2
        <3> QED
            BY <1>6, <2>2, <3>1, <3>2, <3>3 DEF Markings
    <2> QED
        BY <2>1, <2>2
<1>8. unseen' \in BOOLEAN /\ Announced'
    <2>1. unseen' = (~IsFollowing(scroll') /\ (unseen \/ (out # output /\ ~IsFollowing(scroll))))
        BY <1>1 DEF Unseen
    <2>2. unseen' \in BOOLEAN
        BY <2>1
    <2>3. CASE IsFollowing(scroll) \/ IsFollowing(scroll')
        <3>1. shown' = out.last /\ out.last \in Nat
            BY <1>1, <2>3 DEF Outputs
        <3> QED
            BY <2>2, <3>1 DEF Announced
    <2>4. CASE ~IsFollowing(scroll) /\ ~IsFollowing(scroll') /\ out # output
        BY <2>1, <2>2, <2>4 DEF Announced
    <2>5. CASE ~IsFollowing(scroll) /\ ~IsFollowing(scroll') /\ out = output
        <3>1. shown' = shown /\ unseen' = unseen
            BY <1>1, <1>2, <2>1, <2>5
        <3> QED
            BY <2>2, <2>5, <3>1 DEF Announced, IInv
    <2> QED
        BY <2>3, <2>4, <2>5
<1>9. IInv'
    <2>1. scroll' \in Scrolls({None, scroll'.target})
        BY <1>4, ScrollsNarrow
    <2>2. TypeOK'
        BY <1>7, <1>8, <2>1 DEF TypeOK
    <2> QED
        BY <1>4, <1>7, <1>8, <2>2 DEF IInv
<1>10. ASSUME HasSelection(marks'.selection), ~scroll'.expired
       PROVE  \A line \in First(marks'.selection)[1]..Second(marks'.selection)[1] : Retained(out, line)
    <2>1. marks'.selection = kept
        BY <1>1, <1>10 DEF kept
    <2>2. Retained(out, kept.anchor[1]) /\ Retained(out, kept.cursor[1])
        <3>1. \A i \in 1..Len(scroll'.page) : scroll'.page[i] # None => Retained(out, scroll'.page[i])
            BY <1>4, <1>10, LinesOfThePage
        <3> QED
            BY <1>6, <1>10, <2>1, <3>1
    <2> QED
        BY <1>6, <2>1, <2>2, SelectionSpans
<1> QED
    BY <1>9, <1>10

-----------------------------------------------------------------------------
(* Keys.                                                                   *)

LEMMA ScrollIsSound ==
    ASSUME LogScrollAssumption, IInv, NEW lines \in Nat, NEW up \in BOOLEAN, Scroll(lines, up)
    PROVE  IInv'
<1> DEFINE last == Last(scroll.pending)
           joined == [last EXCEPT !.lines = Least(last.lines + lines, MaxLine)]
           pending == IF scroll.pending # <<>> /\ last.up = up
                      THEN Front(scroll.pending) \o <<joined>>
                      ELSE Append(scroll.pending, [lines |-> lines, up |-> up])
<1>1. /\ scroll \in Scrolls({None, scroll.target}) /\ PageSound(scroll, output)
      /\ scroll.pending \in Seq(Moves) /\ MaxLine \in Nat
    BY DEF IInv, TypeOK, Scrolls, LogScrollAssumption
<1>2. scroll' = [scroll EXCEPT !.pending = pending]
    BY DEF Scroll
<1>3. pending \in Seq(Moves)
    <2>1. CASE scroll.pending # <<>>
        <3>1. last \in Moves /\ Front(scroll.pending) \in Seq(Moves)
            <4>1. Len(scroll.pending) \in 1..Len(scroll.pending)
                BY <1>1, <2>1, EmptySeq
            <4>2. last \in Moves
                BY <1>1, <4>1, ElementOfSeq DEF Last
            <4>3. Front(scroll.pending) \in Seq(Moves)
                <5>1. Len(scroll.pending) - 1 <= Len(scroll.pending) /\ 1 \in Nat \ {0}
                    BY <4>1
                <5>2. \A i \in 1..(Len(scroll.pending) - 1) : scroll.pending[i] \in Moves
                    BY <1>1, <4>1, ElementOfSeq
                <5> QED
                    BY <1>1, <4>1, <5>1, <5>2 DEF Front
            <4> QED
                BY <4>2, <4>3
        <3>2. joined \in Moves
            <4>1. last.lines \in Nat /\ last.up \in BOOLEAN
                BY <3>1 DEF Moves
            <4>2. Least(last.lines + lines, MaxLine) \in Nat
                BY <1>1, <4>1 DEF Least
            <4> QED
                BY <3>1, <4>2 DEF Moves
        <3>3. [lines |-> lines, up |-> up] \in Moves
            BY DEF Moves
        <3> HIDE DEF last, joined
        <3> QED
            BY <1>1, <3>1, <3>2, <3>3
    <2>2. CASE scroll.pending = <<>>
        <3>1. [lines |-> lines, up |-> up] \in Moves
            BY DEF Moves
        <3> QED
            BY <1>1, <2>2, <3>1
    <2> QED
        BY <2>1, <2>2
<1> HIDE DEF pending
<1>4. /\ scroll' \in Scrolls({None, scroll.target})
      /\ scroll'.position = scroll.position /\ scroll'.page = scroll.page
      /\ scroll'.held = scroll.held /\ scroll'.expired = scroll.expired
    BY <1>1, <1>2, <1>3 DEF Scrolls
<1>5. PageSound(scroll', output)
    BY <1>1, <1>4, PageSoundKept
<1>6. marks' = marks /\ UNCHANGED <<output, unseen, shown>>
    BY DEF Scroll
<1> QED
    BY <1>4, <1>5, <1>6, GestureIsSound DEF IInv, TypeOK

LEMMA HomeIsSound ==
    ASSUME LogScrollAssumption, IInv, Home
    PROVE  IInv'
<1>1. scroll \in Scrolls({None, scroll.target})
    BY DEF IInv, TypeOK
<1>2. /\ Follow(scroll) \in Scrolls({None, scroll.target})
      /\ Follow(scroll).page = <<>> /\ Follow(scroll).expired = FALSE
    BY <1>1, FollowIs
<1>3. scroll' = [Follow(scroll) EXCEPT !.position = TopOfHistory]
    BY DEF Home
<1>4. TopOfHistory \in Places
    BY DEF Places
<1>5. scroll' \in Scrolls({None, scroll.target}) /\ scroll'.page = <<>> /\ scroll'.expired = FALSE
    BY <1>2, <1>3, <1>4 DEF Scrolls
<1>6. PageSound(scroll', output)
    BY <1>5 DEF PageSound
<1>7. marks' = marks /\ UNCHANGED <<output, unseen, shown>>
    BY DEF Home
<1> QED
    BY <1>5, <1>6, <1>7, GestureIsSound DEF IInv, TypeOK

LEMMA FollowOutputIsSound ==
    ASSUME LogScrollAssumption, IInv, FollowOutput
    PROVE  IInv'
<1>1. scroll \in Scrolls({None, scroll.target}) /\ output \in Outputs /\ marks \in Markings
    BY DEF IInv, TypeOK
<1>2. /\ scroll' = Follow(scroll) /\ output' = output /\ marks' = marks
      /\ unseen' = FALSE /\ shown' = output.last
    BY DEF FollowOutput
<1>3. /\ scroll' \in Scrolls({None, scroll.target}) /\ PageSound(scroll', output)
      /\ scroll'.expired = FALSE
    BY <1>1, <1>2, FollowIs
<1>4. scroll' \in Scrolls({None, scroll'.target})
    BY <1>3, ScrollsNarrow
<1>5. TypeOK'
    BY <1>1, <1>2, <1>4 DEF TypeOK
<1>6. Announced'
    <2>1. output.last \in Nat
        BY <1>1 DEF Outputs
    <2> QED
        BY <1>2, <2>1 DEF Announced
<1> QED
    BY <1>2, <1>3, <1>5, <1>6 DEF IInv

(* What only marks something leaves the page alone.                        *)
LEMMA MarkIsSound ==
    ASSUME LogScrollAssumption, IInv, UNCHANGED <<output, scroll, unseen, shown>>,
           NEW m \in Selections, DragIsOnThePane(m), NEW gesture \in {"none", "thumb", "track"},
           marks' = [selection |-> m, bar |-> marks.bar, gesture |-> gesture]
    PROVE  IInv'
<1>1. marks.bar \in Bars /\ scroll \in Scrolls({None, scroll.target})
    BY DEF IInv, TypeOK, Markings
<1>2. marks' \in Markings /\ marks'.bar = marks.bar /\ marks'.selection = m
    BY <1>1 DEF Markings
<1> QED
    BY <1>1, <1>2, GestureIsSound DEF IInv

LEMMA ClearSelectionIsSound ==
    ASSUME LogScrollAssumption, IInv, ClearSelection
    PROVE  IInv'
<1>1. marks' = [selection |-> NoMark, bar |-> marks.bar, gesture |-> marks.gesture]
    BY DEF ClearSelection, IInv, TypeOK, Markings
<1>2. marks.gesture \in {"none", "thumb", "track"}
    BY DEF IInv, TypeOK, Markings
<1> QED
    BY <1>1, <1>2, NoMarkIs, MarkIsSound DEF ClearSelection, DragIsOnThePane

LEMMA CopyPageIsSound ==
    ASSUME LogScrollAssumption, IInv, CopyPage
    PROVE  IInv'
<1>1. output \in Outputs /\ output' = output /\ Draw(output)
    BY DEF CopyPage, IInv, TypeOK
<1> QED
    BY <1>1, DrawIsSound

(* A change of the page that takes the selection with it.                  *)
LEMMA TurnIsSound ==
    ASSUME LogScrollAssumption, IInv, UNCHANGED <<output, unseen, shown>>,
           NEW targets, scroll' \in Scrolls(targets), PageSound(scroll', output),
           scroll'.expired = scroll.expired,
           NEW m \in Selections, DragIsOnThePane(m),
           marks' = [selection |-> m, bar |-> marks.bar, gesture |-> marks.gesture]
    PROVE  IInv'
<1>1. marks.bar \in Bars /\ marks.gesture \in {"none", "thumb", "track"}
    BY DEF IInv, TypeOK, Markings
<1>2. marks' \in Markings /\ marks'.bar = marks.bar /\ marks'.selection = m
    BY <1>1 DEF Markings
<1> QED
    BY <1>2, GestureIsSound DEF IInv

LEMMA OpenSearchIsSound ==
    ASSUME LogScrollAssumption, IInv, OpenSearch
    PROVE  IInv'
<1>1. /\ output \in Outputs /\ scroll \in Scrolls({None, scroll.target})
      /\ PageSound(scroll, output)
    BY DEF IInv, TypeOK
<1>2. scroll' = Paused(scroll) /\ UNCHANGED <<output, unseen, shown>>
    BY DEF OpenSearch
<1>3. marks' = [selection |-> NoMark, bar |-> marks.bar, gesture |-> marks.gesture]
    BY DEF OpenSearch, IInv, TypeOK, Markings
<1>4. /\ scroll' \in Scrolls({None, scroll.target}) /\ PageSound(scroll', output)
      /\ scroll'.expired = scroll.expired
    BY <1>1, <1>2, PausedIsSound
<1> QED
    BY <1>2, <1>3, <1>4, NoMarkIs, TurnIsSound DEF DragIsOnThePane

LEMMA ShowsIsSound ==
    ASSUME LogScrollAssumption, IInv, NEW v, Shows(v)
    PROVE  IInv'
<1>1. /\ output \in Outputs /\ scroll \in Scrolls({None, scroll.target})
      /\ PageSound(scroll, output)
    BY DEF IInv, TypeOK
<1>2. UNCHANGED <<output, unseen, shown>>
    BY DEF Shows
<1>3. CASE CurrentMatch(v) = None
    <2>1. scroll' = scroll /\ marks' = marks
        BY <1>3 DEF Shows
    <2> QED
        BY <1>1, <1>2, <2>1, GestureIsSound DEF IInv, TypeOK
<1>4. CASE CurrentMatch(v) # None
    <2>1. /\ scroll' = ShowSource(scroll, CurrentMatch(v))
          /\ marks' = [marks EXCEPT !.selection = NoMark]
        BY <1>4, Zenon DEF Shows
    <2>2. marks' = [selection |-> NoMark, bar |-> marks.bar, gesture |-> marks.gesture]
        BY <2>1 DEF IInv, TypeOK, Markings
    <2>3. /\ scroll' \in Scrolls({None, CurrentMatch(v)}) /\ PageSound(scroll', output)
          /\ scroll'.expired = scroll.expired
        BY <1>1, <2>1, ShowSourceIs
    <2> QED
        BY <1>2, <2>2, <2>3, NoMarkIs, TurnIsSound DEF DragIsOnThePane
<1> QED
    BY <1>3, <1>4

-----------------------------------------------------------------------------
(* The mouse.                                                              *)

LEMMA RowsAre ==
    ASSUME LogScrollAssumption
    PROVE  Rows \in Nat \ {0} /\ \A row \in 1..Rows : row \in Nat \ {0}
<1>1. Rows \in Nat \ {0}
    BY DEF LogScrollAssumption
<1> QED
    BY <1>1

LEMMA HasPointIs ==
    ASSUME LogScrollAssumption, IInv, NEW row \in 1..Rows, NEW column \in Nat,
           NEW whole \in BOOLEAN, HasPoint(scroll.page, row)
    PROVE  PointAt(scroll.page, row, column, whole) \in Points
<1>1. scroll.page \in Seq(Nat) /\ scroll.page # <<>> /\ row \in Nat \ {0}
    BY RowsAre DEF IInv, TypeOK, Scrolls, HasPoint
<1> QED
    BY <1>1, PointIs, Zenon

LEMMA BeginSelectionIsSound ==
    ASSUME LogScrollAssumption, IInv, NEW row \in 1..Rows, NEW column \in Nat,
           BeginSelection(row, column)
    PROVE  IInv'
<1> DEFINE point == PointAt(scroll.page, row, column, FALSE)
           m == [anchor |-> point, cursor |-> point, row |-> row, column |-> column,
                 dragging |-> TRUE]
<1>1. point \in Points
    BY HasPointIs DEF BeginSelection
<1>2. row \in Nat /\ UNCHANGED <<output, scroll, unseen, shown>>
    BY RowsAre DEF BeginSelection
<1>3. marks' = [marks EXCEPT !.selection = m]
    BY DEF BeginSelection
<1> HIDE DEF point
<1>4. m \in Selections /\ DragIsOnThePane(m)
    BY <1>1, <1>2 DEF Selections, DragIsOnThePane
<1> HIDE DEF m
<1>5. marks \in Markings
    BY DEF IInv, TypeOK
<1>6. marks' = [selection |-> m, bar |-> marks.bar, gesture |-> marks.gesture]
    BY <1>3, <1>5 DEF Markings
<1>7. marks.gesture \in {"none", "thumb", "track"}
    BY <1>5 DEF Markings
<1> QED
    BY <1>2, <1>4, <1>6, <1>7, MarkIsSound

LEMMA UpdatedIsSound ==
    ASSUME LogScrollAssumption, IInv, NEW row \in 1..Rows, NEW column \in Nat
    PROVE  LET updated == Updated(marks.selection, row, column)
           IN  updated \in Selections /\ DragIsOnThePane(updated)
<1> DEFINE point == PointAt(scroll.page, row, column, TRUE)
           updated == Updated(marks.selection, row, column)
<1>1. marks.selection \in Selections /\ DragIsOnThePane(marks.selection) /\ row \in Nat
    BY RowsAre DEF IInv, TypeOK, Markings
<1>2. CASE HasPoint(scroll.page, row)
    <2>1. TRUE \in BOOLEAN
        OBVIOUS
    <2>2. point \in Points
        BY <1>2, <2>1, HasPointIs
    <2>3. updated = [marks.selection EXCEPT !.cursor = point, !.row = row, !.column = column]
        BY <1>2 DEF Updated
    <2> HIDE DEF point, updated
    <2>4. updated \in Selections /\ updated.row = row
        BY <1>1, <2>2, <2>3 DEF Selections
    <2> QED
        BY <2>4 DEF DragIsOnThePane, updated
<1>3. CASE ~HasPoint(scroll.page, row)
    <2>1. updated = marks.selection
        BY <1>3 DEF Updated
    <2> QED
        BY <1>1, <2>1
<1> QED
    BY <1>2, <1>3

LEMMA PausesForIsSound ==
    ASSUME LogScrollAssumption, IInv, NEW row, PausesFor(marks.selection, row)
    PROVE  /\ scroll' \in Scrolls({None, scroll.target}) /\ PageSound(scroll', output)
           /\ scroll'.expired = scroll.expired
<1>1. /\ output \in Outputs /\ scroll \in Scrolls({None, scroll.target})
      /\ PageSound(scroll, output)
    BY DEF IInv, TypeOK
<1>2. scroll' = Paused(scroll) \/ scroll' = scroll
    BY DEF PausesFor
<1>3. CASE scroll' = Paused(scroll)
    BY <1>1, <1>3, PausedIsSound
<1>4. CASE scroll' = scroll
    BY <1>1, <1>4
<1> QED
    BY <1>2, <1>3, <1>4

LEMMA UpdateSelectionIsSound ==
    ASSUME LogScrollAssumption, IInv, NEW row \in 1..Rows, NEW column \in Nat,
           UpdateSelection(row, column)
    PROVE  IInv'
<1> DEFINE m == Updated(marks.selection, row, column)
<1>1. m \in Selections /\ DragIsOnThePane(m)
    BY UpdatedIsSound
<1>2. marks' = [marks EXCEPT !.selection = m] /\ UNCHANGED <<output, unseen, shown>>
    BY DEF UpdateSelection
<1>3. /\ scroll' \in Scrolls({None, scroll.target}) /\ PageSound(scroll', output)
      /\ scroll'.expired = scroll.expired
    BY PausesForIsSound DEF UpdateSelection
<1> HIDE DEF m
<1>4. marks' = [selection |-> m, bar |-> marks.bar, gesture |-> marks.gesture]
    BY <1>2 DEF IInv, TypeOK, Markings
<1> QED
    BY <1>1, <1>2, <1>3, <1>4, TurnIsSound

LEMMA FinishSelectionIsSound ==
    ASSUME LogScrollAssumption, IInv, NEW row \in 1..Rows, NEW column \in Nat,
           FinishSelection(row, column)
    PROVE  IInv'
<1> DEFINE updated == Updated(marks.selection, row, column)
           ended == [updated EXCEPT !.dragging = FALSE]
           m == IF HasSelection(ended) THEN ended ELSE NoMark
<1>1. updated \in Selections
    BY UpdatedIsSound
<1>2. marks' = [marks EXCEPT !.selection = m] /\ UNCHANGED <<output, unseen, shown>>
    BY DEF FinishSelection
<1> HIDE DEF updated
<1>3. ended \in Selections /\ ended.dragging = FALSE
    BY <1>1 DEF Selections
<1> HIDE DEF ended
<1>4. m \in Selections /\ DragIsOnThePane(m)
    BY <1>3, NoMarkIs DEF DragIsOnThePane
<1>5. /\ scroll' \in Scrolls({None, scroll.target}) /\ PageSound(scroll', output)
      /\ scroll'.expired = scroll.expired
    BY PausesForIsSound DEF FinishSelection
<1> HIDE DEF m
<1>6. marks' = [selection |-> m, bar |-> marks.bar, gesture |-> marks.gesture]
    BY <1>2 DEF IInv, TypeOK, Markings
<1> QED
    BY <1>2, <1>4, <1>5, <1>6, TurnIsSound

(* A page that the bar moved has the bar of what it shows.                 *)
LEMMA DragIsSound ==
    ASSUME LogScrollAssumption, IInv, UNCHANGED <<output, unseen, shown>>,
           marks.bar # NoBar, NEW start \in Nat,
           scroll' = Dragged(scroll, marks.bar, start, output),
           NEW gesture \in {"none", "thumb", "track"},
           marks' = [selection |-> marks.selection, bar |-> BarOf(scroll', output),
                     gesture |-> gesture]
    PROVE  IInv'
<1>1. /\ output \in Outputs /\ scroll \in Scrolls({None, scroll.target}) /\ marks.bar \in Bars
      /\ BarFits(marks.bar, output) /\ ~scroll.expired
      /\ marks.selection \in Selections /\ DragIsOnThePane(marks.selection)
    BY DEF IInv, TypeOK, Markings
<1>2. /\ scroll' \in Scrolls({None, scroll.target}) /\ PageSound(scroll', output)
      /\ scroll'.expired = scroll.expired /\ (scroll'.page = <<>> <=> Total(output) = 0)
    BY <1>1, DraggedIsSound
<1>3. BarOf(scroll', output) \in Bars /\ BarFits(BarOf(scroll', output), output)
    BY <1>1, <1>2, BarIsSound
<1>4. /\ marks' \in Markings /\ marks'.bar = BarOf(scroll', output)
      /\ marks'.selection = marks.selection
    BY <1>1, <1>3 DEF Markings
<1> QED
    BY <1>1, <1>2, <1>3, <1>4, GestureIsSound

LEMMA PressBarIsSound ==
    ASSUME LogScrollAssumption, IInv, NEW row \in Nat, PressBar(row)
    PROVE  IInv'
<1> DEFINE start == ThumbStart(marks.bar)
           size == ThumbLength(marks.bar)
           above == Less(row, size \div 2)
           onThumb == start <= row /\ row < start + size
           moved == Dragged(scroll, marks.bar, above, output)
<1>1. /\ marks.bar # NoBar /\ UNCHANGED <<output, unseen, shown>>
      /\ scroll' = IF onThumb THEN scroll ELSE moved
      /\ marks' = [marks EXCEPT !.gesture = IF onThumb THEN "thumb" ELSE "track",
                                !.bar = IF onThumb THEN marks.bar ELSE BarOf(moved, output)]
    BY DEF PressBar
<1>2. above \in Nat
    <2>1. marks.bar \in Bars /\ marks.bar.content # 0 /\ marks.bar.viewport # 0
        BY <1>1 DEF IInv, TypeOK, Markings, BarFits
    <2>2. size \in 1..Rows /\ Rows \in Nat
        BY <2>1, ThumbIsShort, RowsAre
    <2> HIDE DEF size
    <2>3. size \div 2 \in Nat
        BY <2>2, QuotientIsNatural
    <2> QED
        BY <2>3 DEF Less
<1>3. marks \in Markings
    BY DEF IInv, TypeOK
<1> HIDE DEF onThumb, moved, above
<1>4. CASE onThumb
    <2>1. /\ scroll' = scroll
          /\ marks' = [selection |-> marks.selection, bar |-> marks.bar, gesture |-> "thumb"]
        BY <1>1, <1>3, <1>4 DEF Markings
    <2> QED
        BY <1>1, <2>1, MarkIsSound DEF IInv, TypeOK, Markings
<1>5. CASE ~onThumb
    <2>1. /\ scroll' = Dragged(scroll, marks.bar, above, output)
          /\ marks' = [selection |-> marks.selection, bar |-> BarOf(scroll', output),
                       gesture |-> "track"]
        BY <1>1, <1>3, <1>5 DEF Markings, moved
    <2> QED
        BY <1>1, <1>2, <2>1, DragIsSound
<1> QED
    BY <1>4, <1>5

LEMMA DragBarIsSound ==
    ASSUME LogScrollAssumption, IInv, NEW start \in Nat, DragBar(start)
    PROVE  IInv'
<1>1. /\ marks.bar # NoBar /\ UNCHANGED <<output, unseen, shown>>
      /\ marks.gesture \in {"none", "thumb", "track"}
    BY DEF DragBar, IInv, TypeOK, Markings
<1>2. CASE marks.gesture = "track"
    <2>1. scroll' = scroll /\ marks' = marks
        BY <1>2, Zenon DEF DragBar
    <2> QED
        BY <1>1, <2>1, GestureIsSound DEF IInv, TypeOK
<1>3. CASE marks.gesture # "track"
    <2>1. /\ scroll' = Dragged(scroll, marks.bar, start, output)
          /\ marks' = [marks EXCEPT !.bar = BarOf(scroll', output)]
        BY <1>3 DEF DragBar
    <2>2. marks' = [selection |-> marks.selection, bar |-> BarOf(scroll', output),
                    gesture |-> marks.gesture]
        BY <2>1 DEF IInv, TypeOK, Markings
    <2> QED
        BY <1>1, <2>1, <2>2, DragIsSound
<1> QED
    BY <1>2, <1>3

LEMMA ReleaseBarIsSound ==
    ASSUME LogScrollAssumption, IInv, ReleaseBar
    PROVE  IInv'
<1>1. marks' = [selection |-> marks.selection, bar |-> marks.bar, gesture |-> "none"]
    BY DEF ReleaseBar, IInv, TypeOK, Markings
<1> QED
    BY <1>1, MarkIsSound DEF ReleaseBar, IInv, TypeOK, Markings

-----------------------------------------------------------------------------
(* The theorems.                                                           *)

LEMMA PassIs ==
    ASSUME LogScrollAssumption, IInv, Pass
    PROVE  \E out \in Outputs :
              output' = out /\ out.first >= output.first /\ out.last >= output.last /\ Draw(out)
<1>1. PICK out \in NewOutput : output' = out /\ Draw(out)
    BY DEF Pass
<1>2. output.first \in Nat \ {0} /\ output.last \in Nat /\ MaxLine \in Nat
    <2>1. MaxLine \in Nat
        BY DEF LogScrollAssumption
    <2> QED
        BY <2>1 DEF IInv, TypeOK, Outputs
<1>3. /\ out \in [first : output.first..(output.last + 2),
                  last : output.last..Least(output.last + 1, MaxLine)]
      /\ out.first <= out.last + 1
    BY DEF NewOutput
<1>4. Least(output.last + 1, MaxLine) \in Nat
    BY <1>2 DEF Least
<1>5. /\ out.first \in Nat \ {0} /\ out.last \in Nat
      /\ out.first >= output.first /\ out.last >= output.last
    BY <1>2, <1>3, <1>4
<1>6. out = [first |-> out.first, last |-> out.last]
    BY <1>3
<1>7. out \in [first : Nat \ {0}, last : Nat]
    BY <1>5, <1>6
<1>8. out \in Outputs
    BY <1>3, <1>7 DEF Outputs
<1> QED
    BY <1>1, <1>5, <1>8

LEMMA StepIsSound ==
    ASSUME LogScrollAssumption, IInv, [Next]_vars
    PROVE  IInv'
<1>1. CASE Pass
    BY <1>1, PassIs, DrawIsSound
<1>2. ASSUME NEW lines \in {1, Rows}, NEW up \in BOOLEAN, Scroll(lines, up)
      PROVE  IInv'
    BY <1>2, RowsAre, ScrollIsSound
<1>3. CASE Home \/ FollowOutput \/ CopyPage
    BY <1>3, HomeIsSound, FollowOutputIsSound, CopyPageIsSound
<1>4. ASSUME NEW query, Type(query) \/ Submit \/ CancelSearch
      PROVE  IInv'
    <2>1. PICK v : Shows(v)
        BY <1>4 DEF Type, Submit, CancelSearch
    <2> QED
        BY <2>1, ShowsIsSound
<1>5. CASE OpenSearch
    BY <1>5, OpenSearchIsSound
<1>6. ASSUME NEW older \in BOOLEAN, MoveMatch(older)
      PROVE  IInv'
    <2>1. PICK v : Shows(v)
        BY <1>6 DEF MoveMatch
    <2> QED
        BY <2>1, ShowsIsSound
<1>7. CASE ClearSelection
    BY <1>7, ClearSelectionIsSound
<1>8. ASSUME NEW row \in 1..Rows, NEW column \in 0..(Width - 1),
             \/ BeginSelection(row, column) \/ UpdateSelection(row, column)
             \/ FinishSelection(row, column)
      PROVE  IInv'
    <2>1. column \in Nat
        BY DEF Width
    <2> QED
        BY <1>8, <2>1, BeginSelectionIsSound, UpdateSelectionIsSound, FinishSelectionIsSound
<1>9. ASSUME NEW row \in 0..(Rows - 1), PressBar(row) \/ DragBar(row)
      PROVE  IInv'
    <2>1. row \in Nat
        BY RowsAre
    <2> QED
        BY <1>9, <2>1, PressBarIsSound, DragBarIsSound
<1>10. CASE ReleaseBar
    BY <1>10, ReleaseBarIsSound
<1>11. CASE UNCHANGED vars
    <2>1. UNCHANGED <<output, scroll, marks, unseen, shown>>
        BY <1>11 DEF vars
    <2> QED
        BY <2>1, GestureIsSound DEF IInv, TypeOK
<1> QED
    BY <1>1, <1>2, <1>3, <1>4, <1>5, <1>6, <1>7, <1>8, <1>9, <1>10, <1>11 DEF Next

(* While Logs is open, its page stays the window at its anchor, the bar    *)
(* and a drag fit what is on the screen, and output that came in below the *)
(* page is announced (pipe_scroll.rs, log_view.rs).                        *)
THEOREM ScrollIsInductive == ASSUME LogScrollAssumption PROVE Spec => []IInv
<1>1. Init => IInv
    BY InitIsSound
<1>2. IInv /\ [Next]_vars => IInv'
    BY StepIsSound
<1> QED
    BY <1>1, <1>2, PTL DEF Spec

LEMMA WindowOfThePage ==
    ASSUME LogScrollAssumption, IInv
    PROVE  PageIsSound
<1> DEFINE n == Len(scroll.page)
           total == Total(output)
<1> SUFFICES ASSUME scroll.page # <<>>, ~scroll.expired
             PROVE  /\ \E start \in 0..total : scroll.page = Window(output, start, n)
                    /\ ~scroll.held => n = Least(Rows, total)
                    /\ IsFollowing(scroll) => Last(scroll.page) = Last(Display(output))
    BY DEF PageIsSound
<1>1. /\ output \in Outputs /\ scroll \in Scrolls({None, scroll.target})
      /\ PageSound(scroll, output) /\ total \in Nat /\ Rows \in Nat \ {0}
    BY DisplayIs, RowsAre DEF IInv, TypeOK
<1>2. PICK start \in 0..(total - 1) :
          /\ scroll.page = Window(output, start, Rows)
          /\ n = Least(Rows, total - start) /\ n \in 1..total
          /\ \A i \in 1..n : scroll.page[i] = LineAt(output, start + i - 1)
          /\ scroll.position = Following => start = Less(total, Rows)
          /\ scroll.position # Following /\ ~scroll.held => start + Rows < total
    BY <1>1, PageIs
<1>3. scroll.page = Window(output, start, n)
    <2>1. Least(start + Rows, total) = Least(start + n, total)
        BY <1>1, <1>2 DEF Least
    <2> QED
        BY <1>2, <2>1 DEF Window
<1>4. ASSUME ~scroll.held
      PROVE  n = Least(Rows, total)
    BY <1>1, <1>2, <1>4 DEF Least, Less
<1>5. ASSUME IsFollowing(scroll)
      PROVE  Last(scroll.page) = Last(Display(output))
    <2>1. start = Less(total, Rows)
        BY <1>2, <1>5 DEF IsFollowing
    <2>2. start + n - 1 = total - 1 /\ n \in 1..n /\ total - 1 \in 0..(total - 1)
        BY <1>1, <1>2, <2>1 DEF Least, Less
    <2>3. scroll.page[n] = LineAt(output, total - 1)
        BY <1>2, <2>2
    <2>4. Display(output)[total - 1 + 1] = LineAt(output, total - 1)
        BY <1>1, <2>2, DisplayIs
    <2>5. total - 1 + 1 = total /\ Len(Display(output)) = total
        BY <1>1 DEF Total
    <2> QED
        BY <2>3, <2>4, <2>5 DEF Last
<1>6. start \in 0..total
    BY <1>1, <1>2
<1> HIDE DEF n, total
<1> QED
    BY <1>3, <1>4, <1>5, <1>6

-----------------------------------------------------------------------------
(* The search of the page.                                                 *)

Queries == DOMAIN Hits \cup {""}

Searches == [editing : BOOLEAN, typed : Queries, query : Queries, matches : Seq(Nat),
             current : {"inactive", "awaiting", "selected"}, index : Nat]

Results(out) == {found \in Seq(Nat) : \A i \in DOMAIN found : Retained(out, found[i])}

(* The matches are those of the query, and the current one is one of them. *)
SearchIsSound(v, out) ==
    /\ v \in Searches
    /\ v.matches = Matches(out, QueryOf(v))
    /\ v.current = "selected" => v.index \in DOMAIN v.matches

LEMMA NothingIsFound ==
    ASSUME NEW out
    PROVE  <<>> \in Results(out)
BY EmptySeq DEF Results

LEMMA WithMatchIsRetained ==
    ASSUME NEW out, NEW newer \in Results(out), NEW line \in Nat, Retained(out, line), NEW hits
    PROVE  WithMatch(newer, line, hits) \in Results(out)
<1>1. newer \in Seq(Nat) /\ \A i \in 1..Len(newer) : Retained(out, newer[i])
    BY DEF Results
<1>2. /\ Append(newer, line) \in Seq(Nat) /\ Len(Append(newer, line)) = Len(newer) + 1
      /\ DOMAIN Append(newer, line) = 1..(Len(newer) + 1)
      /\ \A i \in 1..(Len(newer) + 1) :
            Append(newer, line)[i] = IF i = Len(newer) + 1 THEN line ELSE newer[i]
    BY <1>1, AppendProperties
<1>3. Append(newer, line) \in Results(out)
    <2> SUFFICES ASSUME NEW i \in 1..(Len(newer) + 1)
                 PROVE  Retained(out, Append(newer, line)[i])
        BY <1>2 DEF Results
    <2>1. CASE i = Len(newer) + 1
        BY <1>2, <2>1
    <2>2. CASE i # Len(newer) + 1
        <3>1. i \in 1..Len(newer)
            BY <1>1, <2>2, LenProperties
        <3> QED
            BY <1>1, <1>2, <2>2, <3>1
    <2> QED
        BY <2>1, <2>2
<1> QED
    BY <1>3 DEF WithMatch

Scans(f, n, out, hits) ==
    f = [i \in 0..n |-> IF i = 0 THEN <<>> ELSE WithMatch(f[i - 1], out.last + 1 - i, hits)]

LEMMA NewestFirstScans ==
    ASSUME NEW out, NEW hits, NEW f, Scans(f, out.last + 1 - out.first, out, hits)
    PROVE  \E g : /\ Scans(g, out.last + 1 - out.first, out, hits)
                  /\ NewestFirst(out, hits) = g[out.last + 1 - out.first]
<1> DEFINE g == CHOOSE h : Scans(h, out.last + 1 - out.first, out, hits)
<1>1. Scans(g, out.last + 1 - out.first, out, hits)
    OBVIOUS
<1>2. NewestFirst(out, hits) = g[out.last + 1 - out.first]
    BY Zenon DEF NewestFirst, Scans
<1> QED
    BY <1>1, <1>2

LEMMA NewestFirstIsRetained ==
    ASSUME NEW out \in Outputs, NEW hits
    PROVE  NewestFirst(out, hits) \in Results(out)
<1> DEFINE n == out.last + 1 - out.first
           step == [i \in 1..n |-> [newer \in Results(out) |-> WithMatch(newer, out.last + 1 - i, hits)]]
<1>1. out.first \in Nat /\ out.last \in Nat /\ out.first <= out.last + 1 /\ n \in Nat
    BY DEF Outputs
<1>2. \A i \in 1..n : out.last + 1 - i \in Nat /\ Retained(out, out.last + 1 - i)
    BY <1>1 DEF Retained
<1>3. ASSUME NEW newer \in Results(out), NEW i \in 1..n
      PROVE  WithMatch(newer, out.last + 1 - i, hits) \in Results(out)
    <2> HIDE DEF n
    <2> QED
        BY <1>2, WithMatchIsRetained
<1>4. step \in [1..n -> [Results(out) -> Results(out)]]
    <2> HIDE DEF n
    <2> QED
        BY <1>3
<1>5. \A newer \in Results(out), i \in 1..n :
          step[i][newer] = WithMatch(newer, out.last + 1 - i, hits)
    OBVIOUS
<1> HIDE DEF n, step
<1>6. PICK f \in Taken(n, Results(out), step) : f[0] = <<>>
    BY <1>1, <1>4, NothingIsFound, StepsExist
<1>7. \A i \in 0..n : f[i] = IF i = 0 THEN <<>> ELSE WithMatch(f[i - 1], out.last + 1 - i, hits)
    <2>1. \A i \in 0..n : i # 0 => i - 1 \in 0..n /\ i \in 1..n
        BY <1>1
    <2> QED
        BY <1>5, <1>6, <2>1 DEF Taken
<1>8. Scans(f, n, out, hits)
    BY <1>6, <1>7 DEF Scans, Taken
<1>9. PICK g : Scans(g, n, out, hits) /\ NewestFirst(out, hits) = g[n]
    BY <1>8, NewestFirstScans DEF n
<1>10. \A i \in 0..n : g[i] = IF i = 0 THEN <<>> ELSE WithMatch(g[i - 1], out.last + 1 - i, hits)
    BY <1>9 DEF Scans
<1>11. g[0] \in Results(out)
    BY <1>1, <1>10, NothingIsFound
<1>12. ASSUME NEW i \in 1..n, g[i - 1] \in Results(out)
       PROVE  g[i] \in Results(out)
    <2>1. i \in 0..n /\ i # 0
        BY <1>1
    <2>2. g[i] = WithMatch(g[i - 1], out.last + 1 - i, hits)
        BY <1>10, <2>1
    <2> QED
        BY <1>3, <1>12, <2>2
<1>13. g[n] \in Results(out)
    BY <1>1, <1>11, <1>12, StepsStay
<1> QED
    BY <1>9, <1>13

LEMMA MatchesAre ==
    ASSUME NEW out \in Outputs, NEW query
    PROVE  Matches(out, query) \in Results(out)
BY NothingIsFound, NewestFirstIsRetained DEF Matches

(* What the selection of a match does to a search.                         *)
LEMMA SelectionIsSound ==
    ASSUME NEW out, NEW v \in Searches, v.matches = Matches(out, QueryOf(v))
    PROVE  /\ SearchIsSound(Inactive(v), out) /\ SearchIsSound(Awaiting(v), out)
           /\ \A i \in DOMAIN v.matches : SearchIsSound(Selected(v, i), out)
<1>1. DOMAIN v.matches \subseteq Nat
    <2>1. v.matches \in Seq(Nat)
        BY DEF Searches
    <2>2. DOMAIN v.matches = 1..Len(v.matches)
        BY <2>1, LenProperties
    <2> QED
        BY <2>2
<1>2. /\ Inactive(v) \in Searches /\ Inactive(v).matches = v.matches
      /\ Inactive(v).current = "inactive" /\ QueryOf(Inactive(v)) = QueryOf(v)
    BY DEF Inactive, Searches, QueryOf
<1>3. /\ Awaiting(v) \in Searches /\ Awaiting(v).matches = v.matches
      /\ Awaiting(v).current = "awaiting" /\ QueryOf(Awaiting(v)) = QueryOf(v)
    BY DEF Awaiting, Searches, QueryOf
<1>4. ASSUME NEW i \in DOMAIN v.matches
      PROVE  SearchIsSound(Selected(v, i), out)
    <2>1. i \in Nat
        BY <1>1
    <2>2. /\ Selected(v, i) \in Searches /\ Selected(v, i).matches = v.matches
          /\ Selected(v, i).index = i /\ QueryOf(Selected(v, i)) = QueryOf(v)
        BY <2>1 DEF Selected, Searches, QueryOf
    <2> QED
        BY <2>2 DEF SearchIsSound
<1> QED
    BY <1>2, <1>3, <1>4 DEF SearchIsSound

LEMMA FoundIs ==
    ASSUME NEW out \in Outputs, NEW v \in Searches
    PROVE  LET found == [v EXCEPT !.matches = Matches(out, QueryOf(v))]
           IN  /\ found \in Searches /\ found.matches \in Seq(Nat)
               /\ found.current = v.current /\ found.matches = Matches(out, QueryOf(found))
<1> DEFINE found == [v EXCEPT !.matches = Matches(out, QueryOf(v))]
<1>1. Matches(out, QueryOf(v)) \in Seq(Nat)
    BY MatchesAre DEF Results
<1>2. /\ found \in Searches /\ found.current = v.current
      /\ found.matches = Matches(out, QueryOf(v))
      /\ found.editing = v.editing /\ found.typed = v.typed /\ found.query = v.query
    BY <1>1 DEF Searches
<1>3. QueryOf(found) = QueryOf(v)
    BY <1>2 DEF QueryOf
<1> QED
    BY <1>1, <1>2, <1>3

LEMMA NonEmptyHasFirst ==
    ASSUME NEW found \in Seq(Nat), found # <<>>
    PROVE  1 \in DOMAIN found
BY EmptySeq, LenProperties

LEMMA RebuiltIsSound ==
    ASSUME NEW out \in Outputs, NEW v \in Searches
    PROVE  SearchIsSound(Rebuilt(v, out), out)
<1> DEFINE found == [v EXCEPT !.matches = Matches(out, QueryOf(v))]
<1>1. /\ found \in Searches /\ found.matches \in Seq(Nat)
      /\ found.matches = Matches(out, QueryOf(found))
    BY FoundIs
<1>2. Rebuilt(v, out) = IF QueryOf(v) = "" THEN Inactive(found)
                        ELSE IF found.matches = <<>> THEN Awaiting(found) ELSE Selected(found, 1)
    BY DEF Rebuilt
<1> HIDE DEF found
<1>3. found.matches # <<>> => 1 \in DOMAIN found.matches
    BY <1>1, NonEmptyHasFirst
<1> QED
    BY <1>1, <1>2, <1>3, SelectionIsSound

LEMMA MinIsMember ==
    ASSUME NEW S \in SUBSET Nat, S # {}
    PROVE  Min(S) \in S
<1>1. PICK least \in S : \A x \in S : ~(<<x, least>> \in OpToRel(<, Nat))
    BY WFMin, NatLessThanWellFounded
<1>2. least \in S /\ \A x \in S : ~(x < least)
    BY <1>1 DEF OpToRel
<1>3. \A x \in S : least <= x
    BY <1>2
<1> QED
    BY <1>2, <1>3 DEF Min

LEMMA RefreshedIsSound ==
    ASSUME NEW out \in Outputs, NEW v \in Searches
    PROVE  SearchIsSound(Refreshed(v, out), out)
<1> DEFINE found == [v EXCEPT !.matches = Matches(out, QueryOf(v))]
           same == {i \in DOMAIN found.matches : found.matches[i] = CurrentMatch(v)}
<1>1. /\ found \in Searches /\ found.matches \in Seq(Nat)
      /\ found.matches = Matches(out, QueryOf(found)) /\ found.current = v.current
    BY FoundIs
<1>2. Refreshed(v, out) =
          CASE v.current = "inactive" -> found
            [] v.current = "awaiting" -> IF found.matches = <<>> THEN found ELSE Selected(found, 1)
            [] OTHER -> IF same = {} THEN Awaiting(found) ELSE Selected(found, Min(same))
    BY DEF Refreshed
<1>3. same # {} => Min(same) \in DOMAIN found.matches
    <2>1. DOMAIN found.matches = 1..Len(found.matches)
        BY <1>1, LenProperties
    <2>2. same \in SUBSET Nat /\ same \subseteq DOMAIN found.matches
        BY <2>1
    <2> HIDE DEF same
    <2> QED
        BY <2>2, MinIsMember
<1> HIDE DEF found, same
<1>4. found.matches # <<>> => 1 \in DOMAIN found.matches
    BY <1>1, NonEmptyHasFirst
<1>5. CASE v.current = "inactive"
    BY <1>1, <1>2, <1>5 DEF SearchIsSound
<1>6. CASE v.current = "awaiting"
    <2>1. CASE found.matches = <<>>
        BY <1>1, <1>2, <1>6, <2>1 DEF SearchIsSound
    <2>2. CASE found.matches # <<>>
        BY <1>1, <1>2, <1>4, <1>6, <2>2, SelectionIsSound
    <2> QED
        BY <2>1, <2>2
<1>7. CASE v.current \notin {"inactive", "awaiting"}
    BY <1>1, <1>2, <1>3, <1>7, SelectionIsSound
<1> QED
    BY <1>5, <1>6, <1>7

LEMMA DrawSearches ==
    ASSUME IInv, SearchIsSound(search, output), NEW out \in Outputs, output' = out, Draw(out)
    PROVE  SearchIsSound(search, output)'
<1>1. search' = IF out = output THEN search ELSE Refreshed(search, out)
    BY DEF Draw
<1>2. CASE out = output
    <2>1. search' = search /\ output' = output
        BY <1>1, <1>2
    <2> QED
        BY <2>1
<1>3. CASE out # output
    <2>1. search' = Refreshed(search, out) /\ search \in Searches
        BY <1>1, <1>3 DEF SearchIsSound
    <2>2. SearchIsSound(Refreshed(search, out), out)
        BY <2>1, RefreshedIsSound
    <2> QED
        BY <2>1, <2>2
<1> QED
    BY <1>2, <1>3

LEMMA OpenSearchSearches ==
    ASSUME SearchIsSound(search, output), OpenSearch
    PROVE  SearchIsSound(search, output)'
<1> DEFINE v == [search EXCEPT !.editing = TRUE, !.typed = "", !.matches = <<>>]
<1>1. v \in Searches /\ v.matches = Matches(output, QueryOf(v))
    <2>1. v \in Searches /\ v.matches = <<>> /\ v.editing = TRUE /\ v.typed = ""
        BY EmptySeq DEF SearchIsSound, Searches, Queries
    <2> HIDE DEF v
    <2> QED
        BY <2>1 DEF Matches, QueryOf
<1>2. search' = Inactive(v) /\ output' = output
    BY DEF OpenSearch
<1> HIDE DEF v
<1>3. SearchIsSound(Inactive(v), output)
    BY <1>1, SelectionIsSound
<1> QED
    BY <1>2, <1>3

LEMMA EditSearches ==
    ASSUME IInv, SearchIsSound(search, output),
           (\E query \in DOMAIN Hits : Type(query)) \/ Submit \/ CancelSearch
    PROVE  SearchIsSound(search, output)'
<1>1. output \in Outputs /\ search \in Searches
    BY DEF IInv, TypeOK, SearchIsSound
<1>2. PICK v \in Searches : Shows(Rebuilt(v, output))
    <2>1. ASSUME NEW query \in DOMAIN Hits, Type(query)
          PROVE  \E v \in Searches : Shows(Rebuilt(v, output))
        <3>1. [search EXCEPT !.typed = query] \in Searches
            BY <1>1 DEF Searches, Queries
        <3> QED
            BY <2>1, <3>1 DEF Type
    <2>2. CASE Submit
        <3>1. [search EXCEPT !.editing = FALSE, !.query = search.typed, !.typed = ""] \in Searches
            BY <1>1 DEF Searches, Queries
        <3> QED
            BY <2>2, <3>1 DEF Submit
    <2>3. CASE CancelSearch
        <3>1. [search EXCEPT !.editing = FALSE, !.typed = ""] \in Searches
            BY <1>1 DEF Searches, Queries
        <3> QED
            BY <2>3, <3>1 DEF CancelSearch
    <2> QED
        BY <2>1, <2>2, <2>3
<1>3. search' = Rebuilt(v, output) /\ output' = output
    BY <1>2 DEF Shows
<1>4. SearchIsSound(Rebuilt(v, output), output)
    BY <1>1, RebuiltIsSound
<1> QED
    BY <1>3, <1>4

LEMMA MoveMatchSearches ==
    ASSUME SearchIsSound(search, output), NEW older \in BOOLEAN, MoveMatch(older)
    PROVE  SearchIsSound(search, output)'
<1> DEFINE count == Len(search.matches)
           from == IF search.current = "selected" THEN search.index
                   ELSE IF older THEN count ELSE 1
           to == IF older THEN (IF from = count THEN 1 ELSE from + 1)
                 ELSE (IF from = 1 THEN count ELSE from - 1)
<1>1. /\ search \in Searches /\ search.matches = Matches(output, QueryOf(search))
      /\ search.current = "selected" => search.index \in DOMAIN search.matches
    BY DEF SearchIsSound
<1>2. count \in Nat /\ DOMAIN search.matches = 1..count
    <2>1. search.matches \in Seq(Nat)
        BY <1>1 DEF Searches
    <2> QED
        BY <2>1, LenProperties
<1>3. /\ search' = IF count > 0 THEN Selected(search, to)
                   ELSE IF search.query # "" THEN Awaiting(search) ELSE Inactive(search)
      /\ output' = output
    BY DEF MoveMatch, Shows
<1>4. count > 0 => from \in 1..count
    BY <1>1, <1>2
<1> HIDE DEF count, from
<1>5. count > 0 => to \in 1..count
    BY <1>2, <1>4
<1> HIDE DEF to
<1>6. SearchIsSound(IF count > 0 THEN Selected(search, to)
                    ELSE IF search.query # "" THEN Awaiting(search) ELSE Inactive(search), output)
    BY <1>1, <1>2, <1>5, SelectionIsSound
<1> QED
    BY <1>3, <1>6

LEMMA StepSearches ==
    ASSUME LogScrollAssumption, IInv, SearchIsSound(search, output), [Next]_vars
    PROVE  SearchIsSound(search, output)'
<1>1. CASE Pass
    BY <1>1, PassIs, DrawSearches
<1>2. CASE CopyPage
    <2>1. output \in Outputs /\ output' = output /\ Draw(output)
        BY <1>2 DEF CopyPage, IInv, TypeOK
    <2> QED
        BY <2>1, DrawSearches
<1>3. CASE FollowOutput
    <2>1. search' = Inactive(search) /\ output' = output
        BY <1>3 DEF FollowOutput
    <2>2. SearchIsSound(Inactive(search), output)
        BY SelectionIsSound DEF SearchIsSound
    <2> QED
        BY <2>1, <2>2
<1>4. CASE OpenSearch
    BY <1>4, OpenSearchSearches
<1>5. CASE (\E query \in DOMAIN Hits : Type(query)) \/ Submit \/ CancelSearch
    BY <1>5, EditSearches
<1>6. ASSUME NEW older \in BOOLEAN, MoveMatch(older)
      PROVE  SearchIsSound(search, output)'
    BY <1>6, MoveMatchSearches
<1>7. CASE UNCHANGED <<output, search>>
    BY <1>7
<1>8. ASSUME NEW lines, NEW up, Scroll(lines, up)
      PROVE  UNCHANGED <<output, search>>
    BY <1>8 DEF Scroll
<1>9. CASE Home \/ ClearSelection \/ ReleaseBar
    BY <1>7, <1>9 DEF Home, ClearSelection, ReleaseBar
<1>10. ASSUME NEW row, NEW column,
              \/ BeginSelection(row, column) \/ UpdateSelection(row, column)
              \/ FinishSelection(row, column)
       PROVE  UNCHANGED <<output, search>>
    BY <1>10 DEF BeginSelection, UpdateSelection, FinishSelection
<1>11. ASSUME NEW row, PressBar(row) \/ DragBar(row)
       PROVE  UNCHANGED <<output, search>>
    BY <1>11 DEF PressBar, DragBar
<1>12. CASE UNCHANGED vars
    BY <1>7, <1>12 DEF vars
<1> QED
    BY <1>1, <1>2, <1>3, <1>4, <1>5, <1>6, <1>7, <1>8, <1>9, <1>10, <1>11, <1>12 DEF Next

(* Whatever arrives, expires or is typed, the matches are those of the     *)
(* query in the retained output, and the current one is among them         *)
(* (log_view.rs: refresh, rebuild_current_query, move_match; snapshot.rs:  *)
(* search).                                                                *)
THEOREM SearchIsInductive ==
    ASSUME LogScrollAssumption
    PROVE  Spec => [](IInv /\ SearchIsSound(search, output))
<1>1. Init => SearchIsSound(search, output)
    <2> SUFFICES ASSUME Init
                 PROVE  SearchIsSound(search, output)
        OBVIOUS
    <2>1. search = [editing |-> FALSE, typed |-> "", query |-> "", matches |-> <<>>,
                    current |-> "inactive", index |-> 0]
        BY DEF Init
    <2>2. /\ search \in Searches /\ search.matches = <<>> /\ search.current = "inactive"
          /\ QueryOf(search) = ""
        BY <2>1, EmptySeq DEF Searches, Queries, QueryOf
    <2> QED
        BY <2>2 DEF SearchIsSound, Matches
<1>2. IInv /\ SearchIsSound(search, output) /\ [Next]_vars => SearchIsSound(search, output)'
    BY StepSearches
<1> QED
    BY <1>1, <1>2, ScrollIsInductive, PTL DEF Spec

(* The page is a full window of the retained lines, a followed one ends    *)
(* with the newest, a reader who scrolled away is told of what came in,    *)
(* and the matches are retained lines, those of the query that is shown    *)
(* (pipe_scroll.rs: refresh, place; log_view.rs: unseen output, search).   *)
THEOREM WhatIsRead ==
    ASSUME LogScrollAssumption
    PROVE  Spec => [](/\ PageIsSound /\ NewOutputIsAnnounced
                      /\ MatchesAreRetained /\ MatchesAreOfTheQuery)
<1>1. IInv => PageIsSound
    BY WindowOfThePage
<1>2. IInv => NewOutputIsAnnounced
    BY DEF IInv, Announced, NewOutputIsAnnounced
<1>3. IInv /\ SearchIsSound(search, output) => MatchesAreRetained
    <2> SUFFICES ASSUME IInv, SearchIsSound(search, output)
                 PROVE  MatchesAreRetained
        OBVIOUS
    <2>1. search.matches \in Results(output)
        BY MatchesAre DEF IInv, TypeOK, SearchIsSound
    <2> QED
        BY <2>1 DEF Results, MatchesAreRetained
<1>4. SearchIsSound(search, output) => MatchesAreOfTheQuery
    BY DEF SearchIsSound, MatchesAreOfTheQuery
<1> QED
    BY <1>1, <1>2, <1>3, <1>4, SearchIsInductive, PTL

LEMMA OnlyAPassBringsOutput ==
    ASSUME LogScrollAssumption, IInv, [Next]_vars, output' # output
    PROVE  Pass
BY DEF Next, vars, Scroll, Home, FollowOutput, ClearSelection, CopyPage, OpenSearch, Shows, Type,
       Submit, CancelSearch, MoveMatch, BeginSelection, UpdateSelection, FinishSelection, PressBar,
       DragBar, ReleaseBar

LEMMA PageStaysInAStep ==
    ASSUME LogScrollAssumption, IInv, [Next]_vars
    PROVE  PageStays
<1> SUFFICES ASSUME output' # output, ~IsFollowing(scroll), ~Requested(scroll),
                    scroll.page # <<>>, CurrentMatch(search') \in {None, CurrentMatch(search)}
             PROVE  IsPrefix(scroll.page, scroll'.page)
    BY DEF PageStays
<1>1. Pass
    BY OnlyAPassBringsOutput
<1>2. PICK out \in Outputs :
          output' = out /\ out.first >= output.first /\ out.last >= output.last /\ Draw(out)
    BY <1>1, PassIs
<1>3. scroll' = NextPage(scroll, out)
    BY <1>2, DrawIs
<1>4. /\ output \in Outputs /\ scroll \in Scrolls({None, scroll.target})
      /\ PageSound(scroll, output)
    BY DEF IInv, TypeOK
<1> QED
    BY <1>2, <1>3, <1>4, PausedPageIsKept

LEMMA SelectionCanBeCopiedInAStep ==
    ASSUME LogScrollAssumption, IInv, [Next]_vars
    PROVE  SelectionCanBeCopied
<1> SUFFICES ASSUME output' # output, HasSelection(marks'.selection), ~scroll'.expired
             PROVE  \A line \in First(marks'.selection)[1]..Second(marks'.selection)[1] :
                        Retained(output', line)
    BY DEF SelectionCanBeCopied
<1>1. Pass
    BY OnlyAPassBringsOutput
<1>2. PICK out \in Outputs : output' = out /\ Draw(out)
    BY <1>1, PassIs
<1> QED
    BY <1>2, DrawIsSound

(* Whatever arrives or expires, the page of a reader who does not follow   *)
(* and asks for nothing stays as it is, and what remains selected can be   *)
(* copied as a whole (pipe_scroll.rs: window, refresh,                     *)
(* invalidate_selection).                                                  *)
THEOREM ReadingIsNotDisturbed ==
    ASSUME LogScrollAssumption
    PROVE  Spec => [][PageStays /\ SelectionCanBeCopied]_vars
<1>1. IInv /\ [Next]_vars => PageStays /\ SelectionCanBeCopied
    BY PageStaysInAStep, SelectionCanBeCopiedInAStep
<1>2. IInv /\ [Next]_vars => [PageStays /\ SelectionCanBeCopied]_vars
    BY <1>1
<1> QED
    BY <1>2, ScrollIsInductive, PTL DEF Spec

LEMMA MatchIsShownInAPass ==
    ASSUME LogScrollAssumption, IInv
    PROVE  MatchIsShown
<1> SUFFICES ASSUME Pass, scroll.target # None, Retained(output', scroll.target),
                    CurrentMatch(search') = scroll.target
             PROVE  scroll.target \in ToSet(scroll'.page)
    BY DEF MatchIsShown
<1>1. PICK out \in Outputs : output' = out /\ Draw(out)
    BY PassIs
<1>2. /\ output \in Outputs /\ scroll \in Scrolls({None, scroll.target})
      /\ PageSound(scroll, output)
    BY DEF IInv, TypeOK
<1>3. PICK asked :
          /\ scroll' = NextPage(asked, out)
          /\ asked = scroll \/ asked = ShowSource(scroll, CurrentMatch(search'))
    BY <1>1, DrawIs
<1>4. asked \in Scrolls({None, asked.target}) /\ asked.target = scroll.target
    BY <1>2, <1>3, ShowSourceIs
<1> DEFINE fresh == [asked EXCEPT !.expired = FALSE]
<1>5. /\ fresh \in Scrolls({None, asked.target}) /\ fresh.expired = FALSE
      /\ fresh.target = asked.target
    BY <1>4 DEF Scrolls
<1>6. scroll' = PlaceTarget(fresh, out)
    BY <1>3, <1>4 DEF NextPage, Freezes, Requested
<1> HIDE DEF fresh
<1>7. Retained(out, fresh.target) => fresh.target \in ToSet(PlaceTarget(fresh, out).page)
    BY <1>5, PlaceTargetIsSound
<1> QED
    BY <1>1, <1>4, <1>5, <1>6, <1>7

(* The match that is asked for is on the page after the pass that shows it *)
(* (pipe_scroll.rs: place_target; log_view.rs: refresh, show_current).     *)
THEOREM MatchesAreShown ==
    ASSUME LogScrollAssumption
    PROVE  Spec => [][MatchIsShown]_vars
<1>1. IInv /\ [Next]_vars => [MatchIsShown]_vars
    BY MatchIsShownInAPass
<1> QED
    BY <1>1, ScrollIsInductive, PTL DEF Spec
================================================================================
