------------------------------- MODULE LogScroll -------------------------------
(***************************************************************************)
(* The Logs of one Process on the screen (src/src/pipe_scroll.rs,          *)
(* log_view.rs, process_logs.rs and the windows of output/snapshot.rs).    *)
(* A pass of the application takes a snapshot and asks for the page;       *)
(* between passes keys and the mouse ask for moves, search and selection.  *)
(* A line is its number, text is two characters wide, and a query is the   *)
(* set of lines that it matches.                                           *)
(***************************************************************************)
EXTENDS Naturals, Sequences, FiniteSets, FiniteSetsExt, SequencesExt

CONSTANTS
    Hits,        \* of each query other than the empty one: the lines it matches
    Rows,        \* how high the pane is
    MatchLimit,  \* SEARCH_MATCH_LIMIT
    Gestures,    \* which of "keys", "search", "mouse", "bar" the user uses
    MaxLine,     \* bound: lines of output
    MaxPending   \* bound: moves requested between passes

LogScrollAssumption ==
    /\ "" \notin DOMAIN Hits /\ \A q \in DOMAIN Hits : Hits[q] \subseteq Nat
    /\ Rows \in Nat \ {0} /\ MatchLimit \in Nat \ {0} /\ MaxLine \in Nat /\ MaxPending \in Nat

VARIABLES
    output,     \* the snapshot: the first and the last retained line
    scroll,     \* PipeScroll: position, moves, target, page, held, expired
    marks,      \* PipeScroll: selection, scrollbar and the gesture on it
    search,     \* LogView: editor, query, matches, which is current, and by its index
    unseen,     \* whether output arrived below the page
    shown       \* history: the last line when a pass last began or ended following

vars == <<output, scroll, marks, search, unseen, shown>>

None == 0
Following == [at |-> "following", line |-> None]
TopOfHistory == [at |-> "head", line |-> None]
Source(line) == [at |-> "source", line |-> line]

NoBar == [position |-> 0, content |-> 0, viewport |-> 0]
NoMark == [anchor |-> <<0, 0>>, cursor |-> <<0, 0>>, row |-> 0, column |-> 0, dragging |-> FALSE]

Init ==
    /\ output = [first |-> 1, last |-> 0]
    /\ scroll = [position |-> Following, pending |-> <<>>, target |-> None, page |-> <<>>,
                 held |-> FALSE, expired |-> FALSE]
    /\ marks = [selection |-> NoMark, bar |-> NoBar, gesture |-> "none"]
    /\ search = [editing |-> FALSE, typed |-> "", query |-> "", matches |-> <<>>,
                 current |-> "inactive", index |-> 0]
    /\ unseen = FALSE
    /\ shown = 0

-----------------------------------------------------------------------------
(* What a snapshot displays: a notice when older lines expired (line 0),   *)
(* then the retained lines; positions count from 0.                        *)

Truncated(out) == out.first > 1
Display(out) ==
    (IF Truncated(out) THEN <<None>> ELSE <<>>) \o [i \in 1..(out.last + 1 - out.first) |-> out.first + i - 1]
Total(out) == Len(Display(out))
Retained(out, line) == line \in out.first..out.last

(* display_position: the notice's, if none is asked for.                   *)
PositionOf(out, line) ==
    IF line = None THEN 0 ELSE line - out.first + (IF Truncated(out) THEN 1 ELSE 0)

Least(a, b) == IF a < b THEN a ELSE b
Less(a, b) == IF a > b THEN a - b ELSE 0

Window(out, start, rows) == SubSeq(Display(out), start + 1, Least(start + rows, Total(out)))
Newest(out, rows) == Window(out, Less(Total(out), rows), rows)

IsFollowing(s) == s.position = Following /\ s.pending = <<>> /\ s.target = None

Follow(s) ==
    [s EXCEPT !.expired = FALSE, !.position = Following, !.pending = <<>>, !.target = None,
              !.page = <<>>, !.held = FALSE]

-----------------------------------------------------------------------------
(* The page.                                                               *)

(* place: the end of the history is followed unless the page is held.      *)
Place(s, out, height, start) ==
    LET end == Total(out) - height
        position == IF start = end /\ ~s.held THEN Following
                    ELSE IF start = 0 /\ Truncated(out) THEN TopOfHistory
                    ELSE Source(Display(out)[start + 1])
    IN  [s EXCEPT !.position = position,
                  !.page = IF position = Following THEN Newest(out, height)
                           ELSE Window(out, PositionOf(out, position.line), height)]

(* refresh: an anchor that is gone becomes the head, and a page that the   *)
(* output does not fill follows it.                                        *)
Refresh(s, out) ==
    LET gone == s.position.at = "source" /\ ~Retained(out, s.position.line)
        position == IF gone THEN TopOfHistory ELSE s.position
        page == Window(out, PositionOf(out, position.line), Rows + 1)
    IN  IF position = Following \/ (Len(page) <= Rows /\ ~s.held)
        THEN [s EXCEPT !.position = Following, !.page = Newest(out, Rows)]
        ELSE [s EXCEPT !.position = position, !.page = SubSeq(page, 1, Least(Rows, Len(page)))]

(* apply_navigation: the moves in their order, each stopped by the ends.   *)
MovedBy(at, m, end) == IF m.up THEN Less(at, m.lines) ELSE Least(at + m.lines, end)

Arrived(from, moves, end) ==
    LET after[i \in 0..Len(moves)] ==
            IF i = 0 THEN from ELSE MovedBy(after[i - 1], moves[i], end)
    IN  after[Len(moves)]

EndOf(out) == Total(out) - Least(Rows, Total(out))

StartOf(s, out) ==
    Least(EndOf(out),
          CASE s.position = Following -> EndOf(out)
            [] s.position = TopOfHistory -> 0
            [] OTHER -> IF Retained(out, s.position.line)
                        THEN PositionOf(out, s.position.line) ELSE 0)

Navigate(s, out) ==
    IF Total(out) = 0 THEN Follow(s)
    ELSE [Place(s, out, Least(Rows, Total(out)), Arrived(StartOf(s, out), s.pending, EndOf(out)))
             EXCEPT !.pending = <<>>]

(* Whether one of the moves got anywhere.                                  *)
Navigates(s, out) ==
    LET after(n) == Arrived(StartOf(s, out), SubSeq(s.pending, 1, n), EndOf(out))
    IN  s.target = None /\ \E i \in DOMAIN s.pending : after(i) # after(i - 1)

(* place_target: the line in the middle, if it is still there.             *)
Beyond(out, line, height) == PositionOf(out, line) + 1

Centered(out, line, height) == Less(PositionOf(out, line), height \div 2)

PlaceTarget(s, out) ==
    LET height == Least(Rows, Total(out))
        without == [s EXCEPT !.target = None]
    IN  IF Total(out) = 0 THEN Follow(s)
        ELSE IF ~Retained(out, s.target)
        THEN Refresh([without EXCEPT !.position = TopOfHistory], out)
        ELSE Place(without, out, height, Least(Centered(out, s.target, height), Total(out) - height))

(* A page whose first line expired stays as it is until something moves it.*)
IsFirstLine(page, i) == page[i] # None /\ \A j \in 1..(i - 1) : page[j] = None

Requested(s) == s.pending # <<>> \/ s.target # None

NeverFreezes(s, out) == FALSE

Freezes(s, out) ==
    /\ ~IsFollowing(s) /\ ~Requested(s) /\ s.page # <<>>
    /\ \/ s.expired
       \/ \E i \in DOMAIN s.page : IsFirstLine(s.page, i) /\ ~Retained(out, s.page[i])

NextPage(s, out) ==
    IF Freezes(s, out) THEN [s EXCEPT !.expired = TRUE]
    ELSE LET fresh == [s EXCEPT !.expired = FALSE]
         IN  IF s.target # None THEN PlaceTarget(fresh, out)
             ELSE IF s.pending # <<>> THEN Navigate(fresh, out)
             ELSE Refresh(fresh, out)

-----------------------------------------------------------------------------
(* Selection: two points, each a line and a byte in it.                    *)

Width == 2

PointAt(page, row, column, whole) ==
    <<page[Least(row, Len(page))], IF column < Width THEN column + (IF whole THEN 1 ELSE 0) ELSE Width>>

HasPoint(page, row) == page # <<>> /\ page[Least(row, Len(page))] # None

Before(a, b) == a[1] < b[1] \/ (a[1] = b[1] /\ a[2] <= b[2])
First(m) == IF Before(m.anchor, m.cursor) THEN m.anchor ELSE m.cursor
Second(m) == IF Before(m.anchor, m.cursor) THEN m.cursor ELSE m.anchor

HasSelection(m) == m.anchor # m.cursor

SelectionIsRetained(m, out) ==
    m = NoMark \/ (Retained(out, m.anchor[1]) /\ Retained(out, m.cursor[1]))

(* A drag goes on while a move takes the page along under it.              *)
Extended(m, before, after, out) ==
    IF /\ m.dragging /\ Navigates(before, out)
       /\ m.row <= Len(after.page) /\ after.page[m.row] # None
    THEN [m EXCEPT !.cursor = PointAt(after.page, m.row, m.column, TRUE)] ELSE m

(* pause: the first line of the page becomes the anchor.                   *)
Paused(s) ==
    [s EXCEPT !.position = IF s.page # <<>> /\ s.page[1] # None THEN Source(s.page[1])
                           ELSE TopOfHistory,
              !.pending = <<>>, !.target = None, !.held = TRUE]

-----------------------------------------------------------------------------
(* The scrollbar, which is there when not all output is on the page.       *)

BarOf(s, out) ==
    IF Total(out) <= Rows THEN NoBar
    ELSE [position |-> IF s.page = <<>> THEN 0 ELSE PositionOf(out, s.page[1]),
          content |-> Total(out) - Len(s.page) + 1, viewport |-> Len(s.page)]

Rounded(value, target, source) == (value * target + source \div 2) \div source

ThumbLength(bar) ==
    Max({1, Least(Rows, Rounded(bar.viewport, Rows, bar.content - 1 + bar.viewport))})

ThumbStart(bar) ==
    Least(Rounded(Least(bar.position, bar.content - 1), Rows, bar.content - 1 + bar.viewport),
          Rows - ThumbLength(bar))

(* set_scrollbar_thumb: the position that the thumb's new place stands for.*)
Dragged(s, bar, start, out) ==
    LET range == Rows - ThumbLength(bar)
        position == IF range = 0 THEN 0 ELSE (Least(start, range) * (bar.content - 1)) \div range
        line == Display(out)[position + 1]
    IN  Refresh([s EXCEPT !.position = IF line = None THEN TopOfHistory ELSE Source(line),
                          !.pending = <<>>, !.target = None], out)

-----------------------------------------------------------------------------
(* Search.                                                                 *)

(* RetainedOutput::search: from the newest line, until there are enough.   *)
WithMatch(newer, line, hits) ==
    IF line \in hits /\ Len(newer) < MatchLimit THEN Append(newer, line) ELSE newer

NewestFirst(out, hits) ==
    LET found[n \in 0..(out.last + 1 - out.first)] ==
            IF n = 0 THEN <<>> ELSE WithMatch(found[n - 1], out.last + 1 - n, hits)
    IN  found[out.last + 1 - out.first]

Matches(out, query) == IF query = "" THEN <<>> ELSE NewestFirst(out, Hits[query])

CurrentMatch(v) == IF v.current = "selected" THEN v.matches[v.index] ELSE None

QueryOf(v) == IF v.editing THEN v.typed ELSE v.query

Inactive(v) == [v EXCEPT !.current = "inactive", !.index = 0]
Awaiting(v) == [v EXCEPT !.current = "awaiting", !.index = 0]
Selected(v, i) == [v EXCEPT !.current = "selected", !.index = i]

(* refresh: the same match again, wherever it is now, or the next to come. *)
Refreshed(v, out) ==
    LET found == [v EXCEPT !.matches = Matches(out, QueryOf(v))]
        same == {i \in DOMAIN found.matches : found.matches[i] = CurrentMatch(v)}
    IN  CASE v.current = "inactive" -> found
          [] v.current = "awaiting" -> IF found.matches = <<>> THEN found ELSE Selected(found, 1)
          [] OTHER -> IF same = {} THEN Awaiting(found) ELSE Selected(found, Min(same))

(* rebuild_current_query: after the query changed.                         *)
Rebuilt(v, out) ==
    LET found == [v EXCEPT !.matches = Matches(out, QueryOf(v))]
    IN  IF QueryOf(v) = "" THEN Inactive(found)
        ELSE IF found.matches = <<>> THEN Awaiting(found) ELSE Selected(found, 1)

-----------------------------------------------------------------------------
(* A pass: what arrived and expired since, then the page.                  *)

ShowSource(s, line) == [s EXCEPT !.pending = <<>>, !.target = line, !.held = TRUE]

NewOutput ==
    {out \in [first : output.first..(output.last + 2), last : output.last..Least(output.last + 1, MaxLine)] :
        out.first <= out.last + 1}

OnlyJustUnseen(out, next) == ~IsFollowing(next) /\ out # output /\ ~IsFollowing(scroll)

Unseen(out, next) ==
    ~IsFollowing(next) /\ (unseen \/ (out # output /\ ~IsFollowing(scroll)))

Draw(out) ==
    \E found \in {IF out = output THEN search ELSE Refreshed(search, out)} :
        LET shows == CurrentMatch(search) = None /\ CurrentMatch(found) # None
            asked == IF shows THEN ShowSource(scroll, CurrentMatch(found)) ELSE scroll
            selection == IF shows THEN NoMark ELSE marks.selection
            kept(next) == IF SelectionIsRetained(selection, out)
                          THEN Extended(selection, asked, next, out) ELSE NoMark
            drawn(bar, next) == [selection |-> kept(next), bar |-> bar,
                                 gesture |-> IF bar = NoBar THEN "none" ELSE marks.gesture]
        IN  \E next \in {NextPage(asked, out)} :
                /\ search' = found
                /\ scroll' = next
                /\ marks' = IF next.expired
                            THEN [selection |-> selection, bar |-> NoBar, gesture |-> "none"]
                            ELSE drawn(BarOf(next, out), next)
                /\ unseen' = Unseen(out, next)
                /\ shown' = IF IsFollowing(scroll) \/ IsFollowing(next) THEN out.last ELSE shown

Pass == \E out \in NewOutput : output' = out /\ Draw(out)

-----------------------------------------------------------------------------
(* Keys.                                                                   *)

(* scroll_lines: moves in one direction add up; nothing is below the end.  *)
Scroll(lines, up) ==
    /\ up \/ ~IsFollowing(scroll)
    /\ LET last == Last(scroll.pending)
           joins == scroll.pending # <<>> /\ last.up = up
       IN  /\ Len(scroll.pending) < MaxPending
           /\ scroll' = [scroll EXCEPT !.pending =
                  IF joins THEN Front(@) \o <<[last EXCEPT !.lines = Least(@ + lines, MaxLine)]>>
                  ELSE Append(@, [lines |-> lines, up |-> up])]
    /\ UNCHANGED <<output, marks, search, unseen, shown>>

(* The search editor takes every key.                                      *)
Home ==
    /\ ~search.editing
    /\ scroll' = [Follow(scroll) EXCEPT !.position = TopOfHistory]
    /\ UNCHANGED <<output, marks, search, unseen, shown>>

FollowOutput ==
    /\ ~search.editing
    /\ scroll' = Follow(scroll)
    /\ search' = Inactive(search)
    /\ unseen' = FALSE
    /\ shown' = output.last
    /\ UNCHANGED <<output, marks>>

ClearSelection ==
    /\ marks.selection # NoMark
    /\ marks' = [marks EXCEPT !.selection = NoMark]
    /\ UNCHANGED <<output, scroll, search, unseen, shown>>

(* Copy without a selection takes the page, and draws it for that.         *)
CopyPage ==
    ~search.editing /\ ~HasSelection(marks.selection) /\ Draw(output) /\ UNCHANGED output

OpenSearch ==
    /\ ~search.editing
    /\ search' = Inactive([search EXCEPT !.editing = TRUE, !.typed = "", !.matches = <<>>])
    /\ scroll' = Paused(scroll)
    /\ marks' = [marks EXCEPT !.selection = NoMark]
    /\ UNCHANGED <<output, unseen, shown>>

Shows(v) ==
    /\ search' = v
    /\ IF CurrentMatch(v) = None THEN UNCHANGED <<scroll, marks>>
       ELSE /\ scroll' = ShowSource(scroll, CurrentMatch(v))
            /\ marks' = [marks EXCEPT !.selection = NoMark]
    /\ UNCHANGED <<output, unseen, shown>>

Type(query) == search.editing /\ Shows(Rebuilt([search EXCEPT !.typed = query], output))

Submit ==
    search.editing /\ Shows(Rebuilt([search EXCEPT !.editing = FALSE, !.query = search.typed,
                                                   !.typed = ""], output))

CancelSearch ==
    search.editing /\ Shows(Rebuilt([search EXCEPT !.editing = FALSE, !.typed = ""], output))

(* move_match goes around; newer is what comes first.                      *)
MoveMatch(older) ==
    /\ ~search.editing
    /\ LET count == Len(search.matches)
           from == IF search.current = "selected" THEN search.index
                   ELSE IF older THEN count ELSE 1
           to == IF older THEN (IF from = count THEN 1 ELSE from + 1)
                 ELSE (IF from = 1 THEN count ELSE from - 1)
       IN  Shows(IF count > 0 THEN Selected(search, to)
                 ELSE IF search.query # "" THEN Awaiting(search) ELSE Inactive(search))

-----------------------------------------------------------------------------
(* The mouse.                                                              *)

BeginSelection(row, column) ==
    /\ HasPoint(scroll.page, row)
    /\ LET point == PointAt(scroll.page, row, column, FALSE)
       IN  marks' = [marks EXCEPT !.selection = [anchor |-> point, cursor |-> point, row |-> row,
                                                 column |-> column, dragging |-> TRUE]]
    /\ UNCHANGED <<output, scroll, search, unseen, shown>>

(* The first move of a drag pauses.                                        *)
Updated(m, row, column) ==
    IF HasPoint(scroll.page, row)
    THEN [m EXCEPT !.cursor = PointAt(scroll.page, row, column, TRUE), !.row = row, !.column = column]
    ELSE m

PausesFor(m, row) ==
    scroll' = IF HasPoint(scroll.page, row) /\ m.anchor = m.cursor THEN Paused(scroll) ELSE scroll

UpdateSelection(row, column) ==
    /\ marks.gesture = "none" /\ marks.selection # NoMark
    /\ marks' = [marks EXCEPT !.selection = Updated(@, row, column)]
    /\ PausesFor(marks.selection, row)
    /\ UNCHANGED <<output, search, unseen, shown>>

FinishSelection(row, column) ==
    /\ marks.gesture = "none" /\ marks.selection # NoMark
    /\ LET ended == [Updated(marks.selection, row, column) EXCEPT !.dragging = FALSE]
       IN  marks' = [marks EXCEPT !.selection = IF HasSelection(ended) THEN ended ELSE NoMark]
    /\ PausesFor(marks.selection, row)
    /\ UNCHANGED <<output, search, unseen, shown>>

PressBar(row) ==
    /\ marks.bar # NoBar
    /\ LET start == ThumbStart(marks.bar)
           size == ThumbLength(marks.bar)
           onThumb == start <= row /\ row < start + size
           moved == Dragged(scroll, marks.bar, Less(row, size \div 2), output)
       IN  /\ scroll' = IF onThumb THEN scroll ELSE moved
           /\ marks' = [marks EXCEPT !.gesture = IF onThumb THEN "thumb" ELSE "track",
                                     !.bar = IF onThumb THEN @ ELSE BarOf(moved, output)]
    /\ UNCHANGED <<output, search, unseen, shown>>

(* Where on the thumb it was taken is left open.                           *)
DragBar(start) ==
    /\ marks.gesture # "none" /\ marks.bar # NoBar
    /\ LET moved == Dragged(scroll, marks.bar, start, output)
       IN  IF marks.gesture = "track" THEN UNCHANGED <<scroll, marks>>
           ELSE scroll' = moved /\ marks' = [marks EXCEPT !.bar = BarOf(moved, output)]
    /\ UNCHANGED <<output, search, unseen, shown>>

ReleaseBar ==
    /\ marks.gesture # "none"
    /\ marks' = [marks EXCEPT !.gesture = "none"]
    /\ UNCHANGED <<output, scroll, search, unseen, shown>>

Next ==
    \/ Pass
    \/ "keys" \in Gestures /\ (\/ \E lines \in {1, Rows}, up \in BOOLEAN : Scroll(lines, up)
                               \/ Home \/ FollowOutput \/ CopyPage)
    \/ "search" \in Gestures /\ (\/ OpenSearch \/ Submit \/ CancelSearch
                                 \/ \E query \in DOMAIN Hits : Type(query)
                                 \/ \E older \in BOOLEAN : MoveMatch(older))
    \/ "mouse" \in Gestures /\ (\/ ClearSelection
                                \/ \E row \in 1..Rows, column \in 0..(Width - 1) :
                                      \/ BeginSelection(row, column) \/ UpdateSelection(row, column)
                                      \/ FinishSelection(row, column))
    \/ "bar" \in Gestures /\ (\/ \E row \in 0..(Rows - 1) : PressBar(row) \/ DragBar(row)
                              \/ ReleaseBar)

Spec == Init /\ [][Next]_vars

-----------------------------------------------------------------------------
(* The page that a user reads stays where it is whatever arrives or        *)
(* expires, until the user moves it (pipe_scroll.rs: "Following is the     *)
(* only state that moves when output arrives").                            *)
PageStays ==
    output' # output /\ ~IsFollowing(scroll) /\ ~Requested(scroll) /\ ~Requested(scroll')
      /\ scroll.page # <<>> /\ CurrentMatch(search') \in {None, CurrentMatch(search)}
    => IsPrefix(scroll.page, scroll'.page)

(* The page is a full window of what is retained, and while it follows it  *)
(* ends with the newest line, unless it is frozen or held.                 *)
PageIsSound ==
    scroll.page # <<>> /\ ~scroll.expired =>
        /\ \E start \in 0..Total(output) : scroll.page = Window(output, start, Len(scroll.page))
        /\ ~scroll.held => Len(scroll.page) = Least(Rows, Total(output))
        /\ IsFollowing(scroll) => Last(scroll.page) = Last(Display(output))

(* The current match is on the page after the pass that shows it.          *)
MatchIsShown ==
    Pass /\ scroll.target # None /\ Retained(output', scroll.target)
      /\ CurrentMatch(search') = scroll.target
    => scroll.target \in ToSet(scroll'.page)

(* Matches are of what is retained (terminal-and-output.md: results        *)
(* "pointing into evicted content are invalidated cleanly").               *)
MatchesAreRetained == \A i \in DOMAIN search.matches : Retained(output, search.matches[i])

(* The matches are those of the query that is shown, in the output that is *)
(* shown, whatever was typed, cancelled or arrived in between (log_view.rs:*)
(* refresh and rebuild_current_query each replace them).                   *)
MatchesAreOfTheQuery == search.matches = Matches(output, QueryOf(search))

(* What is selected after lines expired can be copied as a whole, unless   *)
(* its page is frozen.                                                     *)
SelectionCanBeCopied ==
    output' # output /\ HasSelection(marks'.selection) /\ ~scroll'.expired =>
        \A line \in First(marks'.selection)[1]..Second(marks'.selection)[1] :
            Retained(output', line)

(* Output that arrived while the page did not follow is announced until    *)
(* the page follows.  (A page that a first match takes off the end is not  *)
(* announced for what came in that pass.)                                  *)
NewOutputIsAnnounced == ~IsFollowing(scroll) /\ output.last > shown => unseen
=============================================================================
