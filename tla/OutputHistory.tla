----------------------------- MODULE OutputHistory -----------------------------
(***************************************************************************)
(* The bounded Logs of all Processes (src/src/output.rs and                *)
(* output/segments.rs).  Readers of the Processes' pipes append bytes, the *)
(* interface takes snapshots that share segments with the history, and     *)
(* both are charged to one Project budget.  Each operation holds the lock. *)
(* Text is its size; timestamps, labels and escape sequences are left out. *)
(***************************************************************************)
EXTENDS Naturals, Sequences, FiniteSets, FiniteSetsExt, SequencesExt

CONSTANTS
    Writers,         \* the Processes
    Streams,         \* stdout, stderr and the terminal's combined output
    Chunks,          \* what a reader may append at once: sequences of bytes
    LineBytes,       \* LOGICAL_LINE_BYTES
    SegmentBytes, SegmentRecords,    \* when a segment is full
    PerProcess, Global,              \* the configured limits
    MaxRuns,         \* bound: Runs of a Process
    MaxSequence      \* bound: records and pending lines begun

HistoryAssumption ==
    /\ {LineBytes, SegmentBytes, SegmentRecords, PerProcess, Global, MaxRuns, MaxSequence}
           \subseteq Nat \ {0}
    /\ IsFiniteSet(Writers)
    /\ IsFiniteSet(Streams) /\ Streams = 1..Cardinality(Streams)
    /\ Chunks \subseteq Seq({"text", "invalid", "newline"})

VARIABLES
    project,    \* of each Process its history; the Project's bytes and next sequence
    views       \* of each Process: the snapshot the interface holds

vars == <<project, views>>

NoLine == [sequence |-> 0, run |-> 0, raw |-> 0, text |-> 0]
NoSnapshot == [segments |-> <<>>, generation |-> 0]

EmptyHistory ==
    [segments |-> <<>>, pending |-> [s \in Streams |-> NoLine], bytes |-> 0,
     truncated |-> FALSE, latest |-> 0, generation |-> 1]

Init ==
    /\ project = [of |-> [w \in Writers |-> EmptyHistory], bytes |-> 0, next |-> 1]
    /\ views = [w \in Writers |-> NoSnapshot]

-----------------------------------------------------------------------------
(* Segments and what they are charged.                                     *)

RecordBytes == 1
SegmentOverhead == 1

SizeOf(record) == record.text + RecordBytes

SizeOfAll(records) == SumFunction([i \in DOMAIN records |-> SizeOf(records[i])])

Charge(segment) == SegmentOverhead + SizeOfAll(segment.records)

Retained(segments) == SumFunction([i \in DOMAIN segments |-> SizeOfAll(segments[i].records)])

(* A segment lives, and is charged, while a history or a reader has it.    *)
Owned(pr) == UNION {ToSet(pr.of[w].segments) : w \in Writers}
Pinned == UNION {ToSet(views[w].segments) : w \in Writers}

Allocation(pr, pins) == SumFunction([s \in Owned(pr) \cup pins |-> Charge(s)])

FreshId(live) == CHOOSE i \in 1..(Cardinality(live) + 1) : \A s \in live : s.id # i

Before(records, record) ==
    Cardinality({i \in DOMAIN records : records[i].sequence < record.sequence})

InOrder(records, record) == InsertAt(records, Before(records, record) + 1, record)

HasRoom(segment) == Charge(segment) < SegmentBytes /\ Len(segment.records) < SegmentRecords

TooLarge(segment) ==
    \/ Len(segment.records) > SegmentRecords
    \/ Charge(segment) > SegmentBytes /\ Len(segment.records) > 1

(* A record goes where its sequence belongs; a segment that somebody else  *)
(* has is copied first, and one that became too large is split.            *)
AfterTheLast(segments, record) ==
    IF segments # <<>> /\ HasRoom(Last(segments)) THEN Len(segments) ELSE Len(segments) + 1

PlaceOf(segments, record) ==
    LET after == Cardinality({i \in DOMAIN segments :
                                  Last(segments[i].records).sequence < record.sequence})
    IN  IF after = Len(segments) /\ after > 0 /\ HasRoom(segments[after])
        THEN after ELSE after + 1

Split(segment, live) ==
    LET half == Len(segment.records) \div 2
    IN  <<[segment EXCEPT !.records = SubSeq(@, 1, half)],
          [id |-> FreshId(live), records |-> SubSeq(segment.records, half + 1, Len(segment.records))]>>

Grown(old, record, shared, live) ==
    [id |-> IF old.id = 0 \/ old \in shared THEN FreshId(live) ELSE old.id,
     records |-> InOrder(old.records, record)]

Pieces(segment, live) ==
    IF TooLarge(segment) THEN Split(segment, live \cup {segment}) ELSE <<segment>>

WithRecordAt(i, segments, record, shared, live) ==
    LET old == IF i > Len(segments) THEN [id |-> 0, records |-> <<>>] ELSE segments[i]
    IN  SubSeq(segments, 1, i - 1)
            \o Pieces(Grown(old, record, shared, live), live)
            \o SubSeq(segments, i + 1, Len(segments))

WithRecord(segments, record, shared, live) ==
    WithRecordAt(PlaceOf(segments, record), segments, record, shared, live)

-----------------------------------------------------------------------------
(* Eviction.                                                               *)

Sequences(h) ==
    {h.pending[s].sequence : s \in {t \in Streams : h.pending[t] # NoLine}}
        \cup (IF h.segments = <<>> THEN {} ELSE {h.segments[1].records[1].sequence})

Oldest(h) == IF Sequences(h) = {} THEN 0 ELSE Min(Sequences(h))

FrontIsOldest(h) == h.segments # <<>> /\ h.segments[1].records[1].sequence = Oldest(h)

(* The bytes that go with the oldest segment, or with an older line that   *)
(* is not complete.                                                        *)
OldestBytes(h) ==
    IF FrontIsOldest(h) THEN SizeOfAll(h.segments[1].records)
    ELSE LET s == CHOOSE t \in Streams : h.pending[t].sequence = Oldest(h)
         IN  h.pending[s].raw

WithoutOldest(h) ==
    [h EXCEPT !.segments = IF FrontIsOldest(h) THEN Tail(@) ELSE @,
              !.pending = IF FrontIsOldest(h) THEN @
                          ELSE [s \in Streams |-> IF @[s].sequence = Oldest(h) THEN NoLine ELSE @[s]],
              !.bytes = @ - OldestBytes(h),
              !.truncated = TRUE,
              !.generation = @ + 1]

EvictFrom(pr, w) ==
    [pr EXCEPT !.of[w] = WithoutOldest(@), !.bytes = @ - OldestBytes(pr.of[w])]

(* The largest history is trimmed first, the one with the oldest output    *)
(* among the largest.                                                      *)
OldestFirst(pr, v, w) == Oldest(pr.of[v]) <= Oldest(pr.of[w])

LargestFirst(pr, v, w) ==
    \/ pr.of[v].bytes > pr.of[w].bytes
    \/ pr.of[v].bytes = pr.of[w].bytes /\ Oldest(pr.of[v]) <= Oldest(pr.of[w])

Candidate(pr) ==
    LET filled == {w \in Writers : pr.of[w].bytes > 0}
    IN  CHOOSE v \in filled : \A w \in filled : LargestFirst(pr, v, w)

OverProcess(pr, w) == pr.of[w].bytes > PerProcess /\ Sequences(pr.of[w]) # {}

OverProject(pr, pins) ==
    /\ pr.bytes > Global \/ Allocation(pr, pins) > Global
    /\ \E w \in Writers : pr.of[w].bytes > 0

TrimmedProcess(pr, w) == IF OverProcess(pr, w) THEN EvictFrom(pr, w) ELSE pr

TrimmedProject(pr, pins) == IF OverProject(pr, pins) THEN EvictFrom(pr, Candidate(pr)) ELSE pr

(* As often as there can be something to evict: each time takes a byte.    *)
WithinProcess(pr, w) ==
    LET trimmed[n \in 0..pr.of[w].bytes] ==
            IF n = 0 THEN pr ELSE TrimmedProcess(trimmed[n - 1], w)
    IN  trimmed[pr.of[w].bytes]

WithinProject(pr, pins) ==
    LET trimmed[n \in 0..pr.bytes] ==
            IF n = 0 THEN pr ELSE TrimmedProject(trimmed[n - 1], pins)
    IN  IF OverProject(pr, pins) THEN trimmed[pr.bytes] ELSE pr

Enforce(pr, w, pins) == WithinProject(WithinProcess(pr, w), pins)

-----------------------------------------------------------------------------
(* Appending.                                                              *)

Push(pr, w, record) ==
    LET longer == [pr.of[w] EXCEPT !.segments = WithRecord(@, record, Pinned, Owned(pr) \cup Pinned),
                                   !.bytes = @ + SizeOf(record)]
    IN  Enforce([pr EXCEPT !.of[w] = longer, !.bytes = @ + SizeOf(record)], w, Pinned)

(* A line becomes a record: what it holds is normalized, which may make it *)
(* longer, and a line that was cut says so.                                *)
Ended(line, continued) ==
    [sequence |-> line.sequence, run |-> line.run,
     text |-> line.text + (IF continued THEN 1 ELSE 0)]

WithoutLine(pr, w, s) ==
    LET line == pr.of[w].pending[s]
        without == [pr.of[w] EXCEPT !.pending[s] = NoLine, !.bytes = @ - line.raw]
    IN  [pr EXCEPT !.of[w] = without, !.bytes = @ - line.raw]

Flush(pr, w, s, continued) ==
    LET line == pr.of[w].pending[s]
    IN  IF line = NoLine THEN pr ELSE Push(WithoutLine(pr, w, s), w, Ended(line, continued))

TextOf(byte) == IF byte = "invalid" THEN 3 ELSE 1

(* A line takes the next sequence when it begins.                          *)
Begun(pr, w, s, run) ==
    IF pr.of[w].pending[s] # NoLine THEN pr
    ELSE LET line == [sequence |-> pr.next, run |-> run, raw |-> 0, text |-> 0]
             begun == [pr.of[w] EXCEPT !.pending[s] = line]
         IN  [pr EXCEPT !.of[w] = begun, !.next = @ + 1]

Longer(line, byte) == [line EXCEPT !.raw = @ + 1, !.text = @ + TextOf(byte)]

WithByte(pr, w, s, byte) ==
    LET longer == [pr.of[w] EXCEPT !.pending[s] = Longer(@, byte), !.bytes = @ + 1]
    IN  [pr EXCEPT !.of[w] = longer, !.bytes = @ + 1]

AppendByte(pr, w, s, run, byte) ==
    LET longer == WithByte(Begun(pr, w, s, run), w, s, byte)
    IN  IF byte = "newline" \/ longer.of[w].pending[s].raw = LineBytes
        THEN Flush(longer, w, s, byte # "newline") ELSE longer

Changed(pr, w) ==
    LET changed == [pr.of[w] EXCEPT !.generation = @ + 1] IN [pr EXCEPT !.of[w] = changed]

Written(pr, w, s, run, bytes) ==
    LET written[n \in 0..Len(bytes)] ==
            IF n = 0 THEN pr ELSE AppendByte(written[n - 1], w, s, run, bytes[n])
    IN  written[Len(bytes)]

(* Output of a Run that is not the latest is dropped; a line of another    *)
(* Run ends where it is.                                                   *)
Append_(w, s, run, bytes) ==
    /\ run >= project.of[w].latest
    /\ \E alone \in {IF project.of[w].pending[s] # NoLine /\ project.of[w].pending[s].run # run
                     THEN Flush(project, w, s, FALSE) ELSE project} :
          \E longer \in {Written(alone, w, s, run, bytes)} :
              /\ longer.next <= MaxSequence + 1
              /\ project' = Enforce(Changed(longer, w), w, Pinned)
    /\ UNCHANGED views

Completed(pr, w) ==
    LET completed[s \in 0..Cardinality(Streams)] ==
            IF s = 0 THEN pr ELSE Flush(completed[s - 1], w, s, FALSE)
    IN  completed[Cardinality(Streams)]

(* The marker of a new Run is a record between what it and the last wrote. *)
Started(pr, w) ==
    LET started == [pr.of[w] EXCEPT !.latest = @ + 1] IN [pr EXCEPT !.of[w] = started, !.next = @ + 1]

Marker(pr, w) == [sequence |-> pr.next, run |-> pr.of[w].latest + 1, text |-> 1]

MarkRun(w) ==
    /\ project.of[w].latest < MaxRuns /\ project.next <= MaxSequence
    /\ \E whole \in {Completed(project, w)} :
          \E marked \in {Push(Started(whole, w), w, Marker(whole, w))} :
              project' = Enforce(Changed(marked, w), w, Pinned)
    /\ UNCHANGED views

-----------------------------------------------------------------------------
(* Snapshots.                                                              *)

Line(h, s) ==
    [sequence |-> h.pending[s].sequence, run |-> h.pending[s].run, text |-> h.pending[s].text]

(* The segments are shared, except the ones a pending line goes into.      *)
WithLine(pr, w, s, segments) ==
    IF pr.of[w].pending[s] = NoLine THEN segments
    ELSE WithRecord(segments, Line(pr.of[w], s), Owned(pr) \cup Pinned,
                    Owned(pr) \cup Pinned \cup ToSet(segments))

Chunked(pr, w) ==
    LET chunked[s \in 0..Cardinality(Streams)] ==
            IF s = 0 THEN pr.of[w].segments ELSE WithLine(pr, w, s, chunked[s - 1])
    IN  chunked[Cardinality(Streams)]

(* A pending line may be longer once it is normalized.                     *)
Fits(pr, w) == Retained(Chunked(pr, w)) <= PerProcess \/ Sequences(pr.of[w]) = {}

TrimmedToFit(pr, w) == IF Fits(pr, w) THEN pr ELSE EvictFrom(pr, w)

Fitting(pr, w) ==
    LET trimmed[n \in 0..pr.of[w].bytes] ==
            IF n = 0 THEN pr ELSE TrimmedToFit(trimmed[n - 1], w)
    IN  trimmed[pr.of[w].bytes]

Taken(w, pr, segments) ==
    /\ project' = pr
    /\ views' = [views EXCEPT ![w] =
                    [segments |-> segments, generation |-> pr.of[w].generation]]

(* What a reader shares with the history is charged once; a snapshot that  *)
(* leaves no room goes without the lines that are not complete.            *)
Sharing(w, pr, chunks) ==
    LET over == Allocation(pr, Pinned \cup ToSet(chunks)) > Global
    IN  IF over THEN \E final \in {Enforce(pr, w, Pinned)} : Taken(w, final, final.of[w].segments)
        ELSE Taken(w, pr, chunks)

Snapshot(w) ==
    /\ views[w].generation # project.of[w].generation
    /\ \E fitting \in {Fitting(project, w)} :
          \E chunks \in {Chunked(fitting, w)} :
              \E pr \in {Enforce(fitting, w, Pinned \cup ToSet(chunks))} :
                  Sharing(w, pr, chunks)

Next ==
    \E w \in Writers :
        \/ \E s \in Streams, run \in 1..MaxRuns, bytes \in Chunks : Append_(w, s, run, bytes)
        \/ MarkRun(w)
        \/ Snapshot(w)

Spec == Init /\ [][Next]_vars

-----------------------------------------------------------------------------
(* What is counted is what is kept, for each Process and for the Project,  *)
(* whatever was flushed, split, copied or evicted meanwhile.               *)
Kept(h) == Retained(h.segments) + SumFunction([s \in Streams |-> h.pending[s].raw])

CountsAreExact ==
    /\ \A w \in Writers : project.of[w].bytes = Kept(project.of[w])
    /\ project.bytes = SumFunction([w \in Writers |-> project.of[w].bytes])

(* No history is over its limit, nor are all together with what readers    *)
(* still hold, unless nothing is left to evict ("a paused reader cannot    *)
(* hide memory from Project retention policy").                            *)
LimitsHold ==
    /\ \A w \in Writers : project.of[w].bytes <= PerProcess
    /\ project.bytes <= Global
    /\ Allocation(project, Pinned) <= Global \/ project.bytes = 0

(* The records of a history and of a snapshot are in the order in which    *)
(* their lines began, though lines of several streams end in any order.    *)
Ordered(segments) ==
    \A i, j \in DOMAIN segments :
        \A a \in DOMAIN segments[i].records, b \in DOMAIN segments[j].records :
            i < j \/ (i = j /\ a < b) =>
                segments[i].records[a].sequence < segments[j].records[b].sequence

RecordsAreOrdered ==
    \A w \in Writers : Ordered(project.of[w].segments) /\ Ordered(views[w].segments)

(* A reader that is told nothing changed has every record there is         *)
(* ("Return a new immutable snapshot only when this Process changed").     *)
NamesOf(records) == {records[a].sequence : a \in DOMAIN records}

Names(segments) == UNION {NamesOf(segments[i].records) : i \in DOMAIN segments}

UnchangedMeansComplete ==
    \A w \in Writers :
        views[w].generation = project.of[w].generation =>
            Names(project.of[w].segments) \subseteq Names(views[w].segments)

(* A reader never holds more than the history may ("A single snapshot      *)
(* never owns more than one Process's configured cap").                    *)
SnapshotsFit == \A w \in Writers : Retained(views[w].segments) <= PerProcess

(* Whoever loses history to another Process had as much before as anybody  *)
(* has afterwards (configuration.md: "the largest current Process history  *)
(* is trimmed first, preserving smaller histories").  A chunk of several   *)
(* lines is trimmed for after each of them, as if they came one by one.    *)
AtMostALine(w, s, run, bytes) ==
    LET line == project.of[w].pending[s]
    IN  /\ line = NoLine \/ line.run = run
        /\ line.raw + Len(bytes) <= LineBytes
        /\ \A i \in 1..(Len(bytes) - 1) : bytes[i] # "newline"

TrimsOnce(w) ==
    \/ \E s \in Streams, run \in 1..MaxRuns, bytes \in Chunks :
           AtMostALine(w, s, run, bytes) /\ Append_(w, s, run, bytes)
    \/ MarkRun(w) /\ \A s \in Streams : project.of[w].pending[s] = NoLine
    \/ Snapshot(w)

LargestIsTrimmedFirst ==
    \A w \in Writers : \A v \in Writers \ {w} :
        project'.of[v].bytes < project.of[v].bytes /\ TrimsOnce(w) =>
            \A u \in Writers : project'.of[u].bytes <= project.of[v].bytes
=============================================================================
