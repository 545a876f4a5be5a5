-------------------------------- MODULE LogSearch --------------------------------
(***************************************************************************)
(* The incremental search of one Process's Logs (src/src/output/search.rs  *)
(* and LogView::refresh in log_view.rs).  A turn of the interface examines *)
(* a bounded amount of output that is not cached, newest segment first; a  *)
(* cached result lives as long as its segment is among the results.  A     *)
(* record is its number and holds at most one match of the query, so that  *)
(* a set of matches stands for the list of them, newest first.             *)
(***************************************************************************)
EXTENDS Naturals, Sequences, FiniteSets, FiniteSetsExt

CONSTANTS
    Hits,             \* the records that the query matches
    WorkLimit,        \* SEARCH_WORK_BYTES, in records
    MatchLimit,       \* SEARCH_MATCH_LIMIT
    SegmentRecords,   \* SEGMENT_RECORDS
    MaxRecords        \* bound: records appended

LogSearchAssumption ==
    /\ Hits \subseteq Nat
    /\ {WorkLimit, MatchLimit, SegmentRecords} \subseteq Nat \ {0} /\ MaxRecords \in Nat

VARIABLES
    segments,   \* the snapshot: its segments, oldest first, each with its address
    appended,   \* how many records there have been
    cache,      \* SearchCache::entries: by address, the matches of a segment
    found,      \* LogSearch: matches, pending, limited
    current     \* MatchSelection: none yet ("awaiting"), or the selected match

vars == <<segments, appended, cache, found, current>>

Awaiting == 0
Nothing == [matches |-> {}, pending |-> FALSE, limited |-> FALSE]

Init ==
    /\ segments = <<>>
    /\ appended = 0
    /\ cache = [id \in {} |-> Nothing]
    /\ found = Nothing
    /\ current = Awaiting

-----------------------------------------------------------------------------
Newest(matches, limit) == {r \in matches : Cardinality({q \in matches : q > r}) < limit}

(* search_chunk over a segment: it stops after the first match too many.   *)
Examined(records) ==
    [matches |-> Newest(records \cap Hits, MatchLimit),
     limited |-> Cardinality(records \cap Hits) > MatchLimit]

Work(records) == {r \in records : Cardinality({q \in records \cap Hits : q > r}) <= MatchLimit}

Ids(segs) == {segs[i].id : i \in DOMAIN segs}

(* Which results are kept: of the newest segments, until they hold more    *)
(* matches than the limit.                                                 *)
KeepsTheLast(segs, entries) ==
    IF segs = <<>> THEN {} ELSE {segs[Len(segs)].id} \cap DOMAIN entries

Keeps(segs, entries) ==
    LET newer(i) == UNION {entries[segs[j].id].matches :
                              j \in {k \in (i + 1)..Len(segs) : segs[k].id \in DOMAIN entries}}
    IN  {segs[i].id : i \in {j \in DOMAIN segs : segs[j].id \in DOMAIN entries
                                                   /\ Cardinality(newer(j)) <= MatchLimit}}

(* An entry whose segment is gone is dropped.                              *)
Live(entries, ids) == [id \in DOMAIN entries \cap ids |-> entries[id]]

(* SearchCache::search: newest first until a segment that is not cached is *)
(* beyond the work of a turn, or a match is beyond the limit.              *)
Search(segs, entries) ==
    LET live == Live(entries, Ids(segs))
        known(i) == segs[i].id \in DOMAIN live
        result(i) == IF known(i) THEN live[segs[i].id] ELSE Examined(segs[i].records)
        matches(from) == UNION {result(j).matches : j \in from..Len(segs)}
        work(i) == UNION {Work(segs[j].records) : j \in {k \in (i + 1)..Len(segs) : ~known(k)}}
        waits(i) == ~known(i) /\ Cardinality(work(i)) >= WorkLimit
        limits(i) == result(i).limited \/ Cardinality(matches(i)) > MatchLimit
        stops == {i \in DOMAIN segs : waits(i) \/ limits(i)}
        pending == stops # {} /\ waits(Max(stops))
        from == IF stops = {} THEN 1 ELSE IF pending THEN Max(stops) + 1 ELSE Max(stops)
        cached == [id \in DOMAIN live \cup {segs[j].id : j \in from..Len(segs)} |->
                      IF id \in DOMAIN live THEN live[id]
                      ELSE result(CHOOSE j \in DOMAIN segs : segs[j].id = id)]
        kept == {id \in DOMAIN cached : id \in Keeps(segs, cached)}
    IN  [cache |-> [id \in kept |-> cached[id]],
         found |-> [matches |-> Newest(matches(from), MatchLimit), pending |-> pending,
                    limited |-> stops # {} /\ ~pending]]

(* LogView::refresh: the match that was selected, or the newest if a match *)
(* is awaited.                                                             *)
Reselected(matches, was) ==
    IF was = Awaiting THEN (IF matches = {} THEN Awaiting ELSE Max(matches))
    ELSE IF was \in matches THEN was ELSE Awaiting

Refresh(segs) ==
    LET done == Search(segs, cache)
    IN  /\ cache' = done.cache
        /\ found' = done.found
        /\ current' = Reselected(done.found.matches, current)

-----------------------------------------------------------------------------
(* A turn with the same output searches on.                                *)
Turn == found.pending /\ Refresh(segments) /\ UNCHANGED <<segments, appended>>

(* The address of the k-th new segment is one that neither a segment nor a *)
(* cached result has.                                                      *)
Address(k) ==
    LET used == Ids(segments) \cup DOMAIN cache
    IN  CHOOSE id \in (1..(Cardinality(used) + k)) \ used : Cardinality((1..id) \ used) = k

(* The last segment is filled first, which gives it another address, as    *)
(* the earlier snapshot has it too.                                        *)
Longer(count) ==
    LET last == IF segments = <<>> THEN {} ELSE segments[Len(segments)].records
        grows == last # {} /\ Cardinality(last) < SegmentRecords
        before == IF grows THEN SubSeq(segments, 1, Len(segments) - 1) ELSE segments
        first == appended + 1 - (IF grows THEN Cardinality(last) ELSE 0)
        records(k) == {r \in first..(appended + count) : (r - first) \div SegmentRecords = k - 1}
    IN  IF count = 0 THEN segments
        ELSE before \o [k \in 1..((appended + count - first) \div SegmentRecords + 1) |->
                           [id |-> Address(k), records |-> records(k)]]

(* The next turn, when output arrived or expired since.                    *)
TurnWithOutput(count, gone) ==
    /\ count + gone > 0 /\ appended + count <= MaxRecords /\ gone <= Len(segments)
    /\ segments' = SubSeq(Longer(count), gone + 1, Len(Longer(count)))
    /\ appended' = appended + count
    /\ Refresh(segments')

(* The user moves to another match.                                        *)
Select(match) ==
    /\ match \in found.matches \ {current}
    /\ current' = match
    /\ UNCHANGED <<segments, appended, cache, found>>

Next ==
    \/ Turn
    \/ \E count \in 0..(2 * SegmentRecords), gone \in 0..1 : TurnWithOutput(count, gone)
    \/ \E match \in Hits : Select(match)

Spec == Init /\ [][Next]_vars

-----------------------------------------------------------------------------
(* RetainedOutput::search, which searches everything at once.              *)
Reference == Examined(UNION {segments[i].records : i \in DOMAIN segments})

(* What a turn shows are the newest matches there are, none skipped, and   *)
(* when it says that it is done it has what a whole search would have      *)
(* (output/search.rs: "Incremental newest-first search", "cached results   *)
(* never keep retired text alive").                                        *)
ResultIsNewestFirst ==
    /\ found.matches = Newest(Reference.matches, Cardinality(found.matches))
    /\ ~found.pending => found.matches = Reference.matches /\ found.limited = Reference.limited

(* A pending search comes nearer to its end with every turn: over the same *)
(* output the next one is done, or the newest segment without a result is  *)
(* an older one (output/search.rs: "A UI turn examines at most 512 KiB of  *)
(* uncached segments").  To count the results would not do: a turn may     *)
(* drop several old ones for a new one.                                    *)
Missing(entries) == {i \in DOMAIN segments : segments[i].id \notin DOMAIN entries}

PendingSearchAdvances ==
    found.pending =>
        LET next == Search(segments, cache)
        IN  ~next.found.pending \/ Max(Missing(next.cache)) < Max(Missing(cache))

(* The match that the user is at stays the current one whatever arrives,   *)
(* unless it expired, or newer output is more than one turn examines, or   *)
(* the newer matches alone are at the limit.                               *)
MatchStays ==
    current # Awaiting /\ current' # current /\ found' # found
        => current \notin Reference'.matches \/ found'.pending
=============================================================================
