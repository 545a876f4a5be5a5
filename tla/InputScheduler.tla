---------------------------- MODULE InputScheduler ----------------------------
(***************************************************************************)
(* Between the host's terminal and the application                         *)
(* (src/src/app/input_scheduler.rs): a reader thread puts events into a    *)
(* bounded queue, merging what may be merged, and waits for space when     *)
(* nothing may be dropped; the application drains the queue, waiting for   *)
(* input a while, and finally stops and joins the reader.  The reader and  *)
(* the application interleave at the lock, the wakeups and the flag.       *)
(***************************************************************************)
EXTENDS Naturals, Sequences, SequencesExt

CONSTANTS
    QueueLimit,  \* INPUT_QUEUE_LIMIT
    MaxEvents    \* bound: so many events are read

SchedulerAssumption == QueueLimit \in Nat \ {0} /\ MaxEvents \in Nat

VARIABLES
    queue,     \* the actions, each with its repeats
    shutdown,  \* the flag
    reader,    \* where the reader is, its event, and whether it was notified
    app,       \* where the application is
    waiting,   \* history: the numbers of the ordered events read and not yet taken
    count      \* how many events were read

vars == <<queue, shutdown, reader, app, waiting, count>>

(* A wheel keeps its direction, a motion its place; the ordered events     *)
(* (keys, clicks, drags, paste, focus, resize) are told apart by number.   *)
Kinds == {"ordered", "up", "down", "motion"}

NoEvent == [kind |-> "none", id |-> 0]

Init ==
    /\ queue = <<>>
    /\ shutdown = FALSE
    /\ reader = [at |-> "poll", event |-> NoEvent, notified |-> FALSE]
    /\ app = "work"
    /\ waiting = {}
    /\ count = 0

IsWheel(e) == e.kind \in {"up", "down"}
IsMotion(e) == e.kind = "motion"
IsLossyMouse(e) == IsWheel(e) \/ IsMotion(e)

-----------------------------------------------------------------------------
(* The reader.                                                             *)

CheckFlag ==
    /\ reader.at = "poll"
    /\ reader' = [reader EXCEPT !.at = IF shutdown THEN "ended" ELSE "read"]
    /\ UNCHANGED <<queue, shutdown, app, waiting, count>>

(* poll and read: an event, nothing for now, or an error that is kept for  *)
(* the application.                                                        *)
ReadEvent ==
    /\ reader.at = "read"
    /\ \/ /\ count < MaxEvents
          /\ count' = count + 1
          /\ \E kind \in Kinds :
                /\ reader' = [reader EXCEPT !.at = "push",
                                !.event = [kind |-> kind, id |-> count + 1]]
                /\ waiting' = IF kind = "ordered" THEN waiting \cup {count + 1} ELSE waiting
       \/ reader' = [reader EXCEPT !.at = "poll"] /\ UNCHANGED <<waiting, count>>
       \/ reader' = [reader EXCEPT !.at = "failed"] /\ UNCHANGED <<waiting, count>>
    /\ UNCHANGED <<queue, shutdown, app>>

Pushed(at) == [at |-> at, event |-> NoEvent, notified |-> FALSE]

Entry(e) == [kind |-> e.kind, id |-> e.id, repeats |-> 1]

Repeated(entry) == [entry EXCEPT !.repeats = @ + 1]

(* merge_tail: a wheel like the last one is counted, a motion replaces one.*)
Merges(e, last) ==
    \/ IsWheel(last) /\ e.kind = last.kind
    \/ IsMotion(last) /\ IsMotion(e)

Mergeable == queue # <<>> /\ Merges(reader.event, Last(queue))

MergeTail ==
    /\ reader.at = "push" /\ Mergeable
    /\ queue' = [queue EXCEPT ![Len(queue)] =
                    IF IsWheel(@) THEN Repeated(@) ELSE Entry(reader.event)]
    /\ reader' = Pushed("poll")
    /\ UNCHANGED <<shutdown, app, waiting, count>>

Unmerged == (reader.at = "push" /\ ~Mergeable) \/ reader.at = "recheck"

AnyAction == DOMAIN queue

Lossy == {i \in DOMAIN queue : IsLossyMouse(queue[i])}

Victim(i) == \A j \in Lossy : i <= j

(* Into the queue if there is room, or in place of the oldest mouse input. *)
Enqueue ==
    /\ Unmerged
    /\ \/ Len(queue) < QueueLimit /\ queue' = Append(queue, Entry(reader.event))
       \/ /\ Len(queue) = QueueLimit
          /\ \E i \in Lossy :
                Victim(i) /\ queue' = Append(RemoveAt(queue, i), Entry(reader.event))
    /\ reader' = Pushed("poll")
    /\ UNCHANGED <<shutdown, app, waiting, count>>

NoRoom == Unmerged /\ Len(queue) = QueueLimit /\ Lossy = {}

(* Mouse input that finds no room is dropped; any input is once the        *)
(* scheduler shuts down.                                                   *)
DropEvent ==
    /\ NoRoom
    /\ IsLossyMouse(reader.event) \/ shutdown
    /\ waiting' = waiting \ {reader.event.id}
    /\ reader' = Pushed("poll")
    /\ UNCHANGED <<queue, shutdown, app, count>>

(* Anything else decides to wait; the lock is held until it does, but the  *)
(* flag was read before.                                                   *)
DecideToWait ==
    /\ NoRoom /\ ~IsLossyMouse(reader.event) /\ ~shutdown
    /\ reader' = [reader EXCEPT !.at = "decided"]
    /\ UNCHANGED <<queue, shutdown, app, waiting, count>>

Wait ==
    /\ reader.at = "decided"
    /\ reader' = [reader EXCEPT !.at = "waiting"]
    /\ UNCHANGED <<queue, shutdown, app, waiting, count>>

WakeUp ==
    /\ reader.at = "waiting" /\ reader.notified
    /\ reader' = [reader EXCEPT !.at = "recheck", !.notified = FALSE]
    /\ UNCHANGED <<queue, shutdown, app, waiting, count>>

KeepError ==
    /\ reader.at = "failed"
    /\ reader' = Pushed("error")
    /\ UNCHANGED <<queue, shutdown, app, waiting, count>>

ReaderStep ==
    \/ CheckFlag \/ ReadEvent \/ MergeTail \/ Enqueue \/ DropEvent
    \/ DecideToWait \/ Wait \/ WakeUp \/ KeepError

-----------------------------------------------------------------------------
(* The application.                                                        *)

LockHeld == reader.at = "decided"

NotifyNobody == reader

NotifySpace == IF reader.at = "waiting" THEN [reader EXCEPT !.notified = TRUE] ELSE reader

(* receive takes every action there is and makes room for the reader; an   *)
(* error comes first and ends the event loop.                              *)
Receive ==
    /\ app = "work" /\ ~LockHeld
    /\ \/ reader.at = "error" /\ app' = "dropping" /\ UNCHANGED <<queue, reader, waiting>>
       \/ /\ reader.at # "error" /\ queue # <<>>
          /\ queue' = <<>>
          /\ waiting' = waiting \ {queue[i].id : i \in DOMAIN queue}
          /\ reader' = NotifySpace
          /\ UNCHANGED app
    /\ UNCHANGED <<shutdown, count>>

Quit ==
    /\ app = "work"
    /\ app' = "dropping"
    /\ UNCHANGED <<queue, shutdown, reader, waiting, count>>

(* drop stores the flag and then notifies, holding no lock.                *)
StoreFlag ==
    /\ app = "dropping" /\ ~shutdown
    /\ shutdown' = TRUE
    /\ UNCHANGED <<queue, reader, app, waiting, count>>

NotifyDrop ==
    /\ app = "dropping" /\ shutdown
    /\ reader' = NotifySpace
    /\ app' = "joining"
    /\ UNCHANGED <<queue, shutdown, waiting, count>>

Join ==
    /\ app = "joining" /\ reader.at \in {"ended", "error"}
    /\ app' = "gone"
    /\ UNCHANGED <<queue, shutdown, reader, waiting, count>>

Next == ReaderStep \/ Receive \/ Quit \/ StoreFlag \/ NotifyDrop \/ Join

Spec == Init /\ [][Next]_vars

FairSpec == Spec /\ WF_vars(ReaderStep) /\ WF_vars(StoreFlag) /\ WF_vars(NotifyDrop) /\ WF_vars(Join)

-----------------------------------------------------------------------------
Ordered == {i \in DOMAIN queue : ~IsLossyMouse(queue[i])}

AtReader == {id \in {reader.event.id} : reader.event.kind = "ordered"}

(* Ordered input is never dropped or reordered before the application      *)
(* drops the scheduler, whatever the queue sheds or merges around it       *)
(* (input_scheduler.rs: "Ordered keys, clicks, drags, paste, focus, and    *)
(* resize events are never discarded").                                    *)
OrderedInputIsKept ==
    ~shutdown =>
        /\ waiting = {queue[i].id : i \in Ordered} \cup AtReader
        /\ \A i, j \in Ordered : i < j => queue[i].id < queue[j].id
        /\ \A i \in Ordered, id \in AtReader : queue[i].id < id

(* A reader that waits for space, and that nobody has notified, waits for  *)
(* a queue that is still full; after a drop it may wait for nothing, which *)
(* is when the join hangs.                                                 *)
WaitsOnlyWhileFull ==
    reader.at = "waiting" /\ ~reader.notified => Len(queue) = QueueLimit

(* Dropping the scheduler ends (input_scheduler.rs: "Dropping the          *)
(* scheduler stops and joins its reader before terminal cleanup").         *)
DropEnds == shutdown ~> app = "gone"
=============================================================================
