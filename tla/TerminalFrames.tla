---------------------------- MODULE TerminalFrames ----------------------------
(***************************************************************************)
(* What a client sees of a terminal (src/src/terminal/owner.rs,            *)
(* session.rs): the owner publishes a frame for every change of its screen *)
(* and raises a flag; the client lowers the flag and copies the frame.     *)
(* The gate, the PTY writer and the owner each report to the client        *)
(* through a bounded queue of their own, with a rule of their own for a    *)
(* queue that is full.  TerminalSession has what happens behind this.      *)
(***************************************************************************)
EXTENDS Naturals, Sequences, SequencesExt

CONSTANTS
    EventSlots,  \* limit of each queue of events
    MaxChanges,  \* bound: so often the screen changes
    MaxReports   \* bound: so many events are reported by the gate and the writer

FramesAssumption ==
    EventSlots \in Nat \ {0} /\ MaxChanges \in Nat /\ MaxReports \in Nat

VARIABLES
    screen,   \* the version of the owner's screen
    shared,   \* what owner and client share: the frame, its lock and the flag
    owner,    \* where the owner is in publishing
    client,   \* where the client is, whether it must draw, and the version it drew
    events,   \* the three queues, and the failure the writer keeps beside its own
    reports,  \* how many events the gate and the writer reported
    owed      \* history: who reported a failure that the client did not hear of

vars == <<screen, shared, owner, client, events, reports, owed>>

Sources == {"gate", "writer", "owner"}

Init ==
    /\ screen = 0
    /\ shared = [frame |-> 0, locked |-> FALSE, dirty |-> TRUE]
    /\ owner = "work"
    /\ client = [at |-> "poll", redraw |-> FALSE, drawn |-> 0]
    /\ events = [gate |-> <<>>, writer |-> <<>>, latched |-> FALSE, owner |-> <<>>]
    /\ reports = 0
    /\ owed = {}

-----------------------------------------------------------------------------
(* The three queues.  A full queue refuses an event, but not a failure     *)
(* that nobody could hear of otherwise.                                    *)

Full(queue) == Len(queue) = EventSlots
Failing(queue) == \E i \in DOMAIN queue : queue[i] = "failed"

(* The gate's rule: the oldest event gives way to a first failure.         *)
GateRecords(queue, event) ==
    IF ~Full(queue) THEN Append(queue, event)
    ELSE IF event = "failed" /\ ~Failing(queue) THEN Append(Tail(queue), event)
    ELSE queue

(* The owner's rule: changes are told once, and the first event that is    *)
(* not a failure gives way to a failure.                                   *)
Evictable(queue) == {i \in DOMAIN queue : queue[i] # "failed"}

OwnerRecords(queue, event) ==
    IF event = "changed" /\ Contains(queue, event) THEN queue
    ELSE IF ~Full(queue) THEN Append(queue, event)
    ELSE IF event = "failed" /\ Evictable(queue) # {}
         THEN LET first == CHOOSE i \in Evictable(queue) :
                              \A j \in Evictable(queue) : i <= j
              IN  Append(RemoveAt(queue, first), event)
    ELSE queue

(* The writer's rule: a failure that finds the queue full is kept beside.  *)
NeverLatches(event) == FALSE

Latches(event) == Full(events.writer) /\ event = "failed"

WriterReports ==
    /\ reports < MaxReports
    /\ \E event \in {"pressure", "failed"} :
          /\ events' = [events EXCEPT
                           !.writer = IF Full(@) THEN @ ELSE Append(@, event),
                           !.latched = @ \/ Latches(event)]
          /\ owed' = IF event = "failed" THEN owed \cup {"writer"} ELSE owed
    /\ reports' = reports + 1
    /\ UNCHANGED <<screen, shared, owner, client>>

(* The gate reports from within a client's own call.                       *)
GateReports ==
    /\ reports < MaxReports
    /\ client.at = "poll"
    /\ \E event \in {"pressure", "failed"} :
          /\ events' = [events EXCEPT !.gate = GateRecords(@, event)]
          /\ owed' = IF event = "failed" THEN owed \cup {"gate"} ELSE owed
    /\ reports' = reports + 1
    /\ UNCHANGED <<screen, shared, owner, client>>

-----------------------------------------------------------------------------
(* The owner.                                                              *)

Change ==
    /\ owner = "work" /\ screen < MaxChanges
    /\ screen' = screen + 1
    /\ owner' = "write"
    /\ UNCHANGED <<shared, client, events, reports, owed>>

WriteFrame ==
    /\ owner = "write" /\ ~shared.locked
    /\ shared' = [shared EXCEPT !.locked = TRUE, !.frame = screen]
    /\ owner' = "raise"
    /\ UNCHANGED <<screen, client, events, reports, owed>>

(* The flag is raised before the lock is given back.                       *)
RaiseFlag ==
    /\ owner = "raise"
    /\ shared' = [shared EXCEPT !.locked = FALSE, !.dirty = TRUE]
    /\ owner' = "tell"
    /\ UNCHANGED <<screen, client, events, reports, owed>>

TellChange ==
    /\ owner = "tell"
    /\ events' = [events EXCEPT !.owner = OwnerRecords(@, "changed")]
    /\ owner' = "work"
    /\ UNCHANGED <<screen, shared, client, reports, owed>>

(* The owner ends, after an error or because it was asked to.              *)
EndOwner ==
    /\ owner = "work"
    /\ \/ /\ events' = [events EXCEPT !.owner = OwnerRecords(@, "failed")]
          /\ owed' = owed \cup {"owner"}
       \/ UNCHANGED <<events, owed>>
    /\ owner' = "exit"
    /\ UNCHANGED <<screen, shared, client, reports>>

TellExit ==
    /\ owner = "exit"
    /\ events' = [events EXCEPT !.owner = OwnerRecords(@, "exited")]
    /\ owner' = "dead"
    /\ UNCHANGED <<screen, shared, client, reports, owed>>

-----------------------------------------------------------------------------
(* The client: it hears every event, then looks at the flag.               *)

Heard(source, event) == IF event = "failed" THEN owed \ {source} ELSE owed

(* A failure alone does not make the application draw.                     *)
Hear(source, event) ==
    /\ client' = [client EXCEPT !.redraw = @ \/ event # "failed"]
    /\ owed' = Heard(source, event)

PollEvent ==
    /\ client.at = "poll"
    /\ \/ /\ events.gate # <<>>
          /\ Hear("gate", Head(events.gate))
          /\ events' = [events EXCEPT !.gate = Tail(@)]
       \/ /\ events.gate = <<>> /\ events.writer # <<>>
          /\ Hear("writer", Head(events.writer))
          /\ events' = [events EXCEPT !.writer = Tail(@)]
       \/ /\ events.gate = <<>> /\ events.writer = <<>> /\ events.latched
          /\ Hear("writer", "failed")
          /\ events' = [events EXCEPT !.latched = FALSE]
       \/ /\ events.gate = <<>> /\ events.writer = <<>> /\ ~events.latched
          /\ events.owner # <<>>
          /\ Hear("owner", Head(events.owner))
          /\ events' = [events EXCEPT !.owner = Tail(@)]
    /\ UNCHANGED <<screen, shared, owner, reports>>

(* Nothing left to hear: draw if an event or the flag says so.  The flag   *)
(* is lowered first of all.                                                *)
LoweredAfterCopy(at) == [shared EXCEPT !.dirty = @ /\ at # "draw"]

Lowered(at) == [shared EXCEPT !.dirty = @ /\ at # "poll"]

LookAtFlag ==
    /\ client.at = "poll"
    /\ events.gate = <<>> /\ events.writer = <<>> /\ ~events.latched /\ events.owner = <<>>
    /\ shared.dirty \/ client.redraw
    /\ shared' = Lowered("poll")
    /\ client' = [client EXCEPT !.at = "copy", !.redraw = FALSE]
    /\ UNCHANGED <<screen, owner, events, reports, owed>>

CopyFrame ==
    /\ client.at = "copy" /\ ~shared.locked
    /\ client' = [client EXCEPT !.at = "draw", !.drawn = shared.frame]
    /\ UNCHANGED <<screen, shared, owner, events, reports, owed>>

DrawFrame ==
    /\ client.at = "draw"
    /\ shared' = Lowered("draw")
    /\ client' = [client EXCEPT !.at = "poll"]
    /\ UNCHANGED <<screen, owner, events, reports, owed>>

Next ==
    \/ WriterReports \/ GateReports
    \/ Change \/ WriteFrame \/ RaiseFlag \/ TellChange \/ EndOwner \/ TellExit
    \/ PollEvent \/ LookAtFlag \/ CopyFrame \/ DrawFrame

Spec == Init /\ [][Next]_vars

-----------------------------------------------------------------------------
(* A frame the client has not drawn is announced by the flag, however      *)
(* publishing and copying interleave (owner.rs: render lowers the flag     *)
(* before it takes the lock), and a screen that is ahead of its frame is   *)
(* about to be published.                                                  *)
FrameIsNotMissed ==
    /\ client.at = "poll" /\ owner # "raise" /\ client.drawn # shared.frame => shared.dirty
    /\ screen # shared.frame => owner = "write"

(* A failure that was reported stays to be heard, whatever the queue it    *)
(* came through drops (input_writer.rs: "A full diagnostic queue must not  *)
(* hide a terminal writer failure").                                       *)
FailureIsHeard ==
    \A source \in owed :
        \/ Failing(events[source])
        \/ source = "writer" /\ events.latched
=============================================================================
