------------------------------- MODULE SeamState -------------------------------
(***************************************************************************)
(* What the Supervisor may know of one Process's place in the runtime      *)
(* adapter (RunSeam in src/src/supervisor/seam.rs), as a record and the    *)
(* operators that change it.  Supervisor uses it as its environment;       *)
(* RunSeam makes it a specification, which RunAdapter implements.          *)
(***************************************************************************)
EXTENDS Naturals

(* phase: "none" no Run; "spawning" the worker is starting it; "early" it  *)
(* runs but its Spawned report is still queued; "live" Spawned was         *)
(* delivered; "held" its cleanup finished unconfirmed; "gone" it never ran *)
(* and its record was removed.  stops counts the stop requests not yet     *)
(* answered, 2 for two or more; ended says that the worker saw the Run end *)
(* before a stop arrived; failed holds the kinds of the queued Failed      *)
(* reports; alive is the set of Runs that own an OS process tree.          *)
AdapterState ==
    [phase : {"none", "spawning", "early", "live", "held", "gone"},
     stops : 0..2, ended : BOOLEAN, failed : SUBSET {"Configuration", "Spawn"}, alive : SUBSET Nat]

(* A stop is queued on the Run's record; without a record it is refused    *)
(* with a Failed report.                                                   *)
Contacted(a) ==
    IF a.phase = "gone" THEN [a EXCEPT !.failed = @ \cup {"Spawn"}]
    ELSE [a EXCEPT !.stops = IF @ < 2 THEN @ + 1 ELSE 2]

Reserved(a, run) ==
    [phase |-> "spawning", stops |-> 0, ended |-> FALSE, failed |-> {},
     alive |-> a.alive \cup {run}]

Released(a, run) ==
    [phase |-> "none", stops |-> 0, ended |-> FALSE, failed |-> {},
     alive |-> a.alive \ {run}]

(* The worker could not start the Run: its record is gone.                 *)
NeverStarted(a, run) ==
    [Released(a, run) EXCEPT !.phase = "gone", !.failed = {"Configuration"}]

(* How the adapter reports the end of a Run that owns a process tree.  A   *)
(* held Run reports again only when it is asked again.                     *)
MayFinish(a, intentional) ==
    \/ a.phase = "live" /\ a.ended /\ ~intentional
    \/ a.phase = "live" /\ ~a.ended /\ a.stops > 0 /\ intentional
    \/ a.phase = "held" /\ a.stops > 0

(* An unconfirmed end may leave stop requests unanswered: those that       *)
(* arrived after the worker gave the Run back.                             *)
HeldStops(a, intentional) ==
    IF a.stops = 2 THEN 0..2
    ELSE IF intentional \/ a.phase = "held" THEN {0}
    ELSE 0..a.stops
=============================================================================
