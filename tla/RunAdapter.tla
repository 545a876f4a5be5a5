------------------------------ MODULE RunAdapter ------------------------------
(***************************************************************************)
(* The runtime adapter for one Run: the record that the Supervisor's task  *)
(* and the Run's owner thread share under a lock (src/src/supervisor/      *)
(* run_record.rs), the owner thread from spawn to confirmed cleanup        *)
(* (own_run in runtime.rs), and the reports on their way to the            *)
(* Supervisor.  The Run itself is OwnedRun's.                              *)
(***************************************************************************)
EXTENDS OwnedRun, Sequences, SeamState

CONSTANT MaxStops       \* bound: stop requests of the Supervisor

ASSUME StopsAssumption == MaxStops \in Nat

VARIABLES
    record,     \* RunState, or "absent" from the registry
    request,    \* the deadline of the queued stop: "none" or "project"
    deadline,   \* the shared shutdown deadline was set on the record
    owner,      \* where the owner thread is
    exitSeen,   \* what it saw of the root before it took the lock
    cause,      \* why it last cleaned up: "none", "Natural", "Stop"
    budget,     \* the deadline of that cleanup
    inbox,      \* reports sent and not yet handled
    told,       \* what the Supervisor has handled (Told)
    stops,      \* history: stop requests made
    unanswered, \* history: those not yet answered, 2 for two or more
    endedFirst, \* history: the Run's end was claimed before any stop
    asked,      \* history: the queued stop is to keep the shared deadline
    cleaned     \* history: the last claim cleaned up

recordVars == <<record, request, deadline>>
ownerVars == <<owner, exitSeen, cause, budget>>
historyVars == <<stops, unanswered, endedFirst, asked, cleaned>>
adapterVars == <<recordVars, ownerVars, inbox, told, historyVars>>
vars == <<runVars, adapterVars>>

RunState == {"absent", "Spawning", "StopBeforeSpawn", "Active", "Pending",
             "Finishing", "Unconfirmed", "Finished"}

OwnerSteps == {"unborn", "spawning", "spawned", "failed", "firstRound", "round", "claim",
               "begin", "clean", "report", "done"}

(* Nothing; the Run is live; its cleanup is held; it is released.          *)
Told == {"nothing", "live", "held", "released"}

Report == [kind : {"Spawned", "Finished", "FailedSpawn", "FailedStop"},
           intentional : BOOLEAN, confirmed : BOOLEAN]

Say(kind) == [kind |-> kind, intentional |-> FALSE, confirmed |-> FALSE]

TypeOK ==
    /\ RunTypeOK
    /\ record \in RunState
    /\ request \in {"none", "project"}
    /\ deadline \in BOOLEAN
    /\ owner \in OwnerSteps
    /\ exitSeen \in BOOLEAN
    /\ cause \in {"none", "Natural", "Stop"}
    /\ budget \in {"none", "project"}
    /\ inbox \in Seq(Report)
    /\ told \in Told
    /\ stops \in 0..MaxStops
    /\ unanswered \in 0..2
    /\ endedFirst \in BOOLEAN
    /\ asked \in BOOLEAN
    /\ cleaned \in BOOLEAN

Init ==
    /\ RunInit
    /\ record = "absent"
    /\ request = "none"
    /\ deadline = FALSE
    /\ owner = "unborn"
    /\ exitSeen = FALSE
    /\ cause = "none"
    /\ budget = "none"
    /\ inbox = << >>
    /\ told = "nothing"
    /\ stops = 0
    /\ unanswered = 0
    /\ endedFirst = FALSE
    /\ asked = FALSE
    /\ cleaned = FALSE

-----------------------------------------------------------------------------
(* The Supervisor's calls.                                                 *)

(* RunSeam::start reserves the record and spawns the owner thread.         *)
Start ==
    /\ owner = "unborn"
    /\ record' = "Spawning"
    /\ owner' = "spawning"
    /\ UNCHANGED <<runVars, request, deadline, exitSeen, cause, budget, inbox, told, historyVars>>

(* Fault: a later request does not tighten the queued one.                 *)
QueuedDeadline(queued, requested) == queued

EarliestDeadline(queued, requested) ==
    IF "project" \in {queued, requested} THEN "project" ELSE "none"

(* Fault: a Run whose cleanup is held is not cleaned up again.             *)
StopOnce ==
    CASE record = "Spawning" -> "StopBeforeSpawn"
      [] record = "Active" -> "Pending"
      [] OTHER -> record

(* The record after request_stop.                                          *)
StopQueued ==
    CASE record = "Spawning" -> "StopBeforeSpawn"
      [] record \in {"Active", "Unconfirmed"} -> "Pending"
      [] OTHER -> record

(* Whether a stop request starts a new entry or joins the queued one.      *)
NewRequest == record \in {"Spawning", "Active", "Unconfirmed"}

JoinsRequest == record \in {"StopBeforeSpawn", "Pending"}

(* A request is bound by the shared deadline once the record has it.       *)
RequestStop ==
    LET requested == IF deadline THEN "project" ELSE "none"
    IN  /\ record' = StopQueued
        /\ request' = IF NewRequest THEN requested
                      ELSE IF JoinsRequest THEN EarliestDeadline(request, requested)
                      ELSE request
        /\ asked' = IF NewRequest \/ JoinsRequest THEN deadline ELSE asked

(* RunSeam::stop, while the Supervisor holds the Run.                      *)
Stop ==
    /\ owner # "unborn"
    /\ told # "released"
    /\ stops < MaxStops
    /\ stops' = stops + 1
    /\ \/ /\ record = "absent"
          /\ inbox' = Append(inbox, Say("FailedStop"))
          /\ UNCHANGED <<record, request, asked, unanswered>>
       \/ /\ record # "absent"
          /\ RequestStop
          /\ unanswered' = IF unanswered < 2 THEN unanswered + 1 ELSE 2
          /\ UNCHANGED inbox
    /\ UNCHANGED <<runVars, deadline, ownerVars, told, endedFirst, cleaned>>

(* RunSeam::begin_shutdown, on a record that exists then.                  *)
SetProjectDeadline ==
    /\ record # "absent"
    /\ deadline' = TRUE
    /\ UNCHANGED <<runVars, record, request, ownerVars, inbox, told, historyVars>>

-----------------------------------------------------------------------------
(* The owner thread.                                                       *)

RunStarts ==
    /\ owner = "spawning"
    /\ root' = "running"
    /\ owner' = "spawned"
    /\ UNCHANGED <<members, cleanupVars, recordVars, exitSeen, cause, budget, inbox, told,
                   historyVars>>

(* The record is removed first and the report sent then; a stop in between *)
(* finds no Run.  Stops queued before go with the record.                  *)
RunDoesNotStart ==
    /\ owner = "spawning"
    /\ owner' = "failed"
    /\ record' = "absent"
    /\ unanswered' = 0
    /\ UNCHANGED <<runVars, request, deadline, exitSeen, cause, budget, inbox, told,
                   stops, endedFirst, asked, cleaned>>

ReportSpawnFailure ==
    /\ owner = "failed"
    /\ owner' = "done"
    /\ inbox' = Append(inbox, Say("FailedSpawn"))
    /\ UNCHANGED <<runVars, recordVars, exitSeen, cause, budget, told, historyVars>>

Install ==
    /\ owner = "spawned"
    /\ record' = IF record = "StopBeforeSpawn" THEN "Pending" ELSE "Active"
    /\ owner' = "firstRound"
    /\ UNCHANGED <<runVars, request, deadline, exitSeen, cause, budget, inbox, told, historyVars>>

(* Fault: the report of the spawn waits for another round.                 *)
LateForward ==
    /\ owner \in {"firstRound", "round"}
    /\ inbox' = IF owner = "round" /\ told = "nothing" /\ inbox = << >>
                THEN Append(inbox, Say("Spawned")) ELSE inbox
    /\ exitSeen' = Exited
    /\ owner' = "claim"
    /\ UNCHANGED <<runVars, recordVars, cause, budget, told, historyVars>>

(* One round of own_run: pass on what the Run reported, its Spawned first, *)
(* and look whether the root has exited.                                   *)
Forward ==
    /\ owner \in {"firstRound", "round"}
    /\ inbox' = IF owner = "firstRound" THEN Append(inbox, Say("Spawned")) ELSE inbox
    /\ exitSeen' = Exited
    /\ owner' = "claim"
    /\ UNCHANGED <<runVars, recordVars, cause, budget, told, historyVars>>

(* take_completion.  A queued stop wins over an exit that was seen.        *)
ClaimsStop == record = "Pending"

ClaimsExit == record = "Active" /\ exitSeen

Claim ==
    /\ owner = "claim"
    /\ ClaimsStop \/ ClaimsExit
    /\ cause' = IF ClaimsStop THEN "Stop" ELSE "Natural"
    /\ endedFirst' = (endedFirst \/ ClaimsExit)
    /\ record' = "Finishing"
    /\ cleaned' = FALSE
    /\ owner' = "begin"
    /\ UNCHANGED <<runVars, request, deadline, exitSeen, budget, inbox, told,
                   stops, unanswered, asked>>

(* wait_for_work ends with a notification or after a while.                *)
NothingToDo ==
    /\ owner = "claim"
    /\ ~ClaimsStop /\ ~ClaimsExit
    /\ owner' = "round"
    /\ UNCHANGED <<runVars, recordVars, exitSeen, cause, budget, inbox, told, historyVars>>

(* wait, by the record's deadline as it is now, or shutdown, by the        *)
(* request's.  A Run that has its outcome only returns it.                 *)
Begin ==
    /\ owner = "begin"
    /\ owner' = "clean"
    /\ budget' = IF cause = "Stop" THEN request
                 ELSE IF deadline THEN "project" ELSE "none"
    /\ \/ /\ BeginCleanup(IF cause = "Stop" THEN "shutdown" ELSE "wait")
          /\ cleaned' = TRUE
       \/ /\ AlreadyConcluded
          /\ UNCHANGED <<runVars, cleaned>>
    /\ UNCHANGED <<recordVars, exitSeen, cause, inbox, told, stops, unanswered, endedFirst, asked>>

Clean ==
    /\ LadderStep
    /\ UNCHANGED adapterVars

(* finish gives the Run back before the report is sent.                    *)
Finish ==
    /\ owner = "clean"
    /\ pc = "idle"
    /\ owner' = "report"
    /\ record' = IF outcome.confirmed THEN "Finished" ELSE "Unconfirmed"
    /\ UNCHANGED <<runVars, request, deadline, exitSeen, cause, budget, inbox, told, historyVars>>

(* Fault: a cleanup that is asked for again counts as confirmed.           *)
SendFinishedHopeful ==
    /\ owner = "report"
    /\ inbox' = Append(inbox, [kind |-> "Finished", intentional |-> outcome.intentional,
                               confirmed |-> outcome.confirmed \/ ~cleaned])
    /\ owner' = IF outcome.confirmed THEN "done" ELSE "round"
    /\ UNCHANGED <<runVars, recordVars, exitSeen, cause, budget, told, historyVars>>

SendFinished ==
    /\ owner = "report"
    /\ inbox' = Append(inbox, [kind |-> "Finished", intentional |-> outcome.intentional,
                               confirmed |-> outcome.confirmed])
    /\ owner' = IF outcome.confirmed THEN "done" ELSE "round"
    /\ UNCHANGED <<runVars, recordVars, exitSeen, cause, budget, told, historyVars>>

OwnerStep ==
    \/ RunStarts \/ RunDoesNotStart \/ ReportSpawnFailure \/ Install \/ Forward
    \/ Claim \/ NothingToDo \/ Begin \/ Clean \/ Finish \/ SendFinished

-----------------------------------------------------------------------------
(* The Supervisor handles the next report.                                 *)

(* A cleanup will be reported besides the report at the head.              *)
Owed ==
    \/ record \in {"Pending", "Finishing"}
    \/ owner = "report"
    \/ \E i \in DOMAIN inbox : i > 1 /\ inbox[i].kind = "Finished"

Handled(r) ==
    \/ /\ r.kind = "Spawned"
       /\ told' = "live"
       /\ UNCHANGED unanswered
    \/ /\ r.kind = "Finished"
       /\ told' = IF r.confirmed THEN "released" ELSE "held"
       /\ unanswered' = IF r.confirmed \/ ~Owed THEN 0 ELSE unanswered
    \/ /\ r.kind \in {"FailedSpawn", "FailedStop"}
       /\ told' \in {told, "released"}      \* counted or dropped (Supervisor)
       /\ UNCHANGED unanswered

Handle ==
    /\ inbox # << >>
    /\ inbox' = Tail(inbox)
    /\ Handled(Head(inbox))
    /\ UNCHANGED <<runVars, recordVars, ownerVars, stops, endedFirst, asked, cleaned>>

TreeStep == ProcessStep /\ UNCHANGED adapterVars

Next == Start \/ Stop \/ SetProjectDeadline \/ OwnerStep \/ Handle \/ TreeStep

(* The owner thread runs on, every wait of its ladder ends (each has a     *)
(* deadline of its own), and the Supervisor's task takes its reports.      *)
Fairness ==
    /\ WF_vars(OwnerStep)
    /\ SF_vars(StageTimesOut /\ UNCHANGED adapterVars)
    /\ WF_vars(Handle)

Spec == Init /\ [][Next]_vars /\ Fairness

-----------------------------------------------------------------------------
(* Properties.                                                             *)

Phase ==
    IF owner = "unborn" \/ told = "released" THEN "none"
    ELSE IF record = "absent" THEN "gone"
    ELSE IF told \in {"live", "held"} THEN told
    ELSE IF owner = "spawning" THEN "spawning" ELSE "early"

Waits(kind) == \E i \in DOMAIN inbox : inbox[i].kind = kind

FailedReports ==
    (IF owner = "failed" \/ Waits("FailedSpawn") THEN {"Configuration"} ELSE {})
    \cup (IF Waits("FailedStop") THEN {"Spawn"} ELSE {})

Seam == INSTANCE RunSeam WITH seam <-
    [phase  |-> Phase,
     stops  |-> IF Phase \in {"none", "gone"} THEN 0 ELSE unanswered,
     ended  |-> Phase \in {"early", "live"} /\ endedFirst,
     failed |-> IF Phase = "gone" THEN FailedReports ELSE {},
     alive  |-> IF Phase \in {"none", "gone"} THEN {} ELSE {1}]

(* The adapter keeps to what Supervisor takes its environment to be: the   *)
(* reports come in that order, a Run that was held or released reports     *)
(* nothing unasked, and an end that was claimed stays the Run's own.       *)
KeepsTheSeam == Seam!Spec

(* Every stop is answered, whichever side won the race for the Run.        *)
StopIsAnswered == (unanswered > 0) ~> (unanswered = 0)

(* A stop that the Project shutdown asked for before its cleanup began is  *)
(* done by the shared deadline (request_stop, run_record.rs).              *)
SharedDeadlineIsKept ==
    [][owner = "begin" /\ owner' = "clean" /\ cause = "Stop" /\ asked
         => budget' = "project"]_vars

(* The Supervisor is told that a Run is over only when its tree is gone.   *)
ReleasedMeansGone ==
    told = "released" /\ root # "unborn" => root = "reaped" /\ members = {}

(* Every answer to a stop comes from a cleanup made for it: the Run of an  *)
(* unconfirmed cleanup "stays held so a manual Stop can retry the bounded  *)
(* cleanup" (process_lifecycle.rs:193).                                    *)
AStopRetriesTheCleanup == owner = "report" => cleaned
=============================================================================
