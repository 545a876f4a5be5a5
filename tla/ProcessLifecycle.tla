--------------------------- MODULE ProcessLifecycle ---------------------------
(***************************************************************************)
(* The state one Process keeps in the Supervisor, and its transitions.     *)
(*                                                                         *)
(* src/src/supervisor/process_lifecycle.rs is a record with methods that   *)
(* the Supervisor core calls while it handles one command or one event.    *)
(* Here the record is a value L and every method is an operator from the   *)
(* record before the call to the record after it; Supervisor.tla composes  *)
(* them into handlers.  Left out, because no decision of the core reads    *)
(* them: metrics, listening ports, the blocked text, the root PID, Run     *)
(* summaries and their timestamps, and work ids (HealthChecks.tla).        *)
(***************************************************************************)
EXTENDS Naturals

DesiredState == {"Running", "Stopped"}

Lifecycles == {"Idle", "Waiting", "Starting", "Running", "Stopping",
               "RestartBackoff", "Done", "Stopped"}

RunTrigger == {"Manual", "Autostart", "Dependency", "StartAnyway",
               "Restart", "Rerun", "AutomaticRestart"}

FailureKind == {"Configuration", "Spawn", "Shutdown", "Readiness", "Liveness",
                "Output", "ProcessExit", "RestartLimit"}

NoFailure == "None"

TimedOutPurposes == {"StartupTimeout", "StartupTimeoutSuppressed",
                     "ProjectShutdownAfterStartupTimeout"}

UnhealthyPurposes == {"UnhealthyReplacement", "UnhealthySuppressed",
                      "ProjectShutdownAfterUnhealthy"}

ShutdownPurposes == {"ProjectShutdown", "ProjectShutdownAfterStartupTimeout",
                     "ProjectShutdownAfterUnhealthy"}

SuppressedByShutdown == ShutdownPurposes \cup
    {"StartupTimeoutSuppressed", "UnhealthySuppressed"}

SuppressedPurposes == ShutdownPurposes \cup
    {"ManualStop", "StartupTimeoutSuppressed", "UnhealthySuppressed"}

CleanupPurpose == {"Ordinary", "ExplicitReplacement"}
    \cup TimedOutPurposes \cup UnhealthyPurposes \cup SuppressedPurposes

(* What an observed check policy looks like from the lifecycle: its        *)
(* aggregate state ("None": no tracking exists), whether its timers run,   *)
(* and whether a startup deadline is armed.                                *)
CheckState == {"Pending", "Passing", "Failing"}

Tracking == [state : CheckState \cup {"None"}, started : BOOLEAN, timed : BOOLEAN]

NoTracking == [state |-> "None", started |-> FALSE, timed |-> FALSE]

PendingTracking == [NoTracking EXCEPT !.state = "Pending"]

(* run = 0 is current_run = None, and backoff = 0 is restart_backoff =     *)
(* None; otherwise backoff is the identity of the failed Run the timer     *)
(* waits for.  applied is the label of the Process Profile the current Run *)
(* was admitted with, 0 for the base definition.                           *)
ProcessState ==
    [desired : DesiredState, lifecycle : Lifecycles, run : Nat, next : Nat \ {0},
     applied : Nat, failure : FailureKind \cup {NoFailure},
     readiness : Tracking, liveness : Tracking, spawned : BOOLEAN,
     purpose : CleanupPurpose, unconfirmed : BOOLEAN, pending : RunTrigger,
     exited : BOOLEAN, awaiting : BOOLEAN, backoff : Nat,
     used : Nat, exhausted : BOOLEAN, cancelled : BOOLEAN]

NewProcess ==
    [desired |-> "Stopped", lifecycle |-> "Idle", run |-> 0, next |-> 1,
     applied |-> 0, failure |-> NoFailure,
     readiness |-> NoTracking, liveness |-> NoTracking, spawned |-> FALSE,
     purpose |-> "Ordinary", unconfirmed |-> FALSE, pending |-> "Dependency",
     exited |-> FALSE, awaiting |-> FALSE, backoff |-> 0,
     used |-> 0, exhausted |-> FALSE, cancelled |-> FALSE]

-----------------------------------------------------------------------------
(* The purpose of the cleanup in progress (CleanupPurpose).                *)

SuppressAutomaticRestart(purpose) ==
    IF purpose \in ShutdownPurposes THEN purpose
    ELSE CASE purpose \in TimedOutPurposes  -> "StartupTimeoutSuppressed"
           [] purpose \in UnhealthyPurposes -> "UnhealthySuppressed"
           [] OTHER                         -> "ManualStop"

ShutdownPurpose(purpose) ==
    CASE purpose \in TimedOutPurposes  -> "ProjectShutdownAfterStartupTimeout"
      [] purpose \in UnhealthyPurposes -> "ProjectShutdownAfterUnhealthy"
      [] OTHER                         -> "ProjectShutdown"

-----------------------------------------------------------------------------
(* The automatic restart budget and the backoff timer.                     *)

HasOneMore(L, max) == L.used <= max

HasRemaining(L, max) == ~L.exhausted /\ L.used < max

ClearRestartState(L) == [L EXCEPT !.awaiting = FALSE, !.backoff = 0]

ResetBudget(L) == [L EXCEPT !.used = 0, !.exhausted = FALSE]

(* A timer has authority only while every fact still names the failed Run  *)
(* that armed it.                                                          *)
ValidRestartTimer(L) ==
    /\ L.backoff # 0
    /\ L.run = 0
    /\ L.desired = "Running"
    /\ L.lifecycle = "RestartBackoff"
    /\ L.next = L.backoff + 1

ReleaseRestartBackoff(L) ==
    [L EXCEPT !.backoff = 0, !.pending = "AutomaticRestart"]

ExhaustRestartBudget(L) ==
    [L EXCEPT !.exhausted = TRUE, !.desired = "Running", !.lifecycle = "Stopped",
              !.awaiting = TRUE, !.backoff = 0, !.purpose = "Ordinary",
              !.failure = "RestartLimit"]

WaitForAutomaticRestart(L, failedRun) ==
    [L EXCEPT !.desired = "Running", !.lifecycle = "RestartBackoff",
              !.awaiting = FALSE, !.backoff = failedRun]

-----------------------------------------------------------------------------
(* Requests.                                                               *)

(* A new request keeps the fact that the Run being cleaned up timed out.   *)
RequestPurpose(L, otherwise) ==
    IF L.purpose \in TimedOutPurposes THEN "StartupTimeoutSuppressed" ELSE otherwise

PrepareStartRequest(L, trigger) ==
    IF trigger # "Manual" THEN L
    ELSE [ResetBudget(ClearRestartState(L)) EXCEPT
             !.pending = trigger,
             !.purpose = RequestPurpose(L, "Ordinary"),
             !.exited = FALSE]

PrepareRestartRequest(L, trigger) ==
    [ResetBudget(ClearRestartState(L)) EXCEPT
        !.pending = trigger,
        !.purpose = RequestPurpose(L, "ExplicitReplacement"),
        !.exited = FALSE]

RequireRunning(L, trigger) ==
    IF L.desired = "Running" THEN L
    ELSE [L EXCEPT !.desired = "Running", !.pending = trigger]

CanStartAnyway(L) ==
    L.run = 0 /\ L.desired = "Running" /\ L.lifecycle = "Waiting"

PrepareStartAnyway(L) ==
    [ResetBudget(ClearRestartState(L)) EXCEPT !.pending = "StartAnyway"]

(* Closing the Run's observational work (ProcessLifecycle::cancel_run_work,*)
(* reached through Core::cancel_run_work, which does nothing without a     *)
(* Run).                                                                   *)
CloseWithoutFlag(L) ==
    [L EXCEPT !.readiness = NoTracking, !.liveness = NoTracking, !.spawned = FALSE]

CancelRunWork(L) ==
    IF L.run = 0 THEN L
    ELSE [L EXCEPT !.cancelled = TRUE, !.readiness = NoTracking,
                   !.liveness = NoTracking, !.spawned = FALSE]

CanReplace(L) == L.run # 0 /\ ~L.unconfirmed

BeginReplacementCleanup(L) == CancelRunWork([L EXCEPT !.lifecycle = "Stopping"])

(* request_stop has five outcomes.  Only the first and the last ask the    *)
(* adapter to clean up (StopNeedsCleanup).                                 *)
ReplacementPending(L) ==
    L.purpose \in UnhealthyPurposes \/ L.pending \in {"Restart", "Rerun"}

RetryCleanup(L) ==
    [L EXCEPT
        !.purpose = IF ~ReplacementPending(L) \/ L.purpose \in TimedOutPurposes
                    THEN SuppressAutomaticRestart(L.purpose) ELSE L.purpose,
        !.desired = IF ReplacementPending(L) THEN L.desired ELSE "Stopped",
        !.lifecycle = "Stopping"]

StopNeedsCleanup(L) ==
    \/ L.unconfirmed
    \/ /\ L.backoff = 0
       /\ L.run # 0
       /\ L.lifecycle # "Stopping"
       /\ L.desired = "Running"

RequestStop(L) ==
    CASE L.unconfirmed -> CancelRunWork(RetryCleanup(L))
      [] ~L.unconfirmed /\ L.backoff # 0 ->
            [ClearRestartState(L) EXCEPT !.desired = "Stopped", !.lifecycle = "Stopped"]
      [] StopNeedsCleanup(L) /\ ~L.unconfirmed ->
            CancelRunWork([L EXCEPT !.desired = "Stopped", !.lifecycle = "Stopping",
                                    !.purpose = "ManualStop"])
      [] ~L.unconfirmed /\ L.backoff = 0 /\ L.run # 0 /\ L.lifecycle = "Stopping" ->
            [L EXCEPT !.desired = "Stopped",
                      !.purpose = SuppressAutomaticRestart(L.purpose)]
      [] ~L.unconfirmed /\ L.backoff = 0 /\ L.run = 0 /\ L.desired = "Running" ->
            [L EXCEPT !.desired = "Stopped", !.lifecycle = "Stopped"]
      [] OTHER -> L

-----------------------------------------------------------------------------
(* Admission and the life of a Run.                                        *)

BeginRunReusingIdentity(L, readiness, liveness, label) ==
    [ClearRestartState(L) EXCEPT
        !.run = L.next, !.applied = label,
        !.lifecycle = "Starting", !.failure = NoFailure, !.exited = FALSE,
        !.purpose = "Ordinary", !.cancelled = FALSE,
        !.readiness = readiness, !.liveness = liveness, !.spawned = FALSE]

BeginRun(L, readiness, liveness, label) ==
    [ClearRestartState(L) EXCEPT
        !.run = L.next, !.next = L.next + 1, !.applied = label,
        !.lifecycle = "Starting", !.failure = NoFailure, !.exited = FALSE,
        !.purpose = "Ordinary", !.cancelled = FALSE,
        !.readiness = readiness, !.liveness = liveness, !.spawned = FALSE]

WaitEvenInBackoff(L) ==
    IF L.run # 0 \/ L.desired # "Running" THEN L
    ELSE [L EXCEPT !.lifecycle = "Waiting", !.failure = NoFailure]

WaitForDependency(L) ==
    IF L.run # 0 \/ L.desired # "Running" \/ L.backoff # 0 THEN L
    ELSE [L EXCEPT !.lifecycle = "Waiting", !.failure = NoFailure]

(* tracking is the Run's readiness policy at the Spawned fact, NoTracking  *)
(* for a Process with no readiness policy.                                 *)
RecordSpawn(L, tracking) ==
    [L EXCEPT !.spawned = TRUE, !.readiness = tracking,
              !.lifecycle = IF L.lifecycle = "Starting" /\ tracking = NoTracking
                            THEN "Running" ELSE @]

PromoteKeepingDeadline(L) ==
    [L EXCEPT !.lifecycle = IF L.lifecycle = "Starting" THEN "Running" ELSE @]

PromoteReady(L) ==
    [L EXCEPT !.readiness.timed = FALSE,
              !.lifecycle = IF L.lifecycle = "Starting" THEN "Running" ELSE @]

TimeoutWithoutFailure(L) ==
    [CancelRunWork(L) EXCEPT
        !.purpose = "StartupTimeout", !.desired = "Stopped", !.lifecycle = "Stopping"]

TimeoutStartup(L) ==
    [CancelRunWork(L) EXCEPT
        !.purpose = "StartupTimeout", !.failure = "Readiness",
        !.desired = "Stopped", !.lifecycle = "Stopping"]

FailLiveness(L, restart) ==
    IF ~restart THEN [L EXCEPT !.failure = "Liveness"]
    ELSE CancelRunWork([L EXCEPT !.failure = "Liveness",
                                 !.purpose = "UnhealthyReplacement",
                                 !.desired = "Stopped", !.lifecycle = "Stopping"])

RecoverLiveness(L) ==
    [L EXCEPT !.failure = IF @ = "Liveness" THEN NoFailure ELSE @]

RecordOutputFailure(L) ==
    [L EXCEPT !.failure = IF @ = NoFailure THEN "Output" ELSE @]

-----------------------------------------------------------------------------
(* The end of a Run.                                                       *)

FailRun(L, oneShot, kind) ==
    [L EXCEPT !.exited = @ \/ oneShot, !.failure = kind,
              !.desired = "Stopped", !.lifecycle = "Stopped"]

CompleteOneShot(L, success) ==
    [L EXCEPT !.lifecycle = IF success THEN "Done" ELSE "Stopped",
              !.failure = IF success THEN NoFailure ELSE "ProcessExit",
              !.desired = "Stopped"]

ObserveServiceExit(L) ==
    IF L.desired # "Running" THEN L
    ELSE [L EXCEPT !.failure = "ProcessExit", !.awaiting = TRUE]

ReleaseUnconfirmedCleanup(L) ==
    [L EXCEPT !.run = 0, !.applied = 0, !.failure = "Shutdown",
              !.readiness = NoTracking, !.liveness = NoTracking, !.spawned = FALSE,
              !.purpose = "Ordinary", !.lifecycle = "Stopped"]

HoldUnconfirmedCleanup(L) ==
    LET timedOut  == L.purpose \in TimedOutPurposes
        unhealthy == L.purpose \in UnhealthyPurposes
        ended     == IF timedOut \/ unhealthy THEN "Stopping" ELSE "Stopped"
    IN  [L EXCEPT
            !.unconfirmed = TRUE,
            !.failure = IF ~timedOut /\ ~unhealthy THEN "Shutdown"
                        ELSE IF @ # NoFailure THEN @
                        ELSE IF unhealthy THEN "Liveness" ELSE "Readiness",
            !.lifecycle = IF @ = "Done" THEN @ ELSE ended,
            !.readiness = NoTracking, !.liveness = NoTracking, !.spawned = FALSE]

ConfirmCleanup(L, oneShot) == [L EXCEPT !.exited = @ \/ oneShot]

FinishConfirmedRun(L) ==
    [L EXCEPT !.run = 0, !.applied = 0, !.readiness = NoTracking,
              !.liveness = NoTracking, !.spawned = FALSE,
              !.purpose = "Ordinary", !.unconfirmed = FALSE,
              !.lifecycle = IF @ = "Done" THEN @ ELSE "Stopped"]

-----------------------------------------------------------------------------
(* Project shutdown.                                                       *)

CloseKeepingDesire(L) ==
    [CancelRunWork(L) EXCEPT
        !.readiness = NoTracking, !.backoff = 0, !.purpose = ShutdownPurpose(L.purpose)]

BeginProjectShutdown(L) ==
    [CancelRunWork(L) EXCEPT
        !.desired = "Stopped", !.readiness = NoTracking, !.backoff = 0,
        !.purpose = ShutdownPurpose(L.purpose),
        !.lifecycle = IF L.run = 0 /\ @ \in {"Waiting", "RestartBackoff"}
                      THEN "Stopped" ELSE @]

BeginShutdownCleanup(L) == [L EXCEPT !.lifecycle = "Stopping"]
=============================================================================
