--------------------------- MODULE SupervisorProofs ---------------------------
(***************************************************************************)
(* Theorems about Supervisor, for every Project, Profile and budget, in    *)
(* three parts: what each method of a ProcessLifecycle keeps, whatever     *)
(* record it is called on; types, the identity of Runs and the refinement  *)
(* of RunIdentity; the safety of the core beyond that.                     *)
(***************************************************************************)
EXTENDS Supervisor, TLAPS, WellFoundedInduction

(* M is a lifecycle with the Run and the next identity of L.               *)
SameRun(L, M) ==
    /\ M \in ProcessState
    /\ M.run = L.run
    /\ M.next = L.next

(* And M does not desire Running unless L did.                             *)
Quiet(L, M) ==
    /\ SameRun(L, M)
    /\ L.desired = "Stopped" => M.desired = "Stopped"

LEMMA NoTrackingType == NoTracking \in Tracking
BY DEF NoTracking, Tracking

(* The names the methods assign have their types.                          *)
LEMMA Vocabulary ==
    /\ "Running" \in DesiredState /\ "Stopped" \in DesiredState
    /\ "Waiting" \in Lifecycles /\ "Starting" \in Lifecycles /\ "Running" \in Lifecycles
    /\ "Stopping" \in Lifecycles /\ "RestartBackoff" \in Lifecycles
    /\ "Done" \in Lifecycles /\ "Stopped" \in Lifecycles
    /\ "Ordinary" \in CleanupPurpose /\ "ManualStop" \in CleanupPurpose
    /\ "StartupTimeout" \in CleanupPurpose /\ "UnhealthyReplacement" \in CleanupPurpose
    /\ "Readiness" \in FailureKind /\ "Liveness" \in FailureKind /\ "Output" \in FailureKind
    /\ "Shutdown" \in FailureKind /\ "ProcessExit" \in FailureKind
    /\ "RestartLimit" \in FailureKind
    /\ "AutomaticRestart" \in RunTrigger /\ "StartAnyway" \in RunTrigger
BY DEF DesiredState, Lifecycles, CleanupPurpose, TimedOutPurposes, UnhealthyPurposes,
    SuppressedPurposes, FailureKind, RunTrigger

(* Methods compose from changes that keep the Run.                         *)
LEMMA QuietComposes ==
    ASSUME NEW L, NEW M, NEW K, Quiet(L, M), Quiet(M, K)
    PROVE  Quiet(L, K)
BY DEF Quiet, SameRun

LEMMA StoppingQuiet ==
    ASSUME NEW L \in ProcessState, NEW lifecycle \in Lifecycles
    PROVE  Quiet(L, [L EXCEPT !.desired = "Stopped", !.lifecycle = lifecycle])
BY Vocabulary DEF Quiet, SameRun, ProcessState

LEMMA PurposeQuiet ==
    ASSUME NEW L \in ProcessState, NEW purpose \in CleanupPurpose
    PROVE  Quiet(L, [L EXCEPT !.purpose = purpose])
BY DEF Quiet, SameRun, ProcessState

LEMMA FailureQuiet ==
    ASSUME NEW L \in ProcessState, NEW failure \in FailureKind \cup {NoFailure}
    PROVE  Quiet(L, [L EXCEPT !.failure = failure])
BY DEF Quiet, SameRun, ProcessState

LEMMA LifecycleQuiet ==
    ASSUME NEW L \in ProcessState, NEW lifecycle \in Lifecycles
    PROVE  Quiet(L, [L EXCEPT !.lifecycle = lifecycle])
BY DEF Quiet, SameRun, ProcessState

LEMMA RequestedQuiet ==
    ASSUME NEW L \in ProcessState, NEW trigger \in RunTrigger, NEW purpose \in CleanupPurpose
    PROVE  Quiet(L, [L EXCEPT !.pending = trigger, !.purpose = purpose, !.exited = FALSE])
<1> DEFINE M == [L EXCEPT !.pending = trigger]
<1>1. Quiet(L, M)
    BY DEF Quiet, SameRun, ProcessState
<1>2. M \in ProcessState
    BY <1>1 DEF Quiet, SameRun
<1> HIDE DEF M
<1>3. Quiet(M, [M EXCEPT !.purpose = purpose, !.exited = FALSE])
    BY <1>2 DEF Quiet, SameRun, ProcessState
<1> QED
    BY <1>1, <1>3, QuietComposes DEF M

LEMMA TrackingQuiet ==
    ASSUME NEW L \in ProcessState, NEW readiness \in Tracking, NEW liveness \in Tracking
    PROVE  Quiet(L, [L EXCEPT !.readiness = readiness, !.liveness = liveness, !.spawned = FALSE])
<1> DEFINE M == [L EXCEPT !.readiness = readiness]
<1>1. Quiet(L, M)
    BY DEF Quiet, SameRun, ProcessState
<1>2. M \in ProcessState
    BY <1>1 DEF Quiet, SameRun
<1> HIDE DEF M
<1>3. Quiet(M, [M EXCEPT !.liveness = liveness, !.spawned = FALSE])
    BY <1>2 DEF Quiet, SameRun, ProcessState
<1> QED
    BY <1>1, <1>3, QuietComposes DEF M

-----------------------------------------------------------------------------
(* Purposes.                                                               *)

LEMMA SuppressedPurposeType ==
    ASSUME NEW purpose \in CleanupPurpose
    PROVE  SuppressAutomaticRestart(purpose) \in CleanupPurpose
BY DEF SuppressAutomaticRestart, CleanupPurpose, SuppressedPurposes, ShutdownPurposes

LEMMA ShutdownPurposeType ==
    ASSUME NEW purpose \in CleanupPurpose
    PROVE  ShutdownPurpose(purpose) \in CleanupPurpose
BY DEF ShutdownPurpose, CleanupPurpose, SuppressedPurposes, ShutdownPurposes

LEMMA RequestPurposeType ==
    ASSUME NEW L, NEW otherwise \in CleanupPurpose
    PROVE  RequestPurpose(L, otherwise) \in CleanupPurpose
BY DEF RequestPurpose, CleanupPurpose, SuppressedPurposes

-----------------------------------------------------------------------------
(* Requests.                                                               *)

LEMMA ClearRestartStateQuiet ==
    ASSUME NEW L \in ProcessState
    PROVE  Quiet(L, ClearRestartState(L))
BY DEF Quiet, SameRun, ClearRestartState, ProcessState

LEMMA ResetBudgetQuiet ==
    ASSUME NEW L \in ProcessState
    PROVE  Quiet(L, ResetBudget(L))
BY DEF Quiet, SameRun, ResetBudget, ProcessState

LEMMA ReleaseRestartBackoffQuiet ==
    ASSUME NEW L \in ProcessState
    PROVE  Quiet(L, ReleaseRestartBackoff(L))
BY Vocabulary DEF Quiet, SameRun, ReleaseRestartBackoff, ProcessState

LEMMA ExhaustRestartBudgetKeepsRun ==
    ASSUME NEW L \in ProcessState
    PROVE  SameRun(L, ExhaustRestartBudget(L))
BY Vocabulary DEF SameRun, ExhaustRestartBudget, ProcessState

LEMMA WaitForAutomaticRestartKeepsRun ==
    ASSUME NEW L \in ProcessState, NEW failedRun \in Nat
    PROVE  SameRun(L, WaitForAutomaticRestart(L, failedRun))
BY Vocabulary DEF SameRun, WaitForAutomaticRestart, ProcessState

LEMMA PrepareStartRequestQuiet ==
    ASSUME NEW L \in ProcessState, NEW trigger \in RunTrigger
    PROVE  Quiet(L, PrepareStartRequest(L, trigger))
<1> DEFINE M == ResetBudget(ClearRestartState(L))
<1>1. M \in ProcessState /\ Quiet(L, M)
    BY ClearRestartStateQuiet, ResetBudgetQuiet DEF Quiet, SameRun
<1>2. RequestPurpose(L, "Ordinary") \in CleanupPurpose
    BY RequestPurposeType DEF CleanupPurpose
<1> HIDE DEF M
<1>3. PrepareStartRequest(L, trigger) =
          IF trigger # "Manual" THEN L
          ELSE [M EXCEPT !.pending = trigger,
                         !.purpose = RequestPurpose(L, "Ordinary"), !.exited = FALSE]
    BY DEF PrepareStartRequest, M
<1>4. Quiet(L, L)
    BY DEF Quiet, SameRun
<1> QED
    BY <1>1, <1>2, <1>3, <1>4, RequestedQuiet, QuietComposes

LEMMA PrepareRestartRequestQuiet ==
    ASSUME NEW L \in ProcessState, NEW trigger \in RunTrigger
    PROVE  Quiet(L, PrepareRestartRequest(L, trigger))
<1> DEFINE M == ResetBudget(ClearRestartState(L))
<1>1. M \in ProcessState /\ Quiet(L, M)
    BY ClearRestartStateQuiet, ResetBudgetQuiet DEF Quiet, SameRun
<1>2. RequestPurpose(L, "ExplicitReplacement") \in CleanupPurpose
    BY RequestPurposeType DEF CleanupPurpose
<1> HIDE DEF M
<1>3. PrepareRestartRequest(L, trigger) =
          [M EXCEPT !.pending = trigger,
                    !.purpose = RequestPurpose(L, "ExplicitReplacement"), !.exited = FALSE]
    BY DEF PrepareRestartRequest, M
<1> QED
    BY <1>1, <1>2, <1>3, RequestedQuiet, QuietComposes

LEMMA PrepareStartAnywayQuiet ==
    ASSUME NEW L \in ProcessState
    PROVE  Quiet(L, PrepareStartAnyway(L))
<1> DEFINE M == ResetBudget(ClearRestartState(L))
<1>1. M \in ProcessState /\ Quiet(L, M)
    BY ClearRestartStateQuiet, ResetBudgetQuiet DEF Quiet, SameRun
<1> HIDE DEF M
<1>2. PrepareStartAnyway(L) = [M EXCEPT !.pending = "StartAnyway"]
    BY DEF PrepareStartAnyway, M
<1> QED
    BY <1>1, <1>2, Vocabulary DEF Quiet, SameRun, ProcessState

LEMMA RequireRunningKeepsRun ==
    ASSUME NEW L \in ProcessState, NEW trigger \in RunTrigger
    PROVE  SameRun(L, RequireRunning(L, trigger))
BY Vocabulary DEF SameRun, RequireRunning, ProcessState

LEMMA CancelRunWorkQuiet ==
    ASSUME NEW L \in ProcessState
    PROVE  Quiet(L, CancelRunWork(L))
BY NoTrackingType DEF Quiet, SameRun, CancelRunWork, ProcessState

LEMMA BeginReplacementCleanupQuiet ==
    ASSUME NEW L \in ProcessState
    PROVE  Quiet(L, BeginReplacementCleanup(L))
<1>1. Quiet(L, [L EXCEPT !.lifecycle = "Stopping"])
    BY Vocabulary DEF Quiet, SameRun, ProcessState
<1> QED
    BY <1>1, CancelRunWorkQuiet DEF Quiet, SameRun, BeginReplacementCleanup

LEMMA RetryCleanupQuiet ==
    ASSUME NEW L \in ProcessState
    PROVE  Quiet(L, RetryCleanup(L))
BY SuppressedPurposeType, Vocabulary DEF Quiet, SameRun, RetryCleanup, ProcessState

LEMMA RequestStopQuiet ==
    ASSUME NEW L \in ProcessState
    PROVE  Quiet(L, RequestStop(L))
<1>1. CASE L.unconfirmed
    BY <1>1, RetryCleanupQuiet, CancelRunWorkQuiet DEF Quiet, SameRun, RequestStop
<1>2. CASE ~L.unconfirmed
    <2> DEFINE dropped == [ClearRestartState(L) EXCEPT !.desired = "Stopped", !.lifecycle = "Stopped"]
               stopping == [L EXCEPT !.desired = "Stopped", !.lifecycle = "Stopping",
                                     !.purpose = "ManualStop"]
               suppressed == [L EXCEPT !.desired = "Stopped",
                                       !.purpose = SuppressAutomaticRestart(L.purpose)]
               resting == [L EXCEPT !.desired = "Stopped", !.lifecycle = "Stopped"]
    <2>1. Quiet(L, dropped)
        BY ClearRestartStateQuiet, Vocabulary DEF Quiet, SameRun, ProcessState
    <2>2. Quiet(L, stopping) /\ Quiet(L, CancelRunWork(stopping))
        <3>1. Quiet(L, stopping)
            BY Vocabulary DEF Quiet, SameRun, ProcessState, SuppressedPurposes
        <3> QED
            BY <3>1, CancelRunWorkQuiet DEF Quiet, SameRun
    <2>3. Quiet(L, suppressed)
        BY SuppressedPurposeType, Vocabulary DEF Quiet, SameRun, ProcessState
    <2>4. Quiet(L, resting) /\ Quiet(L, L)
        BY Vocabulary DEF Quiet, SameRun, ProcessState
    <2>5. RequestStop(L) \in {dropped, CancelRunWork(stopping), suppressed, resting, L}
        BY <1>2 DEF RequestStop
    <2> HIDE DEF dropped, stopping, suppressed, resting
    <2> QED
        BY <2>1, <2>2, <2>3, <2>4, <2>5
<1> QED
    BY <1>1, <1>2 DEF ProcessState

-----------------------------------------------------------------------------
(* Admission and the life of a Run.                                        *)

LEMMA BeginRunTakesNext ==
    ASSUME NEW L \in ProcessState, NEW readiness \in Tracking,
           NEW liveness \in Tracking, NEW label \in Nat
    PROVE  /\ BeginRun(L, readiness, liveness, label) \in ProcessState
           /\ BeginRun(L, readiness, liveness, label).run = L.next
           /\ BeginRun(L, readiness, liveness, label).next = L.next + 1
<1> DEFINE M == ClearRestartState(L)
           A == [M EXCEPT !.run = L.next, !.next = L.next + 1, !.applied = label,
                          !.lifecycle = "Starting", !.failure = NoFailure]
           B == [A EXCEPT !.exited = FALSE, !.purpose = "Ordinary", !.cancelled = FALSE]
<1>1. M \in ProcessState
    BY ClearRestartStateQuiet DEF Quiet, SameRun
<1>2. L.next \in Nat /\ L.next + 1 \in Nat \ {0}
    BY DEF ProcessState
<1>3. BeginRun(L, readiness, liveness, label) =
          [B EXCEPT !.readiness = readiness, !.liveness = liveness, !.spawned = FALSE]
    BY DEF BeginRun
<1> HIDE DEF M
<1>4. A \in ProcessState /\ A.run = L.next /\ A.next = L.next + 1
    BY <1>1, <1>2, Vocabulary DEF ProcessState
<1> HIDE DEF A
<1>5. B \in ProcessState /\ B.run = L.next /\ B.next = L.next + 1
    BY <1>4, Vocabulary DEF ProcessState
<1> HIDE DEF B
<1>6. Quiet(B, BeginRun(L, readiness, liveness, label))
    BY <1>3, <1>5, TrackingQuiet
<1> QED
    BY <1>5, <1>6 DEF Quiet, SameRun

LEMMA WaitForDependencyQuiet ==
    ASSUME NEW L \in ProcessState
    PROVE  Quiet(L, WaitForDependency(L))
BY Vocabulary DEF Quiet, SameRun, WaitForDependency, ProcessState

LEMMA RecordSpawnQuiet ==
    ASSUME NEW L \in ProcessState, NEW tracking \in Tracking
    PROVE  Quiet(L, RecordSpawn(L, tracking))
BY Vocabulary DEF Quiet, SameRun, RecordSpawn, ProcessState

LEMMA PromoteReadyQuiet ==
    ASSUME NEW L \in ProcessState
    PROVE  Quiet(L, PromoteReady(L))
<1> DEFINE tracking == [L.readiness EXCEPT !.timed = FALSE]
           lifecycle == IF L.lifecycle = "Starting" THEN "Running" ELSE L.lifecycle
<1>1. tracking \in Tracking
    BY DEF ProcessState, Tracking
<1>2. lifecycle \in Lifecycles
    BY Vocabulary DEF ProcessState
<1>3. PromoteReady(L) = [L EXCEPT !.readiness = tracking, !.lifecycle = lifecycle]
    BY DEF PromoteReady
<1> HIDE DEF tracking, lifecycle
<1> QED
    BY <1>1, <1>2, <1>3 DEF Quiet, SameRun, ProcessState

LEMMA TimeoutStartupQuiet ==
    ASSUME NEW L \in ProcessState
    PROVE  Quiet(L, TimeoutStartup(L))
<1> DEFINE M == CancelRunWork(L)
<1>1. Quiet(L, M)
    BY CancelRunWorkQuiet
<1>2. M \in ProcessState
    BY <1>1 DEF Quiet, SameRun
<1> DEFINE A == [M EXCEPT !.purpose = "StartupTimeout"]
           B == [A EXCEPT !.failure = "Readiness"]
<1>3. TimeoutStartup(L) = [B EXCEPT !.desired = "Stopped", !.lifecycle = "Stopping"]
    BY DEF TimeoutStartup
<1> HIDE DEF M
<1>4. Quiet(M, A) /\ A \in ProcessState
    BY <1>2, PurposeQuiet, Vocabulary DEF Quiet, SameRun
<1> HIDE DEF A
<1>5. Quiet(A, B) /\ B \in ProcessState
    BY <1>4, FailureQuiet, Vocabulary DEF Quiet, SameRun
<1> HIDE DEF B
<1>6. Quiet(B, TimeoutStartup(L))
    <2>1. Quiet(B, [B EXCEPT !.desired = "Stopped", !.lifecycle = "Stopping"])
        BY <1>5, StoppingQuiet, Vocabulary
    <2> QED
        BY <2>1, <1>3
<1>7. Quiet(L, B)
    BY <1>1, <1>4, <1>5, QuietComposes
<1> QED
    BY <1>6, <1>7, QuietComposes

LEMMA FailLivenessQuiet ==
    ASSUME NEW L \in ProcessState, NEW restart \in BOOLEAN
    PROVE  Quiet(L, FailLiveness(L, restart))
<1>1. Quiet(L, [L EXCEPT !.failure = "Liveness"])
    BY Vocabulary DEF Quiet, SameRun, ProcessState
<1>2. Quiet(L, [L EXCEPT !.failure = "Liveness", !.purpose = "UnhealthyReplacement",
                         !.desired = "Stopped", !.lifecycle = "Stopping"])
    BY Vocabulary DEF Quiet, SameRun, ProcessState
<1> QED
    BY <1>1, <1>2, CancelRunWorkQuiet DEF Quiet, SameRun, FailLiveness

LEMMA RecoverLivenessQuiet ==
    ASSUME NEW L \in ProcessState
    PROVE  Quiet(L, RecoverLiveness(L))
BY DEF Quiet, SameRun, RecoverLiveness, ProcessState

LEMMA RecordOutputFailureQuiet ==
    ASSUME NEW L \in ProcessState
    PROVE  Quiet(L, RecordOutputFailure(L))
BY Vocabulary DEF Quiet, SameRun, RecordOutputFailure, ProcessState

-----------------------------------------------------------------------------
(* The end of a Run, and Project shutdown.                                 *)

LEMMA FailRunQuiet ==
    ASSUME NEW L \in ProcessState, NEW oneShot \in BOOLEAN, NEW kind \in FailureKind
    PROVE  Quiet(L, FailRun(L, oneShot, kind))
BY Vocabulary DEF Quiet, SameRun, FailRun, ProcessState

LEMMA CompleteOneShotQuiet ==
    ASSUME NEW L \in ProcessState, NEW success \in BOOLEAN
    PROVE  Quiet(L, CompleteOneShot(L, success))
BY Vocabulary DEF Quiet, SameRun, CompleteOneShot, ProcessState

LEMMA ObserveServiceExitQuiet ==
    ASSUME NEW L \in ProcessState
    PROVE  Quiet(L, ObserveServiceExit(L))
BY Vocabulary DEF Quiet, SameRun, ObserveServiceExit, ProcessState

LEMMA HoldUnconfirmedCleanupQuiet ==
    ASSUME NEW L \in ProcessState
    PROVE  Quiet(L, HoldUnconfirmedCleanup(L))
<1> DEFINE timedOut  == L.purpose \in TimedOutPurposes
           unhealthy == L.purpose \in UnhealthyPurposes
           failure   == IF ~timedOut /\ ~unhealthy THEN "Shutdown"
                        ELSE IF L.failure # NoFailure THEN L.failure
                        ELSE IF unhealthy THEN "Liveness" ELSE "Readiness"
           lifecycle == IF L.lifecycle = "Done" THEN L.lifecycle
                        ELSE IF timedOut \/ unhealthy THEN "Stopping" ELSE "Stopped"
           A == [L EXCEPT !.unconfirmed = TRUE, !.failure = failure, !.lifecycle = lifecycle]
<1>1. HoldUnconfirmedCleanup(L) =
          [A EXCEPT !.readiness = NoTracking, !.liveness = NoTracking, !.spawned = FALSE]
    BY DEF HoldUnconfirmedCleanup
<1>2. failure \in FailureKind /\ lifecycle \in Lifecycles
    BY Vocabulary DEF ProcessState
<1> HIDE DEF failure, lifecycle
<1>3. A \in ProcessState /\ Quiet(L, A)
    BY <1>2 DEF Quiet, SameRun, ProcessState
<1> HIDE DEF A
<1> QED
    BY <1>1, <1>3, NoTrackingType, TrackingQuiet, QuietComposes

LEMMA ConfirmCleanupQuiet ==
    ASSUME NEW L \in ProcessState, NEW oneShot \in BOOLEAN
    PROVE  Quiet(L, ConfirmCleanup(L, oneShot))
BY DEF Quiet, SameRun, ConfirmCleanup, ProcessState

LEMMA FinishConfirmedRunReleases ==
    ASSUME NEW L \in ProcessState
    PROVE  /\ FinishConfirmedRun(L) \in ProcessState
           /\ FinishConfirmedRun(L).run = 0
           /\ FinishConfirmedRun(L).next = L.next
           /\ FinishConfirmedRun(L).desired = L.desired
BY NoTrackingType, Vocabulary DEF FinishConfirmedRun, ProcessState

LEMMA BeginProjectShutdownStops ==
    ASSUME NEW L \in ProcessState
    PROVE  Quiet(L, BeginProjectShutdown(L)) /\ BeginProjectShutdown(L).desired = "Stopped"
<1> DEFINE M == CancelRunWork(L)
           p == ShutdownPurpose(L.purpose)
           l == IF L.run = 0 /\ M.lifecycle \in {"Waiting", "RestartBackoff"}
                THEN "Stopped" ELSE M.lifecycle
<1>1. Quiet(L, M)
    BY CancelRunWorkQuiet
<1>2. p \in CleanupPurpose
    BY ShutdownPurposeType DEF ProcessState
<1>3. l \in Lifecycles
    BY <1>1, Vocabulary DEF Quiet, SameRun, ProcessState
<1> DEFINE A == [M EXCEPT !.desired = "Stopped", !.readiness = NoTracking, !.backoff = 0]
<1>4. BeginProjectShutdown(L) = [A EXCEPT !.purpose = p, !.lifecycle = l]
    BY <1>1 DEF BeginProjectShutdown, Quiet, SameRun, ProcessState
<1> HIDE DEF M, p, l
<1>5. A \in ProcessState /\ Quiet(L, A) /\ A.desired = "Stopped"
    BY <1>1, NoTrackingType, Vocabulary DEF Quiet, SameRun, ProcessState
<1> HIDE DEF A
<1> DEFINE B == [A EXCEPT !.purpose = p]
<1>6. BeginProjectShutdown(L) = [B EXCEPT !.lifecycle = l]
    BY <1>4
<1>7. Quiet(A, B) /\ B \in ProcessState
    BY <1>2, <1>5, PurposeQuiet DEF Quiet, SameRun
<1> HIDE DEF B
<1>8. Quiet(B, BeginProjectShutdown(L))
    BY <1>3, <1>6, <1>7, LifecycleQuiet
<1> QED
    BY <1>5, <1>7, <1>8, QuietComposes DEF Quiet

LEMMA BeginShutdownCleanupQuiet ==
    ASSUME NEW L \in ProcessState
    PROVE  Quiet(L, BeginShutdownCleanup(L))
BY Vocabulary DEF Quiet, SameRun, BeginShutdownCleanup, ProcessState

-----------------------------------------------------------------------------
(***************************************************************************)
(* Types and the identity of Runs.                                         *)
(*                                                                         *)
(* Every handler first changes the lifecycles one by one and then may make *)
(* one scheduling pass (Evaluate).  Prepares says what the changes before  *)
(* the pass may do to one Process, Moves what the whole step may do; the   *)
(* two lemmas in the middle lead from one to the other, and every action   *)
(* lemma only has to show Prepares.                                        *)
(***************************************************************************)

(* Once shutdown began no Process desires Running and no batch is left.    *)
ClosedForGood ==
    shutdown.active => Idle /\ \A p \in Processes : lifecycles[p].desired = "Stopped"

IInv == TypeOK /\ OneRunAlive /\ ClosedForGood

Owns(L, a) == L.run < L.next /\ a.alive \subseteq ({L.run} \ {0})

Prepares(L, a, M, b) ==
    /\ M \in ProcessState
    /\ b \in AdapterState
    /\ M.next = L.next
    /\ \/ M.run = L.run /\ b.alive \in {a.alive, {}}
       \/ M.run = 0 /\ b.alive = {}
    /\ shutdown.active => M.desired = "Stopped"

Stays(L, a, M, b)  == M.run = L.run /\ M.next = L.next /\ b.alive \in {a.alive, {}}
Leaves(L, a, M, b) == L.run # 0 /\ M.run = 0 /\ M.next = L.next /\ b.alive = {}
Begins(L, a, M, b) ==
    ~shutdown.active /\ M.run = L.next /\ M.next = L.next + 1 /\ b.alive = {M.run}

Moves(L, a, M, b) ==
    /\ M \in ProcessState
    /\ b \in AdapterState
    /\ Owns(M, b)
    /\ shutdown.active => M.desired = "Stopped"
    /\ Stays(L, a, M, b) \/ Leaves(L, a, M, b) \/ Begins(L, a, M, b)

StatesOver(ls, ad) == ls \in [Processes -> ProcessState] /\ ad \in [Processes -> AdapterState]

Prepared(ls, ad) ==
    /\ StatesOver(ls, ad)
    /\ \A p \in Processes : Prepares(lifecycles[p], adapter[p], ls[p], ad[p])

StepSound ==
    /\ StatesOver(lifecycles', adapter')
    /\ \A p \in Processes : Moves(lifecycles[p], adapter[p], lifecycles'[p], adapter'[p])

-----------------------------------------------------------------------------
(* The adapter's records.                                                  *)

LEMMA ContactedType ==
    ASSUME NEW a \in AdapterState
    PROVE  Contacted(a) \in AdapterState /\ Contacted(a).alive = a.alive
BY DEF Contacted, AdapterState

LEMMA ReservedType ==
    ASSUME NEW a \in AdapterState, NEW run \in Nat
    PROVE  Reserved(a, run) \in AdapterState /\ Reserved(a, run).alive = a.alive \cup {run}
BY DEF Reserved, AdapterState

LEMMA ReleasedType ==
    ASSUME NEW a \in AdapterState, NEW run \in Nat
    PROVE  Released(a, run) \in AdapterState /\ Released(a, run).alive = a.alive \ {run}
BY DEF Released, AdapterState

SameAlive(ad) ==
    /\ ad \in [Processes -> AdapterState]
    /\ \A p \in Processes : ad[p].alive = adapter[p].alive

LEMMA StopWhenSameAlive ==
    ASSUME adapter \in [Processes -> AdapterState], NEW p \in Processes, NEW condition \in BOOLEAN
    PROVE  SameAlive(StopWhen(p, condition))
BY ContactedType DEF SameAlive, StopWhen

LEMMA ContactedAllSameAlive ==
    ASSUME adapter \in [Processes -> AdapterState], NEW wave
    PROVE  SameAlive(ContactedAll(wave))
BY ContactedType DEF SameAlive, ContactedAll

-----------------------------------------------------------------------------
(* The scheduling pass.                                                    *)

LEMMA TrackingTypes ==
    ASSUME NEW p \in Processes
    PROVE  EarlyReadiness(p) \in Tracking /\ InactiveLiveness(p) \in Tracking
BY NoTrackingType DEF EarlyReadiness, InactiveLiveness, PendingTracking, NoTracking, Tracking, CheckState

LEMMA AdmitRunTakesNext ==
    ASSUME NEW L \in ProcessState, NEW p \in Processes, profile \in Profiles
    PROVE  /\ AdmitRun(L, p) \in ProcessState
           /\ AdmitRun(L, p).run = L.next
           /\ AdmitRun(L, p).next = L.next + 1
<1>1. Label[profile][p] \in Nat
    BY ProfileAssumption
<1> QED
    BY <1>1, TrackingTypes, BeginRunTakesNext DEF AdmitRun

(* What a pass may do to one lifecycle.                                    *)
LEMMA PassOne ==
    ASSUME NEW L \in ProcessState, NEW p \in Processes, profile \in Profiles,
           NEW M \in {WaitForDependency(L), BeginDesiredRun(L, p)}
    PROVE  \/ Quiet(L, M)
           \/ SameRun(L, M) /\ L.desired = "Running"
           \/ /\ L.run = 0 /\ L.desired = "Running"
              /\ M \in ProcessState /\ M.run = L.next /\ M.next = L.next + 1
<1>1. Quiet(L, WaitForDependency(L)) /\ Quiet(L, L)
    BY WaitForDependencyQuiet DEF Quiet, SameRun
<1>2. CASE M = BeginDesiredRun(L, p) /\ CanStart(L)
    <2> DEFINE charged == [L EXCEPT !.used = @ + 1]
    <2>1. charged \in ProcessState /\ charged.next = L.next
        BY DEF ProcessState
    <2> HIDE DEF charged
    <2>2. M \in {AdmitRun(L, p), AdmitRun(charged, p), ExhaustRestartBudget(L)}
        BY <1>2 DEF BeginDesiredRun, charged
    <2> QED
        BY <1>2, <2>1, <2>2, AdmitRunTakesNext, ExhaustRestartBudgetKeepsRun DEF CanStart
<1>3. CASE M = BeginDesiredRun(L, p) /\ ~CanStart(L)
    BY <1>1, <1>3 DEF BeginDesiredRun
<1> QED
    BY <1>1, <1>2, <1>3

LEMMA EvaluateIsPass ==
    ASSUME NEW pre, NEW ad, Evaluate(pre, ad)
    PROVE  /\ lifecycles' = [p \in Processes |-> lifecycles'[p]]
           /\ adapter' = [p \in Processes |-> adapter'[p]]
           /\ \A p \in Processes :
                 /\ lifecycles'[p] \in {WaitForDependency(pre[p]), BeginDesiredRun(pre[p], p)}
                 /\ adapter'[p] = IF lifecycles'[p].run # pre[p].run
                                  THEN Reserved(ad[p], lifecycles'[p].run) ELSE ad[p]
<1>1. PICK blocked \in SUBSET Processes :
          /\ lifecycles' = Pass(pre, blocked)
          /\ adapter' = WithNewRuns(pre, Pass(pre, blocked), ad)
    BY DEF Evaluate
<1> QED
    BY <1>1 DEF Pass, WithNewRuns

(* A handler that ends with a pass.                                        *)
LEMMA EvaluateMoves ==
    ASSUME IInv, NEW pre, NEW ad, Prepared(pre, ad), Evaluate(pre, ad)
    PROVE  StepSound
<1>1. ASSUME NEW p \in Processes
      PROVE  Moves(lifecycles[p], adapter[p], lifecycles'[p], adapter'[p])
    <2> DEFINE L == lifecycles[p]  a == adapter[p]  M == pre[p]  b == ad[p]
               R == lifecycles'[p]
    <2>1. L \in ProcessState /\ a \in AdapterState /\ Owns(L, a) /\ profile \in Profiles
        BY DEF IInv, TypeOK, OneRunAlive, Owns
    <2>2. M \in ProcessState /\ b \in AdapterState /\ Prepares(L, a, M, b)
        BY DEF Prepared, StatesOver
    <2>3. R \in {WaitForDependency(M), BeginDesiredRun(M, p)}
        BY EvaluateIsPass
    <2>4. adapter'[p] = IF R.run # M.run THEN Reserved(b, R.run) ELSE b
        BY EvaluateIsPass
    <2>5. L.run \in Nat /\ L.next \in Nat \ {0} /\ b.alive \subseteq Nat
        BY <2>1, <2>2 DEF ProcessState, AdapterState
    <2> SUFFICES Moves(L, a, R, adapter'[p])
        OBVIOUS
    <2> HIDE DEF L, a, M, b, R
    <2>6. \/ Quiet(M, R)
          \/ SameRun(M, R) /\ M.desired = "Running"
          \/ /\ M.run = 0 /\ M.desired = "Running"
             /\ R \in ProcessState /\ R.run = M.next /\ R.next = M.next + 1
        BY <2>1, <2>2, <2>3, PassOne
    <2>7. CASE SameRun(M, R) /\ (M.desired = "Stopped" => R.desired = "Stopped")
        BY <2>1, <2>2, <2>4, <2>5, <2>7 DEF SameRun, Prepares, Moves, Owns, Stays, Leaves
    <2>8. CASE SameRun(M, R) /\ M.desired = "Running"
        BY <2>1, <2>2, <2>4, <2>5, <2>8 DEF SameRun, Prepares, Moves, Owns, Stays, Leaves
    <2>9. CASE /\ M.run = 0 /\ M.desired = "Running"
               /\ R \in ProcessState /\ R.run = M.next /\ R.next = M.next + 1
        <3>1. R.run # M.run /\ R.run \in Nat \ {0} /\ R.run = L.next /\ ~shutdown.active
            BY <2>2, <2>5, <2>9 DEF Prepares
        <3>2. b.alive = {}
            BY <2>1, <2>2, <2>9 DEF Prepares, Owns
        <3>3. adapter'[p] \in AdapterState /\ adapter'[p].alive = {R.run}
            BY <2>2, <2>4, <3>1, <3>2, ReservedType
        <3> QED
            BY <2>2, <2>5, <2>9, <3>1, <3>3 DEF Prepares, Moves, Owns, Begins
    <2> QED
        BY <2>6, <2>7, <2>8, <2>9 DEF Quiet
<1>2. StatesOver(lifecycles', adapter')
    BY <1>1, EvaluateIsPass DEF StatesOver, Moves
<1> QED
    BY <1>1, <1>2 DEF StepSound

(* A handler without one.                                                  *)
LEMMA PlainMoves ==
    ASSUME IInv, Prepared(lifecycles', adapter')
    PROVE  StepSound
<1> SUFFICES ASSUME NEW p \in Processes
             PROVE  Moves(lifecycles[p], adapter[p], lifecycles'[p], adapter'[p])
    BY DEF StepSound, Prepared
<1>1. lifecycles[p] \in ProcessState /\ adapter[p] \in AdapterState
    BY DEF IInv, TypeOK
<1>2. lifecycles[p].run < lifecycles[p].next /\ lifecycles[p].next \in Nat
    BY <1>1 DEF IInv, TypeOK, ProcessState
<1>3. Owns(lifecycles[p], adapter[p])
    BY <1>2 DEF IInv, OneRunAlive, Owns
<1>4. Prepares(lifecycles[p], adapter[p], lifecycles'[p], adapter'[p])
    BY DEF Prepared
<1> QED
    BY <1>1, <1>2, <1>3, <1>4 DEF Moves, Prepares, Owns, Stays, Leaves, ProcessState

(* Changes before the pass that leave the Runs alone.                      *)
KeepsRuns(ls) ==
    /\ ls \in [Processes -> ProcessState]
    /\ \A p \in Processes :
          \/ Quiet(lifecycles[p], ls[p])
          \/ SameRun(lifecycles[p], ls[p]) /\ ~shutdown.active

LEMMA QuietlyPrepared ==
    ASSUME IInv, NEW ls, KeepsRuns(ls), NEW ad, SameAlive(ad)
    PROVE  Prepared(ls, ad)
BY DEF Prepared, StatesOver, Prepares, SameAlive, KeepsRuns, Quiet, SameRun, IInv, ClosedForGood

LEMMA NothingChanges ==
    ASSUME IInv
    PROVE  /\ Prepared(lifecycles, adapter)
           /\ SameAlive(adapter)
           /\ \A p \in Processes : Quiet(lifecycles[p], lifecycles[p])
BY DEF Prepared, StatesOver, Prepares, SameAlive, Quiet, SameRun, IInv, TypeOK, ClosedForGood

LEMMA OneChanges ==
    ASSUME IInv, NEW p \in Processes, NEW M,
           Quiet(lifecycles[p], M) \/ (SameRun(lifecycles[p], M) /\ ~shutdown.active)
    PROVE  KeepsRuns([lifecycles EXCEPT ![p] = M])
<1>1. M \in ProcessState /\ lifecycles \in [Processes -> ProcessState]
    BY DEF IInv, TypeOK, Quiet, SameRun
<1> QED
    BY <1>1, NothingChanges DEF KeepsRuns

LEMMA KeepsRunsThen ==
    ASSUME NEW ls, KeepsRuns(ls), NEW next, next \in [Processes -> ProcessState],
           \A p \in Processes :
              Quiet(ls[p], next[p]) \/ (SameRun(ls[p], next[p]) /\ ~shutdown.active)
    PROVE  KeepsRuns(next)
BY DEF KeepsRuns, Quiet, SameRun

LEMMA RequireRunningFromKeepsRuns ==
    ASSUME NEW ls, KeepsRuns(ls), ~shutdown.active, NEW p \in Processes, NEW trigger \in RunTrigger
    PROVE  KeepsRuns(RequireRunningFrom(ls, p, trigger))
<1> DEFINE required == RequireRunningFrom(ls, p, trigger)
<1>1. ASSUME NEW q \in Processes
      PROVE  SameRun(ls[q], required[q])
    <2>1. ls[q] \in ProcessState /\ "Dependency" \in RunTrigger
        BY DEF KeepsRuns, RunTrigger
    <2>2. SameRun(ls[q], ls[q])
        BY <2>1 DEF SameRun
    <2> QED
        BY <2>1, <2>2, RequireRunningKeepsRun DEF RequireRunningFrom
<1>2. required \in [Processes -> ProcessState]
    BY <1>1 DEF RequireRunningFrom, SameRun
<1> HIDE DEF required
<1> QED
    BY <1>1, <1>2, KeepsRunsThen DEF required

-----------------------------------------------------------------------------
(* Commands.                                                               *)

LEMMA StartAtSound ==
    ASSUME IInv, ~shutdown.active, NEW p \in Processes, NEW trigger \in RunTrigger,
           StartAt(p, trigger)
    PROVE  StepSound
<1> DEFINE prepared == [lifecycles EXCEPT ![p] = PrepareStartRequest(@, trigger)]
           required == RequireRunningFrom(prepared, p, trigger)
<1>1. KeepsRuns(required)
    BY OneChanges, PrepareStartRequestQuiet, RequireRunningFromKeepsRuns DEF IInv, TypeOK
<1> HIDE DEF required
<1>2. CASE IsEnabled(p)
    BY <1>1, <1>2, NothingChanges, QuietlyPrepared, EvaluateMoves DEF StartAt, required
<1>3. CASE ~IsEnabled(p)
    BY <1>3, NothingChanges, PlainMoves DEF StartAt
<1> QED
    BY <1>2, <1>3

LEMMA RestartAtSound ==
    ASSUME IInv, ~shutdown.active, NEW p \in Processes, NEW trigger \in RunTrigger,
           RestartAt(p, trigger)
    PROVE  StepSound
<1> DEFINE prepared == [lifecycles EXCEPT ![p] = PrepareRestartRequest(@, trigger)]
           required == RequireRunningFrom(prepared, p, trigger)
           replaced == [required EXCEPT ![p] = BeginReplacementCleanup(@)]
<1>1. KeepsRuns(required)
    BY OneChanges, PrepareRestartRequestQuiet, RequireRunningFromKeepsRuns DEF IInv, TypeOK
<1> HIDE DEF required
<1>2. KeepsRuns(replaced)
    <2>1. Quiet(required[p], BeginReplacementCleanup(required[p]))
        BY <1>1, BeginReplacementCleanupQuiet DEF KeepsRuns
    <2>2. replaced \in [Processes -> ProcessState]
        BY <1>1, <2>1 DEF KeepsRuns, Quiet, SameRun
    <2>3. \A q \in Processes : Quiet(required[q], replaced[q])
        BY <1>1, <2>1 DEF KeepsRuns, Quiet, SameRun
    <2> HIDE DEF replaced
    <2> QED
        BY <1>1, <2>2, <2>3, KeepsRunsThen
<1> HIDE DEF replaced
<1>3. SameAlive(StopWhen(p, TRUE)) /\ SameAlive(adapter)
    BY StopWhenSameAlive, NothingChanges DEF IInv, TypeOK
<1>4. CASE ~IsEnabled(p)
    BY <1>4, NothingChanges, PlainMoves DEF RestartAt
<1>5. CASE IsEnabled(p) /\ CanReplace(required[p])
    BY <1>2, <1>3, <1>5, QuietlyPrepared, EvaluateMoves DEF RestartAt, required, replaced
<1>6. CASE IsEnabled(p) /\ ~CanReplace(required[p])
    BY <1>1, <1>3, <1>6, QuietlyPrepared, EvaluateMoves DEF RestartAt, required
<1> QED
    BY <1>4, <1>5, <1>6

LEMMA StopAtSound ==
    ASSUME IInv, NEW p \in Processes, StopAt(p)
    PROVE  StepSound
<1>1. Quiet(lifecycles[p], RequestStop(lifecycles[p]))
    BY RequestStopQuiet DEF IInv, TypeOK
<1>2. KeepsRuns([lifecycles EXCEPT ![p] = RequestStop(lifecycles[p])])
    BY <1>1, OneChanges
<1>3. SameAlive(adapter')
    BY ContactedType DEF StopAt, StopWhen, SameAlive, IInv, TypeOK
<1>4. KeepsRuns(lifecycles')
    BY <1>2 DEF StopAt
<1> QED
    BY <1>3, <1>4, QuietlyPrepared, PlainMoves

LEMMA StopAllSound ==
    ASSUME IInv, StopAll
    PROVE  StepSound
<1>1. KeepsRuns(lifecycles')
    BY RequestStopQuiet DEF StopAll, KeepsRuns, Quiet, SameRun, IInv, TypeOK
<1>2. SameAlive(adapter')
    BY ContactedType DEF StopAll, SameAlive, IInv, TypeOK
<1> QED
    BY <1>1, <1>2, QuietlyPrepared, PlainMoves

LEMMA StartAnywaySound ==
    ASSUME IInv, NEW p \in Processes, StartAnyway(p)
    PROVE  StepSound
<1> DEFINE L == lifecycles[p]
           M == PrepareStartAnyway(L)
           R == BeginDesiredRun(M, p)
<1>1. /\ L \in ProcessState /\ adapter[p] \in AdapterState /\ profile \in Profiles
      /\ Owns(L, adapter[p]) /\ L.next \in Nat \ {0} /\ L.run = 0 /\ ~shutdown.active
    BY DEF IInv, TypeOK, OneRunAlive, Owns, ProcessState, StartAnyway, CanStartAnyway, Admitted
<1>2. M \in ProcessState /\ M.run = L.run /\ M.next = L.next
    BY <1>1, PrepareStartAnywayQuiet DEF Quiet, SameRun
<1>3. /\ lifecycles' = [lifecycles EXCEPT ![p] = R]
      /\ adapter' = [q \in Processes |->
                        IF lifecycles'[q].run # lifecycles[q].run
                        THEN Reserved(adapter[q], lifecycles'[q].run) ELSE adapter[q]]
    BY DEF StartAnyway, WithNewRuns
<1> HIDE DEF M, R
<1>4. SameRun(M, R) \/ (R \in ProcessState /\ R.run = M.next /\ R.next = M.next + 1)
    BY <1>1, <1>2, PassOne DEF R, Quiet
<1>5. Moves(L, adapter[p], R, IF R.run # L.run THEN Reserved(adapter[p], R.run) ELSE adapter[p])
    BY <1>1, <1>2, <1>4, ReservedType
    DEF Moves, Owns, Stays, Begins, SameRun, AdapterState
<1>6. ASSUME NEW q \in Processes, q # p
      PROVE  Moves(lifecycles[q], adapter[q], lifecycles[q], adapter[q])
    BY <1>1 DEF Moves, Owns, Stays, IInv, TypeOK, OneRunAlive
<1>7. /\ lifecycles'[p] = R
      /\ \A q \in Processes : q # p => lifecycles'[q] = lifecycles[q]
      /\ lifecycles' = [q \in Processes |-> lifecycles'[q]]
    BY <1>3 DEF IInv, TypeOK
<1>8. \A q \in Processes : Moves(lifecycles[q], adapter[q], lifecycles'[q], adapter'[q])
    BY <1>3, <1>5, <1>6, <1>7
<1>9. StatesOver(lifecycles', adapter')
    BY <1>3, <1>7, <1>8 DEF StatesOver, Moves
<1> QED
    BY <1>8, <1>9 DEF StepSound

(* What the command does to every Process.                                 *)
ClosedAt(p) ==
    /\ lifecycles'[p].desired = "Stopped"
    /\ lifecycles'[p].run = lifecycles[p].run
    /\ lifecycles'[p].next = lifecycles[p].next
    /\ adapter'[p].alive = adapter[p].alive

LEMMA BeginShutdownSound ==
    ASSUME IInv, BeginShutdown
    PROVE  StepSound /\ \A p \in Processes : ClosedAt(p)
<1>1. ASSUME NEW p \in Processes, NEW M, M = BeginProjectShutdown(lifecycles[p])
      PROVE  \A R \in {M, BeginShutdownCleanup(M)} :
                Quiet(lifecycles[p], R) /\ R.desired = "Stopped"
    <2>1. Quiet(lifecycles[p], M) /\ M.desired = "Stopped" /\ M \in ProcessState
        BY <1>1, BeginProjectShutdownStops DEF Quiet, SameRun, IInv, TypeOK
    <2> QED
        BY <2>1, BeginShutdownCleanupQuiet DEF Quiet, SameRun
<1>2. PICK wave :
          /\ lifecycles' = StoppedByShutdown([p \in Processes |-> BeginProjectShutdown(lifecycles[p])], wave)
          /\ adapter' = ContactedAll(wave)
    BY DEF BeginShutdown
<1>3. \A p \in Processes : Quiet(lifecycles[p], lifecycles'[p]) /\ lifecycles'[p].desired = "Stopped"
    BY <1>1, <1>2 DEF StoppedByShutdown
<1>4. KeepsRuns(lifecycles')
    BY <1>2, <1>3 DEF KeepsRuns, StoppedByShutdown, Quiet, SameRun
<1>5. SameAlive(adapter')
    BY <1>2, ContactedAllSameAlive DEF IInv, TypeOK
<1>6. StepSound
    BY <1>4, <1>5, QuietlyPrepared, PlainMoves
<1> QED
    BY <1>3, <1>5, <1>6 DEF ClosedAt, Quiet, SameRun, SameAlive

-----------------------------------------------------------------------------
(* Observations of a Run.                                                  *)

LEMMA ActivateLivenessQuiet ==
    ASSUME NEW L \in ProcessState
    PROVE  Quiet(L, ActivateLiveness(L))
<1> DEFINE begun == [L EXCEPT !.liveness.started = TRUE]
<1>1. Quiet(L, begun) /\ Quiet(L, L)
    BY DEF Quiet, SameRun, ProcessState, Tracking
<1>2. ActivateLiveness(L) \in {L, begun}
    BY DEF ActivateLiveness
<1> HIDE DEF begun
<1> QED
    BY <1>1, <1>2

LEMMA ApplyReadinessQuiet ==
    ASSUME NEW L \in ProcessState, NEW state \in CheckState
    PROVE  Quiet(L, ApplyReadiness(L, state))
<1> DEFINE moved == [L EXCEPT !.readiness.state = state]
<1>1. Quiet(L, moved)
    BY DEF Quiet, SameRun, ProcessState, Tracking
<1> HIDE DEF moved
<1>2. Quiet(moved, PromoteReady(moved))
    BY <1>1, PromoteReadyQuiet DEF Quiet, SameRun
<1>3. Quiet(PromoteReady(moved), ActivateLiveness(PromoteReady(moved)))
    BY <1>2, ActivateLivenessQuiet DEF Quiet, SameRun
<1>4. ApplyReadiness(L, state) \in {moved, PromoteReady(moved), ActivateLiveness(PromoteReady(moved))}
    BY DEF ApplyReadiness, BecomeReady, moved
<1> QED
    BY <1>1, <1>2, <1>3, <1>4 DEF Quiet, SameRun

LEMMA ApplySpawnedQuiet ==
    ASSUME NEW L \in ProcessState, NEW p \in Processes
    PROVE  Quiet(L, ApplySpawned(L, p))
<1> DEFINE spawned == RecordSpawn(L, SpawnTracking(L, p))
<1>1. SpawnTracking(L, p) \in Tracking
    <2>1. StartupTimeout[p] \in BOOLEAN
        BY ProcessAssumption
    <2>2. (IF L.readiness = NoTracking THEN "Pending" ELSE L.readiness.state) \in CheckState \cup {"None"}
        BY DEF ProcessState, Tracking, CheckState
    <2> QED
        BY <2>1, <2>2, NoTrackingType DEF SpawnTracking, Tracking
<1>2. Quiet(L, spawned)
    BY <1>1, RecordSpawnQuiet
<1> HIDE DEF spawned
<1>3. Quiet(spawned, ActivateLiveness(spawned))
    BY <1>2, ActivateLivenessQuiet DEF Quiet, SameRun
<1>4. ApplySpawned(L, p) \in {spawned, ActivateLiveness(spawned)}
    BY DEF ApplySpawned, spawned
<1> QED
    BY <1>2, <1>3, <1>4 DEF Quiet, SameRun

LEMMA SpawnedSound ==
    ASSUME IInv, NEW p \in Processes, Spawned(p)
    PROVE  StepSound
<1> DEFINE live == [adapter EXCEPT ![p].phase = "live"]
           applied == [lifecycles EXCEPT ![p] = ApplySpawned(@, p)]
<1>1. SameAlive(live)
    BY DEF SameAlive, AdapterState, IInv, TypeOK
<1>2. KeepsRuns(applied)
    BY ApplySpawnedQuiet, OneChanges DEF IInv, TypeOK
<1>3. KeepsRuns(lifecycles)
    BY NothingChanges DEF KeepsRuns, IInv, TypeOK
<1> HIDE DEF live, applied
<1>4. CASE Observed(lifecycles[p])
    BY <1>1, <1>2, <1>4, QuietlyPrepared, EvaluateMoves DEF Spawned, live, applied
<1>5. CASE ~Observed(lifecycles[p])
    <2>1. lifecycles' = lifecycles /\ adapter' = live
        BY <1>5 DEF Spawned, live
    <2> QED
        BY <1>1, <1>3, <2>1, QuietlyPrepared, PlainMoves
<1> QED
    BY <1>4, <1>5

(* Adapter bookkeeping that no lifecycle sees.                             *)
LEMMA AdapterOnlySound ==
    ASSUME IInv, NEW p \in Processes, SpawnSucceeds(p) \/ SpawnFails(p) \/ EndsByItself(p)
    PROVE  StepSound
<1> DEFINE L == lifecycles[p]
           a == adapter[p]
<1>1. L \in ProcessState /\ a \in AdapterState /\ L.run \in Nat /\ a.alive \subseteq {L.run}
    BY DEF IInv, TypeOK, OneRunAlive, ProcessState
<1>2. lifecycles' = lifecycles /\ adapter' = [adapter EXCEPT ![p] = adapter'[p]]
    BY DEF SpawnSucceeds, SpawnFails, EndsByItself, IInv, TypeOK
<1>3. adapter'[p] \in AdapterState /\ adapter'[p].alive \in {a.alive, {}}
    <2>1. CASE SpawnSucceeds(p) \/ EndsByItself(p)
        <3>1. adapter'[p] \in {[a EXCEPT !.phase = "early"], [a EXCEPT !.ended = TRUE]}
            BY <2>1 DEF SpawnSucceeds, EndsByItself, IInv, TypeOK
        <3> QED
            BY <1>1, <3>1 DEF AdapterState
    <2>2. CASE SpawnFails(p)
        <3>1. adapter'[p] = [Released(a, L.run) EXCEPT !.phase = "gone", !.failed = {"Configuration"}]
            BY <2>2 DEF SpawnFails, NeverStarted, IInv, TypeOK
        <3> DEFINE gone == [Released(a, L.run) EXCEPT !.phase = "gone"]
        <3>2. Released(a, L.run) \in AdapterState /\ Released(a, L.run).alive = {}
            BY <1>1, ReleasedType
        <3>3. gone \in AdapterState /\ gone.alive = {}
            BY <3>2 DEF AdapterState
        <3>4. adapter'[p] = [gone EXCEPT !.failed = {"Configuration"}]
            BY <3>1
        <3> HIDE DEF gone
        <3> QED
            BY <3>3, <3>4 DEF AdapterState
    <2> QED
        BY <2>1, <2>2
<1>4. Prepares(L, a, L, adapter'[p])
    BY <1>1, <1>3 DEF Prepares, IInv, ClosedForGood
<1>5. Prepared(lifecycles', adapter')
    BY <1>2, <1>3, <1>4, NothingChanges DEF Prepared, StatesOver
<1> QED
    BY <1>5, PlainMoves

LEMMA ReadinessSound ==
    ASSUME IInv, NEW p \in Processes, NEW state \in CheckState,
           ReadinessResult(p, state) \/ EarlyLogMatch(p)
    PROVE  StepSound
<1>1. ASSUME NEW s \in CheckState
      PROVE  KeepsRuns([lifecycles EXCEPT ![p] = ApplyReadiness(@, s)])
    BY ApplyReadinessQuiet, OneChanges DEF IInv, TypeOK
<1>2. PICK s \in CheckState : Evaluate([lifecycles EXCEPT ![p] = ApplyReadiness(@, s)], adapter)
    BY DEF ReadinessResult, EarlyLogMatch, CheckState
<1> QED
    BY <1>1, <1>2, NothingChanges, QuietlyPrepared, EvaluateMoves

LEMMA LivenessSound ==
    ASSUME IInv, NEW p \in Processes, NEW state \in CheckState, LivenessResult(p, state)
    PROVE  StepSound
<1> DEFINE L == lifecycles[p]
           moved == [L EXCEPT !.liveness.state = state]
<1>1. L \in ProcessState
    BY DEF IInv, TypeOK
<1>2. Quiet(L, moved)
    BY <1>1 DEF Quiet, SameRun, ProcessState, Tracking
<1>3. OnUnhealthy[p] \in BOOLEAN
    BY ProcessAssumption
<1>4. PICK M \in {moved, FailLiveness(moved, OnUnhealthy[p]), RecoverLiveness(moved)},
           condition \in BOOLEAN :
           Evaluate([lifecycles EXCEPT ![p] = M], StopWhen(p, condition))
    BY <1>3 DEF LivenessResult
<1> HIDE DEF moved
<1>5. Quiet(moved, FailLiveness(moved, OnUnhealthy[p])) /\ Quiet(moved, RecoverLiveness(moved))
    BY <1>2, <1>3, FailLivenessQuiet, RecoverLivenessQuiet DEF Quiet, SameRun
<1>6. Quiet(L, M)
    BY <1>2, <1>4, <1>5 DEF Quiet, SameRun
<1>7. KeepsRuns([lifecycles EXCEPT ![p] = M]) /\ SameAlive(StopWhen(p, condition))
    BY <1>4, <1>6, OneChanges, StopWhenSameAlive DEF IInv, TypeOK
<1> QED
    BY <1>4, <1>7, QuietlyPrepared, EvaluateMoves

LEMMA OutputFailureSound ==
    ASSUME IInv, NEW p \in Processes, OutputFailure(p)
    PROVE  StepSound
<1>1. KeepsRuns([lifecycles EXCEPT ![p] = RecordOutputFailure(@)])
    BY RecordOutputFailureQuiet, OneChanges DEF IInv, TypeOK
<1>2. /\ lifecycles' = [lifecycles EXCEPT ![p] = RecordOutputFailure(@)]
      /\ adapter' = adapter
    BY DEF OutputFailure
<1> QED
    BY <1>1, <1>2, NothingChanges, QuietlyPrepared, PlainMoves

-----------------------------------------------------------------------------
(* The end of a Run.                                                       *)

LEMMA FinalizedReleases ==
    ASSUME NEW L \in ProcessState, NEW p \in Processes, NEW restart \in BOOLEAN
    PROVE  /\ Finalized(L, p, restart) \in ProcessState
           /\ Finalized(L, p, restart).run = 0
           /\ Finalized(L, p, restart).next = L.next
           /\ ~restart => Finalized(L, p, restart).desired = L.desired
<1> DEFINE finished == FinishConfirmedRun(L)
<1>1. /\ finished \in ProcessState /\ finished.run = 0
      /\ finished.next = L.next /\ finished.desired = L.desired
    BY FinishConfirmedRunReleases
<1> HIDE DEF finished
<1>2. CASE restart
    <2>1. L.run \in Nat
        BY DEF ProcessState
    <2>2. /\ SameRun(finished, WaitForAutomaticRestart(finished, L.run))
          /\ SameRun(finished, ExhaustRestartBudget(finished))
        BY <1>1, <2>1, WaitForAutomaticRestartKeepsRun, ExhaustRestartBudgetKeepsRun
    <2>3. Finalized(L, p, restart) \in
              {WaitForAutomaticRestart(finished, L.run), ExhaustRestartBudget(finished)}
        BY <1>2 DEF Finalized, ScheduleAutomaticRestart, finished
    <2> QED
        BY <1>1, <1>2, <2>2, <2>3 DEF SameRun
<1>3. CASE ~restart
    BY <1>1, <1>3 DEF Finalized, finished
<1> QED
    BY <1>2, <1>3

(* What the end of p's Run makes of its lifecycle.                         *)
Ended(L, R, released) ==
    /\ R \in ProcessState
    /\ R.next = L.next
    /\ R.run = IF released THEN 0 ELSE L.run
    /\ shutdown.active => (L.desired = "Stopped" => R.desired = "Stopped")

LEMMA ApplyFinishedEnds ==
    ASSUME NEW L \in ProcessState, NEW p \in Processes, NEW intentional \in BOOLEAN,
           NEW confirmed \in BOOLEAN, NEW success \in BOOLEAN
    PROVE  Ended(L, ApplyFinished(L, p, intentional, confirmed, success), confirmed)
<1> DEFINE cancelled == CancelRunWork(L)
           observed  == IF ~intentional /\ L.purpose \notin TimedOutPurposes
                        THEN ObserveExit(cancelled, p, success) ELSE cancelled
           restart   == RestartsAfterFinish(L, p, intentional, success)
           oneShot   == Kind[p] = "OneShot"
<1>1. Quiet(L, cancelled)
    BY CancelRunWorkQuiet
<1> HIDE DEF cancelled
<1>2. Quiet(cancelled, ObserveExit(cancelled, p, success))
    BY <1>1, CompleteOneShotQuiet, ObserveServiceExitQuiet DEF ObserveExit, Quiet, SameRun
<1>3. Quiet(L, observed)
    BY <1>1, <1>2 DEF Quiet, SameRun
<1>4. restart \in BOOLEAN /\ (restart => ~shutdown.active)
    BY DEF RestartsAfterFinish, RestartAllowed
<1>5. ApplyFinished(L, p, intentional, confirmed, success) =
          IF confirmed THEN Finalized(ConfirmCleanup(observed, oneShot), p, restart)
          ELSE HoldUnconfirmedCleanup(observed)
    BY DEF ApplyFinished, cancelled
<1> HIDE DEF observed, restart, oneShot
<1>6. CASE confirmed
    <2> DEFINE settled == ConfirmCleanup(observed, oneShot)
    <2>1. oneShot \in BOOLEAN
        BY DEF oneShot
    <2>2. Quiet(L, settled)
        BY <1>3, <2>1, ConfirmCleanupQuiet DEF Quiet, SameRun
    <2> HIDE DEF settled
    <2>3. /\ Finalized(settled, p, restart) \in ProcessState
          /\ Finalized(settled, p, restart).run = 0
          /\ Finalized(settled, p, restart).next = settled.next
          /\ ~restart => Finalized(settled, p, restart).desired = settled.desired
        BY <1>4, <2>2, FinalizedReleases DEF Quiet, SameRun
    <2> QED
        BY <1>4, <1>5, <1>6, <2>2, <2>3 DEF Ended, Quiet, SameRun, settled
<1>7. CASE ~confirmed
    BY <1>3, <1>5, <1>7, HoldUnconfirmedCleanupQuiet DEF Ended, Quiet, SameRun
<1> QED
    BY <1>6, <1>7

LEMMA ApplyFailedEnds ==
    ASSUME NEW L \in ProcessState, NEW p \in Processes, NEW kind \in {"Configuration", "Spawn"}
    PROVE  Ended(L, ApplyFailed(L, p, kind), TRUE)
<1> DEFINE failed  == FailRun(CancelRunWork(L), Kind[p] = "OneShot", kind)
           restart == RestartsAfterFailure(L, p)
<1>1. Quiet(L, failed)
    <2>1. Quiet(L, CancelRunWork(L))
        BY CancelRunWorkQuiet
    <2>2. kind \in FailureKind /\ (Kind[p] = "OneShot") \in BOOLEAN
        BY DEF FailureKind
    <2>3. Quiet(CancelRunWork(L), failed)
        BY <2>1, <2>2, FailRunQuiet DEF Quiet, SameRun
    <2> HIDE DEF failed
    <2> QED
        BY <2>1, <2>3 DEF Quiet, SameRun
<1>2. restart \in BOOLEAN /\ (restart => ~shutdown.active)
    BY DEF RestartsAfterFailure, RestartAllowed
<1>3. ApplyFailed(L, p, kind) = Finalized(failed, p, restart)
    BY DEF ApplyFailed
<1> HIDE DEF failed, restart
<1>4. /\ Finalized(failed, p, restart) \in ProcessState
      /\ Finalized(failed, p, restart).run = 0
      /\ Finalized(failed, p, restart).next = failed.next
      /\ ~restart => Finalized(failed, p, restart).desired = failed.desired
    BY <1>1, <1>2, FinalizedReleases DEF Quiet, SameRun
<1> QED
    BY <1>1, <1>2, <1>3, <1>4 DEF Ended, Quiet, SameRun

(* One Run ends while the shutdown may send out its next wave.             *)
AfterEnd(ad, p, released) ==
    /\ ad \in [Processes -> AdapterState]
    /\ \A q \in Processes : q # p => ad[q].alive = adapter[q].alive
    /\ ad[p].alive = IF released THEN {} ELSE adapter[p].alive

LEMMA OneEnds ==
    ASSUME IInv, NEW p \in Processes, NEW R, NEW released \in BOOLEAN, Ended(lifecycles[p], R, released),
           NEW ad, AfterEnd(ad, p, released),
           NEW wave, NEW ls, ls = [StoppedByShutdown(lifecycles, wave) EXCEPT ![p] = R]
    PROVE  Prepared(ls, ad)
<1>1. /\ ls = [q \in Processes |-> ls[q]]
      /\ ls[p] = R
      /\ \A q \in Processes : q # p => ls[q] \in {lifecycles[q], BeginShutdownCleanup(lifecycles[q])}
    BY DEF StoppedByShutdown
<1>2. ASSUME NEW q \in Processes
      PROVE  Prepares(lifecycles[q], adapter[q], ls[q], ad[q])
    <2>1. lifecycles[q] \in ProcessState /\ (shutdown.active => lifecycles[q].desired = "Stopped")
        BY DEF IInv, TypeOK, ClosedForGood
    <2>2. CASE q = p
        BY <1>1, <2>1, <2>2 DEF Ended, Prepares, AfterEnd
    <2>3. CASE q # p
        BY <1>1, <2>1, <2>3, BeginShutdownCleanupQuiet DEF Prepares, AfterEnd, Quiet, SameRun
    <2> QED
        BY <2>2, <2>3
<1>3. StatesOver(ls, ad)
    BY <1>1, <1>2 DEF StatesOver, Prepares, AfterEnd
<1> QED
    BY <1>2, <1>3 DEF Prepared

LEMMA FinishedSound ==
    ASSUME IInv, NEW p \in Processes, NEW intentional \in BOOLEAN, NEW confirmed \in BOOLEAN,
           NEW success \in BOOLEAN, Finished(p, intentional, confirmed, success)
    PROVE  StepSound
<1> DEFINE L == lifecycles[p]
           R == ApplyFinished(L, p, intentional, confirmed, success)
           contacted == ContactedAll(NextWave(p))
<1>1. L \in ProcessState /\ L.run \in Nat /\ adapter[p].alive \subseteq {L.run}
    BY DEF IInv, TypeOK, OneRunAlive, ProcessState
<1>2. Ended(L, R, confirmed)
    BY <1>1, ApplyFinishedEnds
<1>3. SameAlive(contacted)
    BY ContactedAllSameAlive DEF IInv, TypeOK
<1> HIDE DEF R, contacted
<1>4. CASE confirmed
    <2> DEFINE ad == [contacted EXCEPT ![p] = Released(@, L.run)]
    <2>1. AfterEnd(ad, p, TRUE)
        BY <1>1, <1>3, ReleasedType DEF SameAlive, AfterEnd
    <2>2. Evaluate([StoppedByShutdown(lifecycles, NextWave(p)) EXCEPT ![p] = R], ad)
        BY <1>4 DEF Finished, R, contacted
    <2> DEFINE ls == [StoppedByShutdown(lifecycles, NextWave(p)) EXCEPT ![p] = R]
    <2> HIDE DEF ad
    <2>3. Prepared(ls, ad)
        <3>1. Ended(lifecycles[p], R, TRUE)
            BY <1>2, <1>4
        <3> QED
            BY <2>1, <3>1, OneEnds
    <2> QED
        BY <2>2, <2>3, EvaluateMoves
<1>5. CASE ~confirmed
    <2>1. PICK stops \in HeldStops(adapter[p], intentional) :
              Evaluate([StoppedByShutdown(lifecycles, NextWave(p)) EXCEPT ![p] = R],
                       [contacted EXCEPT ![p].phase = "held", ![p].ended = FALSE, ![p].stops = stops])
        BY <1>5 DEF Finished, R, contacted
    <2> DEFINE held == [contacted[p] EXCEPT !.phase = "held", !.ended = FALSE]
               last == [held EXCEPT !.stops = stops]
               ad == [contacted EXCEPT ![p].phase = "held", ![p].ended = FALSE, ![p].stops = stops]
    <2>2. held \in AdapterState /\ held.alive = adapter[p].alive
        <3>1. contacted[p] \in AdapterState /\ contacted[p].alive = adapter[p].alive
            BY <1>3 DEF SameAlive
        <3> QED
            BY <3>1 DEF AdapterState
    <2>3. stops \in 0..2
        <3>1. adapter[p].stops \in 0..2
            BY DEF IInv, TypeOK, AdapterState
        <3> QED
            BY <3>1, <2>1 DEF HeldStops
    <2>4. ad = [contacted EXCEPT ![p] = last]
        BY <1>3 DEF SameAlive
    <2> HIDE DEF held
    <2>5. last \in AdapterState /\ last.alive = adapter[p].alive
        BY <2>2, <2>3 DEF AdapterState
    <2> HIDE DEF last, ad
    <2>6. AfterEnd(ad, p, FALSE)
        BY <1>3, <2>4, <2>5 DEF SameAlive, AfterEnd
    <2> DEFINE ls == [StoppedByShutdown(lifecycles, NextWave(p)) EXCEPT ![p] = R]
    <2>7. Prepared(ls, ad)
        <3>1. Ended(lifecycles[p], R, FALSE)
            BY <1>2, <1>5
        <3> QED
            BY <2>6, <3>1, OneEnds
    <2> QED
        BY <2>1, <2>7, EvaluateMoves DEF ad
<1> QED
    BY <1>4, <1>5

LEMMA FailedReportSound ==
    ASSUME IInv, NEW p \in Processes, NEW kind \in {"Configuration", "Spawn"}, FailedReport(p, kind)
    PROVE  StepSound
<1> DEFINE L == lifecycles[p]
           R == ApplyFailed(L, p, kind)
           contacted == ContactedAll(NextWave(p))
<1>1. L \in ProcessState /\ L.run \in Nat /\ adapter[p].alive \subseteq {L.run}
    BY DEF IInv, TypeOK, OneRunAlive, ProcessState
<1>2. Ended(L, R, TRUE)
    BY <1>1, ApplyFailedEnds
<1>3. SameAlive(contacted)
    BY ContactedAllSameAlive DEF IInv, TypeOK
<1> HIDE DEF R, contacted
<1>4. CASE FailedCounts(L)
    <2> DEFINE ad == [contacted EXCEPT ![p] = Released(@, L.run)]
    <2>1. AfterEnd(ad, p, TRUE)
        BY <1>1, <1>3, ReleasedType DEF SameAlive, AfterEnd
    <2>2. Evaluate([StoppedByShutdown(lifecycles, NextWave(p)) EXCEPT ![p] = R], ad)
        BY <1>4 DEF FailedReport, R, contacted
    <2> DEFINE ls == [StoppedByShutdown(lifecycles, NextWave(p)) EXCEPT ![p] = R]
    <2> HIDE DEF ad
    <2>3. Prepared(ls, ad)
        BY <1>2, <2>1, OneEnds
    <2> QED
        BY <2>2, <2>3, EvaluateMoves
<1>5. CASE ~FailedCounts(L)
    <2> DEFINE b == [adapter[p] EXCEPT !.failed = @ \ {kind}]
    <2>1. lifecycles' = lifecycles /\ adapter' = [adapter EXCEPT ![p] = b]
        BY <1>5 DEF FailedReport, IInv, TypeOK
    <2>2. b \in AdapterState /\ b.alive = adapter[p].alive
        BY DEF AdapterState, IInv, TypeOK
    <2> HIDE DEF b
    <2>3. SameAlive(adapter')
        BY <2>1, <2>2, NothingChanges DEF SameAlive
    <2>4. KeepsRuns(lifecycles')
        BY <2>1, NothingChanges DEF KeepsRuns, IInv, TypeOK
    <2> QED
        BY <2>3, <2>4, QuietlyPrepared, PlainMoves
<1> QED
    BY <1>4, <1>5

-----------------------------------------------------------------------------
(* Timers and the loop of a batch.                                         *)

LEMMA StartupTimeoutSound ==
    ASSUME IInv, NEW p \in Processes, StartupTimeoutFires(p)
    PROVE  StepSound
<1>1. KeepsRuns([lifecycles EXCEPT ![p] = TimeoutStartup(lifecycles[p])])
    BY TimeoutStartupQuiet, OneChanges DEF IInv, TypeOK
<1>2. SameAlive(StopWhen(p, TRUE))
    BY StopWhenSameAlive DEF IInv, TypeOK
<1>3. /\ lifecycles' = [lifecycles EXCEPT ![p] = TimeoutStartup(lifecycles[p])]
      /\ adapter' = StopWhen(p, TRUE)
    BY DEF StartupTimeoutFires
<1> QED
    BY <1>1, <1>2, <1>3, QuietlyPrepared, PlainMoves

LEMMA ReleaseTimersSound ==
    ASSUME IInv, NEW expired \in SUBSET Processes, ReleaseTimers(expired)
    PROVE  StepSound
<1>1. PICK p \in expired : ValidRestartTimer(lifecycles[p])
    BY DEF ReleaseTimers
<1>2. ~shutdown.active
    BY <1>1 DEF ValidRestartTimer, IInv, ClosedForGood
<1>3. PICK released :
          /\ released = [q \in Processes |-> released[q]]
          /\ \A q \in Processes :
                released[q] \in {ReleaseRestartBackoff(lifecycles[q]),
                                RequireRunning(lifecycles[q], "Dependency"), lifecycles[q]}
          /\ Evaluate(released, adapter)
    <2> DEFINE required == UNION {Required(q) : q \in expired}
               released == [q \in Processes |->
                        IF q \in expired THEN ReleaseRestartBackoff(lifecycles[q])
                        ELSE IF q \in required THEN RequireRunning(lifecycles[q], "Dependency")
                        ELSE lifecycles[q]]
    <2>1. Evaluate(released, adapter)
        BY DEF ReleaseTimers
    <2> HIDE DEF required
    <2>2. /\ released = [q \in Processes |-> released[q]]
          /\ \A q \in Processes :
                released[q] \in {ReleaseRestartBackoff(lifecycles[q]),
                                RequireRunning(lifecycles[q], "Dependency"), lifecycles[q]}
        OBVIOUS
    <2> HIDE DEF released
    <2> QED
        BY <2>1, <2>2
<1>4. \A q \in Processes : SameRun(lifecycles[q], released[q])
    BY <1>3, ReleaseRestartBackoffQuiet, RequireRunningKeepsRun
    DEF Quiet, SameRun, RunTrigger, IInv, TypeOK
<1>5. KeepsRuns(released)
    BY <1>2, <1>3, <1>4 DEF KeepsRuns, SameRun
<1> QED
    BY <1>3, <1>5, NothingChanges, QuietlyPrepared, EvaluateMoves

LEMMA ExpireShutdownSound ==
    ASSUME IInv, ExpireShutdown
    PROVE  StepSound
<1>1. PICK wave :
          lifecycles' = StoppedByShutdown(lifecycles, wave) /\ adapter' = ContactedAll(wave)
    BY DEF ExpireShutdown
<1>2. KeepsRuns(lifecycles')
    BY <1>1, BeginShutdownCleanupQuiet, NothingChanges
    DEF KeepsRuns, StoppedByShutdown, Quiet, SameRun, IInv, TypeOK
<1>3. SameAlive(adapter')
    BY <1>1, ContactedAllSameAlive DEF IInv, TypeOK
<1> QED
    BY <1>2, <1>3, QuietlyPrepared, PlainMoves

LEMMA ContinueBatchSound ==
    ASSUME IInv, NEW p \in Processes, ContinueBatch(p)
    PROVE  StepSound
<1>1. ~shutdown.active
    BY DEF ContinueBatch, IInv, ClosedForGood, Idle, NoBatch
<1>2. \/ \E trigger \in RunTrigger : StartAt(p, trigger) \/ RestartAt(p, trigger)
      \/ StopAt(p)
      \/ UNCHANGED <<lifecycles, adapter>>
    BY DEF ContinueBatch, ApplyProfileTo, RunTrigger
<1>3. CASE UNCHANGED <<lifecycles, adapter>>
    BY <1>3, NothingChanges, PlainMoves
<1> QED
    BY <1>1, <1>2, <1>3, StartAtSound, RestartAtSound, StopAtSound

-----------------------------------------------------------------------------
(* Any step.                                                               *)

(* The parts of the state that no lifecycle and no adapter record holds.   *)
FrameSound ==
    /\ profile' \in Profiles
    /\ shutdown' \in ShutdownState
    /\ batch' \in BatchState
    /\ shutdown.active => shutdown'.active
    /\ shutdown'.active => batch' = NoBatch
    /\ shutdown'.active => shutdown.active \/ \A p \in Processes : ClosedAt(p)

LEMMA FrameKept ==
    ASSUME IInv, UNCHANGED <<profile, shutdown>>, shutdown.active => Idle,
           batch' \in BatchState, shutdown.active => batch' = NoBatch
    PROVE  FrameSound
BY DEF FrameSound, IInv, TypeOK

LEMMA ShutdownStep ==
    ASSUME IInv, Idle, UNCHANGED <<profile, batch>>,
           NEW p \in Processes, FinishShutdownRun(p)
    PROVE  FrameSound
<1> DEFINE wave == NextWave(p)
<1>1. wave \subseteq Processes
    BY DEF NextWave, Wave, IInv, TypeOK, ShutdownState
<1> HIDE DEF wave
<1>2. shutdown' = [shutdown EXCEPT !.remaining = @ \ {p}, !.dispatched = @ \cup wave]
    BY DEF FinishShutdownRun, wave
<1>3. shutdown' \in ShutdownState /\ shutdown'.active = shutdown.active
    BY <1>1, <1>2 DEF ShutdownState, IInv, TypeOK
<1> QED
    BY <1>3 DEF FrameSound, Idle, IInv, TypeOK

LEMMA CommandSound ==
    ASSUME IInv, Command
    PROVE  StepSound /\ FrameSound
<1>1. ASSUME NEW p \in Processes, Start(p) PROVE StepSound /\ FrameSound
    BY <1>1, StartAtSound, FrameKept DEF Start, Admitted, Requested, RunTrigger, IInv, TypeOK, ClosedForGood
<1>2. ASSUME NEW p \in Processes, StartAnyway(p) PROVE StepSound /\ FrameSound
    BY <1>2, StartAnywaySound, FrameKept
    DEF StartAnyway, Admitted, Requested, IInv, TypeOK
<1>3. ASSUME NEW p \in Processes, Stop(p) PROVE StepSound /\ FrameSound
    BY <1>3, StopAtSound, FrameKept DEF Stop, Requested, Idle, IInv, TypeOK
<1>4. ASSUME NEW p \in Processes, Restart(p) PROVE StepSound /\ FrameSound
    BY <1>4, RestartAtSound, FrameKept DEF Restart, Admitted, Requested, RunTrigger, IInv, TypeOK
<1>5. ASSUME NEW p \in Processes, Rerun(p) PROVE StepSound /\ FrameSound
    BY <1>5, RestartAtSound, FrameKept DEF Rerun, Admitted, Requested, RunTrigger, IInv, TypeOK
<1>6. CASE StopAll
    BY <1>6, StopAllSound, FrameKept DEF StopAll, Requested, Idle, IInv, TypeOK
<1>7. CASE StartAutostart
    <2>1. batch' \in BatchState
        BY <1>7, ProcessAssumption DEF StartAutostart, BatchState
    <2> QED
        BY <1>7, <2>1, NothingChanges, PlainMoves, FrameKept DEF StartAutostart, Admitted
<1>8. CASE RestartProfiledAutostart
    <2>1. batch' \in BatchState
        BY <1>8 DEF RestartProfiledAutostart, BatchState, ProfileAffected
    <2> QED
        BY <1>8, <2>1, NothingChanges, PlainMoves, FrameKept DEF RestartProfiledAutostart, Admitted
<1>9. ASSUME NEW m \in Profiles, SelectProfile(m) PROVE StepSound /\ FrameSound
    <2>1. profile' = m /\ UNCHANGED <<lifecycles, shutdown, adapter, batch>> /\ Idle
        BY <1>9 DEF SelectProfile, Requested
    <2>2. FrameSound
        BY <2>1 DEF FrameSound, Idle, IInv, TypeOK
    <2> QED
        BY <2>1, <2>2, NothingChanges, PlainMoves
<1>10. CASE BeginShutdown
    <2>1. shutdown' \in ShutdownState
        BY <1>10 DEF BeginShutdown, ShutdownState, Wave
    <2>2. UNCHANGED <<profile, batch>> /\ Idle
        BY <1>10 DEF BeginShutdown, Requested
    <2>3. ~shutdown.active
        BY <1>10 DEF BeginShutdown
    <2> QED
        BY <1>10, <2>1, <2>2, <2>3, BeginShutdownSound DEF FrameSound, Idle, IInv, TypeOK
<1> QED
    BY <1>1, <1>2, <1>3, <1>4, <1>5, <1>6, <1>7, <1>8, <1>9, <1>10 DEF Command

LEMMA EventSound ==
    ASSUME IInv, NEW p \in Processes, Event(p)
    PROVE  StepSound /\ FrameSound
<1>1. batch \in BatchState
    BY DEF IInv, TypeOK
<1>2. CASE SpawnSucceeds(p) \/ SpawnFails(p) \/ EndsByItself(p)
    BY <1>1, <1>2, AdapterOnlySound, FrameKept DEF SpawnSucceeds, SpawnFails, EndsByItself, Idle
<1>3. CASE Spawned(p)
    BY <1>1, <1>3, SpawnedSound, FrameKept DEF Spawned, Idle
<1>4. CASE EarlyLogMatch(p)
    <2>1. "Passing" \in CheckState
        BY DEF CheckState
    <2> QED
        BY <1>1, <1>4, <2>1, ReadinessSound, FrameKept DEF EarlyLogMatch, Idle
<1>5. ASSUME NEW state \in CheckState, ReadinessResult(p, state) PROVE StepSound /\ FrameSound
    BY <1>1, <1>5, ReadinessSound, FrameKept DEF ReadinessResult, Idle
<1>6. ASSUME NEW state \in CheckState, LivenessResult(p, state) PROVE StepSound /\ FrameSound
    <2>1. Idle /\ UNCHANGED <<profile, shutdown, batch>>
        BY <1>6 DEF LivenessResult
    <2> QED
        BY <1>1, <1>6, <2>1, LivenessSound, FrameKept DEF Idle
<1>7. CASE OutputFailure(p)
    BY <1>1, <1>7, OutputFailureSound, FrameKept DEF OutputFailure, Idle
<1>8. CASE FinishReport(p)
    <2>1. PICK intentional, confirmed, success \in BOOLEAN :
              Finished(p, intentional, confirmed, success)
        BY <1>8 DEF FinishReport
    <2>2. Idle /\ FinishShutdownRun(p) /\ UNCHANGED <<profile, batch>>
        BY <2>1 DEF Finished
    <2> QED
        BY <2>1, <2>2, FinishedSound, ShutdownStep
<1>9. ASSUME NEW kind \in {"Configuration", "Spawn"}, FailedReport(p, kind)
      PROVE  StepSound /\ FrameSound
    <2>1. Idle /\ UNCHANGED <<profile, batch>> /\ (FinishShutdownRun(p) \/ UNCHANGED shutdown)
        BY <1>9 DEF FailedReport
    <2> QED
        BY <1>1, <1>9, <2>1, FailedReportSound, ShutdownStep, FrameKept DEF Idle
<1> QED
    BY <1>2, <1>3, <1>4, <1>5, <1>6, <1>7, <1>8, <1>9 DEF Event

LEMMA TimerSound ==
    ASSUME IInv, Timer
    PROVE  StepSound /\ FrameSound
<1>1. batch \in BatchState
    BY DEF IInv, TypeOK
<1>2. ASSUME NEW expired \in SUBSET Processes, ReleaseTimers(expired) PROVE StepSound /\ FrameSound
    <2>1. Idle /\ UNCHANGED <<profile, shutdown, batch>>
        BY <1>2 DEF ReleaseTimers
    <2> QED
        BY <1>1, <1>2, <2>1, ReleaseTimersSound, FrameKept DEF Idle
<1>3. CASE ExpireShutdown
    <2>1. shutdown' \in ShutdownState /\ shutdown'.active = shutdown.active
        BY <1>3 DEF ExpireShutdown, ShutdownState, IInv, TypeOK
    <2>2. UNCHANGED <<profile, batch>> /\ Idle
        BY <1>3 DEF ExpireShutdown
    <2> QED
        BY <1>3, <2>1, <2>2, ExpireShutdownSound DEF FrameSound, Idle, IInv, TypeOK
<1>4. ASSUME NEW p \in Processes, StartupTimeoutFires(p) PROVE StepSound /\ FrameSound
    BY <1>1, <1>4, StartupTimeoutSound, FrameKept DEF StartupTimeoutFires, Idle
<1> QED
    BY <1>2, <1>3, <1>4 DEF Timer, RestartTimersFire

LEMMA NextSound ==
    ASSUME IInv, Next
    PROVE  StepSound /\ FrameSound
<1>1. ASSUME NEW p \in Processes, ContinueBatch(p) PROVE StepSound /\ FrameSound
    <2>1. ~shutdown.active /\ UNCHANGED <<profile, shutdown>>
        BY <1>1 DEF ContinueBatch, IInv, ClosedForGood, Idle, NoBatch
    <2>2. batch' \in BatchState
        BY <1>1 DEF ContinueBatch, NoBatch, BatchState, IInv, TypeOK
    <2> QED
        BY <1>1, <2>1, <2>2, ContinueBatchSound, FrameKept
<1> QED
    BY <1>1, CommandSound, EventSound, TimerSound DEF Next

-----------------------------------------------------------------------------
(* Theorems.                                                               *)

LEMMA InitSound == Init => IInv
<1> SUFFICES ASSUME Init
             PROVE  IInv
    OBVIOUS
<1>1. NewProcess \in ProcessState /\ NewProcess.run < NewProcess.next
    <2>1. NoTracking \in Tracking
        BY NoTrackingType
    <2> QED
        BY <2>1 DEF NewProcess, ProcessState, DesiredState, Lifecycles, CleanupPurpose, RunTrigger
<1>2. shutdown \in ShutdownState /\ ~shutdown.active /\ batch \in BatchState /\ profile \in Profiles
    BY ProfileAssumption DEF Init, ShutdownState, BatchState, NoBatch
<1>3. adapter \in [Processes -> AdapterState] /\ \A p \in Processes : adapter[p].alive = {}
    BY DEF Init, AdapterState
<1>4. TypeOK
    BY <1>1, <1>2, <1>3 DEF TypeOK, Init
<1> QED
    BY <1>2, <1>3, <1>4 DEF IInv, OneRunAlive, ClosedForGood

LEMMA StepKeepsInvariant ==
    ASSUME IInv, [Next]_vars
    PROVE  IInv'
<1>1. CASE UNCHANGED vars
    BY <1>1 DEF IInv, TypeOK, OneRunAlive, ClosedForGood, Idle, vars
<1>2. CASE Next
    <2>1. StepSound /\ FrameSound
        BY <1>2, NextSound
    <2>2. TypeOK'
        BY <2>1 DEF TypeOK, StepSound, StatesOver, Moves, Owns, FrameSound
    <2>3. OneRunAlive'
        BY <2>1 DEF OneRunAlive, StepSound, Moves, Owns
    <2>4. ClosedForGood'
        BY <2>1 DEF ClosedForGood, FrameSound, StepSound, Moves, ClosedAt, Idle, NoBatch
    <2> QED
        BY <2>2, <2>3, <2>4 DEF IInv
<1> QED
    BY <1>1, <1>2

(* The state stays typed, a Process never holds more than one owner of an  *)
(* OS process tree, and a Project whose shutdown began is closed for good, *)
(* for every Project and every adapter behaviour.                          *)
THEOREM InvariantHolds == Spec => []IInv
<1> QED
    BY InitSound, StepKeepsInvariant, PTL DEF Spec

(* TypeOK of Supervisor, in which no Run's identity is used twice.         *)
THEOREM TypeCorrectness == Spec => []TypeOK
<1>1. IInv => TypeOK
    BY DEF IInv
<1> QED
    BY <1>1, InvariantHolds, PTL

(* restart_at and apply_finished_run never let a second Run of a Process   *)
(* own an OS process tree.                                                 *)
THEOREM AtMostOneRunAlive == Spec => []OneRunAlive
<1>1. IInv => OneRunAlive
    BY DEF IInv
<1> QED
    BY <1>1, InvariantHolds, PTL

(* Once begin_shutdown was handled nothing admits another Run or makes a   *)
(* Process desired Running again.                                          *)
THEOREM ShutdownCloses == Spec => ShutdownIsFinal
<1>1. ASSUME IInv, Next, shutdown.active, NEW p \in Processes
      PROVE  lifecycles'[p].next = lifecycles[p].next /\ lifecycles'[p].desired = "Stopped"
    <2>1. Moves(lifecycles[p], adapter[p], lifecycles'[p], adapter'[p])
        BY <1>1, NextSound DEF StepSound
    <2> QED
        BY <1>1, <2>1 DEF Moves, Stays, Leaves, Begins
<1>2. IInv /\ [Next]_vars => [shutdown.active =>
          \A p \in Processes : /\ lifecycles'[p].next = lifecycles[p].next
                               /\ lifecycles'[p].desired = "Stopped"]_vars
    BY <1>1
<1> QED
    BY <1>2, InvariantHolds, PTL DEF Spec, ShutdownIsFinal

(* Every Process's Runs refine RunIdentity: identities are used in order,  *)
(* each is held until its process tree is gone, and none is admitted after *)
(* the Project shutdown began.                                             *)
THEOREM RunsRefineIdentity == Spec => RunsAreIdentified
<1>1. Init => \A p \in Processes : Identity(p)!Init
    BY DEF Init, NewProcess, Identity!Init
<1>2. ASSUME IInv, Next, NEW p \in Processes
      PROVE  Identity(p)!Next \/ UNCHANGED Identity(p)!runVars
    <2> DEFINE L == lifecycles[p]  a == adapter[p]  M == lifecycles'[p]  b == adapter'[p]
    <2>1. Moves(L, a, M, b) /\ FrameSound
        BY <1>2, NextSound DEF StepSound
    <2>2. L.run \in Nat /\ L.next \in Nat /\ L.run < L.next /\ a.alive \subseteq ({L.run} \ {0})
        BY <1>2 DEF IInv, TypeOK, OneRunAlive, ProcessState
    <2>3. shutdown.active \in BOOLEAN /\ shutdown'.active \in BOOLEAN
        BY <1>2, <2>1 DEF IInv, TypeOK, FrameSound, ShutdownState
    <2>4. CASE shutdown'.active /\ ~shutdown.active
        <3>1. ClosedAt(p)
            BY <2>1, <2>4 DEF FrameSound
        <3>2. Identity(p)!Close
            BY <2>3, <2>4, <3>1 DEF ClosedAt, Identity!Close
        <3> QED
            BY <3>2 DEF Identity!Next
    <2>5. CASE shutdown'.active = shutdown.active
        <3>1. CASE Stays(L, a, M, b)
            BY <2>5, <3>1 DEF Stays, Identity!Next, Identity!NeverSpawned, Identity!runVars
        <3>2. CASE Leaves(L, a, M, b)
            BY <2>5, <3>2 DEF Leaves, Identity!Next, Identity!Release
        <3>3. CASE Begins(L, a, M, b)
            BY <2>2, <2>5, <3>3 DEF Begins, Identity!Next, Identity!Admit
        <3> QED
            BY <2>1, <3>1, <3>2, <3>3 DEF Moves
    <2> QED
        BY <2>1, <2>3, <2>4, <2>5 DEF FrameSound
<1>3. IInv /\ [Next]_vars =>
          [\A p \in Processes : [Identity(p)!Next]_(Identity(p)!runVars)]_vars
    BY <1>2
<1> QED
    BY <1>1, <1>3, InvariantHolds, PTL DEF Spec, RunsAreIdentified

-----------------------------------------------------------------------------
(***************************************************************************)
(* The safety of the core: that no timer, budget, held Run or check moves  *)
(* a Process on outdated authority, that Runs are admitted and Profiles    *)
(* applied as they should, and that the Project shutdown has an order and  *)
(* an end.                                                                 *)
(*                                                                         *)
(* Sound says what the lifecycle and the adapter's record of one Process   *)
(* have to do with each other between two handlers.  One thing is allowed  *)
(* inside a handler only: that the lifecycle still shows RestartBackoff    *)
(* after its timer was taken (not Armed); the scheduling pass ends it.     *)
(***************************************************************************)

(* A Run is current exactly while the adapter has a place for it, it is    *)
(* the newest one, and a held one has nothing more to report.              *)
Placed(L, a) ==
    /\ L.run = 0 <=> a.phase = "none"
    /\ L.run # 0 => L.next = L.run + 1
    /\ L.unconfirmed <=> a.phase = "held"
    /\ L.unconfirmed => L.cancelled

Budgeted(p, L) == L.used <= MaxRestarts[p] /\ (L.exhausted => L.backoff = 0)

(* RestartBackoff never waits for a manual start, so a pass that finds it  *)
(* without a timer begins a Run, or shows what it waits for.               *)
Timed(L) ==
    /\ L.backoff # 0 => ValidRestartTimer(L)
    /\ L.lifecycle = "RestartBackoff" => L.run = 0 /\ L.desired = "Running" /\ ~L.awaiting

Armed(L) == L.lifecycle = "RestartBackoff" => L.backoff # 0

(* A completed Process that is required again is not restarted            *)
(* automatically: the budget has no say in it.                             *)
Completed(L) ==
    L.lifecycle = "Done" /\ L.desired = "Running" => L.pending # "AutomaticRestart"

(* Without work there is nothing to observe ...                            *)
Silent(L) ==
    L.run = 0 \/ L.cancelled => ~L.liveness.started /\ ~L.readiness.timed

(* ... and with it the observations follow one another.                    *)
Watched(L, a) ==
    L.run # 0 /\ ~L.cancelled =>
        /\ L.desired = "Running"
        /\ L.lifecycle \in {"Starting", "Running"}
        /\ L.liveness.started => L.spawned /\ L.lifecycle = "Running"
        /\ L.readiness.timed => L.lifecycle = "Starting"
        /\ ~L.spawned /\ L.lifecycle = "Running" => L.readiness.state = "Passing"
        /\ L.spawned <=> a.phase = "live"

Explained(L) ==
    L.run # 0 /\ L.purpose \in TimedOutPurposes => L.failure # NoFailure /\ L.cancelled

(* After shutdown began.                                                   *)
Closed(closed, L) == closed => L.desired = "Stopped" /\ (L.run # 0 => L.cancelled)

(* Until shutdown begins, work is cancelled only to stop the Run.          *)
Halting(closed, L) ==
    ~closed /\ L.run # 0 /\ L.cancelled /\ ~L.unconfirmed => L.lifecycle = "Stopping"

Sound(p, closed, L, a) ==
    /\ L \in ProcessState /\ a \in AdapterState
    /\ Placed(L, a) /\ Budgeted(p, L) /\ Timed(L) /\ Completed(L)
    /\ Silent(L) /\ Watched(L, a) /\ Explained(L) /\ Closed(closed, L) /\ Halting(closed, L)

Healthy ==
    /\ IInv
    /\ \A p \in Processes :
          Sound(p, shutdown.active, lifecycles[p], adapter[p]) /\ Armed(lifecycles[p])
    /\ ~shutdown.active => shutdown.remaining = {}

-----------------------------------------------------------------------------
(* The methods.                                                            *)

Asked == {"Manual", "Autostart", "Restart", "Rerun", "Dependency"}

LEMMA StartRequestSound ==
    ASSUME NEW p \in Processes, NEW L, NEW a, Sound(p, FALSE, L, a), NEW trigger \in Asked
    PROVE  /\ Sound(p, FALSE, PrepareStartRequest(L, trigger), a)
           /\ PrepareStartRequest(L, trigger).run = L.run
<1>1. L \in ProcessState /\ trigger \in RunTrigger
    BY DEF Sound, Asked, RunTrigger
<1>2. Quiet(L, PrepareStartRequest(L, trigger)) /\ MaxRestarts[p] \in Nat
    BY <1>1, PrepareStartRequestQuiet, ProcessAssumption
<1> QED
    BY <1>1, <1>2 DEF Quiet, SameRun, Sound, Placed, Budgeted, Timed, Completed, Silent, Watched,
        Explained, Halting, Closed, PrepareStartRequest, ResetBudget, ClearRestartState, RequestPurpose,
        ProcessState, ValidRestartTimer, TimedOutPurposes, Asked

LEMMA RestartRequestSound ==
    ASSUME NEW p \in Processes, NEW L, NEW a, Sound(p, FALSE, L, a), NEW trigger \in Asked
    PROVE  /\ Sound(p, FALSE, PrepareRestartRequest(L, trigger), a)
           /\ PrepareRestartRequest(L, trigger).run = L.run
<1>1. L \in ProcessState /\ trigger \in RunTrigger
    BY DEF Sound, Asked, RunTrigger
<1>2. Quiet(L, PrepareRestartRequest(L, trigger)) /\ MaxRestarts[p] \in Nat
    BY <1>1, PrepareRestartRequestQuiet, ProcessAssumption
<1> QED
    BY <1>1, <1>2 DEF Quiet, SameRun, Sound, Placed, Budgeted, Timed, Completed, Silent, Watched,
        Explained, Halting, Closed, PrepareRestartRequest, ResetBudget, ClearRestartState, RequestPurpose,
        ProcessState, ValidRestartTimer, TimedOutPurposes, Asked

LEMMA RequireRunningSound ==
    ASSUME NEW p \in Processes, NEW L, NEW a, Sound(p, FALSE, L, a), NEW trigger \in Asked
    PROVE  /\ Sound(p, FALSE, RequireRunning(L, trigger), a)
           /\ RequireRunning(L, trigger).run = L.run
<1>1. L \in ProcessState /\ trigger \in RunTrigger
    BY DEF Sound, Asked, RunTrigger
<1>2. SameRun(L, RequireRunning(L, trigger))
    BY <1>1, RequireRunningKeepsRun
<1> QED
    BY <1>1, <1>2 DEF SameRun, Sound, Placed, Budgeted, Timed, Completed, Silent, Watched,
        Explained, Halting, Closed, RequireRunning, ProcessState, ValidRestartTimer, Asked

LEMMA ReplacementSound ==
    ASSUME NEW p \in Processes, NEW L, NEW a, Sound(p, FALSE, L, a), CanReplace(L)
    PROVE  /\ Sound(p, FALSE, BeginReplacementCleanup(L), a)
           /\ BeginReplacementCleanup(L).run = L.run
<1>1. L \in ProcessState /\ Quiet(L, BeginReplacementCleanup(L))
    BY BeginReplacementCleanupQuiet DEF Sound
<1> QED
    BY <1>1 DEF Quiet, SameRun, Sound, Placed, Budgeted, Timed, Completed, Silent, Watched,
        Explained, Halting, Closed, BeginReplacementCleanup, CancelRunWork, CanReplace, NoTracking,
        ProcessState, ValidRestartTimer

LEMMA RequestStopSound ==
    ASSUME NEW p \in Processes, NEW closed, NEW L, NEW a, Sound(p, closed, L, a), Armed(L)
    PROVE  /\ Sound(p, closed, RequestStop(L), a) /\ Armed(RequestStop(L))
           /\ RequestStop(L).run = L.run
<1>1. L \in ProcessState /\ Quiet(L, RequestStop(L))
    BY RequestStopQuiet DEF Sound
<1>2. Halting(closed, RequestStop(L))
    BY <1>1 DEF Sound, Halting, RequestStop, RetryCleanup, CancelRunWork, StopNeedsCleanup,
        ReplacementPending, ClearRestartState, ProcessState, Timed, ValidRestartTimer
<1>3. CASE L.unconfirmed
    BY ZenonT(40), <1>1, <1>2, <1>3 DEF Quiet, SameRun, Sound, Placed, Budgeted, Timed, Completed, Silent,
        Watched, Explained, Closed, Armed, RequestStop, RetryCleanup, CancelRunWork,
        StopNeedsCleanup, ReplacementPending, SuppressAutomaticRestart, ClearRestartState,
        NoTracking, ProcessState, ValidRestartTimer, TimedOutPurposes, ShutdownPurposes
<1>4. CASE ~L.unconfirmed /\ L.backoff # 0
    BY <1>1, <1>2, <1>4 DEF Quiet, SameRun, Sound, Placed, Budgeted, Timed, Completed, Silent,
        Watched, Explained, Closed, Armed, RequestStop, RetryCleanup, CancelRunWork,
        StopNeedsCleanup, ReplacementPending, SuppressAutomaticRestart, ClearRestartState,
        NoTracking, ProcessState, ValidRestartTimer, TimedOutPurposes, ShutdownPurposes
<1>5. CASE ~L.unconfirmed /\ L.backoff = 0 /\ StopNeedsCleanup(L)
    <2>1. L.run # 0 /\ L.lifecycle # "Stopping"
        BY <1>5 DEF StopNeedsCleanup
    <2>2. RequestStop(L) =
              [L EXCEPT !.desired = "Stopped", !.lifecycle = "Stopping", !.purpose = "ManualStop",
                        !.cancelled = TRUE, !.readiness = NoTracking, !.liveness = NoTracking,
                        !.spawned = FALSE]
        BY <1>1, <1>5, <2>1 DEF RequestStop, CancelRunWork, ProcessState
    <2> QED
        BY <1>1, <1>2, <1>5, <2>1, <2>2 DEF Quiet, SameRun, Sound, Placed, Budgeted, Timed,
            Completed, Silent, Watched, Explained, Closed, Armed, NoTracking, ProcessState,
            ValidRestartTimer, TimedOutPurposes
<1>6. CASE ~L.unconfirmed /\ L.backoff = 0 /\ ~StopNeedsCleanup(L)
    <2>2. CASE L.run # 0 /\ L.lifecycle = "Stopping"
        <3>1. RequestStop(L) =
                  [L EXCEPT !.desired = "Stopped", !.purpose = SuppressAutomaticRestart(L.purpose)]
            BY <1>1, <1>6, <2>2 DEF RequestStop
        <3> QED
            BY <1>1, <1>2, <1>6, <2>2, <3>1 DEF Quiet, SameRun, Sound, Placed, Budgeted, Timed,
                Completed, Silent, Watched, Explained, Closed, Armed, SuppressAutomaticRestart,
                ProcessState, ValidRestartTimer, TimedOutPurposes, ShutdownPurposes
    <2>3. CASE L.run = 0
        <3>1. RequestStop(L) \in {L, [L EXCEPT !.desired = "Stopped", !.lifecycle = "Stopped"]}
            BY <1>6, <2>3 DEF RequestStop
        <3> QED
            BY <1>1, <1>2, <1>6, <2>3, <3>1 DEF Quiet, SameRun, Sound, Placed, Budgeted, Timed,
                Completed, Silent, Watched, Explained, Closed, Armed, ProcessState,
                ValidRestartTimer
    <2>4. CASE L.run # 0 /\ L.lifecycle # "Stopping"
        BY <1>6, <2>4 DEF RequestStop
    <2> QED
        BY <2>2, <2>3, <2>4
<1> QED
    BY <1>3, <1>4, <1>5, <1>6

LEMMA StartAnywayRequestSound ==
    ASSUME NEW p \in Processes, NEW L, NEW a, Sound(p, FALSE, L, a), CanStartAnyway(L)
    PROVE  /\ Sound(p, FALSE, PrepareStartAnyway(L), a)
           /\ PrepareStartAnyway(L).run = L.run
           /\ PrepareStartAnyway(L).pending = "StartAnyway"
<1>1. L \in ProcessState /\ Quiet(L, PrepareStartAnyway(L)) /\ MaxRestarts[p] \in Nat
    BY PrepareStartAnywayQuiet, ProcessAssumption DEF Sound
<1> QED
    BY <1>1 DEF Quiet, SameRun, Sound, Placed, Budgeted, Timed, Completed, Silent, Watched,
        Explained, Halting, Closed, PrepareStartAnyway, ResetBudget, ClearRestartState,
        CanStartAnyway, ProcessState, ValidRestartTimer

LEMMA BeginProjectShutdownSound ==
    ASSUME NEW p \in Processes, NEW L, NEW a, Sound(p, FALSE, L, a), Armed(L)
    PROVE  /\ Sound(p, TRUE, BeginProjectShutdown(L), a) /\ Armed(BeginProjectShutdown(L))
           /\ BeginProjectShutdown(L).run = L.run
<1>1. L \in ProcessState /\ Quiet(L, BeginProjectShutdown(L))
    BY BeginProjectShutdownStops DEF Sound
<1> QED
    BY <1>1 DEF Quiet, SameRun, Sound, Placed, Budgeted, Timed, Completed, Silent, Watched,
        Explained, Halting, Closed, Armed, BeginProjectShutdown, CancelRunWork, ShutdownPurpose, NoTracking,
        ProcessState, ValidRestartTimer, TimedOutPurposes, UnhealthyPurposes

LEMMA ShutdownCleanupSound ==
    ASSUME NEW p \in Processes, NEW L, NEW a, Sound(p, TRUE, L, a)
    PROVE  /\ Sound(p, TRUE, BeginShutdownCleanup(L), a) /\ Armed(BeginShutdownCleanup(L))
           /\ BeginShutdownCleanup(L).run = L.run
<1>1. L \in ProcessState /\ Quiet(L, BeginShutdownCleanup(L))
    BY BeginShutdownCleanupQuiet DEF Sound
<1> QED
    BY <1>1 DEF Quiet, SameRun, Sound, Placed, Budgeted, Timed, Completed, Silent, Watched,
        Explained, Halting, Closed, Armed, BeginShutdownCleanup, ProcessState, ValidRestartTimer

LEMMA ContactedSound ==
    ASSUME NEW p \in Processes, NEW closed, NEW L, NEW a, Sound(p, closed, L, a)
    PROVE  Sound(p, closed, L, Contacted(a))
<1>1. a \in AdapterState /\ Contacted(a) \in AdapterState /\ Contacted(a).phase = a.phase
    BY ContactedType DEF Sound, Contacted, AdapterState
<1> QED
    BY <1>1 DEF Sound, Placed, Watched

(* A pass begins a Run, shows what a Process waits for, or gives up.       *)
LEMMA WaitSound ==
    ASSUME NEW p \in Processes, NEW closed, NEW L, NEW a, Sound(p, closed, L, a)
    PROVE  /\ Sound(p, closed, WaitForDependency(L), a) /\ Armed(WaitForDependency(L))
           /\ WaitForDependency(L).run = L.run
<1>1. L \in ProcessState /\ Quiet(L, WaitForDependency(L))
    BY WaitForDependencyQuiet DEF Sound
<1> QED
    BY <1>1 DEF Quiet, SameRun, Sound, Placed, Budgeted, Timed, Completed, Silent, Watched,
        Explained, Halting, Closed, Armed, WaitForDependency, ProcessState, ValidRestartTimer

LEMMA AdmitSound ==
    ASSUME NEW p \in Processes, NEW L, NEW a, NEW M, profile \in Profiles,
           Sound(p, FALSE, L, a), CanStart(L),
           \/ M = L
           \/ L.pending = "AutomaticRestart" /\ HasRemaining(L, MaxRestarts[p])
              /\ M = [L EXCEPT !.used = @ + 1]
    PROVE  /\ Sound(p, FALSE, AdmitRun(M, p), Reserved(a, AdmitRun(M, p).run))
           /\ Armed(AdmitRun(M, p))
           /\ AdmitRun(M, p).run # 0
<1>1. L \in ProcessState /\ a \in AdapterState /\ MaxRestarts[p] \in Nat
    BY ProcessAssumption DEF Sound
<1>2. M \in ProcessState /\ M = [L EXCEPT !.used = M.used]
    BY <1>1 DEF ProcessState
<1>3. /\ AdmitRun(M, p) \in ProcessState
      /\ AdmitRun(M, p).run = M.next /\ M.next \in Nat \ {0}
      /\ AdmitRun(M, p).next = M.next + 1
    BY <1>2, AdmitRunTakesNext DEF ProcessState
<1>4. /\ Reserved(a, AdmitRun(M, p).run) \in AdapterState
      /\ Reserved(a, AdmitRun(M, p).run).phase = "spawning"
    BY <1>1, <1>3, ReservedType DEF Reserved, AdapterState
<1>5. EarlyReadiness(p).timed = FALSE /\ InactiveLiveness(p).started = FALSE
    BY DEF EarlyReadiness, InactiveLiveness, PendingTracking, NoTracking
<1>6. M.used <= MaxRestarts[p]
    BY <1>1 DEF Sound, Budgeted, HasRemaining, ProcessState
<1>7. Budgeted(p, AdmitRun(M, p))
    BY <1>1, <1>2, <1>6 DEF Sound, Budgeted, AdmitRun, BeginRun, ClearRestartState, ProcessState
<1>8. /\ AdmitRun(M, p).lifecycle = "Starting" /\ AdmitRun(M, p).purpose = "Ordinary"
      /\ AdmitRun(M, p).desired = L.desired /\ AdmitRun(M, p).unconfirmed = L.unconfirmed
      /\ ~AdmitRun(M, p).cancelled /\ ~AdmitRun(M, p).spawned
      /\ AdmitRun(M, p).backoff = 0
      /\ ~AdmitRun(M, p).readiness.timed /\ ~AdmitRun(M, p).liveness.started
    BY <1>1, <1>2, <1>5 DEF AdmitRun, BeginRun, ClearRestartState, ProcessState
<1> DEFINE R == AdmitRun(M, p)
<1> HIDE DEF R
<1>9. ~L.unconfirmed /\ L.desired = "Running"
    BY <1>1 DEF Sound, Placed, CanStart
<1> QED
    BY <1>3, <1>4, <1>7, <1>8, <1>9 DEF Sound, Placed, Timed, Completed, Silent,
        Watched, Explained, Halting, Closed, Armed, TimedOutPurposes, R

LEMMA ExhaustSound ==
    ASSUME NEW p \in Processes, NEW L, NEW a, Sound(p, FALSE, L, a), L.run = 0
    PROVE  /\ Sound(p, FALSE, ExhaustRestartBudget(L), a) /\ Armed(ExhaustRestartBudget(L))
           /\ ExhaustRestartBudget(L).run = L.run
<1>1. L \in ProcessState /\ ExhaustRestartBudget(L) \in ProcessState
    BY ZenonT(40) DEF Sound, ExhaustRestartBudget, ProcessState, DesiredState, Lifecycles, FailureKind,
        CleanupPurpose
<1> QED
    BY <1>1 DEF Sound, Placed, Budgeted, Timed, Completed, Silent, Watched, Explained, Halting, Closed,
        Armed, ExhaustRestartBudget, ProcessState, ValidRestartTimer, TimedOutPurposes

(* What the pass makes of one Process.                                     *)
Served(M, b, R) == IF R.run # M.run THEN Reserved(b, R.run) ELSE b

LEMMA PassSound ==
    ASSUME NEW p \in Processes, NEW closed \in BOOLEAN, NEW L, NEW a, profile \in Profiles,
           Sound(p, closed, L, a),
           NEW R \in {WaitForDependency(L), BeginDesiredRun(L, p)}
    PROVE  Sound(p, closed, R, Served(L, a, R)) /\ Armed(R)
<1>1. CASE R = WaitForDependency(L)
    BY <1>1, WaitSound DEF Served
<1>2. CASE R = BeginDesiredRun(L, p) /\ ~CanStart(L)
    <2>1. R = L
        BY <1>2 DEF BeginDesiredRun
    <2> QED
        BY <2>1, <1>2 DEF Served, Armed, Sound, Timed, CanStart
<1>3. CASE R = BeginDesiredRun(L, p) /\ CanStart(L)
    <2>1. L.run = 0 /\ closed = FALSE
        BY <1>3 DEF Sound, Closed, CanStart
    <2>2. \/ R = AdmitRun(L, p)
          \/ /\ R = AdmitRun([L EXCEPT !.used = @ + 1], p)
             /\ L.pending = "AutomaticRestart" /\ HasRemaining(L, MaxRestarts[p])
          \/ R = ExhaustRestartBudget(L)
        BY <1>3 DEF BeginDesiredRun
    <2>3. CASE R = AdmitRun(L, p)
        BY <1>3, <2>1, <2>3, AdmitSound DEF Served
    <2>4. CASE /\ R = AdmitRun([L EXCEPT !.used = @ + 1], p)
               /\ L.pending = "AutomaticRestart" /\ HasRemaining(L, MaxRestarts[p])
        BY <1>3, <2>1, <2>4, AdmitSound DEF Served
    <2>5. CASE R = ExhaustRestartBudget(L)
        BY <2>1, <2>5, ExhaustSound DEF Served
    <2> QED
        BY <2>2, <2>3, <2>4, <2>5
<1> QED
    BY <1>1, <1>2, <1>3

(* The observations of a Run.                                              *)
LEMMA ApplySpawnedSound ==
    ASSUME NEW p \in Processes, NEW closed, NEW L, NEW a, NEW b, Sound(p, closed, L, a),
           a.phase = "early", b = [a EXCEPT !.phase = "live"]
    PROVE  /\ Observed(L) => /\ Sound(p, closed, ApplySpawned(L, p), b)
                             /\ ApplySpawned(L, p).run = L.run
           /\ ~Observed(L) => Sound(p, closed, L, b)
<1>1. L \in ProcessState /\ Quiet(L, ApplySpawned(L, p)) /\ a \in AdapterState
    BY ApplySpawnedQuiet DEF Sound
<1>2. b \in AdapterState /\ b.phase = "live"
    BY <1>1 DEF AdapterState
<1>3. ASSUME Observed(L) PROVE Sound(p, closed, ApplySpawned(L, p), b)
    <2> DEFINE t == SpawnTracking(L, p)
               R == ApplySpawned(L, p)
    <2>1. /\ L.run # 0 /\ ~L.cancelled /\ ~L.spawned /\ L.backoff = 0 /\ ~L.unconfirmed
          /\ L.lifecycle \in {"Starting", "Running"} /\ ~L.liveness.started
          /\ L.lifecycle = "Running" => L.readiness.state = "Passing"
        BY <1>1, <1>3 DEF Sound, Placed, Timed, Watched, Observed, ProcessState, Tracking, ValidRestartTimer
    <2>2. /\ t \in Tracking
          /\ t.timed => t # NoTracking
          /\ t.timed => L.readiness.state # "Passing"
        <3> DEFINE state == IF L.readiness = NoTracking THEN "Pending" ELSE L.readiness.state
        <3>1. StartupTimeout[p] \in BOOLEAN /\ state \in CheckState \cup {"None"}
            BY <1>1, ProcessAssumption DEF ProcessState, Tracking, CheckState
        <3>2. L.readiness.state = "Passing" => state = "Passing"
            BY <1>1 DEF NoTracking, ProcessState, Tracking
        <3>3. t = IF Readiness[p] = "None" THEN NoTracking
                  ELSE [state |-> state, started |-> TRUE,
                        timed |-> StartupTimeout[p] /\ state # "Passing"]
            BY DEF SpawnTracking
        <3> HIDE DEF t, state
        <3> QED
            BY <3>1, <3>2, <3>3, NoTrackingType DEF NoTracking, Tracking
    <2> HIDE DEF t
    <2>3. R = LET S == RecordSpawn(L, t)
              IN  IF S.lifecycle = "Running" /\ S.readiness.state \in {"None", "Passing"}
                  THEN ActivateLiveness(S) ELSE S
        BY DEF ApplySpawned, t
    <2> DEFINE S == RecordSpawn(L, t)
    <2>4. /\ S.spawned /\ S.readiness = t /\ S.cancelled = L.cancelled
          /\ S.lifecycle = IF L.lifecycle = "Starting" /\ t = NoTracking
                           THEN "Running" ELSE L.lifecycle
          /\ S.liveness = L.liveness
          /\ S.desired = L.desired /\ S.unconfirmed = L.unconfirmed /\ S.backoff = L.backoff
          /\ S.used = L.used /\ S.exhausted = L.exhausted /\ S.run = L.run /\ S.next = L.next
          /\ S.purpose = L.purpose /\ S.failure = L.failure
        BY <1>1 DEF RecordSpawn, ProcessState
    <2>7. /\ R = S \/ (S.lifecycle = "Running" /\ R = [S EXCEPT !.liveness.started = TRUE])
          /\ S \in ProcessState
        BY <2>2, <2>3, <1>1, RecordSpawnQuiet DEF ActivateLiveness, Quiet, SameRun
    <2>8. /\ R.liveness.started => S.liveness.started \/ S.lifecycle = "Running"
          /\ R.spawned = S.spawned /\ R.readiness = S.readiness /\ R.cancelled = S.cancelled
          /\ R.lifecycle = S.lifecycle /\ R.pending = S.pending
          /\ R.desired = S.desired /\ R.unconfirmed = S.unconfirmed /\ R.backoff = S.backoff
          /\ R.used = S.used /\ R.exhausted = S.exhausted /\ R.run = S.run /\ R.next = S.next
          /\ R.purpose = S.purpose /\ R.failure = S.failure
        BY <2>7 DEF ProcessState
    <2>5. R \in ProcessState
        BY <1>1 DEF Quiet, SameRun
    <2> HIDE DEF R
    <2> HIDE DEF S
    <2>6. Sound(p, closed, R, b)
        BY <1>1, <1>2, <2>1, <2>2, <2>4, <2>5, <2>8 DEF Sound, Placed, Budgeted, Timed, Completed, Silent,
            Watched, Explained, Halting, Closed
    <2> QED
        BY <2>6 DEF R
<1>4. ASSUME ~Observed(L) PROVE Sound(p, closed, L, b)
    BY <1>1, <1>2, <1>4 DEF Sound, Placed, Watched, Observed
<1> QED
    BY <1>1, <1>3, <1>4 DEF Quiet, SameRun

LEMMA ApplyReadinessSound ==
    ASSUME NEW p \in Processes, NEW closed, NEW L, NEW a, NEW state \in CheckState,
           Sound(p, closed, L, a), Observed(L), L.run # 0,
           a.phase = "live" \/ state = "Passing"
    PROVE  /\ Sound(p, closed, ApplyReadiness(L, state), a)
           /\ ApplyReadiness(L, state).run = L.run
<1>1. L \in ProcessState /\ Quiet(L, ApplyReadiness(L, state))
    BY ApplyReadinessQuiet DEF Sound
<1> DEFINE R == ApplyReadiness(L, state)
<1>2. /\ R.run = L.run /\ R.next = L.next /\ R.unconfirmed = L.unconfirmed
      /\ R.cancelled = L.cancelled /\ R.used = L.used /\ R.exhausted = L.exhausted
      /\ R.backoff = L.backoff /\ R.desired = L.desired /\ R.pending = L.pending
      /\ R.purpose = L.purpose /\ R.failure = L.failure /\ R.spawned = L.spawned
      /\ R.awaiting = L.awaiting
    BY <1>1 DEF ApplyReadiness, BecomeReady, PromoteReady, ActivateLiveness, ProcessState, Tracking
<1>3. CASE state # "Passing"
    <2>1. /\ R.lifecycle = L.lifecycle /\ R.liveness = L.liveness
          /\ R.readiness.timed = L.readiness.timed
        BY <1>1, <1>3 DEF ApplyReadiness, ProcessState, Tracking
    <2> HIDE DEF R
    <2>2. Sound(p, closed, R, a)
        BY <1>1, <1>2, <1>3, <2>1 DEF Sound, Placed, Budgeted, Timed, Completed, Silent, Watched,
            Explained, Halting, Closed, ValidRestartTimer, Observed, Quiet, SameRun, R
    <2> QED
        BY <1>2, <2>2 DEF R
<1>4. CASE state = "Passing"
    <2>1. /\ R.lifecycle = IF L.lifecycle = "Starting" THEN "Running" ELSE L.lifecycle
          /\ R.readiness.timed = FALSE /\ R.readiness.state = "Passing"
          /\ R.liveness.started => L.liveness.started \/ L.spawned
        BY <1>1, <1>4 DEF ApplyReadiness, BecomeReady, PromoteReady, ActivateLiveness, ProcessState,
            Tracking
    <2>2. R \in ProcessState
        BY <1>1 DEF Quiet, SameRun
    <2> HIDE DEF R
    <2>3. Sound(p, closed, R, a)
        BY <1>1, <1>2, <1>4, <2>1, <2>2 DEF Sound, Placed, Budgeted, Timed, Completed, Silent,
            Watched, Explained, Halting, Closed, ValidRestartTimer, Observed
    <2> QED
        BY <1>2, <2>3 DEF R
<1> QED
    BY <1>3, <1>4

LEMMA ApplyLivenessSound ==
    ASSUME NEW p \in Processes, NEW closed, NEW L, NEW a, NEW state \in CheckState,
           Sound(p, closed, L, a), Observed(L), L.run # 0,
           NEW restart \in BOOLEAN,
           NEW M, M = [L EXCEPT !.liveness.state = state],
           NEW R \in {M, RecoverLiveness(M), FailLiveness(M, restart)}
    PROVE  Sound(p, closed, R, a) /\ R.run = L.run
<1>1. L \in ProcessState
    BY DEF Sound
<1>2. M \in ProcessState
    BY <1>1 DEF ProcessState, Tracking
<1>3. R \in ProcessState
    BY <1>2, FailLivenessQuiet, RecoverLivenessQuiet DEF Quiet, SameRun
<1>4. Sound(p, closed, M, a)
    BY <1>1, <1>2 DEF Sound, Placed, Budgeted, Timed, Completed, Silent,
        Watched, Explained, Halting, Closed, ProcessState, Tracking, ValidRestartTimer
<1>5. Observed(M) /\ M.run # 0 /\ M.run = L.run
    BY <1>1 DEF Observed, ProcessState
<1> HIDE DEF Sound
<1>6. CASE R = M
    BY <1>4, <1>6, <1>5
<1>7. CASE R = RecoverLiveness(M) \/ R = FailLiveness(M, FALSE)
    <2>1. PICK failure : R = [M EXCEPT !.failure = failure]
        BY <1>7 DEF RecoverLiveness, FailLiveness
    <2>2. ~M.cancelled
        BY <1>5 DEF Observed
    <2> QED
        BY <1>2, <1>3, <1>4, <1>5, <2>1, <2>2 DEF Sound, Placed, Budgeted, Timed, Completed, Silent,
            Watched, Explained, Halting, Closed, ProcessState, ValidRestartTimer
<1>8. CASE R = FailLiveness(M, TRUE)
    <2>1. /\ R.run = M.run /\ R.next = M.next /\ R.cancelled /\ R.lifecycle = "Stopping"
          /\ R.readiness = NoTracking /\ R.liveness = NoTracking /\ R.desired = "Stopped"
          /\ R.purpose = "UnhealthyReplacement" /\ R.backoff = M.backoff
          /\ R.unconfirmed = M.unconfirmed /\ R.used = M.used /\ R.exhausted = M.exhausted
        BY <1>2, <1>5, <1>8 DEF FailLiveness, CancelRunWork, ProcessState
    <2>2. M.backoff = 0
        BY <1>4, <1>5 DEF Sound, Timed, ValidRestartTimer
    <2> QED
        BY <1>2, <1>3, <1>4, <1>5, <2>1, <2>2 DEF Sound, Placed, Budgeted, Timed, Completed, Silent,
            Watched, Explained, Halting, Closed, NoTracking, TimedOutPurposes
<1> QED
    BY <1>6, <1>7, <1>8

LEMMA RecordOutputFailureSound ==
    ASSUME NEW p \in Processes, NEW closed, NEW L, NEW a, Sound(p, closed, L, a), Armed(L)
    PROVE  /\ Sound(p, closed, RecordOutputFailure(L), a) /\ Armed(RecordOutputFailure(L))
           /\ RecordOutputFailure(L).run = L.run
<1>1. L \in ProcessState /\ Quiet(L, RecordOutputFailure(L))
    BY RecordOutputFailureQuiet DEF Sound
<1> QED
    BY <1>1 DEF Quiet, SameRun, Sound, Placed, Budgeted, Timed, Completed, Silent, Armed,
        Watched, Explained, Halting, Closed, RecordOutputFailure, NoFailure, ProcessState, ValidRestartTimer

LEMMA TimeoutStartupSound ==
    ASSUME NEW p \in Processes, NEW closed, NEW L, NEW a, Sound(p, closed, L, a), Armed(L),
           L.run # 0, L.readiness.timed
    PROVE  /\ Sound(p, closed, TimeoutStartup(L), a) /\ Armed(TimeoutStartup(L))
           /\ TimeoutStartup(L).run = L.run
<1>1. L \in ProcessState /\ Quiet(L, TimeoutStartup(L))
    BY TimeoutStartupQuiet DEF Sound
<1> QED
    BY <1>1 DEF Quiet, SameRun, Sound, Placed, Budgeted, Timed, Completed, Silent, Armed,
        Watched, Explained, Halting, Closed, TimeoutStartup, CancelRunWork, NoFailure, NoTracking,
        ProcessState, ValidRestartTimer, TimedOutPurposes

LEMMA ReleaseBackoffSound ==
    ASSUME NEW p \in Processes, NEW closed, NEW L, NEW a, Sound(p, closed, L, a),
           ValidRestartTimer(L)
    PROVE  /\ Sound(p, closed, ReleaseRestartBackoff(L), a)
           /\ ReleaseRestartBackoff(L).run = L.run
<1>1. L \in ProcessState /\ Quiet(L, ReleaseRestartBackoff(L))
    BY ReleaseRestartBackoffQuiet DEF Sound
<1> QED
    BY <1>1 DEF Quiet, SameRun, Sound, Placed, Budgeted, Timed, Completed, Silent,
        Watched, Explained, Halting, Closed, ReleaseRestartBackoff, ProcessState, ValidRestartTimer

(* The end of a Run.  It arms a timer only for a Run that may be followed  *)
(* by an automatic restart.                                                *)
LEMMA FinalizedSound ==
    ASSUME NEW p \in Processes, NEW closed, NEW L, NEW a, NEW M, NEW restart \in BOOLEAN,
           Sound(p, closed, L, a), L.run # 0,
           M \in ProcessState, M.run = L.run, M.next = L.next, M.backoff = 0,
           M.used = L.used, M.exhausted = L.exhausted,
           restart => ~closed, closed => M.desired = "Stopped",
           M.lifecycle = "Done" /\ M.desired = "Running" => M.pending # "AutomaticRestart"
    PROVE  /\ Sound(p, closed, Finalized(M, p, restart), Released(a, L.run))
           /\ ~restart => Finalized(M, p, restart).backoff = 0
<1>1. L \in ProcessState /\ a \in AdapterState /\ MaxRestarts[p] \in Nat /\ L.run \in Nat
    BY ProcessAssumption DEF Sound, ProcessState
<1>2. /\ Finalized(M, p, restart) \in ProcessState
      /\ Finalized(M, p, restart).run = 0 /\ Finalized(M, p, restart).next = L.next
    BY <1>1, FinalizedReleases
<1>3. Released(a, L.run) \in AdapterState /\ Released(a, L.run).phase = "none"
    BY <1>1, ReleasedType DEF Released, AdapterState
<1>4. FinishConfirmedRun(M) \in ProcessState
    BY FinishConfirmedRunReleases
<1>5. L.next = L.run + 1 /\ L.used <= MaxRestarts[p]
    BY DEF Sound, Placed, Budgeted
<1>6. /\ FinishConfirmedRun(M).unconfirmed = FALSE /\ FinishConfirmedRun(M).purpose = "Ordinary"
      /\ FinishConfirmedRun(M).lifecycle \in {"Done", "Stopped"}
      /\ FinishConfirmedRun(M).lifecycle = "Done" => M.lifecycle = "Done"
      /\ FinishConfirmedRun(M).desired = M.desired /\ FinishConfirmedRun(M).pending = M.pending
      /\ FinishConfirmedRun(M).backoff = 0 /\ FinishConfirmedRun(M).used = L.used
      /\ FinishConfirmedRun(M).exhausted = L.exhausted
      /\ FinishConfirmedRun(M).readiness.timed = FALSE /\ FinishConfirmedRun(M).liveness.started = FALSE
      /\ FinishConfirmedRun(M).next = L.next /\ FinishConfirmedRun(M).run = 0
    BY DEF FinishConfirmedRun, ProcessState, NoTracking
<1> DEFINE F == FinishConfirmedRun(M)
<1> HIDE DEF F
<1>7. Finalized(M, p, restart) =
          IF ~restart THEN F
          ELSE IF HasRemaining(F, MaxRestarts[p])
               THEN WaitForAutomaticRestart(F, L.run) ELSE ExhaustRestartBudget(F)
    BY DEF Finalized, ScheduleAutomaticRestart, F
<1>8. F \in ProcessState /\ F.unconfirmed = FALSE /\ F.purpose = "Ordinary"
      /\ F.lifecycle \in {"Done", "Stopped"} /\ (F.lifecycle = "Done" => M.lifecycle = "Done")
      /\ F.desired = M.desired /\ F.pending = M.pending /\ F.backoff = 0
      /\ F.used = L.used /\ F.exhausted = L.exhausted
      /\ F.readiness.timed = FALSE /\ F.liveness.started = FALSE
      /\ F.next = L.next /\ F.run = 0
    BY <1>4, <1>6 DEF F
<1>9. L.exhausted => L.backoff = 0
    BY DEF Sound, Budgeted
<1> QED
    BY <1>1, <1>2, <1>3, <1>5, <1>7, <1>8 DEF Sound, Placed, Budgeted, Timed, Completed, Silent,
        Watched, Explained, Halting, Closed, WaitForAutomaticRestart, ExhaustRestartBudget, HasRemaining,
        ProcessState, ValidRestartTimer, TimedOutPurposes

Report(L, p, intentional, success) ==
    IF ~intentional /\ L.purpose \notin TimedOutPurposes
    THEN ObserveExit(CancelRunWork(L), p, success) ELSE CancelRunWork(L)

LEMMA ReportFields ==
    ASSUME NEW p \in Processes, NEW closed, NEW L, NEW a, Sound(p, closed, L, a), L.run # 0,
           NEW intentional \in BOOLEAN, NEW success \in BOOLEAN,
           NEW M, M = Report(L, p, intentional, success)
    PROVE  /\ M \in ProcessState
           /\ M.run = L.run /\ M.next = L.next /\ M.backoff = 0 /\ M.cancelled
           /\ M.used = L.used /\ M.exhausted = L.exhausted /\ M.purpose = L.purpose
           /\ M.unconfirmed = L.unconfirmed /\ M.pending = L.pending
           /\ M.purpose \in TimedOutPurposes => M.failure = L.failure
           /\ M.desired \in {L.desired, "Stopped"}
           /\ M.lifecycle \in {L.lifecycle, "Done", "Stopped"}
           /\ M.lifecycle = "Done" /\ M.desired = "Running" => M.pending # "AutomaticRestart"
<1>1. L \in ProcessState /\ CancelRunWork(L) \in ProcessState
    BY CancelRunWorkQuiet DEF Sound, Quiet, SameRun
<1>2. ObserveExit(CancelRunWork(L), p, success) \in ProcessState
    BY <1>1, CompleteOneShotQuiet, ObserveServiceExitQuiet DEF ObserveExit, Quiet, SameRun
<1>3. L.backoff = 0 /\ (L.lifecycle = "Done" /\ L.desired = "Running" => L.pending # "AutomaticRestart")
    BY DEF Sound, Timed, ValidRestartTimer, Completed
<1>4. M \in ProcessState
    BY <1>1, <1>2 DEF Report
<1>5. M \in {CancelRunWork(L), CompleteOneShot(CancelRunWork(L), success),
             ObserveServiceExit(CancelRunWork(L))}
      /\ (L.purpose \in TimedOutPurposes => M = CancelRunWork(L))
    BY DEF Report, ObserveExit
<1>6. CancelRunWork(L) = [L EXCEPT !.cancelled = TRUE, !.readiness = NoTracking,
                                   !.liveness = NoTracking, !.spawned = FALSE]
    BY DEF CancelRunWork
<1> DEFINE C == CancelRunWork(L)
<1>7. /\ C.run = L.run /\ C.next = L.next /\ C.backoff = 0 /\ C.cancelled
      /\ C.used = L.used /\ C.exhausted = L.exhausted /\ C.purpose = L.purpose
      /\ C.unconfirmed = L.unconfirmed /\ C.pending = L.pending /\ C.failure = L.failure
      /\ C.desired = L.desired /\ C.lifecycle = L.lifecycle
    BY <1>1, <1>3, <1>6 DEF ProcessState
<1>8. C \in ProcessState
    BY <1>1
<1> HIDE DEF C
<1>9. M \in {C, CompleteOneShot(C, success), ObserveServiceExit(C)}
      /\ (L.purpose \in TimedOutPurposes => M = C)
    BY <1>5 DEF C
<1>10. CASE M = C
    BY <1>3, <1>4, <1>7, <1>10
<1>11. CASE M = CompleteOneShot(C, success) /\ L.purpose \notin TimedOutPurposes
    BY <1>4, <1>7, <1>8, <1>11 DEF CompleteOneShot, ProcessState
<1>12. CASE M = ObserveServiceExit(C) /\ L.purpose \notin TimedOutPurposes
    BY <1>3, <1>4, <1>7, <1>8, <1>12 DEF ObserveServiceExit, ProcessState
<1> QED
    BY <1>9, <1>10, <1>11, <1>12

LEMMA ApplyFinishedSound ==
    ASSUME NEW p \in Processes, NEW L, NEW a, Sound(p, shutdown.active, L, a), L.run # 0,
           NEW intentional \in BOOLEAN, NEW confirmed \in BOOLEAN, NEW success \in BOOLEAN,
           NEW R, R = ApplyFinished(L, p, intentional, confirmed, success)
    PROVE  /\ confirmed => /\ Sound(p, shutdown.active, R, Released(a, L.run))
                           /\ R.run = 0 /\ R.next = L.next
                           /\ L.purpose = "ManualStop" => R.backoff = 0
           /\ ~confirmed => /\ \A b \in AdapterState :
                                  b.phase = "held" => Sound(p, shutdown.active, R, b)
                            /\ R.run = L.run
<1> DEFINE M == Report(L, p, intentional, success)
           oneShot == Kind[p] = "OneShot"
           restart == RestartsAfterFinish(L, p, intentional, success)
<1>1. L \in ProcessState /\ a \in AdapterState /\ Ended(L, R, confirmed)
    BY ApplyFinishedEnds DEF Sound
<1>2. /\ M \in ProcessState
      /\ M.run = L.run /\ M.next = L.next /\ M.backoff = 0 /\ M.cancelled
      /\ M.used = L.used /\ M.exhausted = L.exhausted /\ M.purpose = L.purpose
      /\ M.unconfirmed = L.unconfirmed /\ M.pending = L.pending
      /\ M.purpose \in TimedOutPurposes => M.failure = L.failure
      /\ M.desired \in {L.desired, "Stopped"}
      /\ M.lifecycle \in {L.lifecycle, "Done", "Stopped"}
      /\ M.lifecycle = "Done" /\ M.desired = "Running" => M.pending # "AutomaticRestart"
    BY ReportFields
<1>3. restart \in BOOLEAN /\ (restart => ~shutdown.active)
      /\ (L.purpose = "ManualStop" => ~restart)
    <2>1. restart = FALSE \/ restart = TRUE
        BY DEF RestartsAfterFinish
    <2>2. restart => RestartAllowed(L)
        BY DEF RestartsAfterFinish
    <2> QED
        BY <2>1, <2>2 DEF RestartAllowed, SuppressedPurposes
<1>4. R = IF confirmed THEN Finalized(ConfirmCleanup(M, oneShot), p, restart)
          ELSE HoldUnconfirmedCleanup(M)
    BY DEF ApplyFinished, Report
<1>5. shutdown.active => M.desired = "Stopped"
    BY <1>2 DEF Sound, Closed
<1>6. oneShot \in BOOLEAN
    OBVIOUS
<1> HIDE DEF M, oneShot, restart
<1>7. CASE confirmed
    <2> DEFINE K == ConfirmCleanup(M, oneShot)
    <2>1. /\ K \in ProcessState
          /\ K.run = M.run /\ K.next = M.next /\ K.backoff = M.backoff /\ K.used = M.used
          /\ K.exhausted = M.exhausted /\ K.desired = M.desired /\ K.lifecycle = M.lifecycle
          /\ K.pending = M.pending
        BY <1>2, <1>6 DEF ConfirmCleanup, ProcessState
    <2> HIDE DEF K
    <2>2. /\ Sound(p, shutdown.active, Finalized(K, p, restart), Released(a, L.run))
          /\ ~restart => Finalized(K, p, restart).backoff = 0
        BY <1>2, <1>3, <1>5, <2>1, FinalizedSound
    <2>3. R = Finalized(K, p, restart) /\ R.run = 0 /\ R.next = L.next
        BY <1>1, <1>4, <1>7 DEF K, Ended
    <2> QED
        BY <1>3, <1>7, <2>2, <2>3
<1>8. CASE ~confirmed
    <2>1. R \in ProcessState /\ R.run = L.run /\ R.next = L.next
        BY <1>1, <1>8 DEF Ended
    <2>2. /\ R.unconfirmed /\ R.cancelled /\ R.backoff = 0 /\ R.used = L.used
          /\ R.exhausted = L.exhausted /\ R.purpose = L.purpose /\ R.pending = M.pending
          /\ ~R.readiness.timed /\ ~R.liveness.started /\ R.desired = M.desired
          /\ R.lifecycle \in {"Done", "Stopping", "Stopped"}
          /\ R.lifecycle = "Done" => M.lifecycle = "Done"
          /\ R.purpose \in TimedOutPurposes => R.failure # NoFailure
        BY <1>2, <1>4, <1>8 DEF HoldUnconfirmedCleanup, NoTracking, NoFailure, ProcessState
    <2>3. L.next = L.run + 1 /\ L.used <= MaxRestarts[p]
        BY DEF Sound, Placed, Budgeted
    <2> QED
        BY <1>2, <1>5, <1>8, <2>1, <2>2, <2>3 DEF Sound, Placed, Budgeted, Timed, Completed, Silent,
            Watched, Explained, Halting, Closed
<1> QED
    BY <1>7, <1>8

LEMMA ApplyFailedSound ==
    ASSUME NEW p \in Processes, NEW L, NEW a, Sound(p, shutdown.active, L, a), L.run # 0,
           NEW kind \in {"Configuration", "Spawn"}, NEW R, R = ApplyFailed(L, p, kind)
    PROVE  /\ Sound(p, shutdown.active, R, Released(a, L.run))
           /\ R.run = 0 /\ R.next = L.next
           /\ L.purpose = "ManualStop" => R.backoff = 0
<1> DEFINE C == CancelRunWork(L)
           M == FailRun(C, Kind[p] = "OneShot", kind)
           restart == RestartsAfterFailure(L, p)
<1>1. L \in ProcessState /\ C \in ProcessState /\ Ended(L, R, TRUE)
    BY ApplyFailedEnds, CancelRunWorkQuiet DEF Sound, Quiet, SameRun
<1>2. C.run = L.run /\ C.next = L.next /\ C.used = L.used /\ C.exhausted = L.exhausted /\ C.backoff = L.backoff
    BY <1>1 DEF CancelRunWork, ProcessState
<1>3. kind \in FailureKind
    BY DEF FailureKind
<1>4. restart \in BOOLEAN /\ (restart => ~shutdown.active)
      /\ (L.purpose = "ManualStop" => ~restart)
    <2>1. restart = FALSE \/ restart = TRUE
        BY DEF RestartsAfterFailure
    <2>2. restart => RestartAllowed(L)
        BY DEF RestartsAfterFailure
    <2> QED
        BY <2>1, <2>2 DEF RestartAllowed, SuppressedPurposes
<1>5. L.backoff = 0
    BY DEF Sound, Timed, ValidRestartTimer
<1> HIDE DEF C
<1>6. /\ M \in ProcessState
      /\ M.run = L.run /\ M.next = L.next /\ M.backoff = 0 /\ M.used = L.used
      /\ M.exhausted = L.exhausted /\ M.desired = "Stopped" /\ M.lifecycle = "Stopped"
    <2>1. M \in ProcessState
        BY <1>1, <1>3, FailRunQuiet DEF Quiet, SameRun
    <2>2. /\ M.run = C.run /\ M.next = C.next /\ M.backoff = C.backoff /\ M.used = C.used
          /\ M.exhausted = C.exhausted /\ M.desired = "Stopped" /\ M.lifecycle = "Stopped"
        BY <1>1 DEF FailRun, ProcessState
    <2> QED
        BY <1>2, <1>5, <2>1, <2>2
<1>7. R = Finalized(M, p, restart)
    BY DEF ApplyFailed, C
<1> HIDE DEF M, restart
<1>8. /\ Sound(p, shutdown.active, Finalized(M, p, restart), Released(a, L.run))
      /\ ~restart => Finalized(M, p, restart).backoff = 0
    BY <1>4, <1>6, FinalizedSound
<1> QED
    BY <1>1, <1>4, <1>7, <1>8 DEF Ended

-----------------------------------------------------------------------------
(* The handlers: each leaves sound records to a pass, leaves settled ones, *)
(* or is Start Anyway.                                                     *)

(* A Run goes on, or it was released and Project shutdown knows.           *)
Keeps(p, L, M) ==
    \/ M.run = L.run
    \/ /\ M.run = 0 /\ M.next = L.next
       /\ L.purpose = "ManualStop" => M.backoff = 0
       /\ p \notin shutdown'.remaining

Good(ls, ad) ==
    /\ StatesOver(ls, ad)
    /\ \A p \in Processes :
          Sound(p, shutdown'.active, ls[p], ad[p]) /\ Keeps(p, lifecycles[p], ls[p])

Passed == \E pre, ad : Good(pre, ad) /\ Evaluate(pre, ad)

Settled == Good(lifecycles', adapter') /\ \A p \in Processes : Armed(lifecycles'[p])

Outcome == Passed \/ Settled \/ \E p \in Processes : StartAnyway(p)

StillSo == shutdown'.active = shutdown.active

LEMMA HealthyParts ==
    ASSUME Healthy
    PROVE  /\ TypeOK /\ StatesOver(lifecycles, adapter) /\ shutdown.active \in BOOLEAN
           /\ profile \in Profiles
           /\ \A p \in Processes :
                 Sound(p, shutdown.active, lifecycles[p], adapter[p]) /\ Armed(lifecycles[p])
BY DEF Healthy, IInv, TypeOK, StatesOver, ShutdownState

LEMMA OneGood ==
    ASSUME Healthy, StillSo, NEW p \in Processes, NEW M, NEW b,
           Sound(p, shutdown.active, M, b), Keeps(p, lifecycles[p], M),
           NEW ls, ls = [lifecycles EXCEPT ![p] = M],
           NEW ad, ad = [adapter EXCEPT ![p] = b]
    PROVE  /\ Good(ls, ad)
           /\ Armed(M) => \A q \in Processes : Armed(ls[q])
<1>1. M \in ProcessState /\ b \in AdapterState
    BY DEF Sound
<1>2. StatesOver(ls, ad)
    BY <1>1, HealthyParts DEF StatesOver
<1>3. \A q \in Processes : Keeps(q, lifecycles[q], lifecycles[q])
    BY DEF Keeps
<1> QED
    BY <1>2, <1>3, HealthyParts DEF Good, StatesOver, StillSo

LEMMA NothingGood ==
    ASSUME Healthy, StillSo
    PROVE  /\ Good(lifecycles, adapter)
           /\ UNCHANGED <<lifecycles, adapter>> => Settled
BY HealthyParts DEF Good, Settled, Keeps, StillSo

(* Good states that kept every Run.                                        *)
GoodSame(ls, ad) == Good(ls, ad) /\ \A p \in Processes : ls[p].run = lifecycles[p].run

LEMMA SoundType ==
    ASSUME NEW p, NEW closed, NEW L, NEW a, Sound(p, closed, L, a)
    PROVE  L \in ProcessState /\ a \in AdapterState
BY DEF Sound

LEMMA RequireRunningFromGood ==
    ASSUME NEW ls, NEW ad, GoodSame(ls, ad), ~shutdown'.active, shutdown'.active \in BOOLEAN,
           NEW p \in Processes, NEW trigger \in Asked
    PROVE  GoodSame(RequireRunningFrom(ls, p, trigger), ad)
<1> DEFINE required == RequireRunningFrom(ls, p, trigger)
<1>1. ASSUME NEW q \in Processes
      PROVE  Sound(q, FALSE, required[q], ad[q]) /\ required[q].run = lifecycles[q].run
    <2>1. Sound(q, FALSE, ls[q], ad[q]) /\ ls[q].run = lifecycles[q].run /\ "Dependency" \in Asked
        BY DEF GoodSame, Good, Asked
    <2>2. required[q] \in {ls[q], RequireRunning(ls[q], trigger), RequireRunning(ls[q], "Dependency")}
        BY DEF RequireRunningFrom
    <2> HIDE DEF required
    <2> QED
        <3>1. ASSUME NEW asked \in Asked
              PROVE  /\ Sound(q, FALSE, RequireRunning(ls[q], asked), ad[q])
                     /\ RequireRunning(ls[q], asked).run = ls[q].run
            BY <2>1, RequireRunningSound
        <3> QED
            BY <2>1, <2>2, <3>1
<1>2. required = [q \in Processes |-> required[q]]
    BY DEF RequireRunningFrom
<1> HIDE DEF required
<1>3. \A q \in Processes : required[q] \in ProcessState
    BY <1>1, SoundType
<1>4. required \in [Processes -> ProcessState]
    BY <1>2, <1>3
<1>5. GoodSame(required, ad)
    BY <1>1, <1>4 DEF GoodSame, Good, StatesOver, Keeps
<1> QED
    BY <1>5 DEF required

LEMMA OneGoodSame ==
    ASSUME Healthy, StillSo, NEW p \in Processes, NEW M,
           Sound(p, shutdown.active, M, adapter[p]), M.run = lifecycles[p].run
    PROVE  GoodSame([lifecycles EXCEPT ![p] = M], adapter)
<1>1. adapter = [adapter EXCEPT ![p] = adapter[p]]
    BY HealthyParts DEF StatesOver
<1>2. Good([lifecycles EXCEPT ![p] = M], adapter)
    BY <1>1, OneGood DEF Keeps
<1> QED
    BY <1>2, HealthyParts DEF GoodSame, StatesOver

LEMMA StartAtGood ==
    ASSUME Healthy, StillSo, ~shutdown.active, NEW p \in Processes,
           NEW trigger \in Asked, StartAt(p, trigger)
    PROVE  Outcome
<1> DEFINE M == PrepareStartRequest(lifecycles[p], trigger)
           prepared == [lifecycles EXCEPT ![p] = M]
<1>1. shutdown.active = FALSE /\ shutdown'.active = FALSE
    BY HealthyParts DEF StillSo
<1>2. Sound(p, shutdown.active, M, adapter[p]) /\ M.run = lifecycles[p].run
    BY ZenonT(40), <1>1, HealthyParts, StartRequestSound
<1> HIDE DEF M
<1>3. GoodSame(prepared, adapter)
    BY <1>2, OneGoodSame
<1> HIDE DEF prepared
<1>4. GoodSame(RequireRunningFrom(prepared, p, trigger), adapter)
    BY <1>1, <1>3, RequireRunningFromGood
<1>5. CASE IsEnabled(p)
    BY <1>4, <1>5 DEF StartAt, Outcome, Passed, GoodSame, prepared, M
<1>6. CASE ~IsEnabled(p)
    BY <1>6, NothingGood DEF StartAt, Outcome
<1> QED
    BY <1>5, <1>6

LEMMA RestartAtGood ==
    ASSUME Healthy, StillSo, ~shutdown.active, NEW p \in Processes,
           NEW trigger \in Asked, RestartAt(p, trigger)
    PROVE  Outcome
<1> DEFINE M == PrepareRestartRequest(lifecycles[p], trigger)
           prepared == [lifecycles EXCEPT ![p] = M]
           required == RequireRunningFrom(prepared, p, trigger)
           replaced == [required EXCEPT ![p] = BeginReplacementCleanup(@)]
           told == StopWhen(p, TRUE)
<1>1. shutdown.active = FALSE /\ shutdown'.active = FALSE
    BY HealthyParts DEF StillSo
<1>2. Sound(p, shutdown.active, M, adapter[p]) /\ M.run = lifecycles[p].run
    BY ZenonT(40), <1>1, HealthyParts, RestartRequestSound
<1> HIDE DEF M
<1>3. GoodSame(prepared, adapter)
    BY <1>2, OneGoodSame
<1> HIDE DEF prepared
<1>4. GoodSame(required, adapter)
    BY <1>1, <1>3, RequireRunningFromGood
<1> HIDE DEF required
<1>5. ASSUME CanReplace(required[p]) PROVE Good(replaced, told)
    <2> DEFINE R == BeginReplacementCleanup(required[p])
               b == Contacted(adapter[p])
    <2>1. /\ Sound(p, FALSE, R, adapter[p]) /\ R.run = required[p].run
        BY <1>1, <1>4, <1>5, ReplacementSound DEF GoodSame, Good
    <2>2. Sound(p, FALSE, R, b)
        BY <2>1, ContactedSound
    <2>3. R \in ProcessState /\ b \in AdapterState
        BY <2>2, SoundType
    <2>4. told = [adapter EXCEPT ![p] = b] /\ replaced = [required EXCEPT ![p] = R]
        BY DEF StopWhen
    <2> HIDE DEF R, b, told, replaced
    <2>5. StatesOver(replaced, told)
        BY <1>4, <2>3, <2>4 DEF Good, GoodSame, StatesOver
    <2>6. ASSUME NEW q \in Processes
          PROVE  Sound(q, FALSE, replaced[q], told[q]) /\ replaced[q].run = lifecycles[q].run
        <3>1. Sound(q, FALSE, required[q], adapter[q]) /\ required[q].run = lifecycles[q].run
            BY <1>1, <1>4 DEF Good, GoodSame
        <3>2. CASE q = p
            BY <1>4, <2>1, <2>2, <2>4, <3>1, <3>2 DEF Good, GoodSame, StatesOver
        <3>3. CASE q # p
            BY <1>4, <2>4, <3>1, <3>3 DEF Good, GoodSame, StatesOver
        <3> QED
            BY <3>2, <3>3
    <2> QED
        BY <1>1, <2>5, <2>6 DEF Good, Keeps
<1>6. CASE ~IsEnabled(p)
    BY <1>6, NothingGood DEF RestartAt, Outcome
<1>7. CASE IsEnabled(p) /\ CanReplace(required[p])
    <2>1. Evaluate(replaced, told)
        BY <1>7 DEF RestartAt, required, prepared, M
    <2> QED
        BY <1>5, <1>7, <2>1 DEF Outcome, Passed
<1>8. CASE IsEnabled(p) /\ ~CanReplace(required[p])
    BY <1>4, <1>8 DEF RestartAt, Outcome, Passed, GoodSame, required, prepared, M
<1> QED
    BY <1>6, <1>7, <1>8

LEMMA StopAtGood ==
    ASSUME Healthy, StillSo, NEW p \in Processes, StopAt(p)
    PROVE  Outcome
<1> DEFINE L == lifecycles[p]
           b == IF StopNeedsCleanup(L) THEN Contacted(adapter[p]) ELSE adapter[p]
<1>1. /\ Sound(p, shutdown.active, RequestStop(L), adapter[p]) /\ Armed(RequestStop(L))
      /\ RequestStop(L).run = L.run
    BY HealthyParts, RequestStopSound
<1>2. Sound(p, shutdown.active, RequestStop(L), b)
    BY <1>1, ContactedSound
<1>3. lifecycles' = [lifecycles EXCEPT ![p] = RequestStop(L)] /\ adapter' = [adapter EXCEPT ![p] = b]
    BY HealthyParts DEF StopAt, StopWhen, StatesOver
<1> HIDE DEF b
<1>4. Settled
    BY ZenonT(40), <1>1, <1>2, <1>3, OneGood DEF Settled, Keeps
<1> QED
    BY <1>4 DEF Outcome

LEMMA StopAllGood ==
    ASSUME Healthy, StillSo, StopAll
    PROVE  Outcome
<1>1. ASSUME NEW p \in Processes
      PROVE  /\ Sound(p, shutdown.active, lifecycles'[p], adapter'[p]) /\ Armed(lifecycles'[p])
             /\ lifecycles'[p].run = lifecycles[p].run
    <2>1. /\ lifecycles'[p] = RequestStop(lifecycles[p])
          /\ adapter'[p] \in {adapter[p], Contacted(adapter[p])}
        BY DEF StopAll
    <2>2. /\ Sound(p, shutdown.active, RequestStop(lifecycles[p]), adapter[p])
          /\ Armed(RequestStop(lifecycles[p]))
          /\ RequestStop(lifecycles[p]).run = lifecycles[p].run
        BY HealthyParts, RequestStopSound
    <2>3. Sound(p, shutdown.active, RequestStop(lifecycles[p]), Contacted(adapter[p]))
        BY <2>2, ContactedSound
    <2> QED
        BY <2>1, <2>2, <2>3
<1>2. StatesOver(lifecycles', adapter')
    <2>1. /\ lifecycles' = [p \in Processes |-> lifecycles'[p]]
          /\ adapter' = [p \in Processes |-> adapter'[p]]
        BY DEF StopAll
    <2> QED
        BY <1>1, <2>1, SoundType DEF StatesOver
<1> QED
    BY <1>1, <1>2 DEF Outcome, Settled, Good, Keeps, StillSo

(* The records after a shutdown's wave.                                    *)
LEMMA WaveSound ==
    ASSUME NEW ls, NEW wave, NEW ad, NEW p \in Processes,
           Sound(p, TRUE, ls[p], adapter[p]), Armed(ls[p]),
           ad = ContactedAll(wave)
    PROVE  /\ Sound(p, TRUE, StoppedByShutdown(ls, wave)[p], ad[p])
           /\ Armed(StoppedByShutdown(ls, wave)[p])
           /\ StoppedByShutdown(ls, wave)[p].run = ls[p].run
<1>1. CASE p \in wave
    <2>1. StoppedByShutdown(ls, wave)[p] = BeginShutdownCleanup(ls[p]) /\ ad[p] = Contacted(adapter[p])
        BY <1>1 DEF StoppedByShutdown, ContactedAll
    <2>2. /\ Sound(p, TRUE, BeginShutdownCleanup(ls[p]), adapter[p])
          /\ Armed(BeginShutdownCleanup(ls[p]))
          /\ BeginShutdownCleanup(ls[p]).run = ls[p].run
        BY ShutdownCleanupSound
    <2> QED
        BY <2>1, <2>2, ContactedSound
<1>2. CASE p \notin wave
    BY <1>2 DEF StoppedByShutdown, ContactedAll
<1> QED
    BY <1>1, <1>2

LEMMA BeginShutdownGood ==
    ASSUME Healthy, BeginShutdown
    PROVE  Outcome
<1> DEFINE closed == [p \in Processes |-> BeginProjectShutdown(lifecycles[p])]
           wave == Wave({p \in Processes : lifecycles[p].run # 0}, {})
<1>1. /\ shutdown'.active = TRUE /\ shutdown.active = FALSE
      /\ lifecycles' = StoppedByShutdown(closed, wave) /\ adapter' = ContactedAll(wave)
    BY HealthyParts DEF BeginShutdown
<1>2. ASSUME NEW p \in Processes
      PROVE  /\ Sound(p, TRUE, closed[p], adapter[p]) /\ Armed(closed[p])
             /\ closed[p].run = lifecycles[p].run
    BY <1>1, HealthyParts, BeginProjectShutdownSound
<1> HIDE DEF closed, wave
<1>3. ASSUME NEW p \in Processes
      PROVE  /\ Sound(p, TRUE, lifecycles'[p], adapter'[p]) /\ Armed(lifecycles'[p])
             /\ lifecycles'[p].run = lifecycles[p].run
    BY <1>1, <1>2, WaveSound
<1>4. StatesOver(lifecycles', adapter')
    <2>1. /\ lifecycles' = [p \in Processes |-> lifecycles'[p]]
          /\ adapter' = [p \in Processes |-> adapter'[p]]
        BY <1>1 DEF StoppedByShutdown, ContactedAll
    <2> QED
        BY <1>3, <2>1, SoundType DEF StatesOver
<1> QED
    BY <1>1, <1>3, <1>4 DEF Outcome, Settled, Good, Keeps

(* A wave that was released while Runs remain: only during shutdown.       *)
LEMMA WaveGood ==
    ASSUME Healthy, StillSo, NEW wave, wave # {} => shutdown.active
    PROVE  /\ Good(StoppedByShutdown(lifecycles, wave), ContactedAll(wave))
           /\ \A p \in Processes : Armed(StoppedByShutdown(lifecycles, wave)[p])
           /\ \A p \in Processes : StoppedByShutdown(lifecycles, wave)[p].run = lifecycles[p].run
<1> DEFINE ls == StoppedByShutdown(lifecycles, wave)
           ad == ContactedAll(wave)
<1>1. ASSUME NEW p \in Processes
      PROVE  /\ Sound(p, shutdown.active, ls[p], ad[p]) /\ Armed(ls[p])
             /\ ls[p].run = lifecycles[p].run
    <2>1. CASE shutdown.active
        <3>1. shutdown.active = TRUE
            BY <2>1, HealthyParts
        <3> QED
            BY <3>1, HealthyParts, WaveSound
    <2>2. CASE wave = {}
        BY <2>2, HealthyParts DEF StoppedByShutdown, ContactedAll
    <2> QED
        BY <2>1, <2>2
<1>2. ls = [p \in Processes |-> ls[p]] /\ ad = [p \in Processes |-> ad[p]]
    BY DEF StoppedByShutdown, ContactedAll
<1> HIDE DEF ls, ad
<1>3. StatesOver(ls, ad)
    BY <1>1, <1>2, SoundType DEF StatesOver
<1>4. Good(ls, ad) /\ (\A p \in Processes : Armed(ls[p]))
      /\ \A p \in Processes : ls[p].run = lifecycles[p].run
    BY <1>1, <1>3 DEF Good, Keeps, StillSo
<1> QED
    BY <1>4 DEF ls, ad

LEMMA ExpireShutdownGood ==
    ASSUME Healthy, ExpireShutdown
    PROVE  Outcome
<1> DEFINE wave == shutdown.remaining \ shutdown.dispatched
<1>1. StillSo /\ shutdown.active
    BY HealthyParts DEF ExpireShutdown, StillSo, Healthy, TypeOK, ShutdownState
<1>2. lifecycles' = StoppedByShutdown(lifecycles, wave) /\ adapter' = ContactedAll(wave)
    BY DEF ExpireShutdown
<1> HIDE DEF wave
<1> QED
    BY <1>1, <1>2, WaveGood DEF Outcome, Settled

-----------------------------------------------------------------------------
(* What the adapter reports.                                               *)

LEMMA OnePasses ==
    ASSUME Healthy, StillSo, NEW p \in Processes, NEW M, NEW b,
           Sound(p, shutdown.active, M, b), Keeps(p, lifecycles[p], M),
           Evaluate([lifecycles EXCEPT ![p] = M], [adapter EXCEPT ![p] = b])
    PROVE  Outcome
<1>1. Good([lifecycles EXCEPT ![p] = M], [adapter EXCEPT ![p] = b])
    BY OneGood
<1> QED
    BY <1>1 DEF Outcome, Passed

LEMMA SpawnedGood ==
    ASSUME Healthy, StillSo, NEW p \in Processes, Spawned(p)
    PROVE  Outcome
<1> DEFINE L == lifecycles[p]
           b == [adapter[p] EXCEPT !.phase = "live"]
           M == ApplySpawned(L, p)
<1>1. Sound(p, shutdown.active, L, adapter[p]) /\ Armed(L) /\ adapter[p].phase = "early"
    BY HealthyParts DEF Spawned
<1>2. /\ Observed(L) => Sound(p, shutdown.active, M, b) /\ M.run = L.run
      /\ ~Observed(L) => Sound(p, shutdown.active, L, b)
    BY <1>1, ApplySpawnedSound
<1>3. /\ Observed(L) => Evaluate([lifecycles EXCEPT ![p] = M], [adapter EXCEPT ![p] = b])
      /\ ~Observed(L) => adapter' = [adapter EXCEPT ![p] = b] /\ lifecycles' = lifecycles
    BY DEF Spawned
<1> HIDE DEF b, M
<1>4. CASE Observed(L)
    BY <1>2, <1>3, <1>4, OnePasses DEF Keeps
<1>5. CASE ~Observed(L)
    <2>1. lifecycles' = [lifecycles EXCEPT ![p] = L]
        BY <1>3, <1>5, HealthyParts DEF StatesOver
    <2>2. Settled
        BY ZenonT(40), <1>1, <1>2, <1>3, <1>5, <2>1, OneGood DEF Settled, Keeps
    <2> QED
        BY <2>2 DEF Outcome
<1> QED
    BY <1>4, <1>5

LEMMA AdapterOnlyGood ==
    ASSUME Healthy, StillSo, NEW p \in Processes, SpawnSucceeds(p) \/ SpawnFails(p) \/ EndsByItself(p)
    PROVE  Outcome
<1> DEFINE L == lifecycles[p]
           a == adapter[p]
<1>1. PICK b : /\ adapter' = [adapter EXCEPT ![p] = b] /\ lifecycles' = lifecycles
               /\ b \in {[a EXCEPT !.phase = "early"], NeverStarted(a, L.run), [a EXCEPT !.ended = TRUE]}
               /\ b = [a EXCEPT !.ended = TRUE] \/ a.phase = "spawning"
    BY DEF SpawnSucceeds, SpawnFails, EndsByItself
<1>2. Sound(p, shutdown.active, L, a) /\ Armed(L) /\ L \in ProcessState /\ a \in AdapterState
      /\ L.run \in Nat
    BY HealthyParts, SoundType DEF ProcessState
<1>3. b \in AdapterState
    <2>1. CASE b = NeverStarted(a, L.run)
        BY ZenonT(40), <1>2, <2>1, ReleasedType DEF NeverStarted, AdapterState
    <2> QED
        BY <1>1, <1>2, <2>1 DEF AdapterState
<1>4. b.phase = a.phase \/ (a.phase = "spawning" /\ b.phase \in {"early", "gone"})
    BY <1>1, <1>2 DEF NeverStarted, Released, AdapterState
<1>5. Sound(p, shutdown.active, L, b)
    BY <1>2, <1>3, <1>4 DEF Sound, Placed, Watched
<1>6. lifecycles' = [lifecycles EXCEPT ![p] = L]
    BY <1>1, HealthyParts DEF StatesOver
<1>7. Settled
    BY ZenonT(40), <1>1, <1>2, <1>5, <1>6, OneGood DEF Settled, Keeps
<1> QED
    BY <1>7 DEF Outcome

LEMMA ReadinessGood ==
    ASSUME Healthy, StillSo, NEW p \in Processes, NEW state \in CheckState,
           ReadinessResult(p, state) \/ (EarlyLogMatch(p) /\ state = "Passing")
    PROVE  Outcome
<1> DEFINE L == lifecycles[p]
           M == ApplyReadiness(L, state)
<1>1. /\ Observed(L) /\ adapter[p].phase \in {"early", "live"}
      /\ adapter[p].phase = "live" \/ state = "Passing"
      /\ Evaluate([lifecycles EXCEPT ![p] = M], adapter)
    BY DEF ReadinessResult, EarlyLogMatch
<1>2. Sound(p, shutdown.active, L, adapter[p]) /\ L.run # 0
    BY <1>1, HealthyParts DEF Sound, Placed
<1>3. Sound(p, shutdown.active, M, adapter[p]) /\ M.run = L.run
    BY <1>1, <1>2, ApplyReadinessSound
<1>4. adapter = [adapter EXCEPT ![p] = adapter[p]]
    BY HealthyParts DEF StatesOver
<1> HIDE DEF M
<1> QED
    BY <1>1, <1>3, <1>4, OnePasses DEF Keeps

LEMMA LivenessGood ==
    ASSUME Healthy, StillSo, NEW p \in Processes, NEW state \in CheckState, LivenessResult(p, state)
    PROVE  Outcome
<1> DEFINE L == lifecycles[p]
           M == [L EXCEPT !.liveness.state = state]
<1>1. PICK R, condition :
          /\ R \in {M, RecoverLiveness(M), FailLiveness(M, OnUnhealthy[p])}
          /\ Evaluate([lifecycles EXCEPT ![p] = R], StopWhen(p, condition))
    BY SMTT(30) DEF LivenessResult
<1>2. Observed(L) /\ adapter[p].phase = "live"
    BY DEF LivenessResult
<1>3. Sound(p, shutdown.active, L, adapter[p]) /\ L.run # 0 /\ OnUnhealthy[p] \in BOOLEAN
    BY <1>2, HealthyParts, ProcessAssumption DEF Sound, Placed
<1>4. Sound(p, shutdown.active, R, adapter[p]) /\ R.run = L.run
    BY <1>1, <1>2, <1>3, ApplyLivenessSound
<1>5. PICK b \in {adapter[p], Contacted(adapter[p])} : StopWhen(p, condition) = [adapter EXCEPT ![p] = b]
    BY HealthyParts DEF StopWhen, StatesOver
<1>6. Sound(p, shutdown.active, R, b)
    BY <1>4, <1>5, ContactedSound
<1> QED
    BY <1>1, <1>4, <1>5, <1>6, OnePasses DEF Keeps

LEMMA OutputFailureGood ==
    ASSUME Healthy, StillSo, NEW p \in Processes, OutputFailure(p)
    PROVE  Outcome
<1> DEFINE M == RecordOutputFailure(lifecycles[p])
<1>1. Sound(p, shutdown.active, M, adapter[p]) /\ Armed(M) /\ M.run = lifecycles[p].run
    BY HealthyParts, RecordOutputFailureSound
<1>2. /\ lifecycles' = [lifecycles EXCEPT ![p] = M]
      /\ adapter' = [adapter EXCEPT ![p] = adapter[p]]
    BY HealthyParts DEF OutputFailure, StatesOver
<1> HIDE DEF M
<1>3. Settled
    BY <1>1, <1>2, OneGood DEF Settled, Keeps
<1> QED
    BY <1>3 DEF Outcome

(* The end of p's Run, with the wave it releases.                          *)
LEMMA OneEndsGood ==
    ASSUME Healthy, StillSo, NEW p \in Processes, NEW wave, wave # {} => shutdown.active,
           NEW M, NEW b, Sound(p, shutdown.active, M, b), Keeps(p, lifecycles[p], M),
           NEW ls, ls = [StoppedByShutdown(lifecycles, wave) EXCEPT ![p] = M],
           NEW ad, ad = [ContactedAll(wave) EXCEPT ![p] = b]
    PROVE  Good(ls, ad)
<1>1. Good(StoppedByShutdown(lifecycles, wave), ContactedAll(wave))
    BY WaveGood
<1>2. M \in ProcessState /\ b \in AdapterState
    BY SoundType
<1> DEFINE stopped == StoppedByShutdown(lifecycles, wave)
           contacted == ContactedAll(wave)
<1>3. Good(stopped, contacted) /\ ls = [stopped EXCEPT ![p] = M] /\ ad = [contacted EXCEPT ![p] = b]
    BY <1>1
<1> HIDE DEF stopped, contacted
<1> QED
    BY <1>2, <1>3 DEF Good, StatesOver, StillSo

LEMMA NextWaveNeedsShutdown ==
    ASSUME Healthy, NEW p \in Processes
    PROVE  /\ NextWave(p) # {} => shutdown.active
           /\ p \notin NextWave(p)
BY DEF Healthy, NextWave, Wave

LEMMA FinishedGood ==
    ASSUME Healthy, StillSo, NEW p \in Processes, NEW intentional \in BOOLEAN,
           NEW confirmed \in BOOLEAN, NEW success \in BOOLEAN,
           Finished(p, intentional, confirmed, success)
    PROVE  Outcome
<1> DEFINE L == lifecycles[p]
           a == adapter[p]
           R == ApplyFinished(L, p, intentional, confirmed, success)
           wave == NextWave(p)
           contacted == ContactedAll(wave)
           stopped == StoppedByShutdown(lifecycles, wave)
<1>1. Sound(p, shutdown.active, L, a) /\ L.run # 0 /\ a \in AdapterState
    BY HealthyParts, SoundType DEF Finished, MayFinish, Sound, Placed
<1>2. (wave # {} => shutdown.active) /\ p \notin wave
    BY NextWaveNeedsShutdown
<1>3. contacted[p] = a /\ contacted = [q \in Processes |-> contacted[q]]
    BY <1>2 DEF ContactedAll
<1>4. /\ confirmed => /\ Sound(p, shutdown.active, R, Released(a, L.run))
                      /\ R.run = 0 /\ R.next = L.next
                      /\ L.purpose = "ManualStop" => R.backoff = 0
      /\ ~confirmed => /\ \A b \in AdapterState : b.phase = "held" => Sound(p, shutdown.active, R, b)
                       /\ R.run = L.run
    BY <1>1, ApplyFinishedSound
<1>8. p \notin shutdown'.remaining
    BY HealthyParts DEF Finished, FinishShutdownRun, TypeOK, ShutdownState
<1>5. \/ /\ confirmed
         /\ Evaluate([stopped EXCEPT ![p] = R], [contacted EXCEPT ![p] = Released(@, L.run)])
      \/ /\ ~confirmed
         /\ \E stops \in HeldStops(a, intentional) :
               Evaluate([stopped EXCEPT ![p] = R],
                        [contacted EXCEPT ![p].phase = "held", ![p].ended = FALSE, ![p].stops = stops])
    BY DEF Finished
<1> HIDE DEF R, wave, stopped
<1>6. CASE confirmed
    <2>1. Evaluate([stopped EXCEPT ![p] = R], [contacted EXCEPT ![p] = Released(a, L.run)])
        BY <1>3, <1>5, <1>6
    <2>2. Good([stopped EXCEPT ![p] = R], [contacted EXCEPT ![p] = Released(a, L.run)])
        BY <1>2, <1>4, <1>6, <1>8, OneEndsGood DEF Keeps, stopped
    <2> QED
        BY <2>1, <2>2 DEF Outcome, Passed
<1>7. CASE ~confirmed
    <2>1. PICK stops \in HeldStops(a, intentional) :
               Evaluate([stopped EXCEPT ![p] = R],
                        [contacted EXCEPT ![p].phase = "held", ![p].ended = FALSE, ![p].stops = stops])
        BY <1>5, <1>7
    <2> DEFINE b == [a EXCEPT !.phase = "held", !.ended = FALSE, !.stops = stops]
    <2>2. stops \in 0..2
        BY <1>1, <2>1 DEF HeldStops, AdapterState
    <2>3. b \in AdapterState /\ b.phase = "held"
        BY <1>1, <2>2 DEF AdapterState
    <2>4. [contacted EXCEPT ![p].phase = "held", ![p].ended = FALSE, ![p].stops = stops]
              = [contacted EXCEPT ![p] = b]
        BY <1>3
    <2> HIDE DEF b, contacted
    <2>5. Evaluate([stopped EXCEPT ![p] = R], [contacted EXCEPT ![p] = b])
        BY <2>1, <2>4
    <2>6. Good([stopped EXCEPT ![p] = R], [contacted EXCEPT ![p] = b])
        BY <1>2, <1>4, <1>7, <2>3, OneEndsGood DEF Keeps, stopped, contacted
    <2> QED
        BY <2>5, <2>6 DEF Outcome, Passed
<1> QED
    BY <1>6, <1>7

LEMMA FailedReportGood ==
    ASSUME Healthy, StillSo, NEW p \in Processes, NEW kind \in {"Configuration", "Spawn"},
           FailedReport(p, kind)
    PROVE  Outcome
<1> DEFINE L == lifecycles[p]
           a == adapter[p]
           R == ApplyFailed(L, p, kind)
           wave == NextWave(p)
           contacted == ContactedAll(wave)
           stopped == StoppedByShutdown(lifecycles, wave)
           b == [a EXCEPT !.failed = @ \ {kind}]
<1>1. Sound(p, shutdown.active, L, a) /\ Armed(L) /\ L.run # 0 /\ a \in AdapterState
    BY HealthyParts, SoundType DEF FailedReport, Sound, Placed
<1>2. (wave # {} => shutdown.active) /\ p \notin wave
    BY NextWaveNeedsShutdown
<1>3. contacted[p] = a /\ contacted = [q \in Processes |-> contacted[q]]
    BY <1>2 DEF ContactedAll
<1>4. /\ Sound(p, shutdown.active, R, Released(a, L.run))
      /\ R.run = 0 /\ R.next = L.next
      /\ L.purpose = "ManualStop" => R.backoff = 0
    BY <1>1, ApplyFailedSound
<1>5. \/ /\ Evaluate([stopped EXCEPT ![p] = R], [contacted EXCEPT ![p] = Released(@, L.run)])
         /\ FinishShutdownRun(p)
      \/ adapter' = [adapter EXCEPT ![p] = b] /\ lifecycles' = lifecycles
    BY DEF FailedReport
<1> HIDE DEF R, wave, stopped
<1>6. CASE /\ Evaluate([stopped EXCEPT ![p] = R], [contacted EXCEPT ![p] = Released(@, L.run)])
           /\ FinishShutdownRun(p)
    <2>3. p \notin shutdown'.remaining
        BY <1>6, HealthyParts DEF FinishShutdownRun, TypeOK, ShutdownState
    <2>1. Evaluate([stopped EXCEPT ![p] = R], [contacted EXCEPT ![p] = Released(a, L.run)])
        BY <1>3, <1>6
    <2>2. Good([stopped EXCEPT ![p] = R], [contacted EXCEPT ![p] = Released(a, L.run)])
        BY <1>2, <1>4, <2>3, OneEndsGood DEF Keeps, stopped
    <2> QED
        BY <2>1, <2>2 DEF Outcome, Passed
<1>7. CASE adapter' = [adapter EXCEPT ![p] = b] /\ lifecycles' = lifecycles
    <2>1. b \in AdapterState /\ b.phase = a.phase
        BY <1>1 DEF AdapterState
    <2> HIDE DEF b
    <2>2. Sound(p, shutdown.active, L, b)
        BY <1>1, <2>1 DEF Sound, Placed, Watched
    <2>3. lifecycles' = [lifecycles EXCEPT ![p] = L]
        BY <1>7, HealthyParts DEF StatesOver
    <2>4. Settled
        BY ZenonT(40), <1>1, <1>7, <2>2, <2>3, OneGood DEF Settled, Keeps
    <2> QED
        BY <2>4 DEF Outcome
<1> QED
    BY <1>5, <1>6, <1>7

-----------------------------------------------------------------------------
(* Timers and batches.                                                     *)

LEMMA StartupTimeoutGood ==
    ASSUME Healthy, StillSo, NEW p \in Processes, StartupTimeoutFires(p)
    PROVE  Outcome
<1> DEFINE L == lifecycles[p]
           M == TimeoutStartup(L)
           b == Contacted(adapter[p])
<1>1. Sound(p, shutdown.active, L, adapter[p]) /\ Armed(L) /\ L.run # 0 /\ L.readiness.timed
    BY HealthyParts DEF StartupTimeoutFires
<1>2. Sound(p, shutdown.active, M, adapter[p]) /\ Armed(M) /\ M.run = L.run
    BY <1>1, TimeoutStartupSound
<1>3. Sound(p, shutdown.active, M, b)
    BY <1>2, ContactedSound
<1>4. lifecycles' = [lifecycles EXCEPT ![p] = M] /\ adapter' = [adapter EXCEPT ![p] = b]
    BY DEF StartupTimeoutFires, StopWhen
<1> HIDE DEF M, b
<1>5. Settled
    BY <1>2, <1>3, <1>4, OneGood DEF Settled, Keeps
<1> QED
    BY <1>5 DEF Outcome

LEMMA ReleaseTimersGood ==
    ASSUME Healthy, StillSo, NEW expired \in SUBSET Processes, ReleaseTimers(expired)
    PROVE  Outcome
<1> DEFINE required == UNION {Required(q) : q \in expired}
           released == [q \in Processes |->
                    IF q \in expired THEN ReleaseRestartBackoff(lifecycles[q])
                    ELSE IF q \in required THEN RequireRunning(lifecycles[q], "Dependency")
                    ELSE lifecycles[q]]
<1>1. /\ Evaluate(released, adapter) /\ expired # {}
      /\ \A q \in expired : ValidRestartTimer(lifecycles[q])
    BY DEF ReleaseTimers
<1> HIDE DEF required
<1>2. shutdown.active = FALSE
    <2>1. PICK q \in expired : ValidRestartTimer(lifecycles[q])
        BY <1>1
    <2> QED
        BY <2>1, HealthyParts DEF ValidRestartTimer, Sound, Closed
<1>3. ASSUME NEW q \in Processes
      PROVE  Sound(q, FALSE, released[q], adapter[q]) /\ released[q].run = lifecycles[q].run
    <2>1. Sound(q, FALSE, lifecycles[q], adapter[q]) /\ "Dependency" \in Asked
        BY <1>2, HealthyParts DEF Asked
    <2>2. CASE q \in expired
        BY <1>1, <2>1, <2>2, ReleaseBackoffSound
    <2>3. CASE q \notin expired
        <3>1. /\ Sound(q, FALSE, RequireRunning(lifecycles[q], "Dependency"), adapter[q])
              /\ RequireRunning(lifecycles[q], "Dependency").run = lifecycles[q].run
            BY <2>1, RequireRunningSound
        <3> QED
            BY <2>1, <2>3, <3>1
    <2> QED
        BY <2>2, <2>3
<1>4. released = [q \in Processes |-> released[q]]
    OBVIOUS
<1> HIDE DEF released
<1>5. StatesOver(released, adapter)
    BY <1>3, <1>4, SoundType, HealthyParts DEF StatesOver
<1>6. Good(released, adapter)
    BY <1>2, <1>3, <1>5 DEF Good, Keeps, StillSo
<1> QED
    BY <1>1, <1>6 DEF Outcome, Passed

LEMMA ContinueBatchGood ==
    ASSUME Healthy, StillSo, NEW p \in Processes, ContinueBatch(p)
    PROVE  Outcome
<1>1. ~shutdown.active
    BY DEF ContinueBatch, Healthy, IInv, ClosedForGood, Idle, NoBatch
<1>2. \/ \E trigger \in Asked : StartAt(p, trigger) \/ RestartAt(p, trigger)
      \/ StopAt(p)
      \/ UNCHANGED <<lifecycles, adapter>>
    BY DEF ContinueBatch, ApplyProfileTo, Asked
<1>3. CASE UNCHANGED <<lifecycles, adapter>>
    BY <1>3, NothingGood DEF Outcome
<1> QED
    BY <1>1, <1>2, <1>3, StartAtGood, RestartAtGood, StopAtGood

(* The handlers that touch the Project shutdown.                           *)
LEMMA ShutdownMoves ==
    ASSUME Next
    PROVE  \/ UNCHANGED shutdown
           \/ BeginShutdown
           \/ ExpireShutdown
           \/ \E p \in Processes : FinishShutdownRun(p)
<1>1. ASSUME Command PROVE UNCHANGED shutdown \/ BeginShutdown
    BY <1>1 DEF Command, Start, StartAnyway, Stop, Restart, Rerun, StartAutostart,
        StopAll, SelectProfile, RestartProfiledAutostart
<1>2. ASSUME NEW p \in Processes, Event(p) PROVE UNCHANGED shutdown \/ FinishShutdownRun(p)
    <2>1. ASSUME FinishReport(p) PROVE FinishShutdownRun(p)
        BY <2>1 DEF FinishReport, Finished
    <2>2. ASSUME NEW kind, FailedReport(p, kind)
          PROVE  FinishShutdownRun(p) \/ UNCHANGED shutdown
        BY <2>2 DEF FailedReport
    <2>3. ASSUME NEW state, ReadinessResult(p, state) \/ LivenessResult(p, state)
          PROVE  UNCHANGED shutdown
        BY <2>3 DEF ReadinessResult, LivenessResult
    <2>4. ASSUME \/ SpawnSucceeds(p) \/ SpawnFails(p) \/ Spawned(p) \/ EndsByItself(p)
                 \/ EarlyLogMatch(p) \/ OutputFailure(p)
          PROVE  UNCHANGED shutdown
        BY <2>4 DEF SpawnSucceeds, SpawnFails, Spawned, EndsByItself, EarlyLogMatch, OutputFailure
    <2> QED
        BY <1>2, <2>1, <2>2, <2>3, <2>4 DEF Event
<1>3. ASSUME Timer PROVE UNCHANGED shutdown \/ ExpireShutdown
    BY <1>3 DEF Timer, RestartTimersFire, ReleaseTimers, StartupTimeoutFires
<1>4. ASSUME NEW p \in Processes, ContinueBatch(p) PROVE UNCHANGED shutdown
    BY <1>4 DEF ContinueBatch
<1> QED
    BY <1>1, <1>2, <1>3, <1>4 DEF Next

LEMMA NextOutcome ==
    ASSUME Healthy, Next
    PROVE  Outcome
<1>1. CASE BeginShutdown
    BY <1>1, BeginShutdownGood
<1>2. ASSUME ~BeginShutdown PROVE StillSo
    <2>1. shutdown \in ShutdownState
        BY DEF Healthy, IInv, TypeOK
    <2> QED
        BY <1>2, <2>1, ShutdownMoves DEF ExpireShutdown, FinishShutdownRun, ShutdownState, StillSo
<1>3. ASSUME Command, StillSo PROVE Outcome
    <2>1. ASSUME NEW p \in Processes, Start(p) PROVE Outcome
        BY <1>3, <2>1, StartAtGood DEF Start, Admitted, Asked
    <2>2. ASSUME NEW p \in Processes, StartAnyway(p) PROVE Outcome
        BY <2>2 DEF Outcome
    <2>3. ASSUME NEW p \in Processes, Stop(p) PROVE Outcome
        BY <1>3, <2>3, StopAtGood DEF Stop
    <2>4. ASSUME NEW p \in Processes, Restart(p) \/ Rerun(p) PROVE Outcome
        BY <1>3, <2>4, RestartAtGood DEF Restart, Rerun, Admitted, Asked
    <2>5. CASE StopAll
        BY <1>3, <2>5, StopAllGood
    <2>6. CASE StartAutostart \/ RestartProfiledAutostart \/ \E m \in Profiles : SelectProfile(m)
        BY <1>3, <2>6, NothingGood
        DEF StartAutostart, RestartProfiledAutostart, SelectProfile, Outcome
    <2> QED
        BY <1>1, <1>3, <2>1, <2>2, <2>3, <2>4, <2>5, <2>6 DEF Command
<1>4. ASSUME NEW p \in Processes, Event(p), StillSo PROVE Outcome
    <2>1. CASE SpawnSucceeds(p) \/ SpawnFails(p) \/ EndsByItself(p)
        BY <1>4, <2>1, AdapterOnlyGood
    <2>2. CASE Spawned(p)
        BY <1>4, <2>2, SpawnedGood
    <2>3. ASSUME NEW state \in CheckState, ReadinessResult(p, state) PROVE Outcome
        BY <1>4, <2>3, ReadinessGood
    <2>4. CASE EarlyLogMatch(p)
        <3>1. "Passing" \in CheckState
            BY DEF CheckState
        <3> QED
            BY <1>4, <2>4, <3>1, ReadinessGood
    <2>5. ASSUME NEW state \in CheckState, LivenessResult(p, state) PROVE Outcome
        BY <1>4, <2>5, LivenessGood
    <2>6. CASE OutputFailure(p)
        BY <1>4, <2>6, OutputFailureGood
    <2>7. CASE FinishReport(p)
        BY <1>4, <2>7, FinishedGood DEF FinishReport
    <2>8. ASSUME NEW kind \in {"Configuration", "Spawn"}, FailedReport(p, kind) PROVE Outcome
        BY <1>4, <2>8, FailedReportGood
    <2> QED
        BY <1>4, <2>1, <2>2, <2>3, <2>4, <2>5, <2>6, <2>7, <2>8 DEF Event
<1>5. ASSUME Timer, StillSo PROVE Outcome
    BY <1>5, ReleaseTimersGood, ExpireShutdownGood, StartupTimeoutGood DEF Timer, RestartTimersFire
<1>6. ASSUME NEW p \in Processes, ContinueBatch(p), StillSo PROVE Outcome
    BY <1>6, ContinueBatchGood
<1> QED
    BY <1>1, <1>2, <1>3, <1>4, <1>5, <1>6 DEF Next

-----------------------------------------------------------------------------
(* Theorems.                                                               *)

LEMMA PassedSettles ==
    ASSUME IInv, NEW pre, NEW ad, Good(pre, ad), Evaluate(pre, ad), shutdown'.active \in BOOLEAN,
           NEW p \in Processes
    PROVE  /\ Sound(p, shutdown'.active, lifecycles'[p], adapter'[p]) /\ Armed(lifecycles'[p])
           /\ lifecycles'[p] \in {WaitForDependency(pre[p]), BeginDesiredRun(pre[p], p)}
<1>1. /\ lifecycles'[p] \in {WaitForDependency(pre[p]), BeginDesiredRun(pre[p], p)}
      /\ adapter'[p] = Served(pre[p], ad[p], lifecycles'[p])
    BY EvaluateIsPass DEF Served
<1>2. profile \in Profiles /\ Sound(p, shutdown'.active, pre[p], ad[p])
    BY DEF IInv, TypeOK, Good
<1> DEFINE R == lifecycles'[p]
<1>3. R \in {WaitForDependency(pre[p]), BeginDesiredRun(pre[p], p)} /\ adapter'[p] = Served(pre[p], ad[p], R)
    BY <1>1
<1> HIDE DEF R
<1>4. Sound(p, shutdown'.active, R, Served(pre[p], ad[p], R)) /\ Armed(R)
    BY <1>2, <1>3, PassSound
<1> QED
    BY <1>1, <1>3, <1>4 DEF R

LEMMA StartAnywaySettles ==
    ASSUME Healthy, NEW p \in Processes, StartAnyway(p), NEW q \in Processes
    PROVE  Sound(q, shutdown'.active, lifecycles'[q], adapter'[q]) /\ Armed(lifecycles'[q])
<1> DEFINE M == PrepareStartAnyway(lifecycles[p])
           R == BeginDesiredRun(M, p)
<1>1. shutdown' = shutdown /\ shutdown.active = FALSE /\ CanStartAnyway(lifecycles[p])
      /\ lifecycles' = [lifecycles EXCEPT ![p] = R]
      /\ adapter' = WithNewRuns(lifecycles, lifecycles', adapter)
    BY HealthyParts DEF StartAnyway, Admitted
<1>2. Sound(p, FALSE, M, adapter[p]) /\ M.run = lifecycles[p].run
    <2>1. Sound(p, FALSE, lifecycles[p], adapter[p])
        BY <1>1, HealthyParts
    <2> QED
        BY <1>1, <2>1, StartAnywayRequestSound
<1>3. profile \in Profiles /\ lifecycles \in [Processes -> ProcessState]
    BY HealthyParts DEF StatesOver
<1> HIDE DEF M
<1>4. Sound(p, FALSE, R, Served(M, adapter[p], R)) /\ Armed(R)
    BY <1>2, <1>3, PassSound
<1> HIDE DEF R
<1>5. CASE q = p
    <2>1. lifecycles'[p] = R /\ adapter'[p] = Served(M, adapter[p], R)
        BY <1>1, <1>2, <1>3 DEF WithNewRuns, Served
    <2> QED
        BY <1>1, <1>4, <1>5, <2>1
<1>6. CASE q # p
    <2>1. lifecycles'[q] = lifecycles[q] /\ adapter'[q] = adapter[q]
        BY <1>1, <1>3, <1>6 DEF WithNewRuns
    <2> QED
        BY <1>1, <2>1, HealthyParts
<1> QED
    BY <1>5, <1>6

LEMMA RemainingNeedsShutdown ==
    ASSUME Healthy, Next, ~shutdown'.active
    PROVE  shutdown'.remaining = {}
<1>1. shutdown \in ShutdownState /\ (~shutdown.active => shutdown.remaining = {})
    BY DEF Healthy, IInv, TypeOK
<1>2. CASE UNCHANGED shutdown
    BY <1>1, <1>2
<1>3. ASSUME NEW p \in Processes, FinishShutdownRun(p) PROVE shutdown'.remaining = {}
    BY <1>1, <1>3 DEF FinishShutdownRun, ShutdownState
<1>4. CASE BeginShutdown \/ ExpireShutdown
    <2>1. BeginShutdown => shutdown'.active
        BY DEF BeginShutdown
    <2>2. ExpireShutdown => shutdown'.remaining = {}
        BY <1>1 DEF ExpireShutdown, ShutdownState
    <2> QED
        BY <1>4, <2>1, <2>2
<1>5. UNCHANGED shutdown \/ BeginShutdown \/ ExpireShutdown \/ \E p \in Processes : FinishShutdownRun(p)
    BY ShutdownMoves
<1> QED
    BY <1>2, <1>3, <1>4, <1>5

LEMMA NextHealthy ==
    ASSUME Healthy, Next
    PROVE  Healthy'
<1>1. IInv'
    BY StepKeepsInvariant DEF Healthy
<1>2. shutdown'.active \in BOOLEAN
    BY <1>1 DEF IInv, TypeOK, ShutdownState
<1>3. ASSUME NEW p \in Processes
      PROVE  Sound(p, shutdown'.active, lifecycles'[p], adapter'[p]) /\ Armed(lifecycles'[p])
    <2>1. CASE Passed
        BY <1>2, <2>1, PassedSettles DEF Passed, Healthy
    <2>2. CASE Settled
        BY <2>2 DEF Settled, Good
    <2>3. ASSUME NEW q \in Processes, StartAnyway(q)
          PROVE  Sound(p, shutdown'.active, lifecycles'[p], adapter'[p]) /\ Armed(lifecycles'[p])
        BY <2>3, StartAnywaySettles
    <2> QED
        BY <2>1, <2>2, <2>3, NextOutcome DEF Outcome
<1>4. \A p \in Processes :
          (Sound(p, shutdown.active, lifecycles[p], adapter[p]) /\ Armed(lifecycles[p]))'
    BY <1>3 DEF Sound, Placed, Budgeted, Timed, Armed, Completed, Silent, Watched, Explained, Halting, Closed,
        ValidRestartTimer
<1>5. (~shutdown.active => shutdown.remaining = {})'
    BY RemainingNeedsShutdown
<1> QED
    BY <1>1, <1>4, <1>5 DEF Healthy

LEMMA InitHealthy ==
    ASSUME Init
    PROVE  Healthy
<1>1. IInv
    BY InitSound
<1>2. shutdown.active = FALSE /\ shutdown.remaining = {}
    BY DEF Init
<1>3. ASSUME NEW p \in Processes
      PROVE  Sound(p, shutdown.active, lifecycles[p], adapter[p]) /\ Armed(lifecycles[p])
    <2>1. lifecycles[p] = NewProcess /\ adapter[p].phase = "none" /\ MaxRestarts[p] \in Nat
        BY ProcessAssumption DEF Init
    <2>2. lifecycles[p] \in ProcessState /\ adapter[p] \in AdapterState
        BY <1>1 DEF IInv, TypeOK
    <2> QED
        BY <1>2, <2>1, <2>2 DEF Sound, Placed, Budgeted, Timed, Armed, Completed, Silent, Watched,
            Explained, Halting, Closed, NewProcess, NoTracking, TimedOutPurposes
<1> QED
    BY <1>1, <1>2, <1>3 DEF Healthy

(* What every handler of the core leaves behind (Core::event and its       *)
(* siblings): the inductive invariant of the theorems below.               *)
THEOREM HealthHolds == Spec => []Healthy
<1>1. Init => Healthy
    BY InitHealthy
<1>2. Healthy /\ [Next]_vars => Healthy'
    <2>1. ASSUME Healthy, UNCHANGED vars PROVE Healthy'
        BY <2>1, StepKeepsInvariant DEF Healthy, Sound, Placed, Budgeted, Timed, Armed, Completed,
            Silent, Watched, Explained, Halting, Closed, ValidRestartTimer, vars
    <2> QED
        BY <2>1, NextHealthy
<1> QED
    BY <1>1, <1>2, PTL DEF Spec

(* No automatic restart on outdated authority: a timer is armed only while *)
(* it would still be honoured (valid_restart_deadline), a held Run keeps   *)
(* its identity and its silence (hold_unconfirmed_cleanup), and the        *)
(* budget is never overdrawn (schedule_automatic_restart).                 *)
THEOREM AuthorityHolds == Spec => []AuthorityIsBounded
<1>1. ASSUME Healthy, NEW p \in Processes
      PROVE  /\ lifecycles[p].backoff # 0 => ValidRestartTimer(lifecycles[p])
             /\ lifecycles[p].lifecycle = "RestartBackoff" => lifecycles[p].backoff # 0
             /\ lifecycles[p].unconfirmed => /\ lifecycles[p].run # 0
                                             /\ lifecycles[p].cancelled
                                             /\ adapter[p].phase = "held"
             /\ lifecycles[p].used <= MaxRestarts[p]
             /\ lifecycles[p].exhausted => lifecycles[p].backoff = 0
    BY <1>1 DEF Healthy, Sound, Timed, Armed, Placed, Budgeted
<1>2. Healthy => AuthorityIsBounded
    BY <1>1 DEF AuthorityIsBounded, BackoffHasAuthority, HeldRunIsQuiet, BudgetHolds
<1> QED
    BY <1>2, HealthHolds, PTL

(* Readiness, its deadline and liveness never disagree on how far a Run    *)
(* is, and confirm_cleanup finds the failure of every startup timeout.     *)
THEOREM HealthIsConsistent == Spec => []HealthFollowsTheRun
<1>1. ASSUME Healthy, NEW p \in Processes
      PROVE  /\ lifecycles[p].run # 0 /\ lifecycles[p].purpose \in TimedOutPurposes
                    => lifecycles[p].failure # NoFailure
             /\ lifecycles[p].liveness.started =>
                    lifecycles[p].spawned /\ lifecycles[p].lifecycle = "Running"
             /\ lifecycles[p].readiness.timed =>
                    lifecycles[p].lifecycle = "Starting" /\ lifecycles[p].desired = "Running"
    BY <1>1 DEF Healthy, Sound, Explained, Silent, Watched, ProcessState, Tracking
<1>2. Healthy => HealthFollowsTheRun
    BY <1>1 DEF HealthFollowsTheRun, TimeoutKeepsItsFailure, LivenessFollowsReadiness,
        DeadlineOnlyWhileStarting
<1> QED
    BY <1>2, HealthHolds, PTL

(* After request_stop recorded a manual stop no order of reports makes an  *)
(* automatic restart follow the Run.                                       *)
THEOREM StopIsObeyed == Spec => StopSuppressesRestart
<1>1. ASSUME Healthy, Next, NEW p \in Processes,
             lifecycles[p].purpose = "ManualStop", lifecycles[p].run # 0
      PROVE  lifecycles'[p].backoff = 0
    <2>1. Healthy'
        BY <1>1, NextHealthy
    <2>2. lifecycles'[p].run # 0 => lifecycles'[p].backoff = 0
        BY <2>1 DEF Healthy, Sound, Timed, ValidRestartTimer
    <2>3. CASE Settled
        BY <1>1, <2>2, <2>3 DEF Settled, Good, Keeps
    <2>4. CASE Passed
        <3>1. PICK pre, ad : Good(pre, ad) /\ Evaluate(pre, ad)
            BY <2>4 DEF Passed
        <3>2. shutdown'.active \in BOOLEAN
            BY <2>1 DEF Healthy, IInv, TypeOK, ShutdownState
        <3>3. lifecycles'[p] \in {WaitForDependency(pre[p]), BeginDesiredRun(pre[p], p)}
            BY <1>1, <3>1, <3>2, PassedSettles DEF Healthy
        <3>4. pre[p] \in ProcessState /\ Timed(pre[p])
              /\ (pre[p].run = 0 => pre[p].backoff = 0)
            BY <1>1, <3>1 DEF Good, Keeps, Sound
        <3>5. pre[p].backoff = 0
            BY <3>4 DEF Timed, ValidRestartTimer
        <3>6. WaitForDependency(pre[p]).backoff = 0
            BY <3>4, <3>5 DEF WaitForDependency, ProcessState
        <3>7. BeginDesiredRun(pre[p], p).backoff = 0
            BY <3>4, <3>5 DEF BeginDesiredRun, AdmitRun, BeginRun, ClearRestartState,
                ExhaustRestartBudget, ProcessState
        <3> QED
            BY <3>3, <3>6, <3>7
    <2>5. ASSUME NEW q \in Processes, StartAnyway(q) PROVE lifecycles'[p].backoff = 0
        <3>1. p # q /\ lifecycles'[p] = lifecycles[p]
            BY <1>1, <2>5, HealthyParts DEF StartAnyway, CanStartAnyway, StatesOver
        <3> QED
            BY <1>1, <2>2, <3>1
    <2> QED
        BY <1>1, <2>3, <2>4, <2>5, NextOutcome DEF Outcome
<1>2. Healthy /\ [Next]_vars =>
          [\A p \in Processes :
              lifecycles[p].purpose = "ManualStop" /\ lifecycles[p].run # 0
                  => lifecycles'[p].backoff = 0]_vars
    BY <1>1
<1> QED
    BY <1>2, HealthHolds, PTL DEF Spec, StopSuppressesRestart

(* A Dependency that held before the pass and is judged by that still      *)
(* holds after it, or has begun a Run or turned to Waiting.                *)
LEMMA ConditionAfterPass ==
    ASSUME NEW d \in Processes, NEW closed, NEW L, NEW a, Sound(d, closed, L, a),
           NEW condition \in Conditions, ConditionSatisfied(L, condition), profile \in Profiles,
           NEW R \in {WaitForDependency(L), BeginDesiredRun(L, d)}
    PROVE  \/ ConditionSatisfied(R, condition)
           \/ R.lifecycle = "Waiting"
           \/ L.run = 0 /\ R.run = L.next
<1>1. L \in ProcessState /\ (L.lifecycle = "Done" /\ L.desired = "Running" => L.pending # "AutomaticRestart")
    BY DEF Sound, Completed
<1>2. CASE R = WaitForDependency(L)
    <2>1. R = L \/ R.lifecycle = "Waiting"
        BY <1>1, <1>2 DEF WaitForDependency, ProcessState
    <2> QED
        BY <2>1
<1>3. CASE R = BeginDesiredRun(L, d) /\ ~CanStart(L)
    BY <1>3 DEF BeginDesiredRun
<1>4. CASE CanStart(L) /\ \E M \in ProcessState : M.next = L.next /\ R = AdmitRun(M, d)
    BY <1>4, AdmitRunTakesNext DEF CanStart
<1>5. CASE R = ExhaustRestartBudget(L) /\ CanStart(L) /\ L.pending = "AutomaticRestart"
    <2>1. R.exited = L.exited /\ L.run = 0 /\ L.lifecycle # "Done"
        BY <1>1, <1>5 DEF ExhaustRestartBudget, CanStart, ProcessState
    <2>2. condition = "exited"
        BY <2>1 DEF Conditions, ConditionSatisfied, StartedSatisfied, ReadySatisfied
    <2> QED
        BY <2>1, <2>2 DEF ConditionSatisfied
<1>6. CASE R = BeginDesiredRun(L, d) /\ CanStart(L)
    <2>1. \/ R = AdmitRun(L, d)
          \/ R = AdmitRun([L EXCEPT !.used = @ + 1], d)
          \/ R = ExhaustRestartBudget(L) /\ L.pending = "AutomaticRestart"
        BY <1>6 DEF BeginDesiredRun
    <2>2. [L EXCEPT !.used = @ + 1] \in ProcessState /\ [L EXCEPT !.used = @ + 1].next = L.next
        BY <1>1 DEF ProcessState
    <2> QED
        BY <1>1, <1>4, <1>5, <1>6, <2>1, <2>2
<1> QED
    BY <1>2, <1>3, <1>6

LEMMA NoSelfDependency ==
    ASSUME profile \in Profiles, NEW p \in Processes, NEW d \in Processes, DependsOn(p, d)
    PROVE  d # p /\ Depends[profile][p][d] \in Conditions
<1>1. PICK rank \in [Processes -> Processes] :
          \A q, e \in Processes : Depends[profile][q][e] # "none" => rank[e] < rank[q]
    BY ValidatedAssumption
<1>2. rank[d] < rank[p] /\ rank[p] \in Nat
    BY <1>1 DEF DependsOn, Processes
<1> QED
    BY <1>2, ProfileAssumption DEF DependsOn

(* evaluate admits a Run only while its Dependencies hold, in every order  *)
(* of configuration; Start Anyway is the one exception.                    *)
THEOREM AdmissionNeedsDependencies == Spec => AdmittedWhenSatisfied
<1> DEFINE Rightly(p, d) ==
        /\ IsEnabled(d)
        /\ \/ ConditionSatisfied(lifecycles'[d], Depends[profile][p][d])
           \/ /\ d > p
              /\ \/ lifecycles'[d].run \notin {0, lifecycles[d].run}
                 \/ lifecycles'[d].lifecycle = "Waiting"
<1>1. ASSUME Healthy, Next, NEW p \in Processes, NEW d \in Processes,
             lifecycles'[p].run \notin {0, lifecycles[p].run},
             lifecycles'[p].pending # "StartAnyway", DependsOn(p, d)
      PROVE  Rightly(p, d)
    <2>1. Healthy' /\ profile \in Profiles /\ d # p /\ Depends[profile][p][d] \in Conditions
        BY <1>1, NextHealthy, HealthyParts, NoSelfDependency
    <2>2. CASE Settled
        BY <1>1, <2>2 DEF Settled, Good, Keeps
    <2>3. ASSUME NEW q \in Processes, StartAnyway(q) PROVE FALSE
        <3>1. q = p
            BY <1>1, <2>3, HealthyParts DEF StartAnyway, StatesOver
        <3> DEFINE M == PrepareStartAnyway(lifecycles[p])
        <3>2. lifecycles'[p] = BeginDesiredRun(M, p)
            BY <1>1, <2>3, <3>1, HealthyParts DEF StartAnyway, StatesOver
        <3>3. M \in ProcessState /\ M.pending = "StartAnyway"
            <4>1. lifecycles[p] \in ProcessState
                BY HealthyParts, <1>1 DEF StatesOver
            <4> QED
                BY <4>1, PrepareStartAnywayQuiet DEF Quiet, SameRun, PrepareStartAnyway, ResetBudget,
                    ClearRestartState, ProcessState
        <3> HIDE DEF M
        <3>4. BeginDesiredRun(M, p).pending = "StartAnyway"
            BY <3>3 DEF BeginDesiredRun, AdmitRun, BeginRun, ClearRestartState, ProcessState
        <3> QED
            BY <1>1, <3>2, <3>4
    <2>4. CASE Passed
        <3>1. PICK pre, ad : Good(pre, ad) /\ Evaluate(pre, ad)
            BY <2>4 DEF Passed
        <3>2. PICK blocked \in SUBSET Processes :
                  /\ \A q \in Processes : q \in blocked <=> Blocked(Visible(pre, lifecycles', q), q)
                  /\ lifecycles' = Pass(pre, blocked)
            BY <3>1 DEF Evaluate
        <3>3. shutdown'.active \in BOOLEAN
            BY <2>1 DEF Healthy, IInv, TypeOK, ShutdownState
        <3>4. p \notin blocked
            <4>1. lifecycles'[p].run # pre[p].run
                BY <1>1, <3>1 DEF Good, Keeps
            <4>2. WaitForDependency(pre[p]).run = pre[p].run
                BY <3>1, WaitSound DEF Good
            <4> QED
                BY <3>2, <4>1, <4>2 DEF Pass
        <3>5. /\ IsEnabled(d)
              /\ ConditionSatisfied(Visible(pre, lifecycles', p)[d], Depends[profile][p][d])
            BY <1>1, <3>2, <3>4 DEF Blocked
        <3>6. CASE d < p
            BY <3>5, <3>6 DEF Visible
        <3>7. CASE d > p
            <4>1. ConditionSatisfied(pre[d], Depends[profile][p][d])
                BY <3>5, <3>7 DEF Visible, Processes
            <4>2. lifecycles'[d] \in {WaitForDependency(pre[d]), BeginDesiredRun(pre[d], d)}
                BY <1>1, <3>1, <3>3, PassedSettles DEF Healthy
            <4>3. \/ ConditionSatisfied(lifecycles'[d], Depends[profile][p][d])
                  \/ lifecycles'[d].lifecycle = "Waiting"
                  \/ pre[d].run = 0 /\ lifecycles'[d].run = pre[d].next
                BY <2>1, <3>1, <4>1, <4>2, ConditionAfterPass DEF Good
            <4>4. pre[d] \in ProcessState /\ pre[d].next # 0 /\ Keeps(d, lifecycles[d], pre[d])
                BY <3>1 DEF Good, StatesOver, ProcessState
            <4>5. lifecycles[d].run # 0 => lifecycles[d].next # lifecycles[d].run
                BY <1>1, HealthyParts DEF Sound, Placed, ProcessState
            <4>6. pre[d].run = 0 /\ lifecycles'[d].run = pre[d].next
                      => lifecycles'[d].run \notin {0, lifecycles[d].run}
                BY <4>4, <4>5 DEF Keeps
            <4> QED
                BY <3>5, <3>7, <4>3, <4>6
        <3> QED
            BY <2>1, <3>6, <3>7 DEF Processes
    <2> QED
        BY <1>1, <2>2, <2>3, <2>4, NextOutcome DEF Outcome
<1>2. Healthy /\ [Next]_vars =>
          [\A p, d \in Processes :
              /\ lifecycles'[p].run \notin {0, lifecycles[p].run}
              /\ lifecycles'[p].pending # "StartAnyway"
              /\ DependsOn(p, d)
              => Rightly(p, d)]_vars
    BY <1>1
<1> QED
    BY <1>2, HealthHolds, PTL DEF Spec, AdmittedWhenSatisfied

-----------------------------------------------------------------------------
(* Applying a Profile.                                                     *)

(* What the loop of the command leaves behind at each Process it is about. *)
Reached(p, L) ==
    \/ L.run = 0
    \/ L.applied = Label[profile][p]
    \/ p \notin Autostart /\ IsEnabled(p)
    \/ L.lifecycle = "Stopping"
    \/ L.unconfirmed

Reaching ==
    batch.of = "profile" => \A p \in Processes \ batch.left : Reached(p, lifecycles[p])

SamePlace(L, M) ==
    /\ M \in ProcessState
    /\ M.run = L.run /\ M.applied = L.applied
    /\ M.lifecycle = L.lifecycle /\ M.unconfirmed = L.unconfirmed

LEMMA SamePlaceReached ==
    ASSUME NEW p, NEW L, NEW M, Reached(p, L), SamePlace(L, M)
    PROVE  Reached(p, M)
BY DEF Reached, SamePlace

(* A pass begins a Run of the Profile that is selected, or lets it be.     *)
LEMMA PassReaches ==
    ASSUME NEW p \in Processes, NEW L \in ProcessState, Reached(p, L),
           NEW M \in {WaitForDependency(L), BeginDesiredRun(L, p)}
    PROVE  Reached(p, M)
<1>1. CASE M = WaitForDependency(L)
    BY <1>1 DEF WaitForDependency, Reached, ProcessState
<1>2. ASSUME NEW R \in ProcessState PROVE AdmitRun(R, p).applied = Label[profile][p]
    BY <1>2 DEF AdmitRun, BeginRun, ClearRestartState, ProcessState
<1>3. CASE M = BeginDesiredRun(L, p) /\ CanStart(L)
    <2> DEFINE charged == [L EXCEPT !.used = @ + 1]
    <2>1. charged \in ProcessState
        BY DEF ProcessState
    <2> HIDE DEF charged
    <2>2. M \in {AdmitRun(L, p), AdmitRun(charged, p), ExhaustRestartBudget(L)}
        BY <1>3 DEF BeginDesiredRun, charged
    <2>3. ExhaustRestartBudget(L).run = 0
        BY <1>3 DEF ExhaustRestartBudget, CanStart, ProcessState
    <2> QED
        BY <1>2, <2>1, <2>2, <2>3 DEF Reached
<1>4. CASE M = BeginDesiredRun(L, p) /\ ~CanStart(L)
    BY <1>4 DEF BeginDesiredRun
<1> QED
    BY <1>1, <1>3, <1>4

LEMMA EvaluateReaches ==
    ASSUME NEW pre \in [Processes -> ProcessState], NEW ad, Evaluate(pre, ad),
           NEW p \in Processes, Reached(p, pre[p])
    PROVE  Reached(p, lifecycles'[p])
<1> DEFINE M == lifecycles'[p]
<1>1. M \in {WaitForDependency(pre[p]), BeginDesiredRun(pre[p], p)} /\ pre[p] \in ProcessState
    BY EvaluateIsPass
<1> HIDE DEF M
<1>2. Reached(p, M)
    BY <1>1, PassReaches
<1> QED
    BY <1>2 DEF M

LEMMA RequestKeepsPlace ==
    ASSUME NEW L \in ProcessState, NEW trigger \in Asked
    PROVE  SamePlace(L, PrepareRestartRequest(L, trigger)) /\ SamePlace(L, RequireRunning(L, trigger))
<1>1. trigger \in RunTrigger
    BY DEF Asked, RunTrigger
<1>2. PrepareRestartRequest(L, trigger) \in ProcessState /\ RequireRunning(L, trigger) \in ProcessState
    BY <1>1, PrepareRestartRequestQuiet, RequireRunningKeepsRun DEF Quiet, SameRun
<1> QED
    BY <1>2 DEF SamePlace, PrepareRestartRequest, RequireRunning, ResetBudget, ClearRestartState,
        ProcessState

(* A restart stops the Run; a Process without one gets a new one later.    *)
LEMMA RestartReaches ==
    ASSUME Healthy, NEW p \in Processes, NEW trigger \in Asked, IsEnabled(p), RestartAt(p, trigger),
           NEW q \in Processes, q = p \/ Reached(q, lifecycles[q])
    PROVE  Reached(q, lifecycles'[q])
<1> DEFINE prepared == [lifecycles EXCEPT ![p] = PrepareRestartRequest(@, trigger)]
           required == RequireRunningFrom(prepared, p, trigger)
           replaced == [required EXCEPT ![p] = BeginReplacementCleanup(@)]
<1>1. lifecycles \in [Processes -> ProcessState] /\ "Dependency" \in Asked
    BY HealthyParts DEF StatesOver, Asked
<1>2. ASSUME NEW r \in Processes PROVE SamePlace(lifecycles[r], prepared[r])
    <2>1. SamePlace(lifecycles[p], PrepareRestartRequest(lifecycles[p], trigger))
        BY <1>1, RequestKeepsPlace
    <2>2. CASE r = p
        BY <1>1, <2>1, <2>2
    <2>3. CASE r # p
        BY <1>1, <2>3 DEF SamePlace
    <2> QED
        BY <2>2, <2>3
<1>3. ASSUME NEW r \in Processes PROVE SamePlace(lifecycles[r], required[r])
    <2>1. required[r] \in {prepared[r], RequireRunning(prepared[r], trigger),
                           RequireRunning(prepared[r], "Dependency")}
        BY DEF RequireRunningFrom
    <2>2. prepared[r] \in ProcessState /\ SamePlace(lifecycles[r], prepared[r])
        BY <1>2 DEF SamePlace
    <2> HIDE DEF required, prepared
    <2>3. \A asked \in Asked : SamePlace(prepared[r], RequireRunning(prepared[r], asked))
        BY <2>2, RequestKeepsPlace
    <2> QED
        BY <1>1, <2>1, <2>2, <2>3 DEF SamePlace
<1>4. required = [r \in Processes |-> required[r]]
    BY DEF RequireRunningFrom
<1>5. CASE CanReplace(required[p])
    <2>1. Evaluate(replaced, StopWhen(p, TRUE))
        BY <1>5 DEF RestartAt
    <2> HIDE DEF required
    <2>2. required \in [Processes -> ProcessState]
        BY <1>3, <1>4 DEF SamePlace
    <2>3. BeginReplacementCleanup(required[p]) \in ProcessState
        BY <2>2, BeginReplacementCleanupQuiet DEF Quiet, SameRun
    <2>4. replaced \in [Processes -> ProcessState]
        BY <2>2, <2>3
    <2>5. Reached(q, replaced[q])
        <3>1. CASE q = p
            <4>1. BeginReplacementCleanup(required[p]).lifecycle = "Stopping"
                BY <2>2 DEF BeginReplacementCleanup, CancelRunWork, ProcessState
            <4> QED
                BY <2>2, <3>1, <4>1 DEF Reached
        <3>2. CASE q # p
            BY <1>3, <2>2, <3>2, SamePlaceReached
        <3> QED
            BY <3>1, <3>2
    <2> HIDE DEF replaced
    <2> QED
        BY <2>1, <2>4, <2>5, EvaluateReaches
<1>6. CASE ~CanReplace(required[p])
    <2>1. Evaluate(required, adapter)
        BY <1>6 DEF RestartAt
    <2> HIDE DEF required
    <2>2. required \in [Processes -> ProcessState]
        BY <1>3, <1>4 DEF SamePlace
    <2>3. Reached(q, required[q])
        BY <1>3, <1>6, SamePlaceReached DEF CanReplace, Reached
    <2> QED
        BY <2>1, <2>2, <2>3, EvaluateReaches
<1> QED
    BY <1>5, <1>6

(* A stop finds a Run that works, is being stopped already or is held.     *)
LEMMA StopReaches ==
    ASSUME Healthy, ~shutdown.active, NEW p \in Processes, StopAt(p),
           NEW q \in Processes, q = p \/ Reached(q, lifecycles[q])
    PROVE  Reached(q, lifecycles'[q])
<1> DEFINE L == lifecycles[p]
<1>1. Sound(p, FALSE, L, adapter[p]) /\ L \in ProcessState
    BY HealthyParts DEF Sound
<1>2. lifecycles' = [lifecycles EXCEPT ![p] = RequestStop(L)] /\ lifecycles \in [Processes -> ProcessState]
    BY HealthyParts DEF StopAt, StatesOver
<1> HIDE DEF L
<1>3. CASE L.run # 0 /\ ~L.unconfirmed
    <2>1. L.backoff = 0
        BY <1>1, <1>3 DEF Sound, Timed, ValidRestartTimer
    <2>2. L.lifecycle = "Stopping" \/ StopNeedsCleanup(L)
        BY <1>1, <1>3, <2>1 DEF Sound, Watched, Halting, StopNeedsCleanup
    <2> QED
        <3>1. RequestStop(L).lifecycle = "Stopping"
            BY <1>1, <1>3, <2>1, <2>2
            DEF RequestStop, StopNeedsCleanup, CancelRunWork, ProcessState
        <3> QED
            BY <1>2, <3>1 DEF Reached
<1>4. CASE L.run = 0 \/ L.unconfirmed
    <2>1. RequestStop(L).run = L.run
        BY <1>1, RequestStopQuiet DEF Quiet, SameRun
    <2>2. L.unconfirmed => RequestStop(L).lifecycle = "Stopping"
        BY <1>1 DEF RequestStop, RetryCleanup, CancelRunWork, ProcessState
    <2> QED
        BY <1>2, <1>4, <2>1, <2>2 DEF Reached
<1> QED
    BY <1>3, <1>4

LEMMA BatchReaches ==
    ASSUME Healthy, Reaching, batch.of = "profile", NEW p \in Processes, ContinueBatch(p),
           NEW q \in Processes, q = p \/ q \notin batch.left
    PROVE  Reached(q, lifecycles'[q])
<1>1. ~shutdown.active /\ ApplyProfileTo(p)
    BY DEF ContinueBatch, Healthy, IInv, ClosedForGood, Idle, NoBatch
<1>2. q = p \/ Reached(q, lifecycles[q])
    BY DEF Reaching
<1>3. CASE ~IsEnabled(p)
    BY <1>1, <1>2, <1>3, StopReaches DEF ApplyProfileTo
<1>4. CASE IsEnabled(p) /\ p \in Autostart
    <2>1. PICK trigger \in Asked : RestartAt(p, trigger)
        BY <1>1, <1>4 DEF ApplyProfileTo, Asked
    <2> QED
        BY <1>2, <1>4, <2>1, RestartReaches
<1>5. CASE IsEnabled(p) /\ p \notin Autostart
    BY <1>1, <1>2, <1>5 DEF ApplyProfileTo, Reached
<1> QED
    BY <1>3, <1>4, <1>5

(* While a command's loop runs, no other handler does.                     *)
LEMMA LoopIsAlone ==
    ASSUME Next, batch.of # "none"
    PROVE  \/ UNCHANGED <<lifecycles, profile, batch>>
           \/ \E p \in Processes : ContinueBatch(p)
<1>1. ~Idle
    BY DEF Idle, NoBatch
<1>2. Command => FALSE
    BY <1>1 DEF Command, Start, StartAnyway, Stop, Restart, Rerun, StopAll, StartAutostart,
        RestartProfiledAutostart, SelectProfile, BeginShutdown, Admitted, Requested
<1>3. Timer => FALSE
    BY <1>1 DEF Timer, StartupTimeoutFires, RestartTimersFire, ReleaseTimers, ExpireShutdown
<1>4. ASSUME NEW p \in Processes, Event(p) PROVE UNCHANGED <<lifecycles, profile, batch>>
    BY <1>1, <1>4 DEF Event, SpawnSucceeds, SpawnFails, EndsByItself, Spawned, ReadinessResult,
        EarlyLogMatch, LivenessResult, OutputFailure, FinishReport, Finished, FailedReport
<1> QED
    BY <1>2, <1>3, <1>4 DEF Next

LEMMA ReachingKept ==
    ASSUME Healthy, Reaching, Next
    PROVE  Reaching'
<1>1. batch \in BatchState /\ lifecycles \in [Processes -> ProcessState]
    BY DEF Healthy, IInv, TypeOK
<1>2. CASE batch.of # "none" /\ UNCHANGED <<lifecycles, profile, batch>>
    BY <1>2 DEF Reaching, Reached, IsEnabled
<1>3. ASSUME NEW p \in Processes, ContinueBatch(p) PROVE Reaching'
    <2>1. profile' = profile /\ batch' \in {NoBatch, [batch EXCEPT !.left = @ \ {p}]}
        BY <1>3 DEF ContinueBatch
    <2>2. ASSUME batch'.of = "profile", NEW q \in Processes, q \notin batch'.left
          PROVE  Reached(q, lifecycles'[q])
        <3>1. batch.of = "profile" /\ (q = p \/ q \notin batch.left)
            BY <1>1, <2>1, <2>2 DEF NoBatch, BatchState
        <3> QED
            BY <1>3, <3>1, BatchReaches
    <2> QED
        BY <2>1, <2>2 DEF Reaching, Reached, IsEnabled
<1>4. CASE batch.of = "none"
    <2>1. ASSUME batch'.of = "profile" PROVE RestartProfiledAutostart
        <3>1. batch' # batch
            BY <1>4, <2>1
        <3>2. Command => RestartProfiledAutostart
            BY <2>1, <3>1 DEF Command, Start, StartAnyway, Stop, Restart, Rerun, StopAll,
                StartAutostart, SelectProfile, BeginShutdown
        <3>3. ASSUME NEW p \in Processes, ContinueBatch(p) PROVE FALSE
            <4>1. batch' \in {NoBatch, [batch EXCEPT !.left = @ \ {p}]}
                BY <3>3 DEF ContinueBatch
            <4> QED
                BY <1>1, <1>4, <2>1, <4>1 DEF NoBatch, BatchState
        <3>4. ASSUME NEW p \in Processes, Event(p) PROVE FALSE
            BY <3>1, <3>4 DEF Event, SpawnSucceeds, SpawnFails, EndsByItself, Spawned,
                ReadinessResult, EarlyLogMatch, LivenessResult, OutputFailure, FinishReport,
                Finished, FailedReport
        <3>5. Timer => FALSE
            BY <3>1 DEF Timer, StartupTimeoutFires, RestartTimersFire, ReleaseTimers, ExpireShutdown
        <3> QED
            BY <3>2, <3>3, <3>4, <3>5 DEF Next
    <2>2. RestartProfiledAutostart => Reaching'
        BY DEF RestartProfiledAutostart, ProfileAffected, Reaching, Reached, IsEnabled
    <2> QED
        BY <2>1, <2>2 DEF Reaching
<1> QED
    BY <1>2, <1>3, <1>4, LoopIsAlone

(* Applying a Profile (restart_profiled_autostart) reaches every active    *)
(* Run of an older Profile: when its loop ends, each of them whose Process *)
(* is now disabled, or autostarts, is being stopped or held for a retry,   *)
(* whatever state the stops and restarts found it in.                      *)
THEOREM ProfilesAreApplied == Spec => ProfileReachesEveryRun
<1>1. Init => Reaching
    BY DEF Init, Reaching, NoBatch
<1>2. Healthy /\ Reaching /\ [Next]_vars => Reaching'
    <2>1. Reaching /\ UNCHANGED vars => Reaching'
        BY DEF Reaching, Reached, IsEnabled, vars
    <2> QED
        BY <2>1, ReachingKept
<1>3. ASSUME Healthy, Reaching, Next, batch.of = "profile", batch'.of = "none",
             NEW p \in Processes
      PROVE  Reached(p, lifecycles'[p])
    <2>1. PICK q \in Processes : ContinueBatch(q)
        BY <1>3, LoopIsAlone
    <2>2. batch.left = {q}
        BY <1>3, <2>1 DEF ContinueBatch, Healthy, IInv, TypeOK, BatchState
    <2> QED
        BY <1>3, <2>1, <2>2, BatchReaches
<1>4. Healthy /\ Reaching /\ [Next]_vars =>
          [batch.of = "profile" /\ batch'.of = "none" =>
              \A p \in Processes :
                  \/ lifecycles'[p].run = 0
                  \/ lifecycles'[p].applied = Label[profile][p]
                  \/ p \notin Autostart /\ IsEnabled(p)
                  \/ lifecycles'[p].lifecycle = "Stopping"
                  \/ lifecycles'[p].unconfirmed]_vars
    BY <1>3 DEF Reached
<1> QED
    BY <1>1, <1>2, <1>4, HealthHolds, PTL DEF Spec, ProfileReachesEveryRun

-----------------------------------------------------------------------------
(* The Project shutdown: it always waits for somebody it has asked to      *)
(* stop, and, as long as the Profile that orders it stays the same,        *)
(* dependents stop before their Dependencies.                              *)

(* Whoever is left of a shutdown can be stopped: some Run has no dependent *)
(* among them.  This is where a Project needs acyclic Dependencies.        *)
LEMMA SomebodyIsNotNeeded ==
    ASSUME NEW S \in SUBSET Processes, S # {}, profile \in Profiles
    PROVE  \E d \in S : \A q \in S : ~DependsOn(q, d)
<1>1. PICK rank \in [Processes -> Processes] :
          \A q, d \in Processes : Depends[profile][q][d] # "none" => rank[d] < rank[q]
    BY ValidatedAssumption
<1>2. N \in Nat /\ \A q \in S : q \in Processes /\ rank[q] \in 1..N
    BY <1>1, CountAssumption DEF Processes
<1> DEFINE depths == {N - rank[q] : q \in S}
<1>3. depths \subseteq Nat /\ depths # {}
    BY <1>2
<1> HIDE DEF depths
<1>4. PICK least \in depths : \A x \in depths : ~(<<x, least>> \in OpToRel(<, Nat))
    BY <1>3, WFMin, NatLessThanWellFounded
<1>5. \A x \in depths : ~(x < least)
    BY <1>3, <1>4 DEF OpToRel
<1>6. PICK d \in S : least = N - rank[d]
    BY <1>4 DEF depths
<1>7. ASSUME NEW q \in S, DependsOn(q, d) PROVE FALSE
    <2>1. rank[d] < rank[q]
        BY <1>1, <1>2, <1>7 DEF DependsOn
    <2>2. N - rank[q] \in depths
        BY DEF depths
    <2> QED
        BY <1>2, <1>5, <1>6, <2>1, <2>2
<1> QED
    BY <1>7

(* A pass never releases a Run.                                            *)
LEMMA PassKeepsRun ==
    ASSUME NEW L \in ProcessState, L.run # 0, NEW p,
           NEW R \in {WaitForDependency(L), BeginDesiredRun(L, p)}
    PROVE  R.run # 0
BY DEF WaitForDependency, BeginDesiredRun, CanStart, ProcessState

LEMMA RemainingAreCurrent ==
    ASSUME Healthy, \A p \in shutdown.remaining : lifecycles[p].run # 0, Next
    PROVE  \A p \in shutdown'.remaining : lifecycles'[p].run # 0
<1>1. TypeOK /\ TypeOK'
    BY NextHealthy, HealthyParts DEF Healthy, IInv
<1>2. \A p \in shutdown'.remaining : p \in Processes /\ lifecycles[p].run # 0
    <2>1. shutdown'.remaining \subseteq Processes
        BY <1>1 DEF TypeOK, ShutdownState
    <2>2. BeginShutdown => shutdown'.remaining = {p \in Processes : lifecycles[p].run # 0}
        BY DEF BeginShutdown
    <2>3. ExpireShutdown => shutdown'.remaining = {}
        BY <1>1 DEF ExpireShutdown, TypeOK, ShutdownState
    <2>4. ASSUME NEW p \in Processes, FinishShutdownRun(p)
          PROVE  shutdown'.remaining \subseteq shutdown.remaining
        BY <1>1, <2>4 DEF FinishShutdownRun, TypeOK, ShutdownState
    <2> QED
        BY <2>1, <2>2, <2>3, <2>4, ShutdownMoves
<1>3. ASSUME NEW p \in shutdown'.remaining PROVE lifecycles'[p].run # 0
    <2>1. CASE Settled
        BY <1>2, <1>3, <2>1 DEF Settled, Good, Keeps
    <2>2. CASE Passed
        <3>1. PICK pre, ad : Good(pre, ad) /\ Evaluate(pre, ad)
            BY <2>2 DEF Passed
        <3>2. pre[p] \in ProcessState /\ pre[p].run # 0
            BY <1>2, <1>3, <3>1 DEF Good, Keeps, Sound
        <3>3. lifecycles'[p] \in {WaitForDependency(pre[p]), BeginDesiredRun(pre[p], p)}
            BY <1>2, <3>1, EvaluateIsPass
        <3> QED
            BY <3>2, <3>3, PassKeepsRun
    <2>3. ASSUME NEW q \in Processes, StartAnyway(q) PROVE FALSE
        <3>1. ~shutdown.active /\ shutdown' = shutdown
            BY <2>3 DEF StartAnyway, Admitted
        <3> QED
            BY <1>3, <3>1 DEF Healthy
    <2> QED
        BY <2>1, <2>2, <2>3, NextOutcome DEF Outcome
<1> QED
    BY <1>3

LEMMA SomebodyIsAsked ==
    ASSUME Healthy, shutdown.remaining # {} => shutdown.remaining \cap shutdown.dispatched # {}, Next
    PROVE  shutdown'.remaining # {} => shutdown'.remaining \cap shutdown'.dispatched # {}
<1>1. profile \in Profiles /\ shutdown \in ShutdownState
    BY HealthyParts DEF TypeOK
<1>2. ASSUME NEW S \in SUBSET Processes, S # {}, NEW dispatched
      PROVE  S \cap (dispatched \cup Wave(S, dispatched)) # {}
    BY <1>1, <1>2, SomebodyIsNotNeeded DEF Wave
<1>3. CASE BeginShutdown
    <2> DEFINE running == {p \in Processes : lifecycles[p].run # 0}
    <2>1. shutdown'.remaining = running /\ shutdown'.dispatched = Wave(running, {})
        BY <1>3 DEF BeginShutdown
    <2>2. running # {} => running \cap ({} \cup Wave(running, {})) # {}
        BY <1>2
    <2> QED
        BY <2>1, <2>2
<1>4. CASE ExpireShutdown
    BY <1>1, <1>4 DEF ExpireShutdown, ShutdownState
<1>5. ASSUME NEW p \in Processes, FinishShutdownRun(p)
      PROVE  shutdown'.remaining # {} => shutdown'.remaining \cap shutdown'.dispatched # {}
    <2> DEFINE left == shutdown.remaining \ {p}
    <2>1. /\ shutdown'.remaining = left
          /\ shutdown'.dispatched = shutdown.dispatched \cup NextWave(p)
        BY <1>1, <1>5 DEF FinishShutdownRun, ShutdownState
    <2>2. CASE p \in shutdown.remaining
        <3>1. NextWave(p) = Wave(left, shutdown.dispatched) /\ left \in SUBSET Processes
            BY <1>1, <2>2 DEF NextWave, ShutdownState
        <3> HIDE DEF left
        <3> QED
            BY <1>2, <2>1, <3>1
    <2>3. CASE p \notin shutdown.remaining
        <3>1. left = shutdown.remaining
            BY <2>3
        <3> QED
            BY <2>1, <3>1
    <2> QED
        BY <2>2, <2>3
<1> QED
    BY <1>3, <1>4, <1>5, ShutdownMoves

(* shutdown.rs never waits for a Run that is gone, and never for Runs that *)
(* nobody asked to stop: each end that leaves somebody releases a wave.    *)
(* It holds whatever Profile is selected meanwhile.                        *)
THEOREM ShutdownKeepsAsking == Spec => []ShutdownIsWaitingForSomeone
<1>1. Init => ShutdownIsWaitingForSomeone
    BY DEF Init, ShutdownIsWaitingForSomeone
<1>2. Healthy /\ ShutdownIsWaitingForSomeone /\ [Next]_vars => ShutdownIsWaitingForSomeone'
    <2>1. ASSUME Healthy, ShutdownIsWaitingForSomeone, Next PROVE ShutdownIsWaitingForSomeone'
        BY <2>1, RemainingAreCurrent, SomebodyIsAsked DEF ShutdownIsWaitingForSomeone
    <2>2. ASSUME ShutdownIsWaitingForSomeone, UNCHANGED vars PROVE ShutdownIsWaitingForSomeone'
        BY <2>2 DEF ShutdownIsWaitingForSomeone, vars
    <2> QED
        BY <2>1, <2>2
<1> QED
    BY <1>1, <1>2, HealthHolds, PTL DEF Spec

-----------------------------------------------------------------------------
(* The order of the waves.                                                 *)

(* Nobody selects another Profile while the Project shuts down.            *)
OrderIsKept == [][shutdown.active => profile' = profile]_vars

Ordered ==
    /\ DependentsStopFirst
    /\ ~shutdown.active => shutdown.dispatched = {}

LEMMA OrderedStep ==
    ASSUME Healthy, Ordered, Next, shutdown.active => profile' = profile
    PROVE  Ordered'
<1>1. shutdown \in ShutdownState /\ (~shutdown.active => shutdown.remaining = {})
    BY DEF Healthy, IInv, TypeOK
<1>2. CASE BeginShutdown
    <2>1. /\ shutdown'.active /\ profile' = profile
          /\ shutdown'.dispatched = Wave(shutdown'.remaining, {})
        BY <1>2 DEF BeginShutdown
    <2> QED
        BY <2>1 DEF Ordered, DependentsStopFirst, Wave, DependsOn
<1>3. CASE ExpireShutdown
    <2>1. shutdown'.remaining = {} /\ shutdown'.dispatched = shutdown.dispatched
          /\ shutdown'.active = shutdown.active
        BY <1>1, <1>3 DEF ExpireShutdown, ShutdownState
    <2> QED
        BY <2>1 DEF Ordered, DependentsStopFirst
<1>4. CASE UNCHANGED shutdown
    BY <1>4 DEF Ordered, DependentsStopFirst, DependsOn
<1>5. ASSUME NEW p \in Processes, FinishShutdownRun(p) PROVE Ordered'
    <2>1. /\ shutdown'.active = shutdown.active
          /\ shutdown'.remaining = shutdown.remaining \ {p}
          /\ shutdown'.dispatched = shutdown.dispatched \cup NextWave(p)
        BY <1>1, <1>5 DEF FinishShutdownRun, ShutdownState
    <2>2. NextWave(p) \subseteq shutdown.remaining
          /\ \A d \in NextWave(p), q \in shutdown'.remaining : ~DependsOn(q, d)
        BY <2>1 DEF NextWave, Wave
    <2>3. CASE shutdown.active
        BY <2>1, <2>2, <2>3 DEF Ordered, DependentsStopFirst, DependsOn
    <2>4. CASE ~shutdown.active
        BY <1>1, <2>1, <2>2, <2>4 DEF Ordered, DependentsStopFirst
    <2> QED
        BY <2>3, <2>4
<1> QED
    BY <1>2, <1>3, <1>4, <1>5, ShutdownMoves

(* Dependents stop before their Dependencies, until the deadline and while *)
(* the Profile the shutdown began under stays selected: shutdown.rs reads  *)
(* the Dependencies of the Profile selected at each end, and SelectProfile *)
(* is not refused meanwhile.                                               *)
THEOREM DependentsGoFirst == Spec /\ OrderIsKept => []DependentsStopFirst
<1>1. Init => Ordered
    BY DEF Init, Ordered, DependentsStopFirst
<1>2. Healthy /\ Ordered /\ [Next]_vars /\ [shutdown.active => profile' = profile]_vars => Ordered'
    <2>1. ASSUME Ordered, UNCHANGED vars PROVE Ordered'
        BY <2>1 DEF Ordered, DependentsStopFirst, DependsOn, vars
    <2>2. ASSUME Healthy, Ordered, Next, ~UNCHANGED vars, [shutdown.active => profile' = profile]_vars
          PROVE  Ordered'
        BY <2>2, OrderedStep
    <2> QED
        BY <2>1, <2>2
<1>3. Ordered => DependentsStopFirst
    BY DEF Ordered
<1> QED
    BY <1>1, <1>2, <1>3, HealthHolds, PTL DEF Spec, OrderIsKept
=============================================================================
