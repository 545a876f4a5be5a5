------------------------------ MODULE Supervisor ------------------------------
(***************************************************************************)
(* The Supervisor core of src/src/supervisor: one task that owns the       *)
(* lifecycle of every Process of a Project and serializes user commands,   *)
(* adapter events and timers (run_task in mod.rs).  Every action below is  *)
(* one such handler, run to completion.                                    *)
(*                                                                         *)
(* The adapter (RunSeam in seam.rs) is the environment: per Process it     *)
(* keeps what the current Run's worker has been told and still owes the    *)
(* core.  Deadlines are not modelled as numbers: a timer that is armed may *)
(* fire, and until it does any other handler may run first.                *)
(***************************************************************************)
EXTENDS ProcessLifecycle, HealthChecks, SeamState, FiniteSets

CONSTANTS
    N,              \* Processes are 1..N, in configuration order
    Kind,           \* "Service" or "OneShot", per Process
    Policy,         \* automatic restart policy, per Process
    MaxRestarts,    \* budget of automatic restarts, per Process
    OnUnhealthy,    \* restart.on_unhealthy, per Process
    Readiness,      \* readiness policy (HealthChecks!Policies), per Process
    StartupTimeout, \* whether readiness has a startup_timeout, per Process
    Liveness,       \* liveness policy (HealthChecks!Policies), per Process
    Autostart,      \* the set of Processes configured to autostart
    Profiles,       \* selectable Project Profiles, 0 is the base
    Enabled,        \* Enabled[m]: the Processes enabled in Profile m
    Depends,        \* Depends[m][p][d]: the condition p needs of d, or "none"
    Label,          \* Label[m][p]: the Process Profile p runs with in m
    Requests,       \* the kinds of command the user issues in this instance
    MaxRuns         \* bound: no start-like command once a Process had so many Runs

Processes == 1..N

Conditions == {"started", "ready", "exited", "completed_successfully"}

ASSUME CountAssumption == N \in Nat \ {0} /\ MaxRuns \in Nat

ASSUME ProcessAssumption ==
    /\ Kind \in [Processes -> {"Service", "OneShot"}]
    /\ Policy \in [Processes -> {"never", "on-failure", "always"}]
    /\ MaxRestarts \in [Processes -> Nat]
    /\ OnUnhealthy \in [Processes -> BOOLEAN]
    /\ Readiness \in [Processes -> Policies]
    /\ StartupTimeout \in [Processes -> BOOLEAN]
    /\ Liveness \in [Processes -> Policies]
    /\ Autostart \subseteq Processes

ASSUME ProfileAssumption ==
    /\ 0 \in Profiles
    /\ Enabled \in [Profiles -> SUBSET Processes]
    /\ Depends \in [Profiles -> [Processes -> [Processes -> Conditions \cup {"none"}]]]
    /\ Label \in [Profiles -> [Processes -> Nat]]

(* What EffectiveProject::with_shell refuses to build.                     *)
ASSUME ValidatedAssumption ==
    /\ \A p \in Processes : Kind[p] = "OneShot" =>
          Readiness[p] = "None" /\ Liveness[p] = "None" /\ Policy[p] # "always"
    /\ \A m \in Profiles :
          /\ \A p, d \in Processes :
                /\ Depends[m][p][d] \in {"exited", "completed_successfully"} => Kind[d] = "OneShot"
                /\ Depends[m][p][d] = "ready" => Kind[d] = "Service"
          /\ \E rank \in [Processes -> Processes] :
                \A p, d \in Processes : Depends[m][p][d] # "none" => rank[d] < rank[p]

VARIABLES
    lifecycles,   \* the ProcessLifecycle of every Process
    profile,      \* the selected Project Profile
    shutdown,     \* the one Project shutdown
    adapter,      \* per Process, what the adapter holds for its Runs (SeamState)
    batch         \* the rest of a command that visits several Processes

vars == <<lifecycles, profile, shutdown, adapter, batch>>

ShutdownState ==
    [active : BOOLEAN, remaining : SUBSET Processes,
     dispatched : SUBSET Processes, timedOut : BOOLEAN]

BatchState == [of : {"none", "autostart", "profile"}, left : SUBSET Processes]

TypeOK ==
    /\ lifecycles \in [Processes -> ProcessState]
    /\ profile \in Profiles
    /\ shutdown \in ShutdownState
    /\ adapter \in [Processes -> AdapterState]
    /\ batch \in BatchState
    /\ \A p \in Processes : lifecycles[p].run < lifecycles[p].next

NoBatch == [of |-> "none", left |-> {}]

Idle == batch = NoBatch

Init ==
    /\ lifecycles = [p \in Processes |-> NewProcess]
    /\ profile = 0
    /\ shutdown = [active |-> FALSE, remaining |-> {}, dispatched |-> {}, timedOut |-> FALSE]
    /\ adapter = [p \in Processes |->
                    [phase |-> "none", stops |-> 0, ended |-> FALSE, failed |-> {}, alive |-> {}]]
    /\ batch = NoBatch

-----------------------------------------------------------------------------
(* The Project: what the selected Profile says.                            *)

IsEnabled(p) == p \in Enabled[profile]

DependsOn(p, d) == Depends[profile][p][d] # "none"

(* A Process and its enabled Dependencies, transitively: the least closed  *)
(* set that holds it.                                                      *)
ClosedUnderDependencies(S) ==
    \A p \in S, d \in Processes : DependsOn(p, d) /\ IsEnabled(d) => d \in S

Required(p) ==
    IF ~IsEnabled(p) THEN {}
    ELSE {q \in Processes : \A S \in SUBSET Processes :
              p \in S /\ ClosedUnderDependencies(S) => q \in S}

RequireRunningFrom(ls, p, trigger) ==
    [q \in Processes |->
        IF q \notin Required(p) THEN ls[q]
        ELSE RequireRunning(ls[q], IF q = p THEN trigger ELSE "Dependency")]

-----------------------------------------------------------------------------
(* The adapter, as the core sees it.                                       *)

StopNobody(p, condition) == adapter

StopWhen(p, condition) ==
    IF condition THEN [adapter EXCEPT ![p] = Contacted(@)] ELSE adapter

-----------------------------------------------------------------------------
(* Scheduling (schedule.rs).                                               *)

StartedSatisfied(L) == L.run # 0 /\ L.lifecycle \in {"Starting", "Running"}

ReadySatisfied(L) ==
    L.run # 0 /\ L.lifecycle = "Running" /\ L.readiness.state \in {"None", "Passing"}

ConditionSatisfied(L, condition) ==
    CASE condition = "started" -> StartedSatisfied(L)
      [] condition = "ready" -> ReadySatisfied(L)
      [] condition = "exited" -> L.exited
      [] condition = "completed_successfully" -> L.lifecycle = "Done"

(* Whether p cannot start yet, in the states seen.                         *)
Blocked(seen, p) ==
    \E d \in Processes :
        /\ DependsOn(p, d)
        /\ ~IsEnabled(d) \/ ~ConditionSatisfied(seen[d], Depends[profile][p][d])

CanStartAlways(L) == L.desired = "Running" /\ ~L.awaiting /\ L.backoff = 0

CanStart(L) ==
    L.run = 0 /\ L.desired = "Running" /\ ~L.awaiting /\ L.backoff = 0

(* A log matcher needs its tracking before the adapter spawns; any other   *)
(* readiness policy gets it at the Spawned fact.                           *)
EarlyReadiness(p) ==
    IF Readiness[p] \in {"Log", "Mixed"} THEN PendingTracking ELSE NoTracking

InactiveLiveness(p) ==
    IF Liveness[p] = "None" THEN NoTracking ELSE PendingTracking

AdmitRun(L, p) ==
    BeginRun(L, EarlyReadiness(p), InactiveLiveness(p), Label[profile][p])

BeginDesiredRun(L, p) ==
    IF ~CanStart(L) THEN L
    ELSE IF L.pending # "AutomaticRestart" THEN AdmitRun(L, p)
    ELSE IF HasRemaining(L, MaxRestarts[p])
         THEN AdmitRun([L EXCEPT !.used = @ + 1], p)
         ELSE ExhaustRestartBudget(L)

(* One pass in configuration order: p is judged with the new state of the  *)
(* Processes before it and the old state of itself and those after it.     *)
Visible(pre, post, p) == [d \in Processes |-> IF d < p THEN post[d] ELSE pre[d]]

PassIgnoringDependencies(pre, blocked) ==
    [p \in Processes |-> BeginDesiredRun(pre[p], p)]

Pass(pre, blocked) ==
    [p \in Processes |->
        IF p \in blocked THEN WaitForDependency(pre[p]) ELSE BeginDesiredRun(pre[p], p)]

(* The runs a pass admits are handed to the adapter at once.               *)
WithNewRuns(pre, post, ad) ==
    [p \in Processes |->
        IF post[p].run # pre[p].run THEN Reserved(ad[p], post[p].run) ELSE ad[p]]

(* evaluate(), the end of a handler that left the states pre and the       *)
(* adapter ad.                                                             *)
Evaluate(pre, ad) ==
    \E blocked \in SUBSET Processes :
        LET post == Pass(pre, blocked)
        IN  /\ \A p \in Processes : p \in blocked <=> Blocked(Visible(pre, post, p), p)
            /\ lifecycles' = post
            /\ adapter' = WithNewRuns(pre, post, ad)

(* schedule_automatic_restart, after the Run failedRun was released.       *)
ScheduleAutomaticRestart(L, p, failedRun) ==
    IF HasRemaining(L, MaxRestarts[p]) THEN WaitForAutomaticRestart(L, failedRun)
    ELSE ExhaustRestartBudget(L)

-----------------------------------------------------------------------------
(* Commands (Core::command).  Start-like commands are ignored once the     *)
(* Project shutdown has begun, the others are not.                         *)

Requested(command) == Idle /\ command \in Requests

Admitted(command) ==
    /\ Requested(command)
    /\ ~shutdown.active
    /\ \A p \in Processes : lifecycles[p].next <= MaxRuns

StartAt(p, trigger) ==
    LET prepared == [lifecycles EXCEPT ![p] = PrepareStartRequest(@, trigger)]
    IN  IF IsEnabled(p)
        THEN Evaluate(RequireRunningFrom(prepared, p, trigger), adapter)
        ELSE UNCHANGED <<lifecycles, adapter>>

RestartAt(p, trigger) ==
    LET prepared == [lifecycles EXCEPT ![p] = PrepareRestartRequest(@, trigger)]
        required == RequireRunningFrom(prepared, p, trigger)
    IN  IF ~IsEnabled(p) THEN UNCHANGED <<lifecycles, adapter>>
        ELSE IF CanReplace(required[p])
        THEN Evaluate([required EXCEPT ![p] = BeginReplacementCleanup(@)],
                      StopWhen(p, TRUE))
        ELSE Evaluate(required, adapter)

StopAt(p) ==
    /\ lifecycles' = [lifecycles EXCEPT ![p] = RequestStop(@)]
    /\ adapter' = StopWhen(p, StopNeedsCleanup(lifecycles[p]))

Start(p) ==
    /\ Admitted("Start")
    /\ StartAt(p, "Manual")
    /\ UNCHANGED <<profile, shutdown, batch>>

StartAnyway(p) ==
    /\ Admitted("StartAnyway")
    /\ IsEnabled(p)
    /\ CanStartAnyway(lifecycles[p])
    /\ LET begun == BeginDesiredRun(PrepareStartAnyway(lifecycles[p]), p)
       IN  /\ lifecycles' = [lifecycles EXCEPT ![p] = begun]
           /\ adapter' = WithNewRuns(lifecycles, lifecycles', adapter)
    /\ UNCHANGED <<profile, shutdown, batch>>

Stop(p) ==
    /\ Requested("Stop")
    /\ StopAt(p)
    /\ UNCHANGED <<profile, shutdown, batch>>

StopAll ==
    /\ Requested("StopAll")
    /\ lifecycles' = [p \in Processes |-> RequestStop(lifecycles[p])]
    /\ adapter' = [p \in Processes |-> IF StopNeedsCleanup(lifecycles[p])
                                       THEN Contacted(adapter[p]) ELSE adapter[p]]
    /\ UNCHANGED <<profile, shutdown, batch>>

Restart(p) ==
    /\ Admitted("Restart")
    /\ RestartAt(p, "Restart")
    /\ UNCHANGED <<profile, shutdown, batch>>

Rerun(p) ==
    /\ Admitted("Rerun")
    /\ Kind[p] = "OneShot"
    /\ RestartAt(p, "Rerun")
    /\ UNCHANGED <<profile, shutdown, batch>>

SelectProfile(m) ==
    /\ Requested("SelectProfile")
    /\ profile' = m
    /\ UNCHANGED <<lifecycles, shutdown, adapter, batch>>

(* StartAutostart and RestartProfiledAutostart visit several Processes in  *)
(* configuration order, each with its own evaluation.  The loop is one     *)
(* step per Process, and no other handler runs until it is done (Idle).    *)
StartAutostart ==
    /\ Admitted("StartAutostart")
    /\ Autostart # {}
    /\ batch' = [of |-> "autostart", left |-> Autostart]
    /\ UNCHANGED <<lifecycles, profile, shutdown, adapter>>

ProfileAffected ==
    {p \in Processes : lifecycles[p].run # 0 /\ lifecycles[p].applied # Label[profile][p]}

RestartProfiledAutostart ==
    /\ Admitted("RestartProfiledAutostart")
    /\ ProfileAffected # {}
    /\ batch' = [of |-> "profile", left |-> ProfileAffected]
    /\ UNCHANGED <<lifecycles, profile, shutdown, adapter>>

ApplyProfileToEnabled(p) ==
    IF p \in Autostart /\ IsEnabled(p)
    THEN RestartAt(p, IF Kind[p] = "OneShot" THEN "Rerun" ELSE "Restart")
    ELSE UNCHANGED <<lifecycles, adapter>>

ApplyProfileTo(p) ==
    IF ~IsEnabled(p) THEN StopAt(p)
    ELSE IF p \in Autostart
         THEN RestartAt(p, IF Kind[p] = "OneShot" THEN "Rerun" ELSE "Restart")
         ELSE UNCHANGED <<lifecycles, adapter>>

ContinueBatch(p) ==
    /\ p \in batch.left
    /\ \A q \in batch.left : p <= q
    /\ IF batch.of = "autostart" THEN StartAt(p, "Autostart") ELSE ApplyProfileTo(p)
    /\ batch' = IF batch.left = {p} THEN NoBatch ELSE [batch EXCEPT !.left = @ \ {p}]
    /\ UNCHANGED <<profile, shutdown>>

-----------------------------------------------------------------------------
(* Project shutdown (shutdown.rs).                                         *)

(* The Runs no remaining dependent needs, and that were not stopped yet.   *)
EveryRunAtOnce(remaining, dispatched) == remaining \ dispatched

Wave(remaining, dispatched) ==
    {d \in remaining \ dispatched : \A q \in remaining : ~DependsOn(q, d)}

StoppedByShutdown(ls, wave) ==
    [p \in Processes |-> IF p \in wave THEN BeginShutdownCleanup(ls[p]) ELSE ls[p]]

ContactedAll(wave) ==
    [p \in Processes |-> IF p \in wave THEN Contacted(adapter[p]) ELSE adapter[p]]

BeginShutdown ==
    /\ Requested("Shutdown")
    /\ ~shutdown.active
    /\ LET running == {p \in Processes : lifecycles[p].run # 0}
           wave    == Wave(running, {})
           closed  == [p \in Processes |-> BeginProjectShutdown(lifecycles[p])]
       IN  /\ shutdown' = [active |-> TRUE, remaining |-> running,
                           dispatched |-> wave, timedOut |-> FALSE]
           /\ lifecycles' = StoppedByShutdown(closed, wave)
           /\ adapter' = ContactedAll(wave)
    /\ UNCHANGED <<profile, batch>>

(* finish_shutdown_run: the wave that p's end releases.                    *)
NoFurtherWave(p) == {}

NextWave(p) ==
    IF p \in shutdown.remaining
    THEN Wave(shutdown.remaining \ {p}, shutdown.dispatched)
    ELSE {}

FinishShutdownRun(p) ==
    shutdown' = [shutdown EXCEPT !.remaining = @ \ {p}, !.dispatched = @ \cup NextWave(p)]

(* At the deadline every Run not yet stopped gets its one cleanup attempt, *)
(* and the shutdown stops waiting.                                         *)
ExpireShutdown ==
    /\ Idle
    /\ shutdown.remaining # {}
    /\ LET unattempted == shutdown.remaining \ shutdown.dispatched
       IN  /\ lifecycles' = StoppedByShutdown(lifecycles, unattempted)
           /\ adapter' = ContactedAll(unattempted)
    /\ shutdown' = [shutdown EXCEPT !.remaining = {}, !.timedOut = TRUE]
    /\ UNCHANGED <<profile, batch>>

-----------------------------------------------------------------------------
(* Adapter events (Core::event).  An event of a Run that is not current    *)
(* changes nothing, so only the current Run's events are actions.          *)

(* Every event but Finished is dropped while a cleanup is held or the      *)
(* Run's work is cancelled.                                                *)
Observed(L) == ~L.unconfirmed /\ ~L.cancelled

ActivateLiveness(L) ==
    IF L.liveness = NoTracking THEN L ELSE [L EXCEPT !.liveness.started = TRUE]

SpawnTracking(L, p) ==
    LET state == IF L.readiness = NoTracking THEN "Pending" ELSE L.readiness.state
    IN  IF Readiness[p] = "None" THEN NoTracking
        ELSE [state |-> state, started |-> TRUE,
              timed |-> StartupTimeout[p] /\ state # "Passing"]

ApplySpawned(L, p) ==
    LET spawned == RecordSpawn(L, SpawnTracking(L, p))
    IN  IF spawned.lifecycle = "Running" /\ spawned.readiness.state \in {"None", "Passing"}
        THEN ActivateLiveness(spawned) ELSE spawned

Spawned(p) ==
    /\ Idle
    /\ adapter[p].phase = "early"
    /\ LET live == [adapter EXCEPT ![p].phase = "live"]
       IN  IF Observed(lifecycles[p])
           THEN Evaluate([lifecycles EXCEPT ![p] = ApplySpawned(@, p)], live)
           ELSE adapter' = live /\ UNCHANGED lifecycles
    /\ UNCHANGED <<profile, shutdown, batch>>

(* The worker started the Run, and its Spawned report is queued.           *)
SpawnSucceeds(p) ==
    /\ Idle
    /\ adapter[p].phase = "spawning"
    /\ adapter' = [adapter EXCEPT ![p].phase = "early"]
    /\ UNCHANGED <<lifecycles, profile, shutdown, batch>>

(* The worker could not start the Run: it removes the record and reports.  *)
SpawnFails(p) ==
    /\ Idle
    /\ adapter[p].phase = "spawning"
    /\ adapter' = [adapter EXCEPT ![p] = NeverStarted(@, lifecycles[p].run)]
    /\ UNCHANGED <<lifecycles, profile, shutdown, batch>>

(* promote_ready in events.rs.                                             *)
BecomeReadyBeforeSpawn(L) == ActivateLiveness(PromoteReady(L))

BecomeReady(L) ==
    LET promoted == PromoteReady(L)
    IN  IF promoted.spawned THEN ActivateLiveness(promoted) ELSE promoted

ApplyReadiness(L, state) ==
    LET moved == [L EXCEPT !.readiness.state = state]
    IN  IF state = "Passing" THEN BecomeReady(moved) ELSE moved

ReadinessWithoutPass(p, state) ==
    /\ Idle
    /\ adapter[p].phase = "live"
    /\ Observed(lifecycles[p])
    /\ lifecycles[p].readiness.started
    /\ state \in ReadinessMoves(Readiness[p], lifecycles[p].readiness.state)
    /\ lifecycles' = [lifecycles EXCEPT ![p] = ApplyReadiness(@, state)]
    /\ UNCHANGED <<profile, shutdown, adapter, batch>>

ReadinessResult(p, state) ==
    /\ Idle
    /\ adapter[p].phase = "live"
    /\ Observed(lifecycles[p])
    /\ lifecycles[p].readiness.started
    /\ state \in ReadinessMoves(Readiness[p], lifecycles[p].readiness.state)
    /\ Evaluate([lifecycles EXCEPT ![p] = ApplyReadiness(@, state)], adapter)
    /\ UNCHANGED <<profile, shutdown, batch>>

(* Output reaches the log matcher before the Spawned report is applied.    *)
EarlyLogMatch(p) ==
    /\ Idle
    /\ adapter[p].phase = "early"
    /\ Readiness[p] = "Log"
    /\ Observed(lifecycles[p])
    /\ lifecycles[p].readiness.state = "Pending"
    /\ Evaluate([lifecycles EXCEPT ![p] = ApplyReadiness(@, "Passing")], adapter)
    /\ UNCHANGED <<profile, shutdown, batch>>

LivenessResult(p, state) ==
    LET before == lifecycles[p].liveness.state
        moved  == [lifecycles[p] EXCEPT !.liveness.state = state]
        fails  == before # "Failing" /\ state = "Failing"
        after  == IF fails THEN FailLiveness(moved, OnUnhealthy[p])
                  ELSE IF before = "Failing" /\ state = "Passing" THEN RecoverLiveness(moved)
                  ELSE moved
    IN  /\ Idle
        /\ adapter[p].phase = "live"
        /\ Observed(lifecycles[p])
        /\ lifecycles[p].liveness.started
        /\ state \in LivenessMoves(Liveness[p], before)
        /\ Evaluate([lifecycles EXCEPT ![p] = after], StopWhen(p, fails /\ OnUnhealthy[p]))
        /\ UNCHANGED <<profile, shutdown, batch>>

OutputFailure(p) ==
    /\ Idle
    /\ adapter[p].phase = "live"
    /\ Observed(lifecycles[p])
    /\ lifecycles' = [lifecycles EXCEPT ![p] = RecordOutputFailure(@)]
    /\ UNCHANGED <<profile, shutdown, adapter, batch>>

-----------------------------------------------------------------------------
(* The end of a Run (events.rs).                                           *)

(* restart_reason_for_terminal: whether the Run that ends as described is  *)
(* followed by an automatic restart.                                       *)
RestartAllowed(L) == ~shutdown.active /\ L.purpose \notin SuppressedPurposes

RestartsAfterFailure(L, p) ==
    /\ RestartAllowed(L)
    /\ L.purpose \in UnhealthyPurposes \/ Policy[p] # "never"

RestartsAfterFinish(L, p, intentional, success) ==
    /\ RestartAllowed(L)
    /\ \/ L.purpose \in UnhealthyPurposes
       \/ L.purpose \in TimedOutPurposes /\ Policy[p] # "never"
       \/ /\ L.purpose \notin TimedOutPurposes
          /\ ~intentional
          /\ \/ Policy[p] = "always"
             \/ Policy[p] = "on-failure" /\ ~success

ObserveExit(L, p, success) ==
    IF Kind[p] = "OneShot" THEN CompleteOneShot(L, success) ELSE ObserveServiceExit(L)

(* finalize_confirmed_run, up to its evaluation.                           *)
Finalized(L, p, restart) ==
    LET finished == FinishConfirmedRun(L)
    IN  IF restart THEN ScheduleAutomaticRestart(finished, p, L.run) ELSE finished

ApplyFinished(L, p, intentional, confirmed, success) ==
    LET cancelled == CancelRunWork(L)
        observed  == IF ~intentional /\ L.purpose \notin TimedOutPurposes
                     THEN ObserveExit(cancelled, p, success) ELSE cancelled
        restart   == RestartsAfterFinish(L, p, intentional, success)
    IN  IF confirmed
        THEN Finalized(ConfirmCleanup(observed, Kind[p] = "OneShot"), p, restart)
        ELSE HoldUnconfirmedCleanup(observed)

(* The worker claims a natural end while no stop is recorded; the report   *)
(* follows, and a stop that arrives in between does not change it          *)
(* (RunRecord::take_completion).                                           *)
EndsByItself(p) ==
    /\ Idle
    /\ adapter[p].phase \in {"early", "live"}
    /\ adapter[p].stops = 0
    /\ adapter' = [adapter EXCEPT ![p].ended = TRUE]
    /\ UNCHANGED <<lifecycles, profile, shutdown, batch>>

(* success is the configured exit-code decision; it matters for natural    *)
(* ends only.                                                              *)
Finished(p, intentional, confirmed, success) ==
    LET L       == lifecycles[p]
        wave    == NextWave(p)
        applied == [StoppedByShutdown(lifecycles, wave) EXCEPT
                       ![p] = ApplyFinished(L, p, intentional, confirmed, success)]
    IN  /\ Idle
        /\ MayFinish(adapter[p], intentional)
        /\ intentional => ~success
        /\ FinishShutdownRun(p)
        /\ \/ /\ confirmed
              /\ Evaluate(applied, [ContactedAll(wave) EXCEPT ![p] = Released(@, L.run)])
           \/ /\ ~confirmed
              /\ \E stops \in HeldStops(adapter[p], intentional) :
                    Evaluate(applied, [ContactedAll(wave) EXCEPT
                                          ![p].phase = "held", ![p].ended = FALSE,
                                          ![p].stops = stops])
        /\ UNCHANGED <<profile, batch>>

ApplyFailed(L, p, kind) ==
    Finalized(FailRun(CancelRunWork(L), Kind[p] = "OneShot", kind), p,
              RestartsAfterFailure(L, p))

(* A Failed report of a Run whose work is cancelled counts only while the  *)
(* Project shuts down.                                                     *)
FailedCountsNever(L) == ~L.unconfirmed /\ ~L.cancelled

FailedCounts(L) == ~L.unconfirmed /\ (L.cancelled => shutdown.active)

FailedReport(p, kind) ==
    LET L       == lifecycles[p]
        wave    == NextWave(p)
        applied == [StoppedByShutdown(lifecycles, wave) EXCEPT ![p] = ApplyFailed(L, p, kind)]
    IN  /\ Idle
        /\ adapter[p].phase = "gone"
        /\ kind \in adapter[p].failed
        /\ \/ /\ FailedCounts(L)
              /\ FinishShutdownRun(p)
              /\ Evaluate(applied, [ContactedAll(wave) EXCEPT ![p] = Released(@, L.run)])
           \/ /\ ~FailedCounts(L)
              /\ adapter' = [adapter EXCEPT ![p].failed = @ \ {kind}]
              /\ UNCHANGED <<lifecycles, shutdown>>
        /\ UNCHANGED <<profile, batch>>

-----------------------------------------------------------------------------
(* Timers (Core::poll_timers).                                             *)

StartupTimeoutFires(p) ==
    LET L == lifecycles[p]
    IN  /\ Idle
        /\ L.run # 0
        /\ L.desired = "Running"
        /\ L.readiness.started
        /\ L.readiness.timed
        /\ lifecycles' = [lifecycles EXCEPT ![p] = TimeoutStartup(L)]
        /\ adapter' = StopWhen(p, TRUE)
        /\ UNCHANGED <<profile, shutdown, batch>>

(* One poll releases every timer that is due, then evaluates once.         *)
ReleaseTimers(expired) ==
    LET required == UNION {Required(p) : p \in expired}
        released == [q \in Processes |->
                        IF q \in expired THEN ReleaseRestartBackoff(lifecycles[q])
                        ELSE IF q \in required THEN RequireRunning(lifecycles[q], "Dependency")
                        ELSE lifecycles[q]]
    IN  /\ Idle
        /\ expired # {}
        /\ \A p \in expired : ValidRestartTimer(lifecycles[p])
        /\ Evaluate(released, adapter)
        /\ UNCHANGED <<profile, shutdown, batch>>

RestartTimersFire == \E expired \in SUBSET Processes : ReleaseTimers(expired)

-----------------------------------------------------------------------------
Command ==
    \/ \E p \in Processes : Start(p) \/ StartAnyway(p) \/ Stop(p) \/ Restart(p) \/ Rerun(p)
    \/ StartAutostart
    \/ StopAll
    \/ \E m \in Profiles : SelectProfile(m)
    \/ RestartProfiledAutostart
    \/ BeginShutdown

FinishReport(p) ==
    \E intentional, confirmed, success \in BOOLEAN : Finished(p, intentional, confirmed, success)

Event(p) ==
    \/ SpawnSucceeds(p)
    \/ SpawnFails(p)
    \/ Spawned(p)
    \/ EndsByItself(p)
    \/ EarlyLogMatch(p)
    \/ \E state \in CheckState : ReadinessResult(p, state) \/ LivenessResult(p, state)
    \/ OutputFailure(p)
    \/ FinishReport(p)
    \/ \E kind \in {"Configuration", "Spawn"} : FailedReport(p, kind)

Timer == RestartTimersFire \/ ExpireShutdown \/ \E p \in Processes : StartupTimeoutFires(p)

Next ==
    \/ Command
    \/ \E p \in Processes : ContinueBatch(p)
    \/ \E p \in Processes : Event(p)
    \/ Timer

Spec == Init /\ [][Next]_vars

(* What the code's threads guarantee: a spawn worker reports, a Run that   *)
(* ended or was asked to stop is finished within its ladder's bound and    *)
(* reported, a queued report is delivered, an armed timer fires, and the   *)
(* loop of a command ends.  Nobody promises that a Run ends by itself,     *)
(* that checks pass or that users act.  The shutdown deadline is left out: *)
(* nothing below may rely on it.                                           *)
SpawnReport(p) == SpawnSucceeds(p) \/ SpawnFails(p) \/ Spawned(p)

Fairness ==
    /\ \A p \in Processes :
          /\ WF_vars(SpawnReport(p))
          /\ WF_vars(FinishReport(p))
          /\ WF_vars(\E kind \in {"Configuration", "Spawn"} : FailedReport(p, kind))
          /\ WF_vars(ContinueBatch(p))
          /\ WF_vars(StartupTimeoutFires(p))
    /\ WF_vars(RestartTimersFire)

FairSpec == Spec /\ Fairness

-----------------------------------------------------------------------------
(* Safety.                                                                 *)

(* At most one Run of a Process owns an OS process tree, and only the      *)
(* current one: a replacement is not admitted before the previous Run's    *)
(* cleanup is confirmed, whatever order stops, restarts, exits and timers  *)
(* arrive in (schedule.rs restart_at, events.rs apply_finished_run).       *)
OneRunAlive ==
    \A p \in Processes : adapter[p].alive \subseteq ({lifecycles[p].run} \ {0})

(* A backoff always has authority: while it is armed no Run is current,    *)
(* the Process is desired Running, and the next Run is the one after the   *)
(* Run that failed; and nothing shows RestartBackoff without a timer       *)
(* (valid_restart_deadline: a stale timer would silently never fire).      *)
BackoffHasAuthority ==
    \A p \in Processes :
        /\ lifecycles[p].backoff # 0 => ValidRestartTimer(lifecycles[p])
        /\ lifecycles[p].lifecycle = "RestartBackoff" => lifecycles[p].backoff # 0

(* A Run whose cleanup began with a startup timeout keeps a recorded       *)
(* failure until it is released, through retries, new requests and Project *)
(* shutdown: confirm_cleanup panics without one.                           *)
TimeoutKeepsItsFailure ==
    \A p \in Processes :
        lifecycles[p].run # 0 /\ lifecycles[p].purpose \in TimedOutPurposes
            => lifecycles[p].failure # NoFailure

(* A held Run keeps its identity and no observation of it can still arrive *)
(* (hold_unconfirmed_cleanup, and the expect in request_stop).             *)
HeldRunIsQuiet ==
    \A p \in Processes : lifecycles[p].unconfirmed =>
        /\ lifecycles[p].run # 0
        /\ lifecycles[p].cancelled
        /\ adapter[p].phase = "held"

(* Liveness watches a Run only from its first effective readiness, after   *)
(* the Spawned fact, even when output matched before it (activate_liveness *)
(* in events.rs).                                                          *)
LivenessFollowsReadiness ==
    \A p \in Processes : lifecycles[p].liveness.started =>
        lifecycles[p].spawned /\ lifecycles[p].lifecycle = "Running"

(* A startup deadline belongs to a Run that was never ready.               *)
DeadlineOnlyWhileStarting ==
    \A p \in Processes : lifecycles[p].readiness.timed =>
        lifecycles[p].lifecycle = "Starting" /\ lifecycles[p].desired = "Running"

(* Automatic restarts stay within the configured budget, and a Process     *)
(* that exhausted it has no timer left.                                    *)
BudgetHolds ==
    \A p \in Processes :
        /\ lifecycles[p].used <= MaxRestarts[p]
        /\ lifecycles[p].exhausted => lifecycles[p].backoff = 0

(* Nothing starts or moves a Process on outdated authority: not a timer,   *)
(* not what a held Run still says, not a budget that is used up.           *)
AuthorityIsBounded == BackoffHasAuthority /\ HeldRunIsQuiet /\ BudgetHolds

(* Readiness, its deadline and liveness agree on how far a Run is, and a   *)
(* startup timeout stays explained until its Run is released.              *)
HealthFollowsTheRun ==
    TimeoutKeepsItsFailure /\ LivenessFollowsReadiness /\ DeadlineOnlyWhileStarting

(* Until every Run has answered, the shutdown waits for at least one Run   *)
(* it has asked to stop, and only for Runs that are current.               *)
ShutdownIsWaitingForSomeone ==
    /\ \A p \in shutdown.remaining : lifecycles[p].run # 0
    /\ shutdown.remaining # {} => shutdown.remaining \cap shutdown.dispatched # {}

(* Dependents stop before their Dependencies, until the deadline           *)
(* (docs/specification/runtime-and-configuration.md:169).                  *)
DependentsStopFirst ==
    \A p, d \in Processes :
        d \in shutdown.dispatched /\ DependsOn(p, d) => p \notin shutdown.remaining

-----------------------------------------------------------------------------
(* Steps.                                                                  *)

(* Once the Project shutdown began, no Run is ever admitted again and no   *)
(* Process becomes desired Running, whatever is still queued.              *)
ShutdownIsFinal ==
    [][shutdown.active =>
          \A p \in Processes : /\ lifecycles'[p].next = lifecycles[p].next
                               /\ lifecycles'[p].desired = "Stopped"]_vars

(* A Run ended by a manual Stop is not followed by an automatic restart,   *)
(* also when it ended by itself or failed before the stop reached it.      *)
StopSuppressesRestart ==
    [][\A p \in Processes :
          lifecycles[p].purpose = "ManualStop" /\ lifecycles[p].run # 0
              => lifecycles'[p].backoff = 0]_vars

(* A Run begins only when its Dependencies hold, except through Start      *)
(* Anyway.  A pass judges a Dependency that is configured later by its     *)
(* state before the pass, which may then begin a Run of its own or turn to *)
(* Waiting for a Dependency of its own, and is Done no longer.             *)
AdmittedWhenSatisfied ==
    [][\A p, d \in Processes :
          /\ lifecycles'[p].run \notin {0, lifecycles[p].run}
          /\ lifecycles'[p].pending # "StartAnyway"
          /\ DependsOn(p, d)
          => /\ IsEnabled(d)
             /\ \/ ConditionSatisfied(lifecycles'[d], Depends[profile][p][d])
                \/ /\ d > p
                   /\ \/ lifecycles'[d].run \notin {0, lifecycles[d].run}
                      \/ lifecycles'[d].lifecycle = "Waiting"]_vars

(* Every Process's Runs follow RunIdentity.                                *)
Identity(p) == INSTANCE RunIdentity WITH
    run <- lifecycles[p].run, next <- lifecycles[p].next,
    alive <- adapter[p].alive, closed <- shutdown.active

RunsAreIdentified ==
    /\ \A p \in Processes : Identity(p)!Init
    /\ [][\A p \in Processes : [Identity(p)!Next]_(Identity(p)!runVars)]_vars

(* A manual Restart or Rerun is followed by a new Run once the old one is  *)
(* cleaned up: the Process then still desires Running and is not held for  *)
(* another manual request (docs/specification/architecture-and-lifecycle.  *)
(* md:454).  A natural end that is already queued loses it.                *)
RestartIsNotLost ==
    [][\A p \in Processes :
          /\ lifecycles[p].purpose = "ExplicitReplacement"
          /\ lifecycles[p].run # 0
          /\ lifecycles'[p].run # lifecycles[p].run
          => lifecycles'[p].desired = "Running" /\ ~lifecycles'[p].awaiting]_vars

(* Applying a Profile reaches every active Run it is about: when the       *)
(* command's loop ends, each Run of an older Profile whose Process is now  *)
(* disabled, or autostarts, is being stopped or is held for a retry        *)
(* (docs/specification/architecture-and-lifecycle.md, 9.12).               *)
ProfileReachesEveryRun ==
    [][batch.of = "profile" /\ batch'.of = "none" =>
          \A p \in Processes :
              \/ lifecycles'[p].run = 0
              \/ lifecycles'[p].applied = Label[profile][p]
              \/ p \notin Autostart /\ IsEnabled(p)
              \/ lifecycles'[p].lifecycle = "Stopping"
              \/ lifecycles'[p].unconfirmed]_vars

-----------------------------------------------------------------------------
(* Progress.                                                               *)

(* A Project shutdown ends without the help of its deadline: every Run it  *)
(* waits for is stopped in some wave and answers, one whose spawn fails    *)
(* included (the exception for shutdown in Core::event's gate).            *)
ShutdownCompletes == shutdown.active ~> shutdown.remaining = {}

(* A Process that is being stopped settles, unless its Run never spawned   *)
(* and its report was dropped (StopEndsInStopped).                         *)
StoppingSettles ==
    \A p \in Processes :
        lifecycles[p].lifecycle = "Stopping" /\ adapter[p].phase # "gone"
            ~> \/ lifecycles[p].lifecycle # "Stopping"
               \/ lifecycles[p].unconfirmed
               \/ adapter[p].phase = "gone"

(* A Process never waits for ever for Dependencies that hold, unless it    *)
(* needs a manual start: one that ended by itself may show Waiting and     *)
(* still not start when they hold (begin_desired_run in schedule.rs).      *)
SatisfiedWaiterStarts ==
    \A p \in Processes :
        (lifecycles[p].lifecycle = "Waiting" /\ ~Blocked(lifecycles, p))
            ~> \/ lifecycles[p].lifecycle # "Waiting"
               \/ Blocked(lifecycles, p)
               \/ lifecycles[p].awaiting

(* A manual stop ends in Stopped after cleanup (docs/specification/        *)
(* architecture-and-lifecycle.md, 9.10).  It does not for a Run whose      *)
(* spawn was failing.                                                      *)
StopEndsInStopped ==
    \A p \in Processes :
        lifecycles[p].lifecycle = "Stopping"
            ~> lifecycles[p].lifecycle # "Stopping" \/ lifecycles[p].unconfirmed

=============================================================================
