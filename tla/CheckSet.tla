------------------------------- MODULE CheckSet -------------------------------
(***************************************************************************)
(* One set of health checks while its Run is observed: the probes and log  *)
(* matchers of a readiness or of a liveness policy, each with its own      *)
(* attempts, thresholds and cadence (src/src/supervisor/checks.rs), the    *)
(* workers that answer them, and the liveness failure the set records and  *)
(* clears (liveness.rs, with on_unhealthy off, so that the Run goes on).   *)
(*                                                                         *)
(* Answers reach the Supervisor through a channel that several threads     *)
(* write, so they are a set: any answer may be the next.  Time is not      *)
(* modelled: an attempt may become due, and its window may close, at any   *)
(* moment.  What happens when the Run stops being observed is Supervisor's *)
(* business.                                                               *)
(***************************************************************************)
EXTENDS Naturals, Sequences, HealthChecks

CONSTANTS
    Probes, Logs,                       \* the checks of each kind
    SuccessThreshold, FailureThreshold, \* of each check
    MaxAttempts                         \* bound: attempts of each check

Checks == Probes \cup Logs

CheckSetAssumption ==
    /\ SuccessThreshold \in [Checks -> Nat \ {0}]
    /\ FailureThreshold \in [Checks -> Nat \ {0}]
    /\ MaxAttempts \in Nat \ {0}
    /\ Probes \cap Logs = {} /\ Checks # {}

(* The attempt of a match nobody scheduled: attempt_id is None.            *)
Latched == 0

VARIABLES
    liveness,   \* the CheckMode: liveness or readiness
    started,    \* the policy was activated
    progress,   \* per check: state, successes, failures, attempts
    inFlight,   \* per check: the scheduled attempt without a result, or 0
    elapsed,    \* the logs whose window has closed with the attempt in flight
    awaited,    \* per check: the attempts its worker may still answer
    answers,    \* sent and not yet handled
    unhealthy,  \* the Process carries a liveness failure
    sent,       \* history: every answer the workers gave
    outcomes    \* history: the results each check counted

vars == <<liveness, started, progress, inFlight, elapsed,
          awaited, answers, unhealthy, sent, outcomes>>

CheckState == {"Pending", "Passing", "Failing"}
Answer == [check : Checks, attempt : 0..MaxAttempts, passing : BOOLEAN]
Progress == [state : CheckState, successes : Nat, failures : Nat, attempts : 0..MaxAttempts]

StateOf(p) ==
    IF \A c \in Checks : p[c].state = "Passing" THEN "Passing"
    ELSE IF \E c \in Checks : p[c].state = "Failing" THEN "Failing"
    ELSE "Pending"

Aggregate == StateOf(progress)

Init ==
    /\ liveness \in BOOLEAN
    /\ started = FALSE
    /\ progress = [c \in Checks |->
            [state |-> "Pending", successes |-> 0, failures |-> 0, attempts |-> 0]]
    /\ inFlight = [c \in Checks |-> 0]
    /\ elapsed = {}
    /\ awaited = [c \in Checks |-> IF c \in Logs THEN {Latched} ELSE {}]
    /\ answers = {}
    /\ unhealthy = FALSE
    /\ sent = {}
    /\ outcomes = [c \in Checks |-> << >>]

(* Fault: a failure does not end the streak of successes.                  *)
CountedWithoutReset(p, passing) ==
    IF passing THEN [p EXCEPT !.successes = @ + 1, !.failures = 0]
    ELSE [p EXCEPT !.failures = @ + 1]

(* The counters after one result, and the state they imply.                *)
Counted(p, passing) ==
    IF passing THEN [p EXCEPT !.successes = @ + 1, !.failures = 0]
    ELSE [p EXCEPT !.failures = @ + 1, !.successes = 0]

(* Fault: readiness may fail before it has passed.                         *)
MayAlwaysFail(p) == TRUE

MayFail(p) == liveness \/ p.state = "Passing"

(* Fault: a check below both thresholds starts over.                       *)
JudgedAfresh(c, p, passing) ==
    IF p.successes >= SuccessThreshold[c] THEN "Passing"
    ELSE IF MayFail(p) /\ p.failures >= FailureThreshold[c] THEN "Failing"
    ELSE "Pending"

Judged(c, p, passing) ==
    IF passing /\ p.successes >= SuccessThreshold[c] THEN "Passing"
    ELSE IF ~passing /\ MayFail(p) /\ p.failures >= FailureThreshold[c] THEN "Failing"
    ELSE p.state

RecordResult(c, p, passing) ==
    LET counted == Counted(p, passing)
    IN  [counted EXCEPT !.state = Judged(c, counted, passing)]

(* A liveness failure is recorded when the set begins to fail, and cleared *)
(* when it passes directly after failing.                                  *)
Transition(before, after) ==
    unhealthy' = IF ~liveness THEN FALSE
                 ELSE IF before # "Failing" /\ after = "Failing" THEN TRUE
                 ELSE IF before = "Failing" /\ after = "Passing" THEN FALSE
                 ELSE unhealthy

Count(c, passing, newProgress) ==
    /\ progress' = [progress EXCEPT ![c] = newProgress]
    /\ outcomes' = [outcomes EXCEPT ![c] = Append(@, passing)]
    /\ Transition(Aggregate, StateOf(progress'))

(* The scheduled attempt of c ends with a result.                          *)
EndAttempt(c, passing) ==
    /\ inFlight' = [inFlight EXCEPT ![c] = 0]
    /\ elapsed' = elapsed \ {c}
    /\ Count(c, passing, RecordResult(c, progress[c], passing))
-----------------------------------------------------------------------------
Activate ==
    /\ ~started
    /\ started' = TRUE
    /\ UNCHANGED <<liveness, progress, inFlight, elapsed, awaited, answers, unhealthy, sent, outcomes>>

NextAttempt(c) == progress[c].attempts + 1

(* due_indices: started, nothing in flight; readiness schedules no log.    *)
Due(c) ==
    /\ started
    /\ inFlight[c] = 0
    /\ progress[c].attempts < MaxAttempts
    /\ c \in Logs => liveness

BeginAttempt(c) ==
    /\ Due(c)
    /\ inFlight' = [inFlight EXCEPT ![c] = NextAttempt(c)]
    /\ progress' = [progress EXCEPT ![c].attempts = @ + 1]

BeginProbe(c) ==
    /\ c \in Probes
    /\ BeginAttempt(c)
    /\ awaited' = [awaited EXCEPT ![c] = @ \cup {NextAttempt(c)}]
    /\ UNCHANGED <<liveness, started, elapsed, answers, unhealthy, sent, outcomes>>

(* A new window replaces the armed pattern, matched or not.                *)
BeginLog(c) ==
    /\ c \in Logs
    /\ BeginAttempt(c)
    /\ awaited' = [awaited EXCEPT ![c] = {NextAttempt(c)}]
    /\ UNCHANGED <<liveness, started, elapsed, answers, unhealthy, sent, outcomes>>

(* A probe ends either way; an armed pattern reports its first match only. *)
WorkerAnswers(c) ==
    \E k \in awaited[c], passing \in BOOLEAN :
        LET answer == [check |-> c, attempt |-> k, passing |-> passing]
        IN  /\ c \in Logs => passing
            /\ awaited' = [awaited EXCEPT ![c] = @ \ {k}]
            /\ answers' = answers \cup {answer}
            /\ sent' = sent \cup {answer}
            /\ UNCHANGED <<liveness, started, progress, inFlight, elapsed, unhealthy, outcomes>>

Take(answer) == answers' = answers \ {answer} /\ UNCHANGED <<liveness, started, awaited, sent>>

Ignore == UNCHANGED <<progress, inFlight, elapsed, unhealthy, outcomes>>

AcceptsResult(answer) == inFlight[answer.check] = answer.attempt

ApplyResult ==
    \E answer \in answers :
        /\ answer.check \in Probes
        /\ Take(answer)
        /\ IF AcceptsResult(answer) THEN EndAttempt(answer.check, answer.passing) ELSE Ignore

AcceptsMatch(answer) ==
    /\ inFlight[answer.check] = answer.attempt
    /\ answer.check \notin elapsed

CompleteLogMatch ==
    \E answer \in answers :
        /\ answer.check \in Logs /\ answer.attempt # Latched
        /\ Take(answer)
        /\ IF AcceptsMatch(answer) THEN EndAttempt(answer.check, TRUE) ELSE Ignore

(* A match without an attempt belongs to readiness, and counts at once.    *)
AcceptsLatched(answer) ==
    /\ ~liveness
    /\ inFlight[answer.check] = 0
    /\ progress[answer.check].state # "Passing"

Matched(p) ==
    [state |-> "Passing", successes |-> p.successes + 1, failures |-> 0,
     attempts |-> p.attempts + 1]

ApplyLogMatch ==
    \E answer \in answers :
        /\ answer.check \in Logs /\ answer.attempt = Latched
        /\ Take(answer)
        /\ IF AcceptsLatched(answer)
           THEN /\ Count(answer.check, TRUE, Matched(progress[answer.check]))
                /\ UNCHANGED <<inFlight, elapsed>>
           ELSE Ignore

WindowCloses(c) ==
    /\ c \in Logs /\ inFlight[c] # 0 /\ c \notin elapsed
    /\ elapsed' = elapsed \cup {c}
    /\ UNCHANGED <<liveness, started, progress, inFlight, awaited, answers, unhealthy, sent, outcomes>>

(* poll_liveness_timers ends an expired attempt as a failure.              *)
ExpireLogAttempt(c) ==
    /\ c \in elapsed
    /\ EndAttempt(c, FALSE)
    /\ UNCHANGED <<liveness, started, awaited, answers, sent>>

Next ==
    \/ Activate
    \/ \E c \in Checks :
        \/ BeginProbe(c)
        \/ BeginLog(c)
        \/ WorkerAnswers(c)
        \/ WindowCloses(c)
        \/ ExpireLogAttempt(c)
    \/ ApplyResult
    \/ CompleteLogMatch
    \/ ApplyLogMatch

Spec == Init /\ [][Next]_vars
-----------------------------------------------------------------------------
(* Each variable has its type: the record of checks.rs per check, and the  *)
(* history beside it.                                                      *)
TypeOK ==
    /\ liveness \in BOOLEAN /\ started \in BOOLEAN /\ unhealthy \in BOOLEAN
    /\ progress \in [Checks -> Progress]
    /\ inFlight \in [Checks -> 0..MaxAttempts]
    /\ elapsed \subseteq {c \in Logs : inFlight[c] # 0}
    /\ awaited \in [Checks -> SUBSET (0..MaxAttempts)]
    /\ answers \subseteq sent /\ sent \subseteq Answer
    /\ outcomes \in [Checks -> Seq(BOOLEAN)]

(* Result i ends a streak of n results that are all `passing`.             *)
EndsStreak(results, i, n, passing) ==
    /\ n <= i
    /\ \A j \in (i - n + 1)..i : results[j] = passing

Passes(c, results) ==
    {i \in DOMAIN results : EndsStreak(results, i, SuccessThreshold[c], TRUE)}

Fails(c, results) ==
    {i \in DOMAIN results :
        /\ EndsStreak(results, i, FailureThreshold[c], FALSE)
        /\ liveness \/ \E j \in Passes(c, results) : j < i}

(* What the thresholds say of the results of one check: the last streak    *)
(* that was long enough decides.                                           *)
StateAfter(c, results) ==
    IF \E i \in Passes(c, results) : \A j \in Fails(c, results) : j < i THEN "Passing"
    ELSE IF Fails(c, results) # {} THEN "Failing"
    ELSE "Pending"

(* The state of a check is what its thresholds say of all results it ever  *)
(* counted, so no result is lost, counted twice or mixed with another's.   *)
(* A readiness log passes by its one match, whatever its threshold.        *)
ThresholdsExplainState ==
    \A c \in Checks : progress[c].state =
        IF c \in Logs /\ ~liveness
        THEN IF outcomes[c] = << >> THEN "Pending" ELSE "Passing"
        ELSE StateAfter(c, outcomes[c])

(* The k-th result of a check is the answer to its k-th attempt: a late    *)
(* match of an earlier window never passes a later attempt.  A closed      *)
(* window fails although its pattern may have matched too late.            *)
OutcomesAreTheirOwn ==
    \A c \in Checks :
        /\ Len(outcomes[c]) = progress[c].attempts - (IF inFlight[c] = 0 THEN 0 ELSE 1)
        /\ \A k \in DOMAIN outcomes[c] :
            LET attempt == IF c \in Logs /\ ~liveness THEN Latched ELSE k
            IN  c \in Probes \/ outcomes[c][k]
                    => [check |-> c, attempt |-> attempt, passing |-> outcomes[c][k]] \in sent

(* A failing liveness set is always visible as a failure of the Process.   *)
FailingIsVisible == liveness /\ Aggregate = "Failing" => unhealthy

(* The policy as Supervisor.tla knows it.                                  *)
Policy ==
    IF Logs = {} THEN "Probes"
    ELSE IF Probes = {} /\ ~liveness THEN "Log"
    ELSE "Mixed"

Moves(policy, state) ==
    IF liveness THEN LivenessMoves(policy, state) ELSE ReadinessMoves(policy, state)

(* A result moves each check, and the set, only as HealthChecks lets the   *)
(* Supervisor expect it.                                                   *)
MovesAsExpected ==
    /\ \A c \in Checks :
          LET kind == IF c \in Logs THEN "Log" ELSE "Probe"
          IN  progress'[c].state \in {progress[c].state} \cup Moves(kind, progress[c].state)
    /\ StateOf(progress') \in {Aggregate} \cup Moves(Policy, Aggregate)

(* process_lifecycle.rs:542 says the liveness failure is removed after the *)
(* checks recover: no Process carries it while all its checks pass.        *)
RecoveryClearsFailure == Aggregate = "Passing" => ~unhealthy
=============================================================================
