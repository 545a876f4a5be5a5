---------------------------- MODULE CheckSetProofs ----------------------------
(***************************************************************************)
(* What one set of health checks keeps, for any number of probes and log   *)
(* matchers with any thresholds, and whatever order their answers come in: *)
(* each result belongs to its own attempt, the counters are the streaks    *)
(* that end with the last result, the states are what the thresholds say   *)
(* of all results, and the set moves only as HealthChecks lets the         *)
(* Supervisor expect.                                                      *)
(***************************************************************************)
EXTENDS CheckSet, SequenceTheorems, TLAPS

(* What is scheduled is the last attempt, and a readiness log is never.    *)
Scheduled ==
    \A c \in Checks :
        /\ inFlight[c] # 0 => inFlight[c] = progress[c].attempts
        /\ c \in Logs /\ ~liveness => inFlight[c] = 0

(* A log matcher only ever reports a match, a probe only an attempt.       *)
GoodAnswers ==
    /\ \A c \in Probes : Latched \notin awaited[c]
    /\ \A answer \in sent :
          IF answer.check \in Logs THEN answer.passing = TRUE ELSE answer.attempt # Latched

(* The results end with n that are `passing`, and not with more.           *)
LastStreak(results, n, passing) ==
    /\ n \in 0..Len(results)
    /\ \A j \in 1..Len(results) : j > Len(results) - n => results[j] = passing
    /\ \A j \in 1..Len(results) : j = Len(results) - n => results[j] # passing

Streaks ==
    \A c \in Checks : c \in Probes \/ liveness =>
        /\ LastStreak(outcomes[c], progress[c].successes, TRUE)
        /\ LastStreak(outcomes[c], progress[c].failures, FALSE)

IInv ==
    /\ TypeOK /\ Scheduled /\ GoodAnswers /\ Streaks
    /\ OutcomesAreTheirOwn /\ ThresholdsExplainState /\ FailingIsVisible

-----------------------------------------------------------------------------
(* The steps, by what they do to a check.                                  *)

(* A result of the attempt in flight, which somebody gave unless it is the *)
(* failure of a closed window.                                             *)
Ends(c, passing) ==
    /\ c \in Probes \/ (c \in Logs /\ liveness)
    /\ inFlight[c] # 0
    /\ c \in Probes \/ passing = TRUE =>
          [check |-> c, attempt |-> inFlight[c], passing |-> passing] \in sent
    /\ EndAttempt(c, passing)
    /\ answers' \subseteq answers
    /\ UNCHANGED <<liveness, started, awaited, sent>>

(* The one match of a readiness log.                                       *)
LatchesMatch(c) ==
    /\ c \in Logs /\ ~liveness /\ inFlight[c] = 0 /\ progress[c].state # "Passing"
    /\ [check |-> c, attempt |-> Latched, passing |-> TRUE] \in sent
    /\ Count(c, TRUE, Matched(progress[c]))
    /\ answers' \subseteq answers
    /\ UNCHANGED <<liveness, started, awaited, sent, inFlight, elapsed>>

Begins(c) ==
    /\ BeginAttempt(c)
    /\ awaited' \in [Checks -> SUBSET (0..MaxAttempts)] /\ GoodAnswers'
    /\ UNCHANGED <<liveness, started, elapsed, answers, unhealthy, sent, outcomes>>

(* An answer comes, or is too late, or a window closes: nothing counts.    *)
NothingCounts ==
    /\ UNCHANGED <<liveness, progress, inFlight, unhealthy, outcomes>>
    /\ TypeOK' /\ GoodAnswers' /\ sent \subseteq sent'

LEMMA StepKinds ==
    ASSUME CheckSetAssumption, TypeOK, Scheduled, GoodAnswers, [Next]_vars
    PROVE  \/ \E c \in Checks, passing \in BOOLEAN : Ends(c, passing)
           \/ \E c \in Checks : LatchesMatch(c) \/ Begins(c)
           \/ NothingCounts
<1>1. \A answer \in answers :
         /\ answer \in sent /\ answer.check \in Checks /\ answer.attempt \in 0..MaxAttempts
         /\ answer.passing \in BOOLEAN
         /\ answer = [check |-> answer.check, attempt |-> answer.attempt, passing |-> answer.passing]
    BY DEF TypeOK, Answer
<1>2. ASSUME NEW answer \in answers, Take(answer), Ignore
      PROVE  NothingCounts
    BY <1>2 DEF Take, Ignore, NothingCounts, TypeOK, GoodAnswers
<1>3. CASE UNCHANGED vars
    BY <1>3 DEF vars, NothingCounts, TypeOK, GoodAnswers
<1>4. CASE Activate
    BY <1>4 DEF Activate, NothingCounts, TypeOK, GoodAnswers
<1>5. CASE \E c \in Checks : BeginProbe(c) \/ BeginLog(c)
    <2>1. PICK c \in Checks : BeginProbe(c) \/ BeginLog(c)
        BY <1>5
    <2>2. NextAttempt(c) \in 0..MaxAttempts
        <3>1. progress[c].attempts \in 0..MaxAttempts /\ progress[c].attempts < MaxAttempts
            BY <2>1 DEF BeginProbe, BeginLog, BeginAttempt, Due, TypeOK, Progress, Checks
        <3> QED
            BY <3>1, CheckSetAssumption DEF NextAttempt, CheckSetAssumption
    <2>3. awaited' \in [Checks -> SUBSET (0..MaxAttempts)]
        BY ZenonT(40), <2>1, <2>2 DEF BeginProbe, BeginLog, TypeOK
    <2>4. \A d \in Probes : Latched \notin awaited'[d]
        <3>1. NextAttempt(c) # Latched
            BY <2>1 DEF BeginProbe, BeginLog, BeginAttempt, Due, NextAttempt, TypeOK, Progress, Latched
        <3>2. awaited \in [Checks -> SUBSET (0..MaxAttempts)] /\ Probes \subseteq Checks
              /\ \A d \in Probes : Latched \notin awaited[d]
            BY DEF TypeOK, GoodAnswers, Checks
        <3>3. CASE BeginProbe(c)
            <4>1. awaited' = [awaited EXCEPT ![c] = @ \cup {NextAttempt(c)}]
                BY <3>3 DEF BeginProbe
            <4> QED
                BY <3>1, <3>2, <4>1
        <3>4. CASE BeginLog(c)
            <4>1. c \notin Probes /\ awaited' = [awaited EXCEPT ![c] = {NextAttempt(c)}]
                BY <3>4 DEF BeginLog, CheckSetAssumption
            <4> QED
                BY <3>2, <4>1
        <3> QED
            BY <2>1, <3>3, <3>4
    <2>5. Begins(c)
        BY <2>1, <2>3, <2>4 DEF BeginProbe, BeginLog, Begins, GoodAnswers
    <2> QED
        BY <2>5
<1>6. CASE \E c \in Checks : WorkerAnswers(c)
    <2>1. PICK c \in Checks : WorkerAnswers(c)
        BY <1>6
    <2>2. PICK k \in awaited[c], passing \in BOOLEAN :
             /\ c \in Logs => passing
             /\ awaited' = [awaited EXCEPT ![c] = @ \ {k}]
             /\ answers' = answers \cup {[check |-> c, attempt |-> k, passing |-> passing]}
             /\ sent' = sent \cup {[check |-> c, attempt |-> k, passing |-> passing]}
             /\ UNCHANGED <<liveness, started, progress, inFlight, elapsed, unhealthy, outcomes>>
        BY <2>1 DEF WorkerAnswers
    <2>3. k \in 0..MaxAttempts
        BY <2>2 DEF TypeOK
    <2>4. [check |-> c, attempt |-> k, passing |-> passing] \in Answer
        BY <2>3 DEF Answer
    <2>5. awaited' \in [Checks -> SUBSET (0..MaxAttempts)]
        BY <2>2 DEF TypeOK
    <2>6. TypeOK'
        BY <2>2, <2>4, <2>5 DEF TypeOK
    <2>7. c \in Logs => passing = TRUE
        BY <2>2
    <2>8. GoodAnswers'
        <3>1. \A d \in Probes : Latched \notin awaited'[d]
            BY <2>2 DEF GoodAnswers, TypeOK, Checks
        <3>2. c \notin Logs => k # Latched
            BY <2>2 DEF GoodAnswers, Checks
        <3> QED
            BY <2>2, <2>7, <3>1, <3>2 DEF GoodAnswers
    <2> QED
        BY <2>2, <2>6, <2>8 DEF NothingCounts
<1>7. CASE \E c \in Checks : WindowCloses(c)
    BY <1>7 DEF WindowCloses, NothingCounts, TypeOK, GoodAnswers
<1>8. CASE \E c \in Checks : ExpireLogAttempt(c)
    <2>1. PICK c \in Checks : ExpireLogAttempt(c)
        BY <1>8
    <2>2. c \in elapsed /\ c \in Logs /\ inFlight[c] # 0 /\ liveness
        BY <2>1 DEF ExpireLogAttempt, TypeOK, Scheduled
    <2>3. c \notin Probes
        BY <2>2 DEF CheckSetAssumption
    <2>4. Ends(c, FALSE)
        BY <2>1, <2>2, <2>3 DEF Ends, ExpireLogAttempt
    <2>5. FALSE \in BOOLEAN
        BY Zenon
    <2> QED
        BY <2>4, <2>5
<1>9. CASE ApplyResult
    <2>1. PICK answer \in answers :
             /\ answer.check \in Probes
             /\ Take(answer)
             /\ IF AcceptsResult(answer) THEN EndAttempt(answer.check, answer.passing) ELSE Ignore
        BY <1>9 DEF ApplyResult
    <2>2. CASE AcceptsResult(answer)
        <3>1. answer.attempt # 0
            BY <1>1, <2>1 DEF GoodAnswers, Latched, CheckSetAssumption
        <3>2. Ends(answer.check, answer.passing)
            BY <1>1, <2>1, <2>2, <3>1 DEF Ends, AcceptsResult, Take
        <3> QED
            BY <1>1, <3>2
    <2>3. CASE ~AcceptsResult(answer)
        BY <1>2, <2>1, <2>3
    <2> QED
        BY <2>2, <2>3
<1>10. CASE CompleteLogMatch
    <2>1. PICK answer \in answers :
             /\ answer.check \in Logs /\ answer.attempt # Latched
             /\ Take(answer)
             /\ IF AcceptsMatch(answer) THEN EndAttempt(answer.check, TRUE) ELSE Ignore
        BY <1>10 DEF CompleteLogMatch
    <2>2. CASE AcceptsMatch(answer)
        <3>1. answer.passing = TRUE
            BY <1>1, <2>1 DEF GoodAnswers
        <3>2. inFlight[answer.check] = answer.attempt /\ answer.attempt # 0 /\ liveness
            BY <1>1, <2>1, <2>2 DEF AcceptsMatch, Scheduled, Latched
        <3>3. [check |-> answer.check, attempt |-> inFlight[answer.check], passing |-> TRUE] \in sent
            BY <1>1, <3>1, <3>2
        <3>4. Ends(answer.check, TRUE)
            BY <1>1, <2>1, <2>2, <3>2, <3>3 DEF Ends, Take
        <3>5. TRUE \in BOOLEAN
            BY Zenon
        <3> QED
            BY <1>1, <3>4, <3>5
    <2>3. CASE ~AcceptsMatch(answer)
        BY <1>2, <2>1, <2>3
    <2> QED
        BY <2>2, <2>3
<1>11. CASE ApplyLogMatch
    <2>1. PICK answer \in answers :
             /\ answer.check \in Logs /\ answer.attempt = Latched
             /\ Take(answer)
             /\ IF AcceptsLatched(answer)
                THEN /\ Count(answer.check, TRUE, Matched(progress[answer.check]))
                     /\ UNCHANGED <<inFlight, elapsed>>
                ELSE Ignore
        BY <1>11 DEF ApplyLogMatch
    <2>2. CASE AcceptsLatched(answer)
        <3>1. [check |-> answer.check, attempt |-> Latched, passing |-> TRUE] \in sent
            BY <1>1, <2>1 DEF GoodAnswers
        <3>2. LatchesMatch(answer.check)
            BY <1>1, <2>1, <2>2, <3>1 DEF LatchesMatch, AcceptsLatched, Take
        <3> QED
            BY <1>1, <3>2
    <2>3. CASE ~AcceptsLatched(answer)
        BY <1>2, <2>1, <2>3
    <2> QED
        BY <2>2, <2>3
<1> QED
    BY <1>3, <1>4, <1>5, <1>6, <1>7, <1>8, <1>9, <1>10, <1>11 DEF Next

-----------------------------------------------------------------------------
(* What a result does to the counters.                                     *)

LEMMA Recorded ==
    ASSUME NEW c \in Checks, NEW p \in Progress, NEW passing \in BOOLEAN
    PROVE  LET r == RecordResult(c, p, passing)
           IN  /\ r \in Progress /\ r.attempts = p.attempts
               /\ passing = TRUE =>
                     /\ r.successes = p.successes + 1 /\ r.failures = 0
                     /\ r.state = (IF p.successes + 1 >= SuccessThreshold[c] THEN "Passing" ELSE p.state)
               /\ passing # TRUE =>
                     /\ r.successes = 0 /\ r.failures = p.failures + 1
                     /\ r.state = (IF MayFail(p) /\ p.failures + 1 >= FailureThreshold[c]
                                   THEN "Failing" ELSE p.state)
<1> DEFINE r == RecordResult(c, p, passing)
           counted == Counted(p, passing)
           half == IF passing THEN [p EXCEPT !.successes = @ + 1] ELSE [p EXCEPT !.failures = @ + 1]
<1>1. /\ half \in Progress /\ half.attempts = p.attempts /\ half.state = p.state
      /\ passing = TRUE => half.successes = p.successes + 1
      /\ passing # TRUE => half.failures = p.failures + 1
    <2>1. CASE passing = TRUE
        <3>1. half = [p EXCEPT !.successes = @ + 1]
            BY <2>1
        <3> QED
            BY <2>1, <3>1 DEF Progress
    <2>2. CASE passing = FALSE
        <3>1. half = [p EXCEPT !.failures = @ + 1]
            BY <2>2
        <3> QED
            BY <2>2, <3>1 DEF Progress
    <2> QED
        BY <2>1, <2>2
<1>2. counted = IF passing THEN [half EXCEPT !.failures = 0] ELSE [half EXCEPT !.successes = 0]
    BY DEF Counted, Progress
<1> HIDE DEF half, counted
<1>3. /\ counted \in Progress /\ counted.attempts = p.attempts /\ counted.state = p.state
      /\ passing = TRUE => counted.successes = p.successes + 1 /\ counted.failures = 0
      /\ passing # TRUE => counted.successes = 0 /\ counted.failures = p.failures + 1
    <2>1. CASE passing = TRUE
        <3>1. counted = [half EXCEPT !.failures = 0]
            BY <1>2, <2>1
        <3> QED
            BY <1>1, <2>1, <3>1 DEF Progress
    <2>2. CASE passing = FALSE
        <3>1. counted = [half EXCEPT !.successes = 0]
            BY <1>2, <2>2
        <3> QED
            BY <1>1, <2>2, <3>1 DEF Progress
    <2> QED
        BY <2>1, <2>2
<1>4. r = [counted EXCEPT !.state = Judged(c, counted, passing)]
    BY DEF RecordResult, counted
<1> HIDE DEF r
<1>5. /\ passing = TRUE => Judged(c, counted, passing) =
            (IF p.successes + 1 >= SuccessThreshold[c] THEN "Passing" ELSE p.state)
      /\ passing # TRUE => Judged(c, counted, passing) =
            (IF MayFail(p) /\ p.failures + 1 >= FailureThreshold[c] THEN "Failing" ELSE p.state)
    BY <1>3 DEF Judged, MayFail
<1>6. Judged(c, counted, passing) \in CheckState
    BY <1>3, <1>5 DEF Progress, CheckState
<1>7. /\ r \in Progress /\ r.attempts = counted.attempts /\ r.successes = counted.successes
      /\ r.failures = counted.failures /\ r.state = Judged(c, counted, passing)
    BY <1>3, <1>4, <1>6 DEF Progress
<1> QED
    BY <1>3, <1>5, <1>7 DEF r

(* One more result makes a streak longer, or ends it.                      *)
LEMMA StreakGrows ==
    ASSUME NEW results \in Seq(BOOLEAN), NEW n, NEW passing \in BOOLEAN, NEW x \in BOOLEAN,
           LastStreak(results, n, passing)
    PROVE  LastStreak(Append(results, x), IF x = passing THEN n + 1 ELSE 0, passing)
<1> DEFINE more == Append(results, x)
           m == Len(results)
<1>1. m \in Nat /\ Len(more) = m + 1 /\ more[m + 1] = x /\ \A j \in 1..m : more[j] = results[j]
    BY AppendProperties
<1>2. /\ n \in 0..m
      /\ \A j \in 1..m : j > m - n => results[j] = passing
      /\ \A j \in 1..m : j = m - n => results[j] # passing
    BY DEF LastStreak
<1> HIDE DEF more, m
<1>3. CASE x = passing
    <2>1. \A j \in 1..(m + 1) : j > (m + 1) - (n + 1) => more[j] = passing
        BY <1>1, <1>2, <1>3
    <2>2. \A j \in 1..(m + 1) : j = (m + 1) - (n + 1) => more[j] # passing
        BY <1>1, <1>2
    <2> QED
        BY <1>1, <1>2, <1>3, <2>1, <2>2 DEF LastStreak, more
<1>4. CASE x # passing
    <2>1. \A j \in 1..(m + 1) : j > (m + 1) - 0 => more[j] = passing
        BY <1>1
    <2>2. \A j \in 1..(m + 1) : j = (m + 1) - 0 => more[j] # passing
        BY <1>1, <1>4
    <2> QED
        BY <1>1, <1>4, <2>1, <2>2 DEF LastStreak, more
<1> QED
    BY <1>3, <1>4

(* Where a streak ends, with one more result: where it did, and at the     *)
(* last if the streak before it was long enough.                           *)
LEMMA StreakEnds ==
    ASSUME NEW results \in Seq(BOOLEAN), NEW s, NEW passing \in BOOLEAN, NEW x \in BOOLEAN,
           LastStreak(results, s, passing), NEW n \in Nat \ {0}
    PROVE  LET m == Len(results)
               more == Append(results, x)
           IN  /\ \A i \in 1..m : EndsStreak(more, i, n, passing) <=> EndsStreak(results, i, n, passing)
               /\ EndsStreak(more, m + 1, n, passing) <=> (x = passing /\ s + 1 >= n)
<1> DEFINE more == Append(results, x)
           m == Len(results)
<1>1. m \in Nat /\ Len(more) = m + 1 /\ more[m + 1] = x /\ \A j \in 1..m : more[j] = results[j]
    BY AppendProperties
<1>2. /\ s \in 0..m
      /\ \A j \in 1..m : j > m - s => results[j] = passing
      /\ \A j \in 1..m : j = m - s => results[j] # passing
    BY DEF LastStreak
<1> HIDE DEF more, m
<1>3. ASSUME NEW i \in 1..m
      PROVE  EndsStreak(more, i, n, passing) <=> EndsStreak(results, i, n, passing)
    <2>1. n <= i => \A j \in (i - n + 1)..i : j \in 1..m
        BY <1>1
    <2> QED
        BY <1>1, <2>1 DEF EndsStreak
<1>4. ASSUME EndsStreak(more, m + 1, n, passing)
      PROVE  x = passing /\ s + 1 >= n
    <2>1. n <= m + 1 /\ \A j \in ((m + 1) - n + 1)..(m + 1) : more[j] = passing
        BY <1>4 DEF EndsStreak
    <2>2. m + 1 \in ((m + 1) - n + 1)..(m + 1)
        BY <1>1
    <2>3. x = passing
        BY <1>1, <2>1, <2>2
    <2>4. SUFFICES ASSUME s + 1 < n
                   PROVE  FALSE
        BY <1>2, <2>3
    <2>5. m - s \in 1..m /\ m - s \in ((m + 1) - n + 1)..(m + 1)
        BY <1>1, <1>2, <2>1, <2>4
    <2>6. more[m - s] = passing /\ more[m - s] = results[m - s] /\ results[m - s] # passing
        BY <1>1, <1>2, <2>1, <2>5
    <2> QED
        BY <2>6
<1>5. ASSUME x = passing, s + 1 >= n
      PROVE  EndsStreak(more, m + 1, n, passing)
    <2>1. n <= m + 1
        BY <1>1, <1>2, <1>5
    <2>2. ASSUME NEW j \in ((m + 1) - n + 1)..(m + 1)
          PROVE  more[j] = passing
        <3>1. CASE j = m + 1
            BY <1>1, <1>5, <3>1
        <3>2. CASE j # m + 1
            <4>1. j \in 1..m /\ j > m - s
                BY <1>1, <1>2, <1>5, <2>1, <3>2
            <4> QED
                BY <1>1, <1>2, <4>1
        <3> QED
            BY <3>1, <3>2
    <2> QED
        BY <2>1, <2>2 DEF EndsStreak
<1> QED
    BY <1>3, <1>4, <1>5 DEF more, m

(* The last streak that is long enough decides, and a readiness check only *)
(* fails after it has passed.                                              *)
LEMMA ResultDecides ==
    ASSUME CheckSetAssumption, NEW c \in Checks, NEW results \in Seq(BOOLEAN), NEW x \in BOOLEAN,
           NEW s, NEW f, LastStreak(results, s, TRUE), LastStreak(results, f, FALSE)
    PROVE  LET before == StateAfter(c, results)
               after == StateAfter(c, Append(results, x))
           IN  /\ x = TRUE => after = (IF s + 1 >= SuccessThreshold[c] THEN "Passing" ELSE before)
               /\ x # TRUE => after = (IF (liveness \/ before = "Passing") /\ f + 1 >= FailureThreshold[c]
                                       THEN "Failing" ELSE before)
<1> DEFINE more == Append(results, x)
           m == Len(results)
           P == Passes(c, results)
           F == Fails(c, results)
           PM == Passes(c, more)
           FM == Fails(c, more)
<1>1. m \in Nat /\ DOMAIN results = 1..m /\ DOMAIN more = 1..(m + 1)
    <2>1. more \in Seq(BOOLEAN) /\ Len(more) = m + 1
        BY AppendProperties
    <2> QED
        BY <2>1
<1>2. SuccessThreshold[c] \in Nat \ {0} /\ FailureThreshold[c] \in Nat \ {0}
    BY DEF CheckSetAssumption
<1>3. /\ \A i \in 1..m : EndsStreak(more, i, SuccessThreshold[c], TRUE)
                            <=> EndsStreak(results, i, SuccessThreshold[c], TRUE)
      /\ EndsStreak(more, m + 1, SuccessThreshold[c], TRUE)
            <=> (x = TRUE /\ s + 1 >= SuccessThreshold[c])
    <2>1. TRUE \in BOOLEAN
        BY Zenon
    <2> QED
        BY <1>2, <2>1, StreakEnds
<1>4. /\ \A i \in 1..m : EndsStreak(more, i, FailureThreshold[c], FALSE)
                            <=> EndsStreak(results, i, FailureThreshold[c], FALSE)
      /\ EndsStreak(more, m + 1, FailureThreshold[c], FALSE)
            <=> (x = FALSE /\ f + 1 >= FailureThreshold[c])
    <2>1. FALSE \in BOOLEAN
        BY Zenon
    <2> QED
        BY <1>2, <2>1, StreakEnds
<1>5. /\ P \subseteq 1..m /\ F \subseteq 1..m
      /\ \A i \in F : liveness \/ \E j \in P : j < i
    BY <1>1 DEF Passes, Fails
<1>6. PM = P \cup (IF x = TRUE /\ s + 1 >= SuccessThreshold[c] THEN {m + 1} ELSE {})
    <2>1. \A i : i \in 1..(m + 1) <=> (i \in 1..m \/ i = m + 1)
        BY <1>1
    <2> HIDE DEF more, m
    <2> QED
        BY <1>1, <1>3, <2>1 DEF Passes
<1>7. FM = F \cup (IF /\ x = FALSE /\ f + 1 >= FailureThreshold[c]
                      /\ liveness \/ P # {}
                   THEN {m + 1} ELSE {})
    <2>1. \A i : i \in 1..(m + 1) <=> (i \in 1..m \/ i = m + 1)
        BY <1>1
    <2>2. \A i \in 1..m : (\E j \in PM : j < i) <=> (\E j \in P : j < i)
        BY <1>1, <1>6
    <2>3. x = FALSE => ((\E j \in PM : j < m + 1) <=> P # {})
        BY <1>1, <1>5, <1>6
    <2> HIDE DEF more, m, P, PM
    <2>4. \A i \in 1..m : i \in FM <=> i \in F
        BY <1>1, <1>4, <2>1, <2>2 DEF Fails, P, PM
    <2>5. m + 1 \in FM <=> (/\ x = FALSE /\ f + 1 >= FailureThreshold[c]
                            /\ liveness \/ P # {})
        BY <1>1, <1>4, <2>1, <2>3 DEF Fails, P, PM
    <2>6. FM \subseteq 1..(m + 1)
        BY <1>1 DEF Fails
    <2> HIDE DEF FM, F
    <2> QED
        BY <1>1, <1>5, <2>1, <2>4, <2>5, <2>6
<1>8. /\ StateAfter(c, results) =
             (IF \E i \in P : \A j \in F : j < i THEN "Passing"
              ELSE IF F # {} THEN "Failing" ELSE "Pending")
      /\ StateAfter(c, more) =
             (IF \E i \in PM : \A j \in FM : j < i THEN "Passing"
              ELSE IF FM # {} THEN "Failing" ELSE "Pending")
    BY DEF StateAfter
<1> HIDE DEF P, F, PM, FM, m, more
<1>9. CASE x = TRUE
    <2>1. FM = F
        BY <1>7, <1>9
    <2>2. CASE s + 1 >= SuccessThreshold[c]
        <3>1. m + 1 \in PM /\ \A j \in FM : j < m + 1
            BY <1>1, <1>5, <1>6, <1>9, <2>1, <2>2
        <3> QED
            BY <1>8, <1>9, <2>2, <3>1 DEF more
    <2>3. CASE ~(s + 1 >= SuccessThreshold[c])
        <3>1. PM = P
            BY <1>6, <2>3
        <3> QED
            BY <1>8, <1>9, <2>1, <2>3, <3>1 DEF more
    <2> QED
        BY <2>2, <2>3
<1>10. CASE x = FALSE
    <2>1. PM = P
        BY <1>6, <1>10
    <2>2. CASE f + 1 >= FailureThreshold[c] /\ (liveness \/ P # {})
        <3>1. FM = F \cup {m + 1}
            BY <1>7, <1>10, <2>2
        <3>2. StateAfter(c, more) = "Failing"
            BY <1>1, <1>5, <1>8, <2>1, <3>1
        <3>3. ~(liveness \/ StateAfter(c, results) = "Passing") => StateAfter(c, results) = "Failing"
            BY <1>8, <2>2
        <3> QED
            BY <1>10, <2>2, <3>2, <3>3 DEF more
    <2>3. CASE ~(f + 1 >= FailureThreshold[c] /\ (liveness \/ P # {}))
        <3>1. FM = F
            BY <1>7, <2>3
        <3>2. StateAfter(c, results) = "Passing" => P # {}
            BY <1>8
        <3> QED
            BY <1>8, <1>10, <2>1, <2>3, <3>1, <3>2 DEF more
    <2> QED
        BY <2>2, <2>3
<1> QED
    BY <1>9, <1>10

-----------------------------------------------------------------------------
(* The inductive step.                                                     *)

LEMMA EndsKeeps ==
    ASSUME CheckSetAssumption, IInv, NEW c \in Checks, NEW passing \in BOOLEAN, Ends(c, passing)
    PROVE  IInv'
<1> DEFINE p == progress[c]
           r == RecordResult(c, p, passing)
           old == outcomes[c]
           new == Append(old, passing)
<1>1. /\ TypeOK /\ Scheduled /\ GoodAnswers /\ Streaks
      /\ OutcomesAreTheirOwn /\ ThresholdsExplainState /\ FailingIsVisible
    BY DEF IInv
<1>2. /\ progress \in [Checks -> Progress] /\ outcomes \in [Checks -> Seq(BOOLEAN)]
      /\ inFlight \in [Checks -> 0..MaxAttempts]
      /\ p \in Progress /\ old \in Seq(BOOLEAN) /\ new \in Seq(BOOLEAN)
    BY <1>1 DEF TypeOK
<1>3. /\ progress' = [progress EXCEPT ![c] = r]
      /\ outcomes' = [outcomes EXCEPT ![c] = new]
      /\ inFlight' = [inFlight EXCEPT ![c] = 0]
      /\ elapsed' = elapsed \ {c}
      /\ Transition(Aggregate, StateOf(progress'))
      /\ answers' \subseteq answers
      /\ UNCHANGED <<liveness, started, awaited, sent>>
    BY DEF Ends, EndAttempt, Count
<1>4. /\ r \in Progress /\ r.attempts = p.attempts
      /\ passing = TRUE =>
            /\ r.successes = p.successes + 1 /\ r.failures = 0
            /\ r.state = (IF p.successes + 1 >= SuccessThreshold[c] THEN "Passing" ELSE p.state)
      /\ passing # TRUE =>
            /\ r.successes = 0 /\ r.failures = p.failures + 1
            /\ r.state = (IF MayFail(p) /\ p.failures + 1 >= FailureThreshold[c]
                          THEN "Failing" ELSE p.state)
    BY <1>2, Recorded
<1> HIDE DEF r, p, old, new
<1>5. /\ progress'[c] = r /\ outcomes'[c] = new /\ inFlight'[c] = 0
      /\ \A d \in Checks \ {c} : /\ progress'[d] = progress[d] /\ outcomes'[d] = outcomes[d]
                                 /\ inFlight'[d] = inFlight[d]
      /\ progress' \in [Checks -> Progress] /\ outcomes' \in [Checks -> Seq(BOOLEAN)]
      /\ inFlight' \in [Checks -> 0..MaxAttempts]
    <2>1. 0 \in 0..MaxAttempts
        BY DEF CheckSetAssumption
    <2>2. inFlight' \in [Checks -> 0..MaxAttempts] /\ inFlight'[c] = 0
          /\ \A d \in Checks \ {c} : inFlight'[d] = inFlight[d]
        BY <1>2, <1>3, <2>1
    <2>3. progress' \in [Checks -> Progress] /\ progress'[c] = r
          /\ \A d \in Checks \ {c} : progress'[d] = progress[d]
        BY <1>2, <1>3, <1>4
    <2>4. outcomes' \in [Checks -> Seq(BOOLEAN)] /\ outcomes'[c] = new
          /\ \A d \in Checks \ {c} : outcomes'[d] = outcomes[d]
        BY <1>2, <1>3
    <2> QED
        BY <2>2, <2>3, <2>4
<1>6. liveness' = liveness /\ liveness \in BOOLEAN /\ unhealthy' \in BOOLEAN
    BY <1>1, <1>3 DEF TypeOK, Transition
<1>7. TypeOK'
    <2>1. elapsed' \subseteq {d \in Logs : inFlight'[d] # 0}
        BY <1>1, <1>3, <1>5 DEF TypeOK, Checks
    <2> QED
        BY <1>1, <1>3, <1>5, <1>6, <2>1 DEF TypeOK
<1>8. Scheduled'
    BY <1>1, <1>4, <1>5, <1>6 DEF Scheduled
<1>9. GoodAnswers'
    BY <1>1, <1>3 DEF GoodAnswers
<1>10. c \in Probes \/ liveness
    BY DEF Ends
<1>11. LastStreak(old, p.successes, TRUE) /\ LastStreak(old, p.failures, FALSE)
    BY <1>1, <1>10 DEF Streaks, old, p
<1>12. LastStreak(new, r.successes, TRUE) /\ LastStreak(new, r.failures, FALSE)
    <2>1. TRUE \in BOOLEAN /\ FALSE \in BOOLEAN
        BY Zenon
    <2>2. LastStreak(new, IF passing = TRUE THEN p.successes + 1 ELSE 0, TRUE)
        BY <1>2, <1>11, <2>1, StreakGrows DEF new
    <2>3. LastStreak(new, IF passing = FALSE THEN p.failures + 1 ELSE 0, FALSE)
        BY <1>2, <1>11, <2>1, StreakGrows DEF new
    <2>4. CASE passing = TRUE
        BY <1>4, <2>2, <2>3, <2>4
    <2>5. CASE passing = FALSE
        BY <1>4, <2>2, <2>3, <2>5
    <2> QED
        BY <2>4, <2>5
<1>13. Streaks'
    BY <1>1, <1>5, <1>6, <1>12 DEF Streaks
<1>14. OutcomesAreTheirOwn'
    <2>1. /\ Len(new) = Len(old) + 1 /\ Len(old) \in Nat /\ new[Len(old) + 1] = passing
          /\ \A k \in 1..Len(old) : new[k] = old[k]
          /\ DOMAIN old = 1..Len(old) /\ DOMAIN new = 1..(Len(old) + 1)
        <3>1. Len(new) = Len(old) + 1
            BY <1>2 DEF new
        <3> QED
            BY <1>2, <3>1, AppendProperties DEF new
    <2>2. /\ inFlight[c] # 0 /\ inFlight[c] = p.attempts /\ Len(old) = p.attempts - 1
          /\ p.attempts \in Nat
        BY <1>1, <1>2 DEF Ends, Scheduled, OutcomesAreTheirOwn, p, old, Progress
    <2>3. Len(new) = r.attempts - 0
        BY <1>4, <2>1, <2>2
    <2>4. ~(c \in Logs /\ ~liveness)
        BY <1>10 DEF CheckSetAssumption
    <2>5. ASSUME NEW k \in DOMAIN new, c \in Probes \/ new[k]
          PROVE  [check |-> c, attempt |-> k, passing |-> new[k]] \in sent
        <3>1. CASE k = Len(old) + 1
            <4>1. c \in Probes \/ passing = TRUE
                BY <2>1, <2>5, <3>1
            <4> QED
                BY <2>1, <2>2, <3>1, <4>1 DEF Ends
        <3>2. CASE k \in 1..Len(old)
            BY <1>1, <2>1, <2>4, <2>5, <3>2 DEF OutcomesAreTheirOwn, old
        <3> QED
            BY <2>1, <3>1, <3>2
    <2>6. \A d \in Checks \ {c} :
             /\ Len(outcomes'[d]) = progress'[d].attempts - (IF inFlight'[d] = 0 THEN 0 ELSE 1)
             /\ \A k \in DOMAIN outcomes'[d] :
                   LET attempt == IF d \in Logs /\ ~liveness THEN Latched ELSE k
                   IN  d \in Probes \/ outcomes'[d][k]
                           => [check |-> d, attempt |-> attempt, passing |-> outcomes'[d][k]] \in sent
        BY <1>1, <1>5 DEF OutcomesAreTheirOwn
    <2> QED
        BY <1>3, <1>5, <1>6, <2>3, <2>4, <2>5, <2>6 DEF OutcomesAreTheirOwn
<1>15. ThresholdsExplainState'
    <2>1. p.state = StateAfter(c, old)
        BY <1>1, <1>10 DEF ThresholdsExplainState, CheckSetAssumption, p, old
    <2>2. r.state = StateAfter(c, new)
        BY ZenonT(40), <1>2, <1>4, <1>11, <2>1, ResultDecides DEF MayFail, new
    <2>3. ASSUME NEW d \in Checks
          PROVE  progress'[d].state =
                    (IF d \in Logs /\ ~liveness
                     THEN IF outcomes'[d] = << >> THEN "Pending" ELSE "Passing"
                     ELSE StateAfter(d, outcomes'[d]))
        <3>1. CASE d = c
            BY <1>5, <1>10, <2>2, <3>1 DEF CheckSetAssumption
        <3>2. CASE d # c
            BY <1>1, <1>5, <3>2 DEF ThresholdsExplainState
        <3> QED
            BY <3>1, <3>2
    <2> QED
        BY <1>6, <2>3 DEF ThresholdsExplainState, StateAfter, Passes, Fails
<1>16. FailingIsVisible'
    BY <1>1, <1>3, <1>6 DEF FailingIsVisible, Transition, Aggregate
<1> QED
    BY <1>7, <1>8, <1>9, <1>13, <1>14, <1>15, <1>16 DEF IInv

LEMMA LatchKeeps ==
    ASSUME CheckSetAssumption, IInv, NEW c \in Checks, LatchesMatch(c)
    PROVE  IInv'
<1> DEFINE p == progress[c]
           r == Matched(p)
           old == outcomes[c]
           new == Append(old, TRUE)
<1>1. /\ TypeOK /\ Scheduled /\ GoodAnswers /\ Streaks
      /\ OutcomesAreTheirOwn /\ ThresholdsExplainState /\ FailingIsVisible
    BY DEF IInv
<1>2. /\ progress \in [Checks -> Progress] /\ outcomes \in [Checks -> Seq(BOOLEAN)]
      /\ p \in Progress /\ old \in Seq(BOOLEAN)
    BY <1>1 DEF TypeOK
<1>3. /\ progress' = [progress EXCEPT ![c] = r]
      /\ outcomes' = [outcomes EXCEPT ![c] = new]
      /\ Transition(Aggregate, StateOf(progress'))
      /\ answers' \subseteq answers
      /\ UNCHANGED <<liveness, started, awaited, sent, inFlight, elapsed>>
      /\ c \in Logs /\ c \notin Probes /\ ~liveness /\ inFlight[c] = 0 /\ p.state # "Passing"
      /\ [check |-> c, attempt |-> Latched, passing |-> TRUE] \in sent
    BY DEF LatchesMatch, Count, CheckSetAssumption
(* It is the first result, or the matcher would pass already.              *)
<1>4. old = << >> /\ p.attempts = 0
    <2>1. old = << >>
        BY <1>1, <1>3 DEF ThresholdsExplainState
    <2> QED
        BY <1>1, <1>2, <1>3, <2>1 DEF OutcomesAreTheirOwn, Progress
<1>5. r \in Progress /\ r.attempts = 1 /\ r.state = "Passing"
    BY <1>2, <1>4 DEF Matched, Progress, CheckState, CheckSetAssumption
<1>6. new = <<TRUE>> /\ new \in Seq(BOOLEAN) /\ Len(new) = 1 /\ DOMAIN new = {1} /\ new[1] = TRUE
    BY <1>4
<1> HIDE DEF r, p, old, new
<1>7. /\ progress' \in [Checks -> Progress] /\ progress'[c] = r
      /\ \A d \in Checks \ {c} : progress'[d] = progress[d]
    BY <1>2, <1>3, <1>5
<1>8. /\ outcomes' \in [Checks -> Seq(BOOLEAN)] /\ outcomes'[c] = new
      /\ \A d \in Checks \ {c} : outcomes'[d] = outcomes[d]
    BY <1>2, <1>3, <1>6
<1>9. liveness' = liveness /\ liveness \in BOOLEAN /\ unhealthy' \in BOOLEAN
    BY <1>1, <1>3 DEF TypeOK, Transition
<1>10. TypeOK'
    BY <1>1, <1>3, <1>7, <1>8, <1>9 DEF TypeOK
<1>11. Scheduled'
    BY <1>1, <1>3, <1>7 DEF Scheduled
<1>12. GoodAnswers'
    BY <1>1, <1>3 DEF GoodAnswers
<1>13. Streaks'
    BY <1>1, <1>3, <1>7, <1>8 DEF Streaks
<1>14. OutcomesAreTheirOwn'
    <2>1. ASSUME NEW d \in Checks
          PROVE  /\ Len(outcomes'[d]) = progress'[d].attempts - (IF inFlight'[d] = 0 THEN 0 ELSE 1)
                 /\ \A k \in DOMAIN outcomes'[d] :
                       LET attempt == IF d \in Logs /\ ~liveness THEN Latched ELSE k
                       IN  d \in Probes \/ outcomes'[d][k]
                               => [check |-> d, attempt |-> attempt, passing |-> outcomes'[d][k]] \in sent
        <3>1. CASE d = c
            <4>1. Len(outcomes'[d]) = 1 /\ progress'[d].attempts = 1 /\ inFlight'[d] = 0
                BY <1>3, <1>5, <1>6, <1>7, <1>8, <3>1
            <4>2. \A k \in DOMAIN outcomes'[d] : outcomes'[d][k] = TRUE
                BY <1>6, <1>8, <3>1
            <4>3. \A k \in DOMAIN outcomes'[d] :
                     [check |-> d, attempt |-> Latched, passing |-> outcomes'[d][k]] \in sent
                BY <1>3, <3>1, <4>2, Zenon
            <4>4. d \in Logs /\ ~liveness
                BY <1>3, <3>1
            <4> QED
                BY <4>1, <4>3, <4>4
        <3>2. CASE d # c
            BY <1>1, <1>3, <1>7, <1>8, <3>2 DEF OutcomesAreTheirOwn
        <3> QED
            BY <3>1, <3>2
    <2> QED
        BY <1>3, <2>1 DEF OutcomesAreTheirOwn
<1>15. ThresholdsExplainState'
    <2>1. ASSUME NEW d \in Checks
          PROVE  progress'[d].state =
                    (IF d \in Logs /\ ~liveness
                     THEN IF outcomes'[d] = << >> THEN "Pending" ELSE "Passing"
                     ELSE StateAfter(d, outcomes'[d]))
        <3>1. CASE d = c
            <4>1. outcomes'[c] # << >>
                BY <1>6, <1>8
            <4> QED
                BY <1>3, <1>5, <1>7, <3>1, <4>1
        <3>2. CASE d # c
            BY <1>1, <1>7, <1>8, <3>2 DEF ThresholdsExplainState
        <3> QED
            BY <3>1, <3>2
    <2> QED
        BY <1>9, <2>1 DEF ThresholdsExplainState, StateAfter, Passes, Fails
<1>16. FailingIsVisible'
    BY <1>3 DEF FailingIsVisible
<1> QED
    BY <1>10, <1>11, <1>12, <1>13, <1>14, <1>15, <1>16 DEF IInv

LEMMA BeginKeeps ==
    ASSUME CheckSetAssumption, IInv, NEW c \in Checks, Begins(c)
    PROVE  IInv'
<1>1. /\ TypeOK /\ Scheduled /\ GoodAnswers /\ Streaks
      /\ OutcomesAreTheirOwn /\ ThresholdsExplainState /\ FailingIsVisible
    BY DEF IInv
<1> DEFINE p == progress[c]
           q == [p EXCEPT !.attempts = @ + 1]
<1>2. /\ progress \in [Checks -> Progress] /\ p \in Progress
      /\ inFlight \in [Checks -> 0..MaxAttempts]
    BY <1>1 DEF TypeOK
<1>3. /\ inFlight[c] = 0 /\ p.attempts < MaxAttempts /\ (c \in Logs => liveness)
      /\ inFlight' = [inFlight EXCEPT ![c] = p.attempts + 1]
      /\ progress' = [progress EXCEPT ![c] = q]
      /\ awaited' \in [Checks -> SUBSET (0..MaxAttempts)] /\ GoodAnswers'
      /\ UNCHANGED <<liveness, started, elapsed, answers, unhealthy, sent, outcomes>>
    BY <1>2 DEF Begins, BeginAttempt, Due, NextAttempt
<1>4. /\ q \in Progress /\ q.attempts = p.attempts + 1 /\ q.state = p.state
      /\ q.successes = p.successes /\ q.failures = p.failures
      /\ p.attempts + 1 \in 1..MaxAttempts
    BY <1>2, <1>3 DEF Progress, CheckSetAssumption
<1> HIDE DEF q
<1>5. /\ progress' \in [Checks -> Progress] /\ progress'[c] = q
      /\ \A d \in Checks \ {c} : progress'[d] = progress[d]
    BY <1>2, <1>3, <1>4
<1>6. /\ inFlight' \in [Checks -> 0..MaxAttempts] /\ inFlight'[c] = p.attempts + 1
      /\ \A d \in Checks \ {c} : inFlight'[d] = inFlight[d]
    <2>1. p.attempts + 1 \in 0..MaxAttempts
        BY <1>4
    <2> QED
        BY <1>2, <1>3, <2>1
<1>7. \A d \in Checks : /\ progress'[d].state = progress[d].state
                        /\ progress'[d].successes = progress[d].successes
                        /\ progress'[d].failures = progress[d].failures
    BY <1>4, <1>5
<1>8. TypeOK'
    <2>1. \A d \in Checks : inFlight[d] # 0 => inFlight'[d] # 0
        BY <1>3, <1>4, <1>6
    <2>2. elapsed' \subseteq {d \in Logs : inFlight'[d] # 0}
        BY <1>1, <1>3, <2>1 DEF TypeOK, Checks
    <2> QED
        BY <1>1, <1>3, <1>5, <1>6, <2>2 DEF TypeOK
<1>9. Scheduled'
    BY <1>1, <1>3, <1>4, <1>5, <1>6 DEF Scheduled
<1>10. Streaks'
    BY <1>1, <1>3, <1>7 DEF Streaks
<1>11. OutcomesAreTheirOwn'
    <2>1. ASSUME NEW d \in Checks
          PROVE  Len(outcomes[d]) = progress'[d].attempts - (IF inFlight'[d] = 0 THEN 0 ELSE 1)
        <3>1. CASE d = c
            <4>1. Len(outcomes[c]) = p.attempts - 0 /\ p.attempts \in Nat
                BY <1>1, <1>2, <1>3 DEF OutcomesAreTheirOwn, Progress
            <4> QED
                BY <1>4, <1>5, <1>6, <3>1, <4>1
        <3>2. CASE d # c
            BY <1>1, <1>5, <1>6, <3>2 DEF OutcomesAreTheirOwn
        <3> QED
            BY <3>1, <3>2
    <2> QED
        BY <1>1, <1>3, <2>1 DEF OutcomesAreTheirOwn
<1>12. ThresholdsExplainState'
    <2>1. \A d \in Checks : progress'[d].state =
             (IF d \in Logs /\ ~liveness
              THEN IF outcomes[d] = << >> THEN "Pending" ELSE "Passing"
              ELSE StateAfter(d, outcomes[d]))
        BY <1>1, <1>7 DEF ThresholdsExplainState
    <2> QED
        BY ZenonT(40), <1>3, <2>1 DEF ThresholdsExplainState, StateAfter, Passes, Fails
<1>13. FailingIsVisible'
    BY <1>1, <1>3, <1>7 DEF FailingIsVisible, Aggregate, StateOf
<1> QED
    BY <1>3, <1>8, <1>9, <1>10, <1>11, <1>12, <1>13 DEF IInv

LEMMA NothingKeeps ==
    ASSUME IInv, NothingCounts
    PROVE  IInv'
<1>1. /\ TypeOK /\ Scheduled /\ GoodAnswers /\ Streaks
      /\ OutcomesAreTheirOwn /\ ThresholdsExplainState /\ FailingIsVisible
    BY DEF IInv
<1>2. /\ UNCHANGED <<liveness, progress, inFlight, unhealthy, outcomes>>
      /\ TypeOK' /\ GoodAnswers' /\ sent \subseteq sent'
    BY DEF NothingCounts
<1>3. Scheduled' /\ Streaks'
    BY <1>1, <1>2 DEF Scheduled, Streaks
<1>4. OutcomesAreTheirOwn'
    BY <1>1, <1>2 DEF OutcomesAreTheirOwn
<1>5. ThresholdsExplainState'
    BY <1>1, <1>2 DEF ThresholdsExplainState, StateAfter, Passes, Fails
<1>6. FailingIsVisible'
    BY <1>1, <1>2 DEF FailingIsVisible, Aggregate, StateOf
<1> QED
    BY <1>2, <1>3, <1>4, <1>5, <1>6 DEF IInv

LEMMA StepKeepsInvariant ==
    ASSUME CheckSetAssumption, IInv, [Next]_vars
    PROVE  IInv'
<1>1. TypeOK /\ Scheduled /\ GoodAnswers
    BY DEF IInv
<1> QED
    BY <1>1, StepKinds, EndsKeeps, LatchKeeps, BeginKeeps, NothingKeeps

LEMMA InitIsSound ==
    ASSUME CheckSetAssumption, Init
    PROVE  IInv
<1>1. /\ liveness \in BOOLEAN /\ started = FALSE /\ unhealthy = FALSE
      /\ progress = [c \in Checks |->
            [state |-> "Pending", successes |-> 0, failures |-> 0, attempts |-> 0]]
      /\ inFlight = [c \in Checks |-> 0] /\ elapsed = {} /\ answers = {} /\ sent = {}
      /\ awaited = [c \in Checks |-> IF c \in Logs THEN {Latched} ELSE {}]
      /\ outcomes = [c \in Checks |-> << >>]
    BY DEF Init
<1>2. /\ 0 \in 0..MaxAttempts /\ Latched \in 0..MaxAttempts /\ Probes \subseteq Checks
      /\ \A c \in Probes : c \notin Logs
    BY DEF CheckSetAssumption, Latched, Checks
<1>3. TypeOK
    <2>1. [state |-> "Pending", successes |-> 0, failures |-> 0, attempts |-> 0] \in Progress
        BY <1>2 DEF Progress, CheckState
    <2>2. progress \in [Checks -> Progress] /\ inFlight \in [Checks -> 0..MaxAttempts]
        BY <1>1, <1>2, <2>1
    <2>3. awaited \in [Checks -> SUBSET (0..MaxAttempts)]
        BY <1>1, <1>2
    <2>4. outcomes \in [Checks -> Seq(BOOLEAN)]
        BY <1>1
    <2> QED
        BY <1>1, <2>2, <2>3, <2>4 DEF TypeOK
<1>4. Scheduled
    BY <1>1 DEF Scheduled
<1>5. GoodAnswers
    BY <1>1, <1>2 DEF GoodAnswers
<1>6. Streaks
    BY <1>1 DEF Streaks, LastStreak
<1>7. OutcomesAreTheirOwn
    BY <1>1 DEF OutcomesAreTheirOwn
<1>8. ThresholdsExplainState
    BY <1>1 DEF ThresholdsExplainState, StateAfter, Passes, Fails
<1>9. FailingIsVisible
    <2>1. \A c \in Checks : progress[c].state = "Pending"
        BY <1>1
    <2> QED
        BY <2>1 DEF FailingIsVisible, Aggregate, StateOf
<1> QED
    BY <1>3, <1>4, <1>5, <1>6, <1>7, <1>8, <1>9 DEF IInv

-----------------------------------------------------------------------------
(* How a step moves the states.                                            *)

KindOf(c) == IF c \in Logs THEN "Log" ELSE "Probe"

LEMMA CheckMoves ==
    ASSUME CheckSetAssumption, IInv, [Next]_vars, NEW d \in Checks
    PROVE  progress'[d].state \in {progress[d].state} \cup Moves(KindOf(d), progress[d].state)
<1>1. /\ TypeOK /\ Scheduled /\ GoodAnswers /\ ThresholdsExplainState
      /\ progress \in [Checks -> Progress] /\ progress[d].state \in CheckState
    BY DEF IInv, TypeOK, Progress
<1>2. CASE progress'[d].state = progress[d].state
    BY <1>2
<1>3. ASSUME NEW passing \in BOOLEAN, Ends(d, passing)
      PROVE  progress'[d].state \in {progress[d].state} \cup Moves(KindOf(d), progress[d].state)
    <2> DEFINE p == progress[d]
               r == RecordResult(d, p, passing)
    <2>1. progress'[d] = r /\ p \in Progress
        BY <1>1, <1>3 DEF Ends, EndAttempt, Count
    <2>2. \/ r.state \in {"Passing", p.state}
          \/ r.state = "Failing" /\ MayFail(p)
        <3>1. CASE passing = TRUE
            BY <2>1, <3>1, Recorded
        <3>2. CASE passing # TRUE
            BY <2>1, <3>2, Recorded
        <3> QED
            BY <3>1, <3>2
    <2> HIDE DEF r
    <2>3. CASE liveness
        <3>1. Moves(KindOf(d), p.state) = IF p.state = "Pending" THEN AggregateStates
                                          ELSE {"Passing", "Failing"}
            BY <2>3 DEF Moves, LivenessMoves, KindOf
        <3> QED
            BY <2>1, <2>2, <3>1 DEF AggregateStates
    <2>4. CASE ~liveness
        <3>1. KindOf(d) = "Probe"
            BY <1>3, <2>4 DEF Ends, KindOf, CheckSetAssumption
        <3>2. Moves(KindOf(d), p.state) = IF p.state = "Pending" THEN {"Pending", "Passing"}
                                          ELSE {"Passing", "Failing"}
            BY <2>4, <3>1 DEF Moves, ReadinessMoves
        <3> QED
            BY <2>1, <2>2, <2>4, <3>2 DEF MayFail
    <2> QED
        BY <2>3, <2>4
<1>4. CASE LatchesMatch(d)
    <2>1. progress'[d].state = "Passing"
        BY <1>1, <1>4 DEF LatchesMatch, Count, Matched
    <2>2. ~liveness /\ KindOf(d) = "Log" /\ progress[d].state = "Pending"
        BY <1>1, <1>4 DEF LatchesMatch, ThresholdsExplainState, KindOf
    <2>3. Moves(KindOf(d), progress[d].state) = {"Passing"}
        BY <2>2 DEF Moves, ReadinessMoves
    <2> QED
        BY <2>1, <2>3
<1>5. ASSUME NEW c \in Checks, c # d, NEW passing \in BOOLEAN, Ends(c, passing) \/ LatchesMatch(c)
      PROVE  progress'[d].state = progress[d].state
    BY <1>1, <1>5 DEF Ends, EndAttempt, LatchesMatch, Count
<1>6. ASSUME NEW c \in Checks, Begins(c)
      PROVE  progress'[d].state = progress[d].state
    BY <1>1, <1>6 DEF Begins, BeginAttempt, Progress
<1>7. CASE NothingCounts
    BY <1>7 DEF NothingCounts
<1> QED
    <2>1. TRUE \in BOOLEAN
        BY Zenon
    <2> QED
        BY <1>1, <1>2, <1>3, <1>4, <1>5, <1>6, <1>7, <2>1, StepKinds

LEMMA SetMoves ==
    ASSUME CheckSetAssumption, IInv, [Next]_vars
    PROVE  MovesAsExpected
<1>1. \A d \in Checks :
         /\ progress'[d].state \in {progress[d].state} \cup Moves(KindOf(d), progress[d].state)
         /\ progress[d].state \in CheckState /\ progress'[d].state \in CheckState
    <2>1. IInv'
        BY StepKeepsInvariant
    <2> QED
        BY <2>1, CheckMoves DEF IInv, TypeOK, Progress
<1>2. \A d \in Checks : progress[d].state = "Passing" => progress'[d].state \in {"Passing", "Failing"}
    <2> SUFFICES ASSUME NEW d \in Checks, progress[d].state = "Passing"
                 PROVE  Moves(KindOf(d), "Passing") \subseteq {"Passing", "Failing"}
        BY <1>1
    <2>1. KindOf(d) = "Log" \/ KindOf(d) = "Probe"
        BY DEF KindOf
    <2> QED
        BY <2>1 DEF Moves, LivenessMoves, ReadinessMoves
<1>3. Aggregate \in CheckState /\ StateOf(progress') \in CheckState
    BY DEF Aggregate, StateOf, CheckState
<1>4. CASE Policy # "Log"
    <2>1. Policy \in {"Probes", "Mixed"}
        BY <1>4 DEF Policy
    <2>2. Moves(Policy, Aggregate) = IF Aggregate = "Passing" THEN {"Passing", "Failing"} ELSE AggregateStates
        BY <2>1 DEF Moves, LivenessMoves, ReadinessMoves
    <2>3. Aggregate = "Passing" => StateOf(progress') # "Pending"
        <3> SUFFICES ASSUME Aggregate = "Passing"
                     PROVE  StateOf(progress') # "Pending"
            OBVIOUS
        <3>1. \A d \in Checks : progress'[d].state \in {"Passing", "Failing"}
            BY <1>2 DEF Aggregate, StateOf
        <3> QED
            BY <3>1 DEF StateOf
    <2> QED
        BY <1>1, <1>3, <2>2, <2>3 DEF MovesAsExpected, KindOf, AggregateStates, CheckState
<1>5. CASE Policy = "Log"
    <2>1. Checks = Logs /\ ~liveness
        BY <1>5 DEF Policy, Checks
    <2>2. \A d \in Checks : progress[d].state # "Failing" /\ progress'[d].state # "Failing"
        <3>1. IInv' /\ liveness' = liveness
            <4>1. liveness' = liveness
                BY StepKinds DEF IInv, Ends, LatchesMatch, Begins, NothingCounts
            <4> QED
                BY <4>1, StepKeepsInvariant
        <3> QED
            BY <2>1, <3>1 DEF IInv, ThresholdsExplainState
    <2>3. Moves(Policy, Aggregate) = IF Aggregate = "Pending" THEN {"Passing"} ELSE {}
        BY <1>5, <2>1 DEF Moves, ReadinessMoves
    <2>4. Aggregate \in {"Pending", "Passing"} /\ StateOf(progress') \in {"Pending", "Passing"}
        BY <2>2 DEF Aggregate, StateOf
    <2>5. Aggregate = "Passing" => StateOf(progress') = "Passing"
        <3> SUFFICES ASSUME Aggregate = "Passing"
                     PROVE  StateOf(progress') = "Passing"
            OBVIOUS
        <3>1. \A d \in Checks : progress[d].state = "Passing"
            BY DEF Aggregate, StateOf
        <3>2. \A d \in Checks : progress'[d].state = "Passing"
            BY <1>2, <2>2, <3>1
        <3> QED
            BY <3>2 DEF StateOf
    <2> QED
        BY <1>1, <2>3, <2>4, <2>5 DEF MovesAsExpected, KindOf
<1> QED
    BY <1>4, <1>5

-----------------------------------------------------------------------------
(* The theorems.                                                           *)

(* The counters of a check are the streaks that end with its last result,  *)
(* what is in flight is its last attempt, and a readiness log has at most  *)
(* one result: what the next theorems rest on.                             *)
THEOREM CheckInvariantHolds ==
    ASSUME CheckSetAssumption
    PROVE  Spec => []IInv
<1>1. Init => IInv
    BY InitIsSound
<1>2. IInv /\ [Next]_vars => IInv'
    BY StepKeepsInvariant
<1> QED
    BY <1>1, <1>2, PTL DEF Spec

(* However late the workers of checks.rs answer and whichever windows      *)
(* close meanwhile, the k-th result of a check is the answer to its k-th   *)
(* attempt: CheckSet drops every other answer.                             *)
THEOREM ResultsAreTheirOwn ==
    ASSUME CheckSetAssumption
    PROVE  Spec => []OutcomesAreTheirOwn
<1>1. IInv => OutcomesAreTheirOwn
    BY DEF IInv
<1> QED
    BY <1>1, CheckInvariantHolds, PTL

(* For any thresholds, the counters of checks.rs, which forget everything  *)
(* but two numbers, lead to the state that all results together imply.     *)
THEOREM CountersExplainState ==
    ASSUME CheckSetAssumption
    PROVE  Spec => []ThresholdsExplainState
<1>1. IInv => ThresholdsExplainState
    BY DEF IInv
<1> QED
    BY <1>1, CheckInvariantHolds, PTL

(* liveness.rs records a failure whenever a liveness set begins to fail    *)
(* and clears it only when the set passes: while any check of such a set   *)
(* fails, its Process shows it.                                            *)
THEOREM FailureShows ==
    ASSUME CheckSetAssumption
    PROVE  Spec => []FailingIsVisible
<1>1. IInv => FailingIsVisible
    BY DEF IInv
<1> QED
    BY <1>1, CheckInvariantHolds, PTL

(* Every step of a set, with any checks, is one that HealthChecks lets the *)
(* Supervisor's model expect of its policy: what Supervisor.tla assumes of *)
(* checks.rs is what checks.rs does.                                       *)
THEOREM SetMovesAsExpected ==
    ASSUME CheckSetAssumption
    PROVE  Spec => [][MovesAsExpected]_vars
<1>1. IInv /\ [Next]_vars => [MovesAsExpected]_vars
    BY SetMoves
<1> QED
    BY <1>1, CheckInvariantHolds, PTL DEF Spec
=============================================================================
