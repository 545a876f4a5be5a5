---------------------------- MODULE RunAdapterProofs ----------------------------
(***************************************************************************)
(* What the cleanup of a Run promises, for every process tree, every set   *)
(* of processes that may not be signalled, and any number of stops; and    *)
(* that the adapter of one Run keeps to RunSeam, which is all that         *)
(* Supervisor knows of it, whichever side wins the race for the Run.       *)
(***************************************************************************)
EXTENDS RunAdapter, Integers, TLAPS

Gone == root = "reaped" /\ members = {}

Ended == {"idle", "finalRoot", "finalMembers", "reap", "drain"}

(* How far the cleanup has come, and what it may rely on there.            *)
CleanupSound ==
    /\ root = "unborn" => Alone
    /\ root = "reaped" => Alone /\ (pc = "drain" \/ outcome.written)
    /\ pc \in {"lookAtMembers", "finalMembers", "reap"} => Exited
    /\ pc \in {"reap", "drain"} => Alone
    /\ pc = "drain" => root = "reaped"
    /\ pc # "idle" => ~outcome.written
    /\ pc # "idle" /\ refused => pc \in Ended
    /\ outcome.confirmed => outcome.written /\ Gone

(* A live root is past the last stage only if the kill arrived, or a       *)
(* signal was refused.                                                     *)
LadderSound ==
    /\ pc \notin Ended /\ mode = "wait" => delivered = stage \/ Exited
    /\ pc \in Ended \ {"idle"} => delivered = 3 \/ refused \/ Exited
    /\ GivenUpOnlyAfterKill

(* The owner thread's place, and what the reports on their way say.        *)
OwnerSound ==
    /\ owner \in {"unborn", "spawning", "failed"} => root = "unborn"
    /\ owner \in {"unborn", "spawning"} => pc = "idle" /\ ~outcome.written
    /\ record = "absent" /\ owner # "unborn" => owner \in {"failed", "done"} /\ root = "unborn"

Truthful(r) ==
    /\ r.kind = "Finished" /\ r.confirmed => outcome.confirmed
    /\ r.kind \in {"FailedSpawn", "FailedStop"} => root = "unborn" /\ owner \in {"failed", "done"}

ReportsSound ==
    /\ \A i \in DOMAIN inbox : Truthful(inbox[i])
    /\ told = "released" => Gone \/ (root = "unborn" /\ owner \in {"failed", "done"})

IInv == TypeOK /\ CleanupSound /\ LadderSound /\ OwnerSound /\ ReportsSound

-----------------------------------------------------------------------------
(* The processes move on their own.                                        *)
LEMMA ProcessesSound ==
    ASSUME IInv, TreeStep
    PROVE  IInv'
<1> USE DEF IInv, TypeOK, RunTypeOK, TreeStep, adapterVars, recordVars, ownerVars, historyVars,
            cleanupVars
<1>1. CASE RootExits
    <2> USE <1>1 DEF RootExits
    <2>1. TypeOK'
        OBVIOUS
    <2>2. CleanupSound'
        BY DEF CleanupSound, Exited, Alone, Gone
    <2>3. LadderSound'
        BY DEF LadderSound, GivenUpOnlyAfterKill, Exited
    <2>4. OwnerSound'
        BY DEF OwnerSound
    <2>5. ReportsSound'
        BY DEF ReportsSound, Truthful, Gone
    <2> QED
        BY <2>1, <2>2, <2>3, <2>4, <2>5
<1>2. CASE \E m \in Members : Fork(m) \/ MemberExits(m)
    <2>1. PICK m \in Members : Fork(m) \/ MemberExits(m)
        BY <1>2
    <2>2. UNCHANGED <<root, cleanupVars, adapterVars>>
        BY <2>1 DEF Fork, MemberExits
    <2>3. members' \subseteq Members /\ (members = {} /\ root # "running" => members' = {})
        BY <2>1 DEF Fork, MemberExits
    <2> USE <2>2, <2>3
    <2>4. TypeOK'
        OBVIOUS
    <2>5. CleanupSound'
        BY DEF CleanupSound, Exited, Alone, Gone
    <2>6. LadderSound'
        BY DEF LadderSound, GivenUpOnlyAfterKill, Exited
    <2>7. OwnerSound'
        BY DEF OwnerSound
    <2>8. ReportsSound'
        BY DEF ReportsSound, Truthful, Gone
    <2> QED
        BY <2>4, <2>5, <2>6, <2>7, <2>8
<1> QED
    BY <1>1, <1>2 DEF ProcessStep

(* The outcome is confirmed only of a tree that is gone, and a live root   *)
(* has had its kill.                                                       *)
LEMMA ConcludeSound ==
    ASSUME RunTypeOK, CleanupSound, LadderSound, NEW confirmed \in BOOLEAN, Conclude(confirmed),
           pc \in Ended \ {"idle"}, confirmed => Gone
    PROVE  (RunTypeOK /\ CleanupSound /\ LadderSound)'
<1>1. outcome'.written = TRUE /\ outcome'.confirmed = confirmed /\ outcome' \in Outcome
    BY DEF Conclude, Outcome, RunTypeOK
<1>2. pc' = "idle" /\ UNCHANGED <<root, members, call, stage, mode, target, refused, delivered>>
    BY DEF Conclude, GoTo, treeVars
<1>3. RunTypeOK'
    BY <1>1, <1>2 DEF RunTypeOK, Steps
<1>4. CleanupSound'
    BY <1>1, <1>2 DEF CleanupSound, Gone, Alone, Exited
<1>5. LadderSound'
    BY <1>1, <1>2 DEF LadderSound, GivenUpOnlyAfterKill, Ended, Exited
<1> QED
    BY <1>3, <1>4, <1>5

(* Each step of the cleanup keeps the shape of the cleanup.                *)
LEMMA LadderStepSound ==
    ASSUME RunTypeOK, CleanupSound, LadderSound, LadderStep
    PROVE  (RunTypeOK /\ CleanupSound /\ LadderSound)'
<1> USE DEF RunTypeOK, treeVars, GoTo, Ended, Exited, Alone, GivenUpOnlyAfterKill
<1>1. CASE LookAtRoot
    <2> USE <1>1 DEF LookAtRoot
    <2>1. RunTypeOK'
        BY DEF Steps, Outcome
    <2>2. CleanupSound'
        BY DEF CleanupSound, Gone, Outcome
    <2>3. LadderSound'
        BY DEF CleanupSound, LadderSound, Outcome
    <2> QED
        BY <2>1, <2>2, <2>3
<1>2. CASE FindsSettled
    <2> USE <1>2 DEF FindsSettled, SeesNobody, NextStage
    <2>1. RunTypeOK'
        BY DEF Steps, Outcome
    <2>2. CleanupSound'
        BY DEF CleanupSound, Gone, Outcome
    <2>3. LadderSound'
        BY DEF CleanupSound, LadderSound, Outcome
    <2> QED
        BY <2>1, <2>2, <2>3
<1>3. CASE FindsMembers
    <2> USE <1>3 DEF FindsMembers, SeesSomebody
    <2>1. RunTypeOK'
        BY DEF Steps, Outcome
    <2>2. CleanupSound'
        BY DEF CleanupSound, Gone, Outcome
    <2>3. LadderSound'
        BY DEF CleanupSound, LadderSound, Outcome
    <2> QED
        BY <2>1, <2>2, <2>3
<1>4. CASE PollAgain
    <2> USE <1>4 DEF PollAgain
    <2>1. RunTypeOK'
        BY DEF Steps, Outcome
    <2>2. CleanupSound'
        BY DEF CleanupSound, Gone, Outcome
    <2>3. LadderSound'
        BY DEF CleanupSound, LadderSound, Outcome
    <2> QED
        BY <2>1, <2>2, <2>3
<1>5. CASE StageTimesOut
    <2> USE <1>5 DEF StageTimesOut, NextStage
    <2>1. RunTypeOK'
        BY DEF Steps, Outcome
    <2>2. CleanupSound'
        BY DEF CleanupSound, Gone, Outcome
    <2>3. LadderSound'
        BY DEF CleanupSound, LadderSound, Outcome
    <2> QED
        BY <2>1, <2>2, <2>3
<1>6. CASE DecideToSignal
    <2> USE <1>6 DEF DecideToSignal
    <2>1. RunTypeOK'
        BY DEF Steps, Outcome
    <2>2. CleanupSound'
        BY DEF CleanupSound, Gone, Outcome
    <2>3. LadderSound'
        BY DEF CleanupSound, LadderSound, Outcome
    <2> QED
        BY <2>1, <2>2, <2>3
<1>7. CASE Aim
    <2> USE <1>7 DEF Aim, SeesNobody, SeesSomebody
    <2>1. RunTypeOK'
        BY DEF Steps, Outcome
    <2>2. CleanupSound'
        BY DEF CleanupSound, Gone, Outcome
    <2>3. LadderSound'
        BY DEF CleanupSound, LadderSound, Outcome
    <2> QED
        BY <2>1, <2>2, <2>3
<1>8. CASE Signal
    <2>1. /\ pc = "signal" /\ ~refused /\ ~outcome.written /\ root # "reaped"
          /\ UNCHANGED <<root, members, call, stage, target, outcome>>
        BY <1>8 DEF CleanupSound, Signal
    <2>2. \/ pc' = "lookAtRoot" /\ mode' = "wait" /\ delivered' = stage /\ refused' = refused
          \/ pc' = "finalRoot" /\ mode' = mode /\ delivered' = delivered /\ refused' = TRUE
        BY <1>8 DEF Signal
    <2>3. RunTypeOK'
        <3>1. refused' \in BOOLEAN
            BY <2>2
        <3>2. /\ mode' \in {"send", "wait"} /\ delivered' \in 0..3
              /\ pc' \in {"lookAtRoot", "finalRoot"}
            BY <2>2
        <3> QED
            BY <2>1, <3>1, <3>2 DEF Steps
    <2>4. CleanupSound'
        BY <2>1, <2>2 DEF CleanupSound, Gone
    <2>5. LadderSound'
        <3>1. CASE refused' = TRUE
            BY <2>1, <2>2, <3>1 DEF LadderSound
        <3>2. CASE refused' = refused
            BY <2>1, <2>2, <3>2 DEF LadderSound
        <3> QED
            BY <2>2, <3>1, <3>2
    <2> QED
        BY <2>3, <2>4, <2>5
<1>9. CASE FinalLookAtRoot
    <2>1. CASE Exited
        <3>1. pc = "finalRoot" /\ pc' = "finalMembers"
              /\ UNCHANGED <<treeVars, call, stage, mode, target, refused, outcome, delivered>>
            BY <1>9, <2>1 DEF FinalLookAtRoot
        <3> QED
            BY <2>1, <3>1 DEF CleanupSound, LadderSound, Gone, Steps
    <2>2. CASE ~Exited
        <3>1. pc = "finalRoot" /\ Conclude(FALSE)
            BY <1>9, <2>2 DEF FinalLookAtRoot
        <3> QED
            BY <2>2, <3>1, ConcludeSound DEF CleanupSound
    <2> QED
        BY <2>1, <2>2
<1>10. CASE FinalLookAtMembers
    <2> USE <1>10 DEF FinalLookAtMembers, SeesNobody
    <2>1. RunTypeOK'
        BY DEF Steps, Outcome
    <2>2. CleanupSound'
        BY DEF CleanupSound, Gone, Outcome
    <2>3. LadderSound'
        BY DEF CleanupSound, LadderSound, Outcome
    <2> QED
        BY <2>1, <2>2, <2>3
<1>11. CASE Abandon
    <2>1. pc = "finalMembers" /\ Conclude(FALSE)
        BY <1>11 DEF Abandon, SeesSomebody
    <2> QED
        BY <2>1, ConcludeSound DEF CleanupSound
<1>12. CASE Reap
    <2> USE <1>12 DEF Reap
    <2>1. RunTypeOK'
        BY DEF Steps, Outcome
    <2>2. CleanupSound'
        BY DEF CleanupSound, Gone, Outcome
    <2>3. LadderSound'
        BY DEF CleanupSound, LadderSound, Outcome
    <2> QED
        BY <2>1, <2>2, <2>3
<1>13. CASE Drain
    <2>1. pc = "drain" /\ \E confirmed \in BOOLEAN : Conclude(confirmed)
        BY <1>13 DEF Drain
    <2> QED
        BY <2>1, ConcludeSound DEF CleanupSound, Gone
<1> QED
    BY <1>1, <1>2, <1>3, <1>4, <1>5, <1>6, <1>7, <1>8, <1>9, <1>10, <1>11, <1>12, <1>13 DEF LadderStep

(* A cleanup begins from its first stage, or at its end if a signal was    *)
(* ever refused.                                                           *)
LEMMA BeginCleanupSound ==
    ASSUME RunTypeOK, CleanupSound, LadderSound, NEW kind \in {"wait", "shutdown"},
           BeginCleanup(kind)
    PROVE  (RunTypeOK /\ CleanupSound /\ LadderSound)'
<1> USE DEF BeginCleanup, AlreadyConcluded, treeVars, GoTo, Ended, Exited, Alone
<1>1. RunTypeOK'
    BY DEF RunTypeOK, Steps
<1>2. CleanupSound'
    BY DEF CleanupSound, Gone
<1>3. LadderSound'
    BY DEF LadderSound, GivenUpOnlyAfterKill
<1> QED
    BY <1>1, <1>2, <1>3

(* What no step that only moves the cleanup can take back.                 *)
Lasting ==
    /\ outcome.confirmed => outcome'.confirmed
    /\ root = "unborn" => root' = "unborn"
    /\ owner \in {"failed", "done"} => owner' \in {"failed", "done"}
    /\ Gone => Gone'

(* A true report stays true.                                               *)
LEMMA TruthLasts ==
    ASSUME TypeOK, Lasting
    PROVE  \A r \in Report : Truthful(r) => Truthful(r)'
<1> SUFFICES ASSUME NEW r \in Report, Truthful(r)
             PROVE  Truthful(r)'
    OBVIOUS
<1>1. r.kind = "Finished" /\ r.confirmed => outcome'.confirmed
    BY DEF Truthful, Lasting
<1>2. r.kind \in {"FailedSpawn", "FailedStop"} => root' = "unborn" /\ owner' \in {"failed", "done"}
    BY DEF Truthful, Lasting
<1> QED
    BY <1>1, <1>2 DEF Truthful

(* So reports already on their way stay true.                              *)
LEMMA ReportsStay ==
    ASSUME TypeOK, ReportsSound, Lasting, UNCHANGED <<inbox, told>>
    PROVE  ReportsSound'
<1>1. ASSUME NEW i \in DOMAIN inbox
      PROVE  Truthful(inbox[i])'
    <2>1. inbox[i] \in Report /\ Truthful(inbox[i])
        BY DEF TypeOK, ReportsSound
    <2>2. inbox'[i] = inbox[i]
        OBVIOUS
    <2> QED
        BY <2>1, <2>2, TruthLasts
<1> QED
    BY <1>1 DEF ReportsSound, Lasting

(* And a true report may be added to them.                                 *)
LEMMA ReportsGrow ==
    ASSUME TypeOK, ReportsSound, Lasting, told' = told, NEW r \in Report, Truthful(r)',
           inbox' = Append(inbox, r)
    PROVE  ReportsSound'
<1>1. inbox \in Seq(Report)
    BY DEF TypeOK
<1>2. /\ DOMAIN inbox' = 1..(Len(inbox) + 1)
      /\ DOMAIN inbox = 1..Len(inbox)
      /\ Len(inbox) \in Nat
      /\ \A i \in 1..Len(inbox) : inbox'[i] = inbox[i]
      /\ inbox'[Len(inbox) + 1] = r
    BY <1>1
<1>3. ASSUME NEW i \in DOMAIN inbox'
      PROVE  Truthful(inbox[i])'
    <2>1. CASE i \in DOMAIN inbox
        <3>1. inbox'[i] = inbox[i]
            BY <1>2, <2>1
        <3>2. inbox[i] \in Report /\ Truthful(inbox[i])
            BY <1>1, <2>1 DEF ReportsSound
        <3> QED
            BY <3>1, <3>2, TruthLasts
    <2>2. CASE i \notin DOMAIN inbox
        <3>1. inbox'[i] = r
            BY <1>2, <2>2
        <3> QED
            BY <3>1
    <2> QED
        BY <2>1, <2>2
<1> QED
    BY <1>3 DEF ReportsSound, Lasting

(* What a step of the adapter that leaves the Run alone has to show.       *)
LEMMA RunKept ==
    ASSUME IInv, UNCHANGED runVars
    PROVE  (CleanupSound /\ LadderSound)'
BY DEF IInv, runVars, CleanupSound, LadderSound, GivenUpOnlyAfterKill, Gone, Exited, Alone

(* A Run is reserved.                                                      *)
LEMMA StartSound ==
    ASSUME IInv, Start
    PROVE  IInv'
<1> USE DEF Start, historyVars, recordVars, ownerVars
<1>1. TypeOK'
    BY DEF IInv, TypeOK, RunTypeOK, runVars, RunState, OwnerSteps, Told, Report, Say
<1>2. OwnerSound'
    BY DEF IInv, OwnerSound, TypeOK, runVars
<1>3. Lasting
    BY DEF IInv, OwnerSound, Lasting, Gone, runVars
<1>4. ReportsSound'
    BY <1>3, ReportsStay DEF IInv
<1> QED
    BY <1>1, <1>2, <1>4, RunKept DEF IInv

(* The shared deadline is set.                                             *)
LEMMA SetProjectDeadlineSound ==
    ASSUME IInv, SetProjectDeadline
    PROVE  IInv'
<1> USE DEF SetProjectDeadline, historyVars, recordVars, ownerVars
<1>1. TypeOK'
    BY DEF IInv, TypeOK, RunTypeOK, runVars, RunState, OwnerSteps, Told, Report, Say
<1>2. OwnerSound'
    BY DEF IInv, OwnerSound, TypeOK, runVars
<1>3. Lasting
    BY DEF IInv, OwnerSound, Lasting, Gone, runVars
<1>4. ReportsSound'
    BY <1>3, ReportsStay DEF IInv
<1> QED
    BY <1>1, <1>2, <1>4, RunKept DEF IInv

(* The Run does not start.                                                 *)
LEMMA RunDoesNotStartSound ==
    ASSUME IInv, RunDoesNotStart
    PROVE  IInv'
<1> USE DEF RunDoesNotStart, historyVars, recordVars, ownerVars
<1>1. TypeOK'
    BY DEF IInv, TypeOK, RunTypeOK, runVars, RunState, OwnerSteps, Told, Report, Say
<1>2. OwnerSound'
    BY DEF IInv, OwnerSound, TypeOK, runVars
<1>3. Lasting
    BY DEF IInv, OwnerSound, Lasting, Gone, runVars
<1>4. ReportsSound'
    BY <1>3, ReportsStay DEF IInv
<1> QED
    BY <1>1, <1>2, <1>4, RunKept DEF IInv

(* That is reported.                                                       *)
LEMMA ReportSpawnFailureSound ==
    ASSUME IInv, ReportSpawnFailure
    PROVE  IInv'
<1> USE DEF ReportSpawnFailure, historyVars, recordVars, ownerVars
<1>1. TypeOK'
    <2>1. Say("FailedSpawn") \in Report /\ inbox \in Seq(Report)
        BY DEF IInv, TypeOK, Say, Report
    <2>2. inbox' \in Seq(Report)
        BY <2>1
    <2> QED
        BY <2>2 DEF IInv, TypeOK, RunTypeOK, runVars, OwnerSteps
<1>2. OwnerSound'
    BY DEF IInv, OwnerSound, TypeOK, runVars
<1>3. Lasting
    BY DEF IInv, OwnerSound, Lasting, Gone, runVars
<1>4. ReportsSound'
    <2>1. Say("FailedSpawn") \in Report /\ Truthful(Say("FailedSpawn"))'
        BY DEF IInv, OwnerSound, TypeOK, Report, Say, Truthful, runVars, RunTypeOK, Outcome
    <2> QED
        BY <1>3, <2>1, ReportsGrow DEF IInv, Say
<1> QED
    BY <1>1, <1>2, <1>4, RunKept DEF IInv

(* The Run is installed.                                                   *)
LEMMA InstallSound ==
    ASSUME IInv, Install
    PROVE  IInv'
<1> USE DEF Install, historyVars, recordVars, ownerVars
<1>1. TypeOK'
    BY DEF IInv, TypeOK, RunTypeOK, runVars, RunState, OwnerSteps, Told, Report, Say
<1>2. OwnerSound'
    BY DEF IInv, OwnerSound, TypeOK, runVars
<1>3. Lasting
    BY DEF IInv, OwnerSound, Lasting, Gone, runVars
<1>4. ReportsSound'
    BY <1>3, ReportsStay DEF IInv
<1> QED
    BY <1>1, <1>2, <1>4, RunKept DEF IInv

(* Its end is claimed.                                                     *)
LEMMA ClaimSound ==
    ASSUME IInv, Claim
    PROVE  IInv'
<1> USE DEF Claim, ClaimsStop, ClaimsExit, historyVars, recordVars, ownerVars
<1>1. TypeOK'
    <2>1. endedFirst' \in BOOLEAN
        OBVIOUS
    <2>2. /\ cause' \in {"none", "Natural", "Stop"} /\ record' = "Finishing"
          /\ cleaned' = FALSE /\ owner' = "begin"
          /\ UNCHANGED <<runVars, request, deadline, exitSeen, budget, inbox, told,
                         stops, unanswered, asked>>
        OBVIOUS
    <2> QED
        BY <2>1, <2>2 DEF IInv, TypeOK, RunTypeOK, runVars, RunState, OwnerSteps
<1>2. OwnerSound'
    BY DEF IInv, OwnerSound, TypeOK, runVars
<1>3. Lasting
    BY DEF IInv, OwnerSound, Lasting, Gone, runVars
<1>4. ReportsSound'
    BY <1>3, ReportsStay DEF IInv
<1> QED
    BY <1>1, <1>2, <1>4, RunKept DEF IInv

(* Nothing is to be done.                                                  *)
LEMMA NothingToDoSound ==
    ASSUME IInv, NothingToDo
    PROVE  IInv'
<1> USE DEF NothingToDo, ClaimsStop, ClaimsExit, historyVars, recordVars, ownerVars
<1>1. TypeOK'
    BY DEF IInv, TypeOK, RunTypeOK, runVars, RunState, OwnerSteps, Told, Report, Say
<1>2. OwnerSound'
    BY DEF IInv, OwnerSound, TypeOK, runVars
<1>3. Lasting
    BY DEF IInv, OwnerSound, Lasting, Gone, runVars
<1>4. ReportsSound'
    BY <1>3, ReportsStay DEF IInv
<1> QED
    BY <1>1, <1>2, <1>4, RunKept DEF IInv

(* The Run is given back.                                                  *)
LEMMA FinishSound ==
    ASSUME IInv, Finish
    PROVE  IInv'
<1> USE DEF Finish, historyVars, recordVars, ownerVars
<1>1. TypeOK'
    BY DEF IInv, TypeOK, RunTypeOK, runVars, RunState, OwnerSteps, Told, Report, Say
<1>2. OwnerSound'
    BY DEF IInv, OwnerSound, TypeOK, runVars
<1>3. Lasting
    BY DEF IInv, OwnerSound, Lasting, Gone, runVars
<1>4. ReportsSound'
    BY <1>3, ReportsStay DEF IInv
<1> QED
    BY <1>1, <1>2, <1>4, RunKept DEF IInv

(* The Run starts.                                                         *)
LEMMA RunStartsSound ==
    ASSUME IInv, RunStarts
    PROVE  IInv'
<1> USE DEF RunStarts, cleanupVars, recordVars, historyVars
<1>1. TypeOK'
    BY DEF IInv, TypeOK, RunTypeOK, OwnerSteps
<1>2. OwnerSound'
    BY DEF IInv, OwnerSound
<1>3. (CleanupSound /\ LadderSound)'
    BY DEF IInv, OwnerSound, CleanupSound, LadderSound, GivenUpOnlyAfterKill, Gone, Exited, Alone,
           Ended
<1>4. ReportsSound'
    <2>1. \A i \in DOMAIN inbox : inbox[i] \in Report /\ Truthful(inbox[i])
        BY DEF IInv, TypeOK, ReportsSound
    <2>2. told # "released" /\ ~outcome.confirmed
        BY DEF IInv, ReportsSound, OwnerSound, CleanupSound, Gone
    <2>3. \A r \in Report : Truthful(r) => Truthful(r)'
        BY <2>2 DEF Truthful
    <2>4. ASSUME NEW i \in DOMAIN inbox
          PROVE  Truthful(inbox[i])'
        <3>1. inbox'[i] = inbox[i]
            OBVIOUS
        <3> QED
            BY <2>1, <2>3, <3>1
    <2> QED
        BY <2>2, <2>4 DEF ReportsSound
<1> QED
    BY <1>1, <1>2, <1>3, <1>4 DEF IInv

(* The Supervisor stops it.                                                *)
LEMMA StopSound ==
    ASSUME IInv, Stop
    PROVE  IInv'
<1>1. UNCHANGED runVars /\ UNCHANGED <<deadline, ownerVars, told, endedFirst, cleaned>>
    BY DEF Stop
<1>2. stops' \in 0..MaxStops
    BY StopsAssumption DEF Stop, IInv, TypeOK
<1>3. Lasting
    BY <1>1 DEF Lasting, Gone, runVars, ownerVars
<1>4. CASE record = "absent"
    <2>1. /\ inbox' = Append(inbox, Say("FailedStop"))
          /\ UNCHANGED <<record, request, asked, unanswered>>
        BY <1>4 DEF Stop
    <2>2. Say("FailedStop") \in Report /\ inbox \in Seq(Report)
        BY DEF IInv, TypeOK, Say, Report
    <2>3. inbox' \in Seq(Report)
        BY <2>1, <2>2
    <2>4. TypeOK'
        BY <1>1, <1>2, <2>1, <2>3 DEF IInv, TypeOK, RunTypeOK, runVars, ownerVars
    <2>5. OwnerSound'
        BY <1>1, <2>1 DEF IInv, OwnerSound, runVars, ownerVars
    <2>6. Truthful(Say("FailedStop"))'
        BY <1>1, <1>4 DEF Stop, IInv, OwnerSound, Truthful, Say, runVars, ownerVars
    <2>7. ReportsSound'
        BY <1>1, <1>3, <2>1, <2>2, <2>6, ReportsGrow DEF IInv
    <2> QED
        BY <1>1, <2>4, <2>5, <2>7, RunKept DEF IInv
<1>5. CASE record # "absent"
    <2>1. RequestStop /\ UNCHANGED inbox /\ unanswered' \in {unanswered + 1, 2} /\ unanswered' \in 0..2
        BY <1>5 DEF Stop, IInv, TypeOK
    <2>2. /\ record' \in RunState \ {"absent"} /\ request' \in {"none", "project"}
          /\ asked' \in BOOLEAN
        BY <1>5, <2>1 DEF RequestStop, StopQueued, EarliestDeadline, IInv, TypeOK, RunState
    <2>3. TypeOK'
        BY <1>1, <1>2, <2>1, <2>2 DEF IInv, TypeOK, RunTypeOK, runVars, ownerVars
    <2>4. OwnerSound'
        BY <1>1, <2>2 DEF IInv, OwnerSound, runVars, ownerVars
    <2>5. ReportsSound'
        BY <1>1, <1>3, <2>1, ReportsStay DEF IInv
    <2> QED
        BY <1>1, <2>3, <2>4, <2>5, RunKept DEF IInv
<1> QED
    BY <1>4, <1>5

(* Its owner passes on what the Run reported.                              *)
LEMMA ForwardSound ==
    ASSUME IInv, Forward
    PROVE  IInv'
<1>1. /\ UNCHANGED <<runVars, recordVars, cause, budget, told, historyVars>>
      /\ owner \in {"firstRound", "round"} /\ owner' = "claim" /\ exitSeen' \in BOOLEAN
    BY DEF Forward, Exited
<1>2. Say("Spawned") \in Report /\ inbox \in Seq(Report)
    BY DEF IInv, TypeOK, Say, Report
<1>3. inbox' = Append(inbox, Say("Spawned")) \/ inbox' = inbox
    BY DEF Forward
<1>4. inbox' \in Seq(Report)
    BY <1>2, <1>3
<1>5. TypeOK'
    BY <1>1, <1>4 DEF IInv, TypeOK, RunTypeOK, runVars, recordVars, historyVars, OwnerSteps
<1>6. OwnerSound'
    BY <1>1 DEF IInv, OwnerSound, runVars, recordVars
<1>7. Lasting
    BY <1>1 DEF Lasting, Gone, runVars
<1>8. Truthful(Say("Spawned"))'
    BY DEF Truthful, Say
<1>9. ReportsSound'
    <2>1. CASE inbox' = inbox
        BY <1>1, <1>7, <2>1, ReportsStay DEF IInv
    <2>2. CASE inbox' = Append(inbox, Say("Spawned"))
        BY <1>1, <1>2, <1>7, <1>8, <2>2, ReportsGrow DEF IInv
    <2> QED
        BY <1>3, <2>1, <2>2
<1> QED
    BY <1>1, <1>5, <1>6, <1>9, RunKept DEF IInv

(* Its cleanup begins, or its outcome is there already.                    *)
LEMMA BeginSound ==
    ASSUME IInv, Begin
    PROVE  IInv'
<1>1. /\ UNCHANGED <<recordVars, exitSeen, cause, inbox, told, stops, unanswered, endedFirst, asked>>
      /\ owner = "begin" /\ owner' = "clean" /\ budget' \in {"none", "project"}
    BY DEF Begin, IInv, TypeOK
<1>2. CASE \E kind \in {"wait", "shutdown"} : BeginCleanup(kind) /\ cleaned' = TRUE
    <2>1. PICK kind \in {"wait", "shutdown"} : BeginCleanup(kind) /\ cleaned' = TRUE
        BY <1>2
    <2>2. (RunTypeOK /\ CleanupSound /\ LadderSound)'
        BY <2>1, BeginCleanupSound DEF IInv, TypeOK
    <2>3. TypeOK'
        BY <1>1, <2>1, <2>2 DEF IInv, TypeOK, recordVars, OwnerSteps
    <2>4. UNCHANGED <<root, members, outcome>>
        BY <2>1 DEF BeginCleanup, treeVars
    <2>5. OwnerSound'
        BY <1>1, <2>4 DEF IInv, OwnerSound, recordVars
    <2>6. ReportsSound'
        BY <1>1, <2>4, ReportsStay DEF IInv, Lasting, Gone
    <2> QED
        BY <2>2, <2>3, <2>5, <2>6 DEF IInv
<1>3. CASE UNCHANGED <<runVars, cleaned>>
    <2>1. TypeOK'
        BY <1>1, <1>3 DEF IInv, TypeOK, RunTypeOK, runVars, recordVars, OwnerSteps
    <2>2. OwnerSound'
        BY <1>1, <1>3 DEF IInv, OwnerSound, runVars, recordVars
    <2>3. ReportsSound'
        BY <1>1, <1>3, ReportsStay DEF IInv, Lasting, Gone, runVars
    <2> QED
        BY <1>3, <2>1, <2>2, <2>3, RunKept DEF IInv
<1> QED
    BY <1>2, <1>3 DEF Begin

(* Its cleanup goes on.                                                    *)
LEMMA CleanSound ==
    ASSUME IInv, Clean
    PROVE  IInv'
<1>1. UNCHANGED adapterVars
    BY DEF Clean
<1>2. (RunTypeOK /\ CleanupSound /\ LadderSound)'
    BY LadderStepSound DEF Clean, IInv, TypeOK
<1>3. TypeOK'
    BY <1>1, <1>2 DEF IInv, TypeOK, adapterVars, recordVars, ownerVars, historyVars
<1>4. pc # "idle" /\ root' \in {root, "reaped"} /\ (root = "unborn" => root' = "unborn") /\ members' = members
    BY DEF Clean, LadderStep, LookAtRoot, FindsSettled, FindsMembers, PollAgain, StageTimesOut,
           DecideToSignal, Aim, Signal, FinalLookAtRoot, FinalLookAtMembers, Abandon, Reap, Drain,
           SeesNobody, SeesSomebody, Conclude, treeVars, IInv, CleanupSound, Exited
<1>5. OwnerSound'
    BY <1>1, <1>4 DEF IInv, OwnerSound, adapterVars, recordVars, ownerVars
<1>6. ReportsSound'
    <2>1. Lasting
        BY <1>1, <1>4 DEF IInv, CleanupSound, Lasting, Gone, adapterVars, ownerVars
    <2> QED
        BY <1>1, <2>1, ReportsStay DEF IInv, adapterVars
<1> QED
    BY <1>2, <1>3, <1>5, <1>6 DEF IInv

(* Its end is reported.                                                    *)
LEMMA SendFinishedSound ==
    ASSUME IInv, SendFinished
    PROVE  IInv'
<1> DEFINE r == [kind |-> "Finished", intentional |-> outcome.intentional,
                 confirmed |-> outcome.confirmed]
<1>1. /\ UNCHANGED <<runVars, recordVars, exitSeen, cause, budget, told, historyVars>>
      /\ owner = "report" /\ owner' \in {"done", "round"} /\ inbox' = Append(inbox, r)
    BY DEF SendFinished
<1>2. r \in Report /\ inbox \in Seq(Report)
    BY DEF IInv, TypeOK, RunTypeOK, Outcome, Report
<1>3. r.kind = "Finished" /\ (r.confirmed => outcome.confirmed)
    OBVIOUS
<1> HIDE DEF r
<1>4. inbox' \in Seq(Report)
    BY <1>1, <1>2
<1>5. TypeOK'
    BY <1>1, <1>4 DEF IInv, TypeOK, RunTypeOK, runVars, recordVars, historyVars, OwnerSteps
<1>6. OwnerSound'
    BY <1>1 DEF IInv, OwnerSound, runVars, recordVars
<1>7. Lasting
    BY <1>1 DEF Lasting, Gone, runVars
<1>8. \E x \in Report : x = r /\ Truthful(x)'
    BY <1>1, <1>2, <1>3 DEF Truthful, runVars
<1>9. ReportsSound'
    BY <1>1, <1>7, <1>8, ReportsGrow DEF IInv
<1> QED
    BY <1>1, <1>5, <1>6, <1>9, RunKept DEF IInv

(* The Supervisor takes a report.                                          *)
LEMMA HandleSound ==
    ASSUME IInv, Handle
    PROVE  IInv'
<1> DEFINE r == Head(inbox)
<1>1. /\ UNCHANGED <<runVars, recordVars, ownerVars, stops, endedFirst, asked, cleaned>>
      /\ inbox # << >> /\ inbox' = Tail(inbox) /\ Handled(r)
    BY DEF Handle
<1>2. inbox \in Seq(Report) /\ inbox' \in Seq(Report)
    BY <1>1 DEF IInv, TypeOK
<1>3. /\ r \in Report /\ Truthful(r)
      /\ \A i \in DOMAIN inbox' : i + 1 \in DOMAIN inbox /\ inbox'[i] = inbox[i + 1]
    <2>1. 1 \in DOMAIN inbox /\ r = inbox[1]
        BY <1>1, <1>2
    <2> QED
        BY <1>1, <1>2, <2>1 DEF IInv, ReportsSound
<1> HIDE DEF r
<1>4. /\ told' \in Told /\ unanswered' \in 0..2
      /\ told' = "released" => told = "released" \/ (r.kind = "Finished" /\ r.confirmed)
                                \/ r.kind \in {"FailedSpawn", "FailedStop"}
    <2>1. told \in Told /\ unanswered \in 0..2
        BY DEF IInv, TypeOK
    <2>2. CASE r.kind = "Spawned" /\ told' = "live" /\ UNCHANGED unanswered
        BY <2>1, <2>2 DEF Told
    <2>3. CASE /\ r.kind = "Finished"
               /\ told' = IF r.confirmed THEN "released" ELSE "held"
               /\ unanswered' = IF r.confirmed \/ ~Owed THEN 0 ELSE unanswered
        BY <2>1, <2>3 DEF Told
    <2>4. CASE r.kind \in {"FailedSpawn", "FailedStop"} /\ told' \in {told, "released"}
               /\ UNCHANGED unanswered
        BY <2>1, <2>4 DEF Told
    <2> QED
        BY <1>1, <2>2, <2>3, <2>4 DEF Handled
<1>5. TypeOK'
    BY <1>1, <1>2, <1>4 DEF IInv, TypeOK, RunTypeOK, runVars, recordVars, ownerVars
<1>6. OwnerSound'
    BY <1>1 DEF IInv, OwnerSound, runVars, recordVars, ownerVars
<1>7. Lasting
    BY <1>1 DEF Lasting, Gone, runVars, ownerVars
<1>8. ReportsSound'
    <2>1. ASSUME NEW i \in DOMAIN inbox'
          PROVE  Truthful(inbox[i])'
        <3>1. inbox[i + 1] \in Report /\ Truthful(inbox[i + 1]) /\ inbox'[i] = inbox[i + 1]
            BY <1>2, <1>3 DEF IInv, ReportsSound
        <3> QED
            BY <1>7, <3>1, TruthLasts DEF IInv
    <2>2. (told = "released" => Gone \/ (root = "unborn" /\ owner \in {"failed", "done"}))'
        <3>1. told' = "released" => Gone \/ (root = "unborn" /\ owner \in {"failed", "done"})
            BY <1>3, <1>4 DEF Truthful, IInv, ReportsSound, CleanupSound
        <3> QED
            BY <1>1, <3>1 DEF Gone, runVars, ownerVars
    <2> QED
        BY <2>1, <2>2 DEF ReportsSound
<1> QED
    BY <1>1, <1>5, <1>6, <1>8, RunKept DEF IInv

-----------------------------------------------------------------------------
(* Every step keeps the inductive invariant.                               *)
LEMMA StepKeepsInvariant ==
    ASSUME IInv, [Next]_vars
    PROVE  IInv'
<1>1. CASE Next
    BY <1>1, StartSound, StopSound, SetProjectDeadlineSound, RunStartsSound,
       RunDoesNotStartSound, ReportSpawnFailureSound, InstallSound, ForwardSound, ClaimSound,
       NothingToDoSound, BeginSound, CleanSound, FinishSound, SendFinishedSound, HandleSound,
       ProcessesSound DEF Next, OwnerStep
<1>2. CASE UNCHANGED vars
    <2>1. UNCHANGED runVars /\ UNCHANGED adapterVars
        BY <1>2 DEF vars
    <2>2. TypeOK' /\ OwnerSound'
        BY <2>1 DEF IInv, TypeOK, RunTypeOK, OwnerSound, runVars, adapterVars, recordVars,
                    ownerVars, historyVars
    <2>3. ReportsSound'
        BY <2>1, ReportsStay DEF IInv, Lasting, Gone, runVars, adapterVars, ownerVars
    <2> QED
        BY <2>1, <2>2, <2>3, RunKept DEF IInv
<1> QED
    BY <1>1, <1>2

(* The inductive invariant holds at first.                                 *)
LEMMA InitIsSound ==
    ASSUME Init
    PROVE  IInv
<1> USE DEF Init, RunInit
<1>1. TypeOK
    <2>1. RunTypeOK
        <3>1. outcome \in Outcome
            BY DEF Outcome
        <3>2. stage \in 1..3 /\ delivered \in 0..3
            OBVIOUS
        <3>3. refused \in BOOLEAN /\ members \subseteq Members
            OBVIOUS
        <3>4. /\ root \in {"unborn", "running", "zombie", "reaped"}
              /\ call \in {"none", "wait", "shutdown"}
              /\ pc \in Steps
              /\ mode \in {"send", "wait"}
              /\ target \in {"group", "root"}
            BY DEF Steps
        <3> QED
            BY <3>1, <3>2, <3>3, <3>4, Zenon DEF RunTypeOK
    <2>2. stops \in 0..MaxStops /\ unanswered \in 0..2
        BY StopsAssumption
    <2>3. inbox \in Seq(Report)
        OBVIOUS
    <2>4. /\ deadline \in BOOLEAN /\ exitSeen \in BOOLEAN /\ endedFirst \in BOOLEAN
          /\ asked \in BOOLEAN /\ cleaned \in BOOLEAN
        BY Zenon
    <2>5. /\ record \in RunState
          /\ request \in {"none", "project"}
          /\ owner \in OwnerSteps
          /\ cause \in {"none", "Natural", "Stop"}
          /\ budget \in {"none", "project"}
          /\ told \in Told
        BY DEF RunState, OwnerSteps, Told
    <2> QED
        BY <2>1, <2>2, <2>3, <2>4, <2>5, Zenon DEF TypeOK
<1>2. CleanupSound /\ OwnerSound
    BY DEF CleanupSound, OwnerSound, Exited, Alone
<1>3. LadderSound
    BY DEF LadderSound, GivenUpOnlyAfterKill, Ended
<1>4. ReportsSound
    BY DEF ReportsSound
<1> QED
    BY <1>1, <1>2, <1>3, <1>4 DEF IInv

(* The inductive invariant holds.                                          *)
THEOREM InvariantHolds == Spec => []IInv
<1>1. Init => IInv
    BY InitIsSound
<1>2. IInv /\ [Next]_vars => IInv'
    BY StepKeepsInvariant
<1> QED
    BY <1>1, <1>2, PTL DEF Spec

(* The adapter's state has its type.                                       *)
THEOREM TypeCorrectness == Spec => []TypeOK
<1>1. IInv => TypeOK
    BY DEF IInv
<1> QED
    BY <1>1, InvariantHolds, PTL

(* Only a tree that is gone is confirmed (RunOutcome::cleanup_confirmed).  *)
THEOREM ConfirmedIsGone == Spec => []ConfirmedMeansGone
<1>1. IInv => ConfirmedMeansGone
    BY DEF IInv, CleanupSound, ConfirmedMeansGone, Gone
<1> QED
    BY <1>1, InvariantHolds, PTL

(* The Supervisor lets go of a Run only when its tree is gone.             *)
THEOREM ReleasedIsGone == Spec => []ReleasedMeansGone
<1>1. IInv => ReleasedMeansGone
    BY DEF IInv, ReportsSound, ReleasedMeansGone, Gone
<1> QED
    BY <1>1, InvariantHolds, PTL

(* A live root is given up only after SIGKILL arrived or was refused.      *)
THEOREM KilledBeforeGivenUp == Spec => []GivenUpOnlyAfterKill
<1>1. IInv => GivenUpOnlyAfterKill
    BY DEF IInv, LadderSound
<1> QED
    BY <1>1, InvariantHolds, PTL

(* Which steps touch the root and send signals.                            *)
LEMMA OnlyTheCleanupReaps ==
    ASSUME IInv, Next
    PROVE  /\ root' = "reaped" /\ root # "reaped" => pc = "reap"
           /\ pc = "signal" /\ pc' # "signal" => ~refused /\ root # "reaped"
<1>1. pc = "signal" => ~refused /\ root # "reaped"
    BY DEF IInv, CleanupSound, Ended
<1>2. root' = "reaped" /\ root # "reaped" => pc = "reap"
    <2>1. CASE UNCHANGED root
        BY <2>1
    <2>2. CASE LadderStep
        BY <2>2 DEF LadderStep, LookAtRoot, FindsSettled, FindsMembers, PollAgain, StageTimesOut,
           DecideToSignal, Aim, Signal, FinalLookAtRoot, FinalLookAtMembers, Abandon, Reap, Drain,
           SeesNobody, SeesSomebody, Conclude, treeVars
    <2>3. CASE RootExits \/ RunStarts
        BY <2>3 DEF RootExits, RunStarts
    <2> QED
        BY <2>1, <2>2, <2>3 DEF Next, OwnerStep, TreeStep, ProcessStep, Fork, MemberExits, Start,
           Stop, SetProjectDeadline, RunDoesNotStart, ReportSpawnFailure, Install, Forward, Claim,
           NothingToDo, Begin, BeginCleanup, Clean, Finish, SendFinished, Handle, runVars, treeVars
<1> QED
    BY <1>1, <1>2

(* The root is reaped as the last of its group, which keeps the group's    *)
(* number reserved as long as anybody may be signalled by it.              *)
THEOREM RootIsReapedLast == Spec => ReapedLast
<1>1. IInv /\ [Next]_vars => [root' = "reaped" /\ root # "reaped" => members = {}]_runVars
    <2> SUFFICES ASSUME IInv, [Next]_vars, root' = "reaped", root # "reaped"
                 PROVE  members = {}
        BY DEF runVars
    <2>1. Next
        BY DEF vars, runVars
    <2>2. pc = "reap"
        BY <2>1, OnlyTheCleanupReaps
    <2> QED
        BY <2>2 DEF IInv, CleanupSound, Alone
<1> QED
    BY <1>1, InvariantHolds, PTL DEF Spec, ReapedLast

(* No signal follows a refusal or the reaping of the root.                 *)
THEOREM SignalsStop == Spec => NoSignalAfterwards
<1>1. IInv /\ [Next]_vars
      => [pc = "signal" /\ pc' # "signal" => ~refused /\ root # "reaped"]_runVars
    BY OnlyTheCleanupReaps DEF vars, runVars
<1> QED
    BY <1>1, InvariantHolds, PTL DEF Spec, NoSignalAfterwards

(* The queued stop is bound by the shared deadline if it is to be.         *)
QueuedInTime == asked => request = "project"

(* A stop that the Project shutdown asked for, or that joined one queued   *)
(* before the deadline was set, is carried out by the shared deadline      *)
(* (request_stop, run_record.rs; own_run, runtime.rs), however it raced    *)
(* with other stops and with the exit of the root.                         *)
THEOREM SharedDeadlineHolds == Spec => SharedDeadlineIsKept
<1>1. Init => QueuedInTime
    BY DEF Init, QueuedInTime
<1>2. QueuedInTime /\ [Next]_vars => QueuedInTime'
    <2> SUFFICES ASSUME QueuedInTime, [Next]_vars
                 PROVE  QueuedInTime'
        OBVIOUS
    <2> USE DEF QueuedInTime
    <2>1. CASE Stop
        BY <2>1 DEF Stop, RequestStop, EarliestDeadline
    <2>2. CASE UNCHANGED <<request, asked>>
        BY <2>2
    <2>3. CASE UNCHANGED vars
        BY <2>3 DEF vars, adapterVars, recordVars, historyVars
    <2> QED
        BY <2>1, <2>2, <2>3 DEF Next, OwnerStep, Start, SetProjectDeadline, RunStarts,
           RunDoesNotStart, ReportSpawnFailure, Install, Forward, Claim, NothingToDo, Begin, Clean,
           Finish, SendFinished, Handle, TreeStep, adapterVars, recordVars, historyVars
<1>3. QueuedInTime /\ [Next]_vars
      => [owner = "begin" /\ owner' = "clean" /\ cause = "Stop" /\ asked => budget' = "project"]_vars
    <2> SUFFICES ASSUME QueuedInTime, Next, owner = "begin", owner' = "clean", cause = "Stop", asked
                 PROVE  budget' = "project"
        BY DEF vars
    <2>1. Begin
        BY DEF Next, OwnerStep, Start, Stop, SetProjectDeadline, RunStarts, RunDoesNotStart,
           ReportSpawnFailure, Install, Forward, Claim, NothingToDo, Clean, Finish, SendFinished,
           Handle, TreeStep, adapterVars, ownerVars
    <2> QED
        BY <2>1 DEF Begin, QueuedInTime
<1> QED
    BY <1>1, <1>2, <1>3, PTL DEF Spec, SharedDeadlineIsKept

-----------------------------------------------------------------------------
(* The seam: RunAdapter refines RunSeam.                                   *)

Absent == record = "absent"

(* The record says where the owner thread is.                              *)
Life ==
    /\ owner \in {"unborn", "failed"} => Absent
    /\ Absent => owner \in {"unborn", "failed", "done"}
    /\ owner \in {"spawning", "spawned"} <=> record \in {"Spawning", "StopBeforeSpawn"}
    /\ owner \in {"begin", "clean"} <=> record = "Finishing"
    /\ owner \in {"firstRound", "round", "claim"} => record \in {"Active", "Pending", "Unconfirmed"}
    /\ owner = "firstRound" => record # "Unconfirmed"
    /\ owner = "report" => record \in {"Unconfirmed", "Pending", "Finished"}
    /\ owner = "done" => record \in {"absent", "Finished"}
    /\ pc # "idle" => owner = "clean"

(* The first claim decides whether the end was the Run's own, and the      *)
(* outcome written then says so for good.                                  *)
Concluded ==
    /\ outcome.written => outcome.intentional = ~endedFirst
    /\ owner = "begin" /\ ~outcome.written => (cause = "Stop") = ~endedFirst
    /\ owner = "clean" /\ ~outcome.written => pc # "idle" /\ (call = "shutdown") = ~endedFirst
    /\ endedFirst => outcome.written \/ record = "Finishing"
    /\ outcome.written =>
          record \notin {"absent", "Spawning", "StopBeforeSpawn", "Active"} /\ owner # "firstRound"
    /\ owner = "report" \/ record \in {"Unconfirmed", "Finished"} => outcome.written
    /\ outcome.confirmed => outcome.written /\ (owner = "clean" \/ record = "Finished")
    /\ record = "Finished" => outcome.confirmed

(* The Spawned report is on its way.                                       *)
Announced == IF told = "nothing" /\ owner # "firstRound" THEN 1 ELSE 0

Ending(r) ==
    /\ r.kind = "Finished"
    /\ r.intentional = outcome.intentional
    /\ r.confirmed = outcome.confirmed

(* What is in the inbox of a Run that is being started or has started:     *)
(* its Spawned, then the ends of its cleanups, which all say the same.     *)
StartedLetters ==
    /\ owner \in {"spawning", "spawned", "firstRound"} => told = "nothing" /\ inbox = << >>
    /\ owner \notin {"spawning", "spawned", "firstRound"} =>
          /\ Announced <= Len(inbox)
          /\ Announced = 1 => inbox[1].kind = "Spawned"
          /\ \A i \in 1..Len(inbox) : i > Announced => Ending(inbox[i])
          /\ told = "held" \/ Len(inbox) > Announced => outcome.written
    /\ told = "held" => outcome.written /\ ~outcome.confirmed
    /\ told = "released" => owner = "done" /\ inbox = << >>
    /\ owner = "done" /\ told # "released" => Len(inbox) = Announced + 1
    /\ outcome.confirmed /\ owner # "done" => Len(inbox) = Announced

(* ... and in that of one that has not.                                    *)
RefusedLetters ==
    /\ told \in {"nothing", "released"}
    /\ owner = "unborn" => told = "nothing" /\ inbox = << >> /\ unanswered = 0
    /\ \A i \in 1..Len(inbox) :
          /\ inbox[i].kind \in {"FailedSpawn", "FailedStop"}
          /\ inbox[i].kind = "FailedSpawn" =>
                owner = "done" /\ \A j \in 1..Len(inbox) : inbox[j].kind = "FailedSpawn" => i = j

Letters == IF Absent THEN RefusedLetters ELSE StartedLetters

(* The ends still to be told, the first of which may be the Run's own and  *)
(* answer no stop.                                                         *)
EndsToCome ==
    Len(inbox) - (IF owner \in {"spawning", "spawned"} THEN 0 ELSE Announced)
    + (IF owner \in {"begin", "clean", "report"} THEN 1 ELSE 0)
    + (IF record \in {"StopBeforeSpawn", "Pending"} THEN 1 ELSE 0)

AnswersToCome == EndsToCome - (IF endedFirst /\ told \in {"nothing", "live"} THEN 1 ELSE 0)

Answered ==
    ~Absent =>
        /\ AnswersToCome >= 1 => unanswered >= 1
        /\ AnswersToCome >= 2 => unanswered = 2
        /\ record \in {"Spawning", "Active"} => unanswered = 0

SeamInv == IInv /\ Life /\ Concluded /\ Letters /\ Answered

-----------------------------------------------------------------------------
(* What the Supervisor knows of the Run, and how it may change.            *)

SeamNow ==
    [phase  |-> Phase,
     stops  |-> IF Phase \in {"none", "gone"} THEN 0 ELSE unanswered,
     ended  |-> Phase \in {"early", "live"} /\ endedFirst,
     failed |-> IF Phase = "gone" THEN FailedReports ELSE {},
     alive  |-> IF Phase \in {"none", "gone"} THEN {} ELSE {1}]

SeamMoves == Seam!Next \/ UNCHANGED SeamNow

LEMMA SeamActions ==
    /\ SeamNow.phase = "none" /\ SeamNow' = Reserved(SeamNow, 1) => SeamMoves
    /\ SeamNow.phase = "spawning" /\ SeamNow' = [SeamNow EXCEPT !.phase = "early"] => SeamMoves
    /\ SeamNow.phase = "spawning" /\ SeamNow' = NeverStarted(SeamNow, 1) => SeamMoves
    /\ SeamNow.phase = "early" /\ SeamNow' = [SeamNow EXCEPT !.phase = "live"] => SeamMoves
    /\ SeamNow.phase # "none" /\ SeamNow' = Contacted(SeamNow) => SeamMoves
    /\ /\ SeamNow.phase \in {"early", "live"} /\ SeamNow.stops = 0
       /\ SeamNow' = [SeamNow EXCEPT !.ended = TRUE]
       => SeamMoves
    /\ \A intentional \in BOOLEAN :
          /\ MayFinish(SeamNow, intentional)
          /\ \/ SeamNow' = Released(SeamNow, 1)
             \/ \E left \in HeldStops(SeamNow, intentional) :
                   SeamNow' = [SeamNow EXCEPT !.phase = "held", !.ended = FALSE, !.stops = left]
          => SeamMoves
    /\ \A kind \in {"Configuration", "Spawn"} :
          /\ SeamNow.phase = "gone" /\ kind \in SeamNow.failed
          /\ \/ SeamNow' = Released(SeamNow, 1)
             \/ SeamNow' = [SeamNow EXCEPT !.failed = @ \ {kind}]
          => SeamMoves
<1> USE DEF SeamMoves, SeamNow, Seam!Next, Seam!ThisRun
<1>1. SeamNow.phase = "none" /\ SeamNow' = Reserved(SeamNow, 1) => SeamMoves
    BY DEF Seam!Reserve, Seam!Reserved, Reserved
<1>2. SeamNow.phase = "spawning" /\ SeamNow' = [SeamNow EXCEPT !.phase = "early"] => SeamMoves
    BY DEF Seam!Spawn
<1>3. SeamNow.phase = "spawning" /\ SeamNow' = NeverStarted(SeamNow, 1) => SeamMoves
    BY DEF Seam!SpawnFails, Seam!NeverStarted, NeverStarted, Seam!Released, Released
<1>4. SeamNow.phase = "early" /\ SeamNow' = [SeamNow EXCEPT !.phase = "live"] => SeamMoves
    BY DEF Seam!ReportSpawned
<1>5. SeamNow.phase # "none" /\ SeamNow' = Contacted(SeamNow) => SeamMoves
    BY DEF Seam!Stop, Seam!Contacted, Contacted
<1>6. /\ SeamNow.phase \in {"early", "live"} /\ SeamNow.stops = 0
      /\ SeamNow' = [SeamNow EXCEPT !.ended = TRUE]
      => SeamMoves
    BY DEF Seam!EndByItself
<1>7. \A intentional \in BOOLEAN :
          /\ MayFinish(SeamNow, intentional)
          /\ \/ SeamNow' = Released(SeamNow, 1)
             \/ \E left \in HeldStops(SeamNow, intentional) :
                   SeamNow' = [SeamNow EXCEPT !.phase = "held", !.ended = FALSE, !.stops = left]
          => SeamMoves
    BY DEF Seam!Finish, Seam!MayFinish, MayFinish, Seam!HeldStops, HeldStops, Seam!Released, Released
<1>8. \A kind \in {"Configuration", "Spawn"} :
          /\ SeamNow.phase = "gone" /\ kind \in SeamNow.failed
          /\ \/ SeamNow' = Released(SeamNow, 1)
             \/ SeamNow' = [SeamNow EXCEPT !.failed = @ \ {kind}]
          => SeamMoves
    BY DEF Seam!ReportFailed, Seam!Released, Released
<1> QED
    BY <1>1, <1>2, <1>3, <1>4, <1>5, <1>6, <1>7, <1>8

(* Seen from there nothing happens while these stay.                       *)
LEMMA SeamStays ==
    ASSUME Phase' = Phase, Phase \notin {"none", "gone"} => UNCHANGED <<unanswered, endedFirst>>,
           Phase = "gone" => FailedReports' = FailedReports
    PROVE  SeamMoves
BY DEF SeamMoves, SeamNow

Shape == Life /\ Concluded /\ Letters /\ Answered

LEMMA ShapeOnly ==
    ASSUME IInv, Next, Shape'
    PROVE  SeamInv'
<1>1. IInv'
    BY StepKeepsInvariant
<1> QED
    BY <1>1 DEF SeamInv, Shape

LEMMA SameRecord ==
    ASSUME NEW a \in AdapterState, NEW b \in AdapterState,
           a.phase = b.phase, a.stops = b.stops, a.ended <=> b.ended, a.failed = b.failed,
           a.alive = b.alive
    PROVE  a = b
BY DEF AdapterState

LEMMA NeverStartedFields ==
    ASSUME NEW a \in AdapterState
    PROVE  /\ NeverStarted(a, 1) \in AdapterState
           /\ NeverStarted(a, 1).phase = "gone" /\ NeverStarted(a, 1).stops = 0
           /\ ~NeverStarted(a, 1).ended
           /\ NeverStarted(a, 1).failed = {"Configuration"} /\ NeverStarted(a, 1).alive = a.alive \ {1}
<1> DEFINE r == Released(a, 1)
           first == [r EXCEPT !.phase = "gone"]
<1>1. r \in AdapterState /\ r.stops = 0 /\ ~r.ended /\ r.failed = {} /\ r.alive = a.alive \ {1}
    BY DEF Released, AdapterState
<1> HIDE DEF r
<1>2. /\ first \in AdapterState /\ first.phase = "gone" /\ first.stops = 0 /\ ~first.ended
      /\ first.failed = {} /\ first.alive = a.alive \ {1}
    BY <1>1 DEF AdapterState
<1>3. NeverStarted(a, 1) = [first EXCEPT !.failed = {"Configuration"}]
    BY DEF NeverStarted, r
<1> HIDE DEF first
<1> QED
    BY <1>2, <1>3 DEF AdapterState

(* Its fields, before a step and after it.                                 *)
Waiting(phase, count) == IF phase \in {"none", "gone"} THEN 0 ELSE count
Owning(phase) == IF phase \in {"none", "gone"} THEN {} ELSE {1}

LEMMA SeamFields ==
    ASSUME unanswered \in 0..2, endedFirst \in BOOLEAN, owner \in OwnerSteps
    PROVE  /\ SeamNow \in AdapterState
           /\ SeamNow.phase = Phase /\ SeamNow.stops = Waiting(Phase, unanswered)
           /\ SeamNow.ended <=> Phase \in {"early", "live"} /\ endedFirst
           /\ SeamNow.failed = IF Phase = "gone" THEN FailedReports ELSE {}
           /\ SeamNow.alive = Owning(Phase)
<1>1. Phase \in {"none", "spawning", "early", "live", "held", "gone"}
    BY DEF Phase
<1>2. FailedReports \subseteq {"Configuration", "Spawn"}
    BY DEF FailedReports
<1> DEFINE mine == Phase \in {"early", "live"} /\ endedFirst
           kinds == IF Phase = "gone" THEN FailedReports ELSE {}
<1>3. SeamNow = [phase |-> Phase, stops |-> Waiting(Phase, unanswered), ended |-> mine,
                  failed |-> kinds, alive |-> Owning(Phase)]
    BY DEF SeamNow, Waiting, Owning
<1>4. /\ mine \in BOOLEAN /\ kinds \subseteq {"Configuration", "Spawn"}
      /\ Waiting(Phase, unanswered) \in 0..2 /\ Owning(Phase) \subseteq Nat
    BY <1>2 DEF Waiting, Owning
<1>5. mine <=> Phase \in {"early", "live"} /\ endedFirst
    OBVIOUS
<1> HIDE DEF mine, kinds
<1>6. /\ SeamNow \in AdapterState
      /\ SeamNow.phase = Phase /\ SeamNow.stops = Waiting(Phase, unanswered)
      /\ SeamNow.ended = mine /\ SeamNow.failed = kinds /\ SeamNow.alive = Owning(Phase)
    BY <1>1, <1>3, <1>4 DEF AdapterState
<1> QED
    BY <1>5, <1>6 DEF kinds

LEMMA SeamFieldsAfter ==
    ASSUME unanswered' \in 0..2, endedFirst' \in BOOLEAN, owner' \in OwnerSteps
    PROVE  /\ SeamNow' \in AdapterState
           /\ SeamNow'.phase = Phase' /\ SeamNow'.stops = Waiting(Phase', unanswered')
           /\ SeamNow'.ended <=> Phase' \in {"early", "live"} /\ endedFirst'
           /\ SeamNow'.failed = IF Phase' = "gone" THEN FailedReports' ELSE {}
           /\ SeamNow'.alive = Owning(Phase')
<1>1. Phase' \in {"none", "spawning", "early", "live", "held", "gone"}
    BY DEF Phase
<1>2. FailedReports' \subseteq {"Configuration", "Spawn"}
    BY DEF FailedReports
<1> DEFINE mine == Phase' \in {"early", "live"} /\ endedFirst'
           kinds == IF Phase' = "gone" THEN FailedReports' ELSE {}
<1>3. SeamNow' = [phase |-> Phase', stops |-> Waiting(Phase', unanswered'), ended |-> mine,
                  failed |-> kinds, alive |-> Owning(Phase')]
    BY DEF SeamNow, Waiting, Owning
<1>4. /\ mine \in BOOLEAN /\ kinds \subseteq {"Configuration", "Spawn"}
      /\ Waiting(Phase', unanswered') \in 0..2 /\ Owning(Phase') \subseteq Nat
    BY <1>2 DEF Waiting, Owning
<1>5. mine <=> Phase' \in {"early", "live"} /\ endedFirst'
    OBVIOUS
<1> HIDE DEF mine, kinds
<1>6. /\ SeamNow' \in AdapterState
      /\ SeamNow'.phase = Phase' /\ SeamNow'.stops = Waiting(Phase', unanswered')
      /\ SeamNow'.ended = mine /\ SeamNow'.failed = kinds /\ SeamNow'.alive = Owning(Phase')
    BY <1>1, <1>3, <1>4 DEF AdapterState
<1> QED
    BY <1>5, <1>6 DEF kinds

-----------------------------------------------------------------------------
(* The steps, one by one.                                                  *)

shapeVars == <<record, owner, told, inbox, unanswered, endedFirst, outcome, pc, call, cause>>

LEMMA UnmovedSound ==
    ASSUME SeamInv, UNCHANGED shapeVars
    PROVE  Shape' /\ SeamMoves
<1> USE DEF shapeVars
<1>1. Life' /\ Concluded'
    BY DEF SeamInv, Life, Concluded, Absent
<1>2. Letters'
    BY DEF SeamInv, Letters, RefusedLetters, StartedLetters, Announced, Ending, Absent
<1>3. Answered'
    BY DEF SeamInv, Answered, AnswersToCome, EndsToCome, Announced, Absent
<1>4. Phase' = Phase /\ FailedReports' = FailedReports
    BY DEF Phase, FailedReports, Waits
<1> QED
    BY <1>1, <1>2, <1>3, <1>4, SeamStays DEF Shape

(* What the owner thread and its records are, to begin a step with.        *)
LEMMA SeamParts ==
    ASSUME SeamInv
    PROVE  /\ inbox \in Seq(Report) /\ owner \in OwnerSteps /\ record \in RunState /\ told \in Told
           /\ unanswered \in 0..2 /\ endedFirst \in BOOLEAN /\ outcome \in Outcome
           /\ cause \in {"none", "Natural", "Stop"}
           /\ Life /\ Concluded /\ Letters /\ Answered
BY DEF SeamInv, IInv, TypeOK, RunTypeOK

LEMMA StartSeam ==
    ASSUME SeamInv, Start
    PROVE  Shape' /\ SeamMoves
<1>1. /\ Absent /\ told = "nothing" /\ inbox = << >> /\ unanswered = 0 /\ endedFirst = FALSE
      /\ ~outcome.written
    BY SeamParts DEF Start, Life, Concluded, Letters, RefusedLetters, Absent
<1>2. /\ owner = "unborn" /\ record' = "Spawning" /\ owner' = "spawning"
      /\ UNCHANGED <<told, inbox, unanswered, endedFirst, outcome, pc, call, cause>>
    BY DEF Start, runVars, historyVars
<1>3. Life' /\ Concluded'
    BY <1>1, <1>2, SeamParts DEF Life, Concluded, Absent
<1>4. Letters'
    BY <1>1, <1>2, SeamParts DEF Concluded, Letters, StartedLetters, Announced, Absent
<1>5. Answered'
    BY <1>1, <1>2 DEF Answered, AnswersToCome, EndsToCome, Announced, Absent
<1>6. Phase = "none" /\ Phase' = "spawning"
    BY <1>1, <1>2 DEF Phase
<1>7. SeamNow' = Reserved(SeamNow, 1) /\ SeamNow.phase = "none"
    <2> DEFINE next == Reserved(SeamNow, 1)
    <2>1. SeamNow \in AdapterState /\ SeamNow' \in AdapterState /\ next \in AdapterState
        BY <1>1, <1>2, SeamParts, SeamFields, SeamFieldsAfter DEF Reserved, AdapterState, OwnerSteps
    <2>2. /\ next.phase = Phase' /\ next.stops = Waiting(Phase', unanswered')
          /\ next.ended <=> Phase' \in {"early", "live"} /\ endedFirst'
          /\ next.failed = IF Phase' = "gone" THEN FailedReports' ELSE {}
          /\ next.alive = Owning(Phase')
        BY <1>1, <1>2, <1>6, <2>1, SeamParts, SeamFields DEF Reserved, AdapterState, Waiting, Owning
    <2> QED
        BY <1>1, <1>2, <1>6, <2>1, <2>2, SeamParts, SeamFields, SeamFieldsAfter, SameRecord DEF OwnerSteps
<1> QED
    BY <1>3, <1>4, <1>5, <1>7, SeamActions DEF Shape

LEMMA RunStartsSeam ==
    ASSUME SeamInv, RunStarts
    PROVE  Shape' /\ SeamMoves
<1>1. /\ ~Absent /\ told = "nothing" /\ inbox = << >> /\ endedFirst = FALSE /\ ~outcome.written
      /\ record \in {"Spawning", "StopBeforeSpawn"}
    BY SeamParts DEF RunStarts, Life, Concluded, Letters, StartedLetters, Absent
<1>2. /\ owner = "spawning" /\ owner' = "spawned"
      /\ UNCHANGED <<record, told, inbox, unanswered, endedFirst, outcome, pc, call, cause>>
    BY DEF RunStarts, cleanupVars, recordVars, historyVars
<1>3. Life' /\ Concluded'
    BY <1>1, <1>2, SeamParts DEF Life, Concluded, Absent
<1>4. Letters'
    BY <1>1, <1>2, SeamParts DEF Concluded, Letters, StartedLetters, Announced, Absent
<1>5. Answered'
    BY <1>1, <1>2, SeamParts DEF Answered, AnswersToCome, EndsToCome, Announced, Absent
<1>6. Phase = "spawning" /\ Phase' = "early"
    BY <1>1, <1>2 DEF Phase, Absent
<1>7. SeamNow' = [SeamNow EXCEPT !.phase = "early"] /\ SeamNow.phase = "spawning"
    <2> DEFINE next == [SeamNow EXCEPT !.phase = "early"]
    <2>1. SeamNow \in AdapterState /\ SeamNow' \in AdapterState /\ next \in AdapterState
        BY <1>1, <1>2, SeamParts, SeamFields, SeamFieldsAfter DEF AdapterState, OwnerSteps
    <2>2. /\ next.phase = Phase' /\ next.stops = Waiting(Phase', unanswered')
          /\ next.ended <=> Phase' \in {"early", "live"} /\ endedFirst'
          /\ next.failed = IF Phase' = "gone" THEN FailedReports' ELSE {}
          /\ next.alive = Owning(Phase')
        BY <1>1, <1>2, <1>6, <2>1, SeamParts, SeamFields DEF AdapterState, Waiting, Owning
    <2> QED
        BY <1>1, <1>2, <1>6, <2>1, <2>2, SeamParts, SeamFields, SeamFieldsAfter, SameRecord DEF OwnerSteps
<1> QED
    BY <1>3, <1>4, <1>5, <1>7, SeamActions DEF Shape

LEMMA RunDoesNotStartSeam ==
    ASSUME SeamInv, RunDoesNotStart
    PROVE  Shape' /\ SeamMoves
<1>1. /\ ~Absent /\ told = "nothing" /\ inbox = << >> /\ endedFirst = FALSE /\ ~outcome.written
    BY SeamParts DEF RunDoesNotStart, Life, Concluded, Letters, StartedLetters, Absent
<1>2. /\ owner = "spawning" /\ owner' = "failed" /\ record' = "absent" /\ unanswered' = 0
      /\ UNCHANGED <<told, inbox, endedFirst, outcome, pc, call, cause>>
    BY DEF RunDoesNotStart, runVars
<1>3. Life' /\ Concluded'
    BY <1>1, <1>2, SeamParts DEF Life, Concluded, Absent
<1>4. Letters'
    BY <1>1, <1>2 DEF Letters, RefusedLetters, Absent
<1>5. Answered'
    BY <1>1, <1>2 DEF Answered, Absent
<1>6. Phase = "spawning" /\ Phase' = "gone" /\ FailedReports' = {"Configuration"}
    BY <1>1, <1>2 DEF Phase, FailedReports, Waits, Absent
<1>7. SeamNow' = NeverStarted(SeamNow, 1) /\ SeamNow.phase = "spawning"
    <2> DEFINE next == NeverStarted(SeamNow, 1)
    <2>1. SeamNow \in AdapterState /\ SeamNow' \in AdapterState /\ next \in AdapterState
        BY <1>1, <1>2, SeamParts, SeamFields, SeamFieldsAfter, NeverStartedFields DEF OwnerSteps
    <2>2. /\ next.phase = Phase' /\ next.stops = Waiting(Phase', unanswered')
          /\ next.ended <=> Phase' \in {"early", "live"} /\ endedFirst'
          /\ next.failed = IF Phase' = "gone" THEN FailedReports' ELSE {}
          /\ next.alive = Owning(Phase')
        BY <1>1, <1>2, <1>6, <2>1, SeamParts, SeamFields, NeverStartedFields DEF Waiting, Owning
    <2>3. SeamNow.phase = "spawning"
        BY <1>6, SeamParts, SeamFields
    <2> HIDE DEF next
    <2>4. SeamNow' = next
        BY <1>1, <1>2, <2>1, <2>2, SeamParts, SeamFieldsAfter, SameRecord DEF OwnerSteps
    <2> QED
        BY <2>3, <2>4 DEF next
<1> QED
    BY <1>3, <1>4, <1>5, <1>7, SeamActions DEF Shape

(* A report behind the others.                                             *)
LEMMA Appended ==
    ASSUME inbox \in Seq(Report), NEW r \in Report, inbox' = Append(inbox, r)
    PROVE  /\ Len(inbox') = Len(inbox) + 1 /\ Len(inbox) \in Nat
           /\ \A i \in 1..Len(inbox) : inbox'[i] = inbox[i]
           /\ inbox'[Len(inbox) + 1] = r
           /\ DOMAIN inbox = 1..Len(inbox) /\ DOMAIN inbox' = 1..(Len(inbox) + 1)
OBVIOUS

LEMMA ReportSpawnFailureSeam ==
    ASSUME SeamInv, ReportSpawnFailure
    PROVE  Shape' /\ SeamMoves
<1> DEFINE r == Say("FailedSpawn")
<1>1. /\ owner = "failed" /\ owner' = "done" /\ inbox' = Append(inbox, r)
      /\ UNCHANGED <<record, told, unanswered, endedFirst, outcome, pc, call, cause>>
    BY DEF ReportSpawnFailure, runVars, recordVars, historyVars
<1>2. r \in Report /\ r.kind = "FailedSpawn"
    BY DEF Say, Report
<1> HIDE DEF r
<1>3. Absent /\ RefusedLetters /\ record = "absent"
    BY <1>1, SeamParts DEF Life, Letters, Absent
<1>4. /\ Len(inbox') = Len(inbox) + 1 /\ Len(inbox) \in Nat
      /\ \A i \in 1..Len(inbox) : inbox'[i] = inbox[i]
      /\ inbox'[Len(inbox) + 1] = r
      /\ DOMAIN inbox = 1..Len(inbox) /\ DOMAIN inbox' = 1..(Len(inbox) + 1)
    BY <1>1, <1>2, SeamParts, Appended
<1>5. \A i \in 1..Len(inbox) : inbox[i].kind = "FailedStop"
    BY <1>1, <1>3 DEF RefusedLetters
<1>6. \A i \in 1..Len(inbox') : inbox'[i].kind = IF i = Len(inbox) + 1 THEN "FailedSpawn" ELSE "FailedStop"
    BY <1>2, <1>4, <1>5
<1>7. Life' /\ Concluded'
    BY <1>1, <1>3, SeamParts DEF Life, Concluded, Absent
<1>8. Letters' /\ Answered'
    BY <1>1, <1>3, <1>4, <1>6 DEF Letters, RefusedLetters, Answered, Absent
<1>9. Phase' = Phase
    BY <1>1, <1>3 DEF Phase
<1>10. FailedReports' = FailedReports
    <2>1. Waits("FailedSpawn")' /\ ~(owner' = "failed")
        BY <1>1, <1>2, <1>4 DEF Waits
    <2>2. Waits("FailedStop")' <=> Waits("FailedStop")
        BY <1>4, <1>5, <1>6 DEF Waits
    <2> QED
        BY <1>1, <2>1, <2>2 DEF FailedReports
<1>11. Phase \in {"none", "gone"}
    BY <1>3 DEF Phase
<1> QED
    BY <1>7, <1>8, <1>9, <1>10, <1>11, SeamStays DEF Shape

(* A step of the owner thread that the Supervisor does not notice.         *)
LEMMA UnnoticedSeam ==
    ASSUME SeamInv, ~Absent, ~Absent', UNCHANGED <<told, unanswered, endedFirst>>,
           owner \notin {"unborn", "spawning"}, owner' \notin {"unborn", "spawning"}
    PROVE  SeamMoves
<1>1. Phase' = Phase /\ Phase # "gone"
    BY DEF Phase, Absent
<1> QED
    BY <1>1, SeamStays

LEMMA InstallSeam ==
    ASSUME SeamInv, Install
    PROVE  Shape' /\ SeamMoves
<1>1. /\ record \in {"Spawning", "StopBeforeSpawn"} /\ told = "nothing" /\ inbox = << >>
      /\ endedFirst = FALSE /\ ~outcome.written
    BY SeamParts DEF Install, Life, Concluded, Letters, StartedLetters, Absent
<1>2. /\ owner = "spawned" /\ owner' = "firstRound"
      /\ record' = IF record = "StopBeforeSpawn" THEN "Pending" ELSE "Active"
      /\ UNCHANGED <<told, inbox, unanswered, endedFirst, outcome, pc, call, cause>>
    BY DEF Install, runVars, historyVars
<1>3. Life' /\ Concluded'
    BY <1>1, <1>2, SeamParts DEF Life, Concluded, Absent
<1>4. Letters'
    BY <1>1, <1>2, SeamParts DEF Concluded, Letters, StartedLetters, Announced, Absent
<1>5. Answered'
    BY <1>1, <1>2, SeamParts DEF Answered, AnswersToCome, EndsToCome, Announced, Absent
<1> QED
    BY <1>1, <1>2, <1>3, <1>4, <1>5, UnnoticedSeam DEF Shape, Absent

LEMMA ForwardSeam ==
    ASSUME SeamInv, Forward
    PROVE  Shape' /\ SeamMoves
<1>1. /\ owner \in {"firstRound", "round"} /\ owner' = "claim"
      /\ inbox' = IF owner = "firstRound" THEN Append(inbox, Say("Spawned")) ELSE inbox
      /\ UNCHANGED <<record, told, unanswered, endedFirst, outcome, pc, call, cause>>
    BY DEF Forward, runVars, recordVars, historyVars
<1>2. record \in {"Active", "Pending", "Unconfirmed"} /\ ~Absent /\ StartedLetters
    BY <1>1, SeamParts DEF Life, Letters, Absent
<1>3. Life' /\ Concluded'
    BY <1>1, <1>2, SeamParts DEF Life, Concluded, Absent
<1>4. CASE owner = "firstRound"
    <2>1. told = "nothing" /\ inbox = << >> /\ ~outcome.written
        BY <1>2, <1>4, SeamParts DEF StartedLetters, Concluded
    <2>2. Say("Spawned") \in Report /\ Say("Spawned").kind = "Spawned"
        BY DEF Say, Report
    <2>3. Len(inbox') = 1 /\ inbox'[1].kind = "Spawned" /\ Len(inbox) = 0
        BY <1>1, <1>4, <2>1, <2>2, SeamParts
    <2>4. Letters'
        BY <1>1, <1>2, <2>1, <2>3, SeamParts DEF Letters, StartedLetters, Announced, Absent, Concluded
    <2>5. Answered'
        BY <1>1, <1>2, <1>4, <2>1, <2>3, SeamParts DEF Answered, AnswersToCome, EndsToCome, Announced, Absent
    <2> QED
        BY <1>1, <1>2, <1>3, <2>4, <2>5, UnnoticedSeam DEF Shape, Absent
<1>5. CASE owner = "round"
    <2>1. inbox' = inbox /\ Announced' = Announced
        BY <1>1, <1>5 DEF Announced
    <2>2. Letters'
        BY <1>1, <1>2, <1>5, <2>1 DEF Letters, StartedLetters, Ending, Absent
    <2>3. Answered'
        BY <1>1, <1>2, <1>5, <2>1, SeamParts DEF Answered, AnswersToCome, EndsToCome, Absent
    <2> QED
        BY <1>1, <1>2, <1>3, <2>2, <2>3, UnnoticedSeam DEF Shape, Absent
<1> QED
    BY <1>1, <1>4, <1>5

LEMMA ClaimSeam ==
    ASSUME SeamInv, Claim
    PROVE  Shape' /\ SeamMoves
<1>1. /\ owner = "claim" /\ owner' = "begin" /\ record' = "Finishing"
      /\ ClaimsStop \/ ClaimsExit
      /\ cause' = IF ClaimsStop THEN "Stop" ELSE "Natural"
      /\ endedFirst' = (endedFirst \/ ClaimsExit)
      /\ UNCHANGED <<told, inbox, unanswered, outcome, pc, call>>
    BY DEF Claim, runVars
<1>2. ~Absent /\ StartedLetters /\ record \in {"Active", "Pending"} /\ (ClaimsStop <=> record = "Pending")
      /\ (ClaimsExit => record = "Active")
    BY <1>1, SeamParts DEF Life, Letters, Absent, ClaimsStop, ClaimsExit
<1>3. /\ record = "Active" => ~outcome.written
      /\ ~outcome.written => endedFirst = FALSE
      /\ ~outcome.confirmed
    BY <1>1, <1>2, SeamParts DEF Concluded
<1>4. endedFirst' = IF record = "Active" THEN TRUE ELSE endedFirst
    BY <1>1, <1>2, SeamParts
<1>5. Life' /\ Concluded'
    <2>1. Life'
        BY <1>1, <1>2, SeamParts DEF Life, Absent
    <2>2. Concluded'
        BY <1>1, <1>2, <1>3, <1>4, SeamParts DEF Concluded, Absent
    <2> QED
        BY <2>1, <2>2
<1>6. Announced' = Announced /\ Announced \in 0..1
    BY <1>1 DEF Announced
<1>7. Letters'
    BY <1>1, <1>2, <1>3, <1>6 DEF Letters, StartedLetters, Ending, Absent
<1>8. Answered'
    <2>1. CASE record = "Pending"
        BY <1>1, <1>2, <1>4, <1>6, <2>1, SeamParts DEF Answered, AnswersToCome, EndsToCome, Absent
    <2>2. CASE record = "Active"
        <3>1. Len(inbox) = Announced /\ told \in {"nothing", "live"}
            BY <1>1, <1>2, <1>3, <1>6, <2>2, SeamParts DEF StartedLetters, Told
        <3>2. endedFirst' /\ Len(inbox) \in Nat
            BY <1>4, <2>2, SeamParts
        <3>3. EndsToCome' = 1
            BY <1>1, <1>6, <3>1, <3>2 DEF EndsToCome
        <3>4. AnswersToCome' = 0
            BY <1>1, <3>1, <3>2, <3>3 DEF AnswersToCome
        <3> QED
            BY <1>1, <3>4 DEF Answered
    <2> QED
        BY <1>2, <2>1, <2>2
<1>9. SeamMoves
    <2>1. CASE record = "Pending"
        BY <1>1, <1>2, <1>4, <2>1, UnnoticedSeam DEF Absent
    <2>2. CASE record = "Active"
        <3>1. told \in {"nothing", "live"} /\ unanswered = 0
            BY <1>1, <1>2, <1>3, <2>2, SeamParts DEF StartedLetters, Told, Answered
        <3>2. Phase \in {"early", "live"} /\ Phase' = Phase
            BY <1>1, <2>2, <3>1 DEF Phase
        <3> DEFINE next == [SeamNow EXCEPT !.ended = TRUE]
        <3>3. SeamNow \in AdapterState /\ SeamNow' \in AdapterState
            BY <1>1, <1>4, SeamParts, SeamFields, SeamFieldsAfter DEF OwnerSteps
        <3>4. /\ next \in AdapterState /\ next.ended
              /\ next.phase = SeamNow.phase /\ next.stops = SeamNow.stops
              /\ next.failed = SeamNow.failed /\ next.alive = SeamNow.alive
            BY <3>3 DEF AdapterState
        <3> HIDE DEF next
        <3>5. SeamNow.phase = Phase /\ SeamNow.stops = 0
            BY <3>1, SeamParts, SeamFields DEF Waiting
        <3>6. SeamNow' = next
            BY <1>1, <1>4, <2>2, <3>1, <3>2, <3>3, <3>4, <3>5, SeamParts, SeamFields, SeamFieldsAfter,
               SameRecord DEF OwnerSteps, Waiting
        <3> QED
            BY <3>2, <3>5, <3>6, SeamActions DEF next
    <2> QED
        BY <1>2, <2>1, <2>2
<1> QED
    BY <1>5, <1>7, <1>8, <1>9 DEF Shape

LEMMA NothingToDoSeam ==
    ASSUME SeamInv, NothingToDo
    PROVE  Shape' /\ SeamMoves
<1>1. /\ owner = "claim" /\ owner' = "round"
      /\ UNCHANGED <<record, told, inbox, unanswered, endedFirst, outcome, pc, call, cause>>
    BY DEF NothingToDo, runVars, recordVars, historyVars
<1>2. ~Absent /\ StartedLetters /\ record \in {"Active", "Pending", "Unconfirmed"}
    BY <1>1, SeamParts DEF Life, Letters, Absent
<1>3. Life' /\ Concluded'
    BY <1>1, <1>2, SeamParts DEF Life, Concluded, Absent
<1>4. Announced' = Announced
    BY <1>1 DEF Announced
<1>5. Letters'
    BY <1>1, <1>2, <1>4 DEF Letters, StartedLetters, Ending, Absent
<1>6. Answered'
    BY <1>1, <1>2, <1>4, SeamParts DEF Answered, AnswersToCome, EndsToCome, Absent
<1> QED
    BY <1>1, <1>2, <1>3, <1>5, <1>6, UnnoticedSeam DEF Shape, Absent

LEMMA BeginSeam ==
    ASSUME SeamInv, Begin
    PROVE  Shape' /\ SeamMoves
<1>1. /\ owner = "begin" /\ owner' = "clean"
      /\ UNCHANGED <<record, told, inbox, unanswered, endedFirst, outcome>>
      /\ \/ pc' # "idle" /\ call' = (IF cause = "Stop" THEN "shutdown" ELSE "wait")
         \/ outcome.written /\ pc' = pc
    BY DEF Begin, BeginCleanup, AlreadyConcluded, GoTo, runVars, recordVars
<1>2. ~Absent /\ StartedLetters /\ record = "Finishing"
    BY <1>1, SeamParts DEF Life, Letters, Absent
<1>3. Life' /\ Concluded'
    <2>1. Life'
        BY <1>1, <1>2, SeamParts DEF Life, Absent
    <2>2. Concluded'
        BY <1>1, <1>2, SeamParts DEF Concluded, Absent
    <2> QED
        BY <2>1, <2>2
<1>4. Announced' = Announced
    BY <1>1 DEF Announced
<1>5. Letters'
    BY <1>1, <1>2, <1>4 DEF Letters, StartedLetters, Ending, Absent
<1>6. Answered'
    BY <1>1, <1>2, <1>4, SeamParts DEF Answered, AnswersToCome, EndsToCome, Absent
<1> QED
    BY <1>1, <1>2, <1>3, <1>5, <1>6, UnnoticedSeam DEF Shape, Absent

LEMMA FinishSeam ==
    ASSUME SeamInv, Finish
    PROVE  Shape' /\ SeamMoves
<1>1. /\ owner = "clean" /\ owner' = "report" /\ pc = "idle"
      /\ record' = IF outcome.confirmed THEN "Finished" ELSE "Unconfirmed"
      /\ UNCHANGED <<told, inbox, unanswered, endedFirst, outcome, pc, call, cause>>
    BY DEF Finish, runVars, historyVars
<1>2. ~Absent /\ StartedLetters /\ record = "Finishing" /\ outcome.written
    BY <1>1, SeamParts DEF Life, Letters, Absent, Concluded
<1>3. Life' /\ Concluded'
    <2>1. Life'
        BY <1>1, <1>2, SeamParts DEF Life, Absent
    <2>2. Concluded'
        BY <1>1, <1>2, SeamParts DEF Concluded, Absent
    <2> QED
        BY <2>1, <2>2
<1>4. Announced' = Announced
    BY <1>1 DEF Announced
<1>5. Letters'
    BY <1>1, <1>2, <1>4 DEF Letters, StartedLetters, Ending, Absent
<1>6. Answered'
    BY <1>1, <1>2, <1>4, SeamParts DEF Answered, AnswersToCome, EndsToCome, Absent
<1> QED
    BY <1>1, <1>2, <1>3, <1>5, <1>6, UnnoticedSeam DEF Shape, Absent

(* What a step of the cleanup may do to its outcome.                       *)
LEMMA LadderConcludes ==
    ASSUME LadderStep
    PROVE  /\ pc # "idle" /\ call' = call
           /\ \/ outcome' = outcome /\ pc' # "idle"
              \/ \E confirmed \in BOOLEAN :
                    outcome' = [written |-> TRUE, intentional |-> call = "shutdown", confirmed |-> confirmed]
BY DEF LadderStep, LookAtRoot, FindsSettled, FindsMembers, PollAgain, StageTimesOut, DecideToSignal,
    Aim, Signal, FinalLookAtRoot, FinalLookAtMembers, Abandon, Reap, Drain, SeesNobody, SeesSomebody,
    Conclude, GoTo, NextStage

LEMMA CleanSeam ==
    ASSUME SeamInv, Clean
    PROVE  Shape' /\ SeamMoves
<1>1. /\ pc # "idle" /\ call' = call
      /\ UNCHANGED <<owner, record, told, inbox, unanswered, endedFirst, cause>>
      /\ \/ outcome' = outcome /\ pc' # "idle"
         \/ \E confirmed \in BOOLEAN :
               outcome' = [written |-> TRUE, intentional |-> call = "shutdown", confirmed |-> confirmed]
    BY LadderConcludes DEF Clean, adapterVars, recordVars, ownerVars, historyVars
<1>2. owner = "clean" /\ record = "Finishing" /\ ~Absent /\ StartedLetters
    BY <1>1, SeamParts DEF Life, Letters, Absent
<1>3. ~outcome.written /\ ~outcome.confirmed /\ (call = "shutdown") = ~endedFirst
    BY <1>1, <1>2, SeamParts DEF SeamInv, IInv, CleanupSound, Concluded
<1>4. Life'
    BY <1>1, <1>2, SeamParts DEF Life, Absent
<1>5. CASE outcome' = outcome /\ pc' # "idle"
    <2>1. Concluded'
        BY <1>1, <1>5, SeamParts DEF Concluded
    <2>2. Announced' = Announced
        BY <1>1 DEF Announced
    <2>3. Letters'
        BY <1>1, <1>2, <1>5, <2>2 DEF Letters, StartedLetters, Ending, Absent
    <2> QED
        BY <1>1, <1>2, <1>4, <2>1, <2>2, <2>3, SeamParts, UnnoticedSeam
        DEF Shape, Answered, AnswersToCome, EndsToCome, Absent
<1>6. ASSUME NEW confirmed \in BOOLEAN,
             outcome' = [written |-> TRUE, intentional |-> call = "shutdown", confirmed |-> confirmed]
      PROVE  Shape' /\ SeamMoves
    <2>1. outcome'.written /\ outcome'.intentional = ~endedFirst
        BY <1>3, <1>6
    <2>2. Concluded'
        BY <1>1, <1>2, <2>1, SeamParts DEF Concluded
    <2>3. Announced' = Announced /\ Announced \in 0..1
        BY <1>1 DEF Announced
    <2>4. Len(inbox) = Announced /\ told \in {"nothing", "live"}
        BY <1>2, <1>3, <2>3, SeamParts DEF StartedLetters, Told
    <2>5. Letters'
        BY <1>1, <1>2, <2>1, <2>3, <2>4 DEF Letters, StartedLetters, Ending, Absent
    <2> QED
        BY <1>1, <1>2, <1>4, <2>2, <2>3, <2>5, SeamParts, UnnoticedSeam
        DEF Shape, Answered, AnswersToCome, EndsToCome, Absent
<1> QED
    BY <1>1, <1>5, <1>6

LEMMA SendFinishedSeam ==
    ASSUME SeamInv, SendFinished
    PROVE  Shape' /\ SeamMoves
<1> DEFINE r == [kind |-> "Finished", intentional |-> outcome.intentional, confirmed |-> outcome.confirmed]
<1>1. /\ owner = "report" /\ inbox' = Append(inbox, r)
      /\ owner' = IF outcome.confirmed THEN "done" ELSE "round"
      /\ UNCHANGED <<record, told, unanswered, endedFirst, outcome, pc, call, cause>>
    BY DEF SendFinished, runVars, recordVars, historyVars
<1>2. r \in Report /\ Ending(r)
    BY SeamParts DEF Outcome, Report, Ending
<1> HIDE DEF r
<1>3. ~Absent /\ StartedLetters /\ outcome.written /\ (outcome.confirmed <=> record = "Finished")
    BY <1>1, SeamParts DEF Life, Letters, Absent, Concluded
<1>4. /\ Len(inbox') = Len(inbox) + 1 /\ Len(inbox) \in Nat
      /\ \A i \in 1..Len(inbox) : inbox'[i] = inbox[i]
      /\ inbox'[Len(inbox) + 1] = r
    BY <1>1, <1>2, SeamParts, Appended
<1>5. Life' /\ Concluded'
    BY <1>1, <1>3, SeamParts DEF Life, Concluded, Absent
<1>6. Announced' = Announced /\ Announced \in 0..1
    BY <1>1 DEF Announced
<1>7. /\ owner \notin {"spawning", "spawned", "firstRound"}
      /\ Announced = 1 => inbox[1].kind = "Spawned"
      /\ \A i \in 1..Len(inbox) : i > Announced => Ending(inbox[i])
      /\ Announced <= Len(inbox)
    BY <1>1, <1>3 DEF StartedLetters
<1>8. Letters'
    <2>1. \A i \in 1..Len(inbox') : i > Announced => Ending(inbox'[i])
        BY <1>2, <1>4, <1>7
    <2>2. \A i \in 1..Len(inbox') : i > Announced =>
             /\ inbox'[i].kind = "Finished"
             /\ inbox'[i].intentional = outcome'.intentional
             /\ inbox'[i].confirmed = outcome'.confirmed
        BY <1>1, <2>1 DEF Ending
    <2>3. Announced' = 1 => inbox'[1].kind = "Spawned"
        BY <1>4, <1>6, <1>7
    <2>4. /\ outcome.confirmed => Len(inbox) = Announced
          /\ told = "held" => outcome.written /\ ~outcome.confirmed
          /\ told # "released"
        BY <1>1, <1>3 DEF StartedLetters
    <2>5. StartedLetters'
        BY <1>1, <1>3, <1>4, <1>6, <1>7, <2>2, <2>3, <2>4 DEF StartedLetters, Ending
    <2> QED
        BY <1>1, <1>3, <2>5 DEF Letters, Absent
<1>9. Answered'
    BY <1>1, <1>3, <1>4, <1>6, SeamParts DEF Answered, AnswersToCome, EndsToCome, Absent
<1> QED
    BY <1>1, <1>3, <1>5, <1>8, <1>9, UnnoticedSeam DEF Shape, Absent

(* A stop of a Run that never was is refused with a report of its own.     *)
LEMMA RefusedStopSeam ==
    ASSUME SeamInv, Stop, Absent
    PROVE  Shape' /\ SeamMoves
<1> DEFINE r == Say("FailedStop")
<1>1. /\ owner # "unborn" /\ told # "released" /\ inbox' = Append(inbox, r)
      /\ UNCHANGED <<record, owner, told, unanswered, endedFirst, outcome, pc, call, cause>>
    BY DEF Stop, Absent, runVars, ownerVars
<1>2. r \in Report /\ r.kind = "FailedStop"
    BY DEF Say, Report
<1> HIDE DEF r
<1>3. RefusedLetters /\ record = "absent" /\ told = "nothing"
    BY <1>1, SeamParts DEF Letters, RefusedLetters, Absent
<1>4. /\ Len(inbox') = Len(inbox) + 1 /\ Len(inbox) \in Nat
      /\ \A i \in 1..Len(inbox) : inbox'[i] = inbox[i]
      /\ inbox'[Len(inbox) + 1] = r
      /\ DOMAIN inbox = 1..Len(inbox) /\ DOMAIN inbox' = 1..(Len(inbox) + 1)
    BY <1>1, <1>2, SeamParts, Appended
<1>5. Life' /\ Concluded' /\ Answered'
    BY <1>1, SeamParts DEF Life, Concluded, Answered, Absent
<1>6. Letters'
    BY <1>1, <1>2, <1>3, <1>4 DEF Letters, RefusedLetters, Absent
<1>7. Phase = "gone" /\ Phase' = "gone"
    BY <1>1, <1>3 DEF Phase
<1>8. FailedReports' = FailedReports \cup {"Spawn"}
    <2>1. Waits("FailedSpawn")' <=> Waits("FailedSpawn")
        BY <1>2, <1>4 DEF Waits
    <2>2. Waits("FailedStop")'
        BY <1>2, <1>4 DEF Waits
    <2> QED
        BY <1>1, <2>1, <2>2 DEF FailedReports
<1>9. SeamNow' = Contacted(SeamNow) /\ SeamNow.phase # "none"
    <2> DEFINE next == Contacted(SeamNow)
    <2>1. SeamNow \in AdapterState /\ SeamNow' \in AdapterState /\ SeamNow.phase = "gone"
        BY <1>1, <1>7, SeamParts, SeamFields, SeamFieldsAfter
    <2>2. /\ next \in AdapterState /\ next.phase = SeamNow.phase /\ next.stops = SeamNow.stops
          /\ next.ended = SeamNow.ended /\ next.failed = SeamNow.failed \cup {"Spawn"}
          /\ next.alive = SeamNow.alive
        BY <2>1 DEF Contacted, AdapterState
    <2> HIDE DEF next
    <2>3. /\ SeamNow.stops = 0 /\ ~SeamNow.ended /\ SeamNow.failed = FailedReports
          /\ SeamNow.alive = Owning("gone")
        BY <1>7, SeamParts, SeamFields DEF Waiting
    <2>4. /\ SeamNow'.phase = "gone" /\ SeamNow'.stops = 0 /\ ~SeamNow'.ended
          /\ SeamNow'.failed = FailedReports' /\ SeamNow'.alive = Owning("gone")
        BY <1>1, <1>7, SeamParts, SeamFieldsAfter DEF Waiting
    <2>5. /\ SeamNow'.phase = next.phase /\ SeamNow'.stops = next.stops
          /\ (SeamNow'.ended <=> next.ended) /\ SeamNow'.failed = next.failed
          /\ SeamNow'.alive = next.alive
        BY <1>8, <2>1, <2>2, <2>3, <2>4
    <2>6. SeamNow' = next
        BY <2>1, <2>2, <2>5, SameRecord
    <2> QED
        BY <2>1, <2>6 DEF next
<1> QED
    BY <1>5, <1>6, <1>9, SeamActions DEF Shape

LEMMA QueuedStopSeam ==
    ASSUME SeamInv, Stop, ~Absent
    PROVE  Shape' /\ SeamMoves
<1>1. /\ owner # "unborn" /\ told # "released"
      /\ record' = StopQueued /\ unanswered' = (IF unanswered < 2 THEN unanswered + 1 ELSE 2)
      /\ UNCHANGED <<owner, inbox, told, endedFirst, outcome, pc, call, cause>>
    BY DEF Stop, RequestStop, Absent, runVars, ownerVars
<1>2. record' = IF record = "Spawning" THEN "StopBeforeSpawn"
                ELSE IF record \in {"Active", "Unconfirmed"} THEN "Pending" ELSE record
    BY <1>1 DEF StopQueued
<1>3. ~Absent' /\ StartedLetters /\ Announced' = Announced
    BY <1>1, <1>2, SeamParts DEF Letters, Absent, Announced
<1>4. Life' /\ Concluded'
    <2>1. Life'
        BY <1>1, <1>2, <1>3, SeamParts DEF Life, Absent
    <2>2. Concluded'
        BY <1>1, <1>2, <1>3, SeamParts DEF Concluded, Absent
    <2> QED
        BY <2>1, <2>2
<1>5. Letters'
    BY <1>1, <1>3 DEF Letters, StartedLetters, Ending
<1>6. Answered'
    <2>0. /\ Len(inbox) \in Nat /\ Len(inbox') = Len(inbox) /\ owner' = owner
          /\ Announced \in 0..1 /\ Announced' = Announced
        BY <1>1, <1>3, SeamParts DEF Announced
    <2> HIDE DEF Announced
    <2> DEFINE sent == IF owner \in {"spawning", "spawned"} THEN 0 ELSE Announced
               cleaning == IF owner \in {"begin", "clean", "report"} THEN 1 ELSE 0
               queued == IF record \in {"StopBeforeSpawn", "Pending"} THEN 1 ELSE 0
               own == IF endedFirst /\ told \in {"nothing", "live"} THEN 1 ELSE 0
    <2>1. /\ sent \in 0..1 /\ sent' = sent /\ cleaning \in 0..1 /\ cleaning' = cleaning
          /\ queued \in 0..1 /\ queued' \in 0..1 /\ own \in 0..1 /\ own' = own
        BY <1>1, <2>0
    <2>2. /\ AnswersToCome = (Len(inbox) - sent + cleaning + queued) - own
          /\ AnswersToCome' = (Len(inbox') - sent' + cleaning' + queued') - own'
        BY DEF AnswersToCome, EndsToCome
    <2> HIDE DEF sent, cleaning, queued, own, AnswersToCome
    <2>6. /\ AnswersToCome \in Int /\ AnswersToCome' \in Int
          /\ AnswersToCome' <= AnswersToCome + 1
        BY <2>0, <2>1, <2>2
    <2>3. unanswered' >= 1 /\ (unanswered >= 1 => unanswered' = 2)
        BY <1>1, SeamParts
    <2>4. AnswersToCome >= 1 => unanswered >= 1
        BY SeamParts DEF Answered
    <2>5. record' \notin {"Spawning", "Active"}
        BY <1>2
    <2> QED
        BY <2>3, <2>4, <2>5, <2>6 DEF Answered
<1>7. Phase' = Phase /\ Phase \notin {"none", "gone"}
    BY <1>1, <1>3, SeamParts DEF Phase, Absent, Told
<1>8. SeamNow' = Contacted(SeamNow) /\ SeamNow.phase # "none"
    <2> DEFINE next == Contacted(SeamNow)
    <2>1. /\ SeamNow \in AdapterState /\ SeamNow.phase = Phase /\ SeamNow.stops = unanswered
          /\ SeamNow.failed = {}
        BY <1>7, SeamParts, SeamFields DEF Waiting
    <2>2. unanswered' \in 0..2
        BY <1>1, SeamParts
    <2>3. /\ SeamNow' \in AdapterState /\ SeamNow'.phase = Phase /\ SeamNow'.stops = unanswered'
          /\ SeamNow'.failed = {} /\ (SeamNow'.ended <=> SeamNow.ended) /\ SeamNow'.alive = SeamNow.alive
        BY <1>1, <1>7, <2>2, SeamParts, SeamFields, SeamFieldsAfter DEF Waiting
    <2>4. /\ next \in AdapterState /\ next.phase = SeamNow.phase
          /\ next.stops = unanswered'
          /\ next.ended = SeamNow.ended /\ next.failed = SeamNow.failed /\ next.alive = SeamNow.alive
        BY <1>1, <1>7, <2>1, <2>2 DEF Contacted, AdapterState
    <2> HIDE DEF next
    <2>5. SeamNow' = next
        BY <2>1, <2>3, <2>4, SameRecord
    <2> QED
        BY <1>7, <2>1, <2>5 DEF next
<1> QED
    BY <1>4, <1>5, <1>6, <1>8, SeamActions DEF Shape

(* The report at the head is taken out.                                    *)
LEMMA Taken ==
    ASSUME inbox \in Seq(Report), inbox # << >>, inbox' = Tail(inbox)
    PROVE  /\ Len(inbox) \in Nat /\ Len(inbox) >= 1 /\ Len(inbox') = Len(inbox) - 1
           /\ \A i \in 1..Len(inbox') : inbox'[i] = inbox[i + 1]
           /\ Head(inbox) = inbox[1] /\ inbox[1] \in Report
           /\ DOMAIN inbox = 1..Len(inbox) /\ DOMAIN inbox' = 1..Len(inbox')
OBVIOUS

(* The failure of a Run that never was is handled: counted, dropped, or    *)
(* the end of the matter.                                                  *)
LEMMA HandleFailureSeam ==
    ASSUME SeamInv, Handle, Absent
    PROVE  Shape' /\ SeamMoves
<1>1. /\ inbox # << >> /\ inbox' = Tail(inbox) /\ Handled(Head(inbox))
      /\ UNCHANGED <<record, owner, endedFirst, outcome, pc, call, cause>>
    BY DEF Handle, runVars, recordVars, ownerVars
<1>2. /\ Len(inbox) \in Nat /\ Len(inbox) >= 1 /\ Len(inbox') = Len(inbox) - 1
      /\ \A i \in 1..Len(inbox') : inbox'[i] = inbox[i + 1]
      /\ Head(inbox) = inbox[1] /\ inbox[1] \in Report
      /\ DOMAIN inbox = 1..Len(inbox) /\ DOMAIN inbox' = 1..Len(inbox')
    BY <1>1, SeamParts, Taken
<1>3. /\ RefusedLetters /\ record = "absent" /\ owner \in {"failed", "done"}
      /\ told \in {"nothing", "released"}
    BY <1>1, SeamParts DEF Letters, RefusedLetters, Life, Absent
<1>4. inbox[1].kind \in {"FailedSpawn", "FailedStop"}
    BY <1>2, <1>3 DEF RefusedLetters
<1>5. told' \in {told, "released"} /\ unanswered' = unanswered
    BY <1>1, <1>2, <1>4 DEF Handled
<1>6. Life' /\ Concluded' /\ Answered'
    BY <1>1, SeamParts DEF Life, Concluded, Answered, Absent
<1>7. Letters'
    <2>1. \A i \in 1..Len(inbox') : i + 1 \in 1..Len(inbox) /\ inbox'[i].kind = inbox[i + 1].kind
        BY <1>2
    <2>2. \A i \in 1..Len(inbox') : inbox'[i].kind \in {"FailedSpawn", "FailedStop"}
        BY <1>3, <2>1 DEF RefusedLetters
    <2>3. ASSUME NEW i \in 1..Len(inbox'), inbox'[i].kind = "FailedSpawn"
          PROVE  /\ owner = "done"
                 /\ \A j \in 1..Len(inbox') : inbox'[j].kind = "FailedSpawn" => i = j
        <3>1. i + 1 \in 1..Len(inbox) /\ inbox[i + 1].kind = "FailedSpawn"
            BY <2>1, <2>3
        <3>2. owner = "done" /\ \A j \in 1..Len(inbox) : inbox[j].kind = "FailedSpawn" => i + 1 = j
            BY <1>3, <3>1 DEF RefusedLetters
        <3>3. \A j \in 1..Len(inbox') : inbox'[j].kind = "FailedSpawn" => i + 1 = j + 1
            BY <2>1, <3>2
        <3> QED
            BY <1>2, <3>2, <3>3
    <2> QED
        BY <1>1, <1>3, <1>5, <2>2, <2>3 DEF Letters, RefusedLetters, Absent
<1>8. CASE told = "released"
    BY <1>1, <1>3, <1>5, <1>6, <1>7, <1>8, SeamStays DEF Shape, Phase
<1>9. CASE told = "nothing"
    <2> DEFINE kind == IF inbox[1].kind = "FailedSpawn" THEN "Configuration" ELSE "Spawn"
    <2>1. Phase = "gone" /\ kind \in {"Configuration", "Spawn"} /\ kind \in FailedReports
        BY <1>2, <1>3, <1>4, <1>9 DEF Phase, FailedReports, Waits
    <2>2. /\ SeamNow \in AdapterState /\ SeamNow.phase = "gone" /\ SeamNow.stops = 0 /\ ~SeamNow.ended
          /\ SeamNow.failed = FailedReports /\ SeamNow.alive = {}
        BY <2>1, SeamParts, SeamFields DEF Waiting, Owning
    <2>3. CASE told' = "released"
        <3> DEFINE next == Released(SeamNow, 1)
        <3>1. Phase' = "none"
            BY <1>1, <1>3, <2>3 DEF Phase
        <3>2. /\ SeamNow' \in AdapterState /\ SeamNow'.phase = "none" /\ SeamNow'.stops = 0
              /\ ~SeamNow'.ended /\ SeamNow'.failed = {} /\ SeamNow'.alive = {}
            BY <1>1, <1>5, <3>1, SeamParts, SeamFieldsAfter DEF Waiting, Owning
        <3>3. /\ next \in AdapterState /\ next.phase = "none" /\ next.stops = 0
              /\ ~next.ended /\ next.failed = {} /\ next.alive = {}
            BY <2>2 DEF Released, AdapterState
        <3> HIDE DEF next
        <3>4. SeamNow' = next
            BY <3>2, <3>3, SameRecord
        <3> HIDE DEF kind
        <3>5. SeamMoves
            BY <2>1, <2>2, <3>4, SeamActions DEF next
        <3> QED
            BY <1>6, <1>7, <3>5 DEF Shape
    <2>4. CASE told' = "nothing" /\ FailedReports' = FailedReports \ {kind}
        <3> DEFINE next == [SeamNow EXCEPT !.failed = @ \ {kind}]
        <3>1. Phase' = "gone"
            BY <1>1, <1>3, <2>4 DEF Phase
        <3>2. /\ SeamNow' \in AdapterState /\ SeamNow'.phase = "gone" /\ SeamNow'.stops = 0
              /\ ~SeamNow'.ended /\ SeamNow'.failed = FailedReports' /\ SeamNow'.alive = {}
            BY <1>1, <1>5, <3>1, SeamParts, SeamFieldsAfter DEF Waiting, Owning
        <3> HIDE DEF kind
        <3>3. /\ next \in AdapterState /\ next.phase = "gone" /\ next.stops = 0
              /\ ~next.ended /\ next.failed = SeamNow.failed \ {kind} /\ next.alive = {}
            BY <2>2 DEF AdapterState
        <3> HIDE DEF next
        <3>4. SeamNow'.failed = next.failed
            BY <2>2, <2>4, <3>2, <3>3
        <3>5. SeamNow' = next
            BY <3>2, <3>3, <3>4, SameRecord
        <3>6. SeamMoves
            BY <2>1, <2>2, <3>5, SeamActions DEF next
        <3> QED
            BY <1>6, <1>7, <3>6 DEF Shape
    <2>5. CASE told' = "nothing" /\ FailedReports' = FailedReports
        BY <1>1, <1>3, <1>5, <1>6, <1>7, <1>9, <2>1, <2>5, SeamStays DEF Shape, Phase
    <2>6. told' \in {"nothing", "released"}
        BY <1>5, <1>9
    <2>7. FailedReports' = FailedReports \/ FailedReports' = FailedReports \ {kind}
        <3>1. ASSUME NEW report \in {"FailedSpawn", "FailedStop"}
              PROVE  /\ Waits(report)' => Waits(report)
                     /\ inbox[1].kind # report /\ Waits(report) => Waits(report)'
            <4>1. ASSUME Waits(report)'
                  PROVE  Waits(report)
                <5>1. PICK i \in 1..Len(inbox') : inbox'[i].kind = report
                    BY <1>2, <4>1 DEF Waits
                <5>2. i + 1 \in 1..Len(inbox) /\ inbox[i + 1].kind = report
                    BY <1>2, <5>1
                <5> QED
                    BY <1>2, <5>2 DEF Waits
            <4>2. ASSUME inbox[1].kind # report, Waits(report)
                  PROVE  Waits(report)'
                <5>1. PICK i \in 1..Len(inbox) : inbox[i].kind = report
                    BY <1>2, <4>2 DEF Waits
                <5>2. i - 1 \in 1..Len(inbox') /\ inbox'[i - 1].kind = report
                    BY <1>2, <4>2, <5>1
                <5> QED
                    BY <1>2, <5>2 DEF Waits
            <4> QED
                BY <4>1, <4>2
        <3>2. CASE inbox[1].kind = "FailedSpawn"
            <4>1. /\ owner = "done"
                  /\ \A j \in 1..Len(inbox) : inbox[j].kind = "FailedSpawn" => 1 = j
                BY <1>2, <1>3, <3>2 DEF RefusedLetters
            <4>2. ~Waits("FailedSpawn")'
                <5>1. \A i \in 1..Len(inbox') : i + 1 \in 1..Len(inbox) /\ i + 1 # 1
                    BY <1>2
                <5> QED
                    BY <1>2, <4>1, <5>1 DEF Waits
            <4>3. Waits("FailedStop")' <=> Waits("FailedStop")
                BY <3>1, <3>2
            <4> QED
                BY <1>1, <3>2, <4>1, <4>2, <4>3 DEF FailedReports
        <3>3. CASE inbox[1].kind = "FailedStop"
            <4>1. Waits("FailedSpawn")' <=> Waits("FailedSpawn")
                BY <3>1, <3>3
            <4> QED
                BY <1>1, <3>1, <3>3, <4>1 DEF FailedReports
        <3> QED
            BY <1>4, <3>2, <3>3
    <2> QED
        BY <2>3, <2>4, <2>5, <2>6, <2>7
<1> QED
    BY <1>3, <1>8, <1>9

(* The Spawned report of a Run is handled.                                 *)
LEMMA HandleSpawnedSeam ==
    ASSUME SeamInv, Handle, ~Absent, told = "nothing"
    PROVE  Shape' /\ SeamMoves
<1>1. /\ inbox # << >> /\ inbox' = Tail(inbox) /\ Handled(Head(inbox))
      /\ UNCHANGED <<record, owner, endedFirst, outcome, pc, call, cause>>
    BY DEF Handle, runVars, recordVars, ownerVars
<1>2. /\ Len(inbox) \in Nat /\ Len(inbox) >= 1 /\ Len(inbox') = Len(inbox) - 1
      /\ \A i \in 1..Len(inbox') : inbox'[i] = inbox[i + 1]
      /\ Head(inbox) = inbox[1] /\ inbox[1] \in Report
    BY <1>1, SeamParts, Taken
<1>3. /\ StartedLetters /\ owner \notin {"unborn", "failed", "spawning", "spawned", "firstRound"}
      /\ record # "absent"
    BY <1>1, SeamParts DEF Letters, StartedLetters, Life, Absent
<1>4. Announced = 1 /\ inbox[1].kind = "Spawned"
    BY <1>3 DEF Announced, StartedLetters
<1>5. told' = "live" /\ unanswered' = unanswered
    BY <1>1, <1>2, <1>4 DEF Handled
<1>6. Announced' = 0
    BY <1>5 DEF Announced
<1>7. Life' /\ Concluded'
    BY <1>1, SeamParts DEF Life, Concluded, Absent
<1>8. Letters'
    <2>1. \A i \in 1..Len(inbox) : i > 1 => Ending(inbox[i])
        BY <1>3, <1>4 DEF StartedLetters
    <2>2. \A i \in 1..Len(inbox') : i + 1 \in 1..Len(inbox) /\ i + 1 > 1
        BY <1>2
    <2>3. \A i \in 1..Len(inbox') : Ending(inbox'[i])
        BY <1>2, <2>1, <2>2
    <2>4. \A i \in 1..Len(inbox') :
             /\ inbox'[i].kind = "Finished"
             /\ inbox'[i].intentional = outcome'.intentional
             /\ inbox'[i].confirmed = outcome'.confirmed
        BY <1>1, <2>3 DEF Ending
    <2>5. /\ Len(inbox) > 1 => outcome.written
          /\ owner = "done" => Len(inbox) = 2
          /\ outcome.confirmed /\ owner # "done" => Len(inbox) = 1
        BY <1>3, <1>4 DEF StartedLetters
    <2>6. StartedLetters'
        BY <1>1, <1>2, <1>3, <1>5, <1>6, <2>4, <2>5 DEF StartedLetters, Ending
    <2> QED
        BY <1>1, <1>3, <2>6 DEF Letters, Absent
<1>9. Answered'
    <2> DEFINE cleaning == IF owner \in {"begin", "clean", "report"} THEN 1 ELSE 0
               queued == IF record \in {"StopBeforeSpawn", "Pending"} THEN 1 ELSE 0
    <2>3. cleaning \in 0..1 /\ cleaning' = cleaning /\ queued \in 0..1 /\ queued' = queued
        BY <1>1
    <2>4. /\ EndsToCome = Len(inbox) - Announced + cleaning + queued
          /\ EndsToCome' = Len(inbox') - Announced' + cleaning' + queued'
        BY <1>1, <1>3 DEF EndsToCome
    <2> HIDE DEF cleaning, queued
    <2>1. EndsToCome' = EndsToCome
        BY <1>2, <1>4, <1>6, <2>3, <2>4
    <2>2. AnswersToCome' = AnswersToCome
        BY <1>1, <1>5, <2>1 DEF AnswersToCome
    <2> QED
        BY <1>1, <1>5, <2>2, SeamParts DEF Answered, Absent
<1>10. Phase = "early" /\ Phase' = "live"
    BY <1>1, <1>3, <1>5 DEF Phase
<1>11. SeamMoves
    <2> DEFINE next == [SeamNow EXCEPT !.phase = "live"]
    <2>1. /\ SeamNow \in AdapterState /\ SeamNow.phase = "early" /\ SeamNow.stops = unanswered
          /\ (SeamNow.ended <=> endedFirst) /\ SeamNow.failed = {} /\ SeamNow.alive = {1}
        BY <1>10, SeamParts, SeamFields DEF Waiting, Owning
    <2>2. /\ SeamNow' \in AdapterState /\ SeamNow'.phase = "live" /\ SeamNow'.stops = unanswered
          /\ (SeamNow'.ended <=> endedFirst) /\ SeamNow'.failed = {} /\ SeamNow'.alive = {1}
        BY <1>1, <1>5, <1>10, SeamParts, SeamFieldsAfter DEF Waiting, Owning
    <2>3. /\ next \in AdapterState /\ next.phase = "live" /\ next.stops = unanswered
          /\ (next.ended <=> endedFirst) /\ next.failed = {} /\ next.alive = {1}
        BY <2>1 DEF AdapterState
    <2> HIDE DEF next
    <2>4. SeamNow' = next
        BY <2>2, <2>3, SameRecord
    <2> QED
        BY <2>1, <2>4, SeamActions DEF next
<1> QED
    BY <1>7, <1>8, <1>9, <1>11 DEF Shape

(* The end of a cleanup is handled: the Run is released or held.           *)
LEMMA HandleFinishedSeam ==
    ASSUME SeamInv, Handle, ~Absent, told # "nothing"
    PROVE  Shape' /\ SeamMoves
<1>1. /\ inbox # << >> /\ inbox' = Tail(inbox) /\ Handled(Head(inbox))
      /\ UNCHANGED <<record, owner, endedFirst, outcome, pc, call, cause>>
    BY DEF Handle, runVars, recordVars, ownerVars
<1>2. /\ Len(inbox) \in Nat /\ Len(inbox) >= 1 /\ Len(inbox') = Len(inbox) - 1
      /\ \A i \in 1..Len(inbox') : inbox'[i] = inbox[i + 1]
      /\ Head(inbox) = inbox[1] /\ inbox[1] \in Report
      /\ DOMAIN inbox = 1..Len(inbox)
    BY <1>1, SeamParts, Taken
<1>3. /\ StartedLetters /\ owner \notin {"unborn", "failed", "spawning", "spawned", "firstRound"}
      /\ record # "absent" /\ told \in {"live", "held"}
    BY <1>1, SeamParts DEF Letters, StartedLetters, Life, Absent, Told
<1>4. Announced = 0 /\ Announced' = 0
    <2>1. told' # "nothing"
        BY <1>1, <1>3 DEF Handled
    <2> QED
        BY <2>1 DEF Announced
<1>5. /\ \A i \in 1..Len(inbox) : Ending(inbox[i])
      /\ outcome.written
      /\ owner = "done" => Len(inbox) = 1
      /\ outcome.confirmed => owner = "done"
      /\ told = "held" => ~outcome.confirmed
    BY <1>2, <1>3, <1>4 DEF StartedLetters
<1>6. Ending(inbox[1]) /\ outcome.intentional = ~endedFirst
    BY <1>2, <1>5, SeamParts DEF Concluded
<1>7. /\ told' = IF outcome.confirmed THEN "released" ELSE "held"
      /\ unanswered' = IF outcome.confirmed \/ ~Owed THEN 0 ELSE unanswered
    BY <1>1, <1>2, <1>6 DEF Handled, Ending
<1>8. Life' /\ Concluded'
    BY <1>1, SeamParts DEF Life, Concluded, Absent
<1>9. \A i \in 1..Len(inbox') : Ending(inbox[i + 1])
    BY <1>2, <1>5
<1>10. Letters'
    <2>1. \A i \in 1..Len(inbox') : Ending(inbox'[i])
        BY <1>2, <1>9
    <2>2. \A i \in 1..Len(inbox') :
             /\ inbox'[i].kind = "Finished"
             /\ inbox'[i].intentional = outcome'.intentional
             /\ inbox'[i].confirmed = outcome'.confirmed
        BY <1>1, <2>1 DEF Ending
    <2>3. owner = "done" => outcome.confirmed
        BY <1>3, SeamParts DEF Life, Concluded
    <2>4. StartedLetters'
        BY <1>1, <1>2, <1>3, <1>4, <1>5, <1>7, <2>2, <2>3, SeamParts DEF StartedLetters, Ending
    <2> QED
        BY <1>1, <1>3, <2>4 DEF Letters, Absent
<1> DEFINE cleaning == IF owner \in {"begin", "clean", "report"} THEN 1 ELSE 0
           queued == IF record \in {"StopBeforeSpawn", "Pending"} THEN 1 ELSE 0
<1>11. cleaning \in 0..1 /\ cleaning' = cleaning /\ queued \in 0..1 /\ queued' = queued
    BY <1>1
<1>12. /\ EndsToCome = Len(inbox) - Announced + cleaning + queued
       /\ EndsToCome' = Len(inbox') - Announced' + cleaning' + queued'
    BY <1>1, <1>3 DEF EndsToCome
<1> HIDE DEF cleaning, queued
<1>13. /\ EndsToCome = Len(inbox) + cleaning + queued
       /\ EndsToCome' = EndsToCome - 1 /\ EndsToCome \in Nat /\ EndsToCome >= 1
    BY <1>2, <1>4, <1>11, <1>12
<1>14. /\ Owed => EndsToCome >= 2
       /\ ~Owed => EndsToCome = 1
    <2>1. owner \in {"begin", "clean"} <=> record = "Finishing"
        BY SeamParts DEF Life
    <2>2. record # "StopBeforeSpawn"
        BY <1>3, SeamParts DEF Life
    <2>3. \A i \in DOMAIN inbox : inbox[i].kind = "Finished"
        BY <1>2, <1>5 DEF Ending
    <2>4. (\E i \in DOMAIN inbox : i > 1 /\ inbox[i].kind = "Finished") <=> Len(inbox) > 1
        BY <1>2, <2>3
    <2>5. cleaning = (IF owner \in {"begin", "clean", "report"} THEN 1 ELSE 0)
        BY DEF cleaning
    <2>6. queued = (IF record = "Pending" THEN 1 ELSE 0)
        BY <2>2 DEF queued
    <2>7. Owed <=> cleaning = 1 \/ queued = 1 \/ Len(inbox) > 1
        BY <2>1, <2>4, <2>5, <2>6 DEF Owed
    <2> QED
        BY <1>2, <1>13, <1>11, <2>7
<1> DEFINE own == endedFirst /\ told = "live"
<1>15. AnswersToCome = (IF own THEN EndsToCome - 1 ELSE EndsToCome) /\ AnswersToCome' = EndsToCome'
    <2>1. AnswersToCome = EndsToCome - (IF own THEN 1 ELSE 0)
        BY <1>3 DEF AnswersToCome
    <2>2. AnswersToCome' = EndsToCome' - 0
        BY <1>1, <1>7 DEF AnswersToCome
    <2> QED
        BY <1>13, <2>1, <2>2
<1>16. /\ AnswersToCome >= 1 => unanswered >= 1
       /\ AnswersToCome >= 2 => unanswered = 2
    BY SeamParts DEF Answered
<1>17. Answered'
    <2>1. record \notin {"Spawning", "Active"}
        BY <1>5, SeamParts DEF Concluded
    <2>2. AnswersToCome' <= AnswersToCome /\ AnswersToCome \in Int /\ AnswersToCome' \in Int
        BY <1>13, <1>15
    <2>3. CASE ~outcome.confirmed /\ Owed
        BY <1>1, <1>7, <1>16, <2>1, <2>2, <2>3 DEF Answered
    <2>4. CASE ~outcome.confirmed /\ ~Owed
        <3>1. AnswersToCome' = 0
            BY <1>13, <1>14, <1>15, <2>4
        <3> QED
            BY <1>1, <2>1, <3>1 DEF Answered
    <2>5. CASE outcome.confirmed
        <3>1. owner = "done" /\ Len(inbox) = 1 /\ record = "Finished"
            BY <1>3, <1>5, <2>5, SeamParts DEF Life, Absent
        <3>2. EndsToCome = 1
            BY <1>4, <3>1 DEF EndsToCome
        <3>3. AnswersToCome' = 0
            BY <1>13, <1>15, <3>2
        <3> QED
            BY <1>1, <2>1, <3>3 DEF Answered
    <2> QED
        BY <2>3, <2>4, <2>5
<1>18. SeamMoves
    <2> DEFINE intentional == ~endedFirst
    <2>1. Phase = told
        BY <1>3 DEF Phase
    <2>2. /\ SeamNow \in AdapterState /\ SeamNow.phase = told /\ SeamNow.stops = unanswered
          /\ (SeamNow.ended <=> own) /\ SeamNow.failed = {} /\ SeamNow.alive = {1}
        BY <1>3, <2>1, SeamParts, SeamFields DEF Waiting, Owning
    <2>3. MayFinish(SeamNow, intentional)
        BY <1>3, <1>13, <1>15, <1>16, <2>2, SeamParts DEF MayFinish
    <2>4. intentional \in BOOLEAN
        BY SeamParts
    <2>5. CASE outcome.confirmed
        <3> DEFINE next == Released(SeamNow, 1)
        <3>1. Phase' = "none"
            BY <1>7, <2>5 DEF Phase
        <3>2. /\ SeamNow' \in AdapterState /\ SeamNow'.phase = "none" /\ SeamNow'.stops = 0
              /\ ~SeamNow'.ended /\ SeamNow'.failed = {} /\ SeamNow'.alive = {}
            BY <1>1, <1>7, <2>5, <3>1, SeamParts, SeamFieldsAfter DEF Waiting, Owning
        <3>3. /\ next \in AdapterState /\ next.phase = "none" /\ next.stops = 0
              /\ ~next.ended /\ next.failed = {} /\ next.alive = {}
            BY <2>2 DEF Released, AdapterState
        <3> HIDE DEF next
        <3>4. SeamNow' = next
            BY <3>2, <3>3, SameRecord
        <3> HIDE DEF intentional
        <3> QED
            BY <2>3, <2>4, <3>4, SeamActions DEF next
    <2>6. CASE ~outcome.confirmed
        <3> DEFINE next == [SeamNow EXCEPT !.phase = "held", !.ended = FALSE, !.stops = unanswered']
        <3>1. Phase' = "held"
            BY <1>1, <1>3, <1>7, <2>6 DEF Phase
        <3>2. unanswered' \in 0..2
            BY <1>7, SeamParts
        <3>3. /\ SeamNow' \in AdapterState /\ SeamNow'.phase = "held" /\ SeamNow'.stops = unanswered'
              /\ ~SeamNow'.ended /\ SeamNow'.failed = {} /\ SeamNow'.alive = {1}
            BY <1>1, <3>1, <3>2, SeamParts, SeamFieldsAfter DEF Waiting, Owning
        <3>4. /\ next \in AdapterState /\ next.phase = "held" /\ next.stops = unanswered'
              /\ ~next.ended /\ next.failed = {} /\ next.alive = {1}
            BY <2>2, <3>2 DEF AdapterState
        <3> HIDE DEF next
        <3>5. SeamNow' = next
            BY <3>3, <3>4, SameRecord
        <3>6. unanswered' \in HeldStops(SeamNow, intentional)
            <4>1. CASE unanswered = 2
                BY <2>2, <3>2, <4>1 DEF HeldStops
            <4>2. CASE unanswered # 2 /\ own
                BY <1>3, <1>7, <2>2, <4>2, SeamParts DEF HeldStops
            <4>3. CASE unanswered # 2 /\ ~own
                <5>1. unanswered' = 0
                    BY <1>7, <1>13, <1>14, <1>15, <1>16, <4>3
                <5>2. intentional \/ SeamNow.phase = "held"
                    BY <1>3, <2>2, <4>3, SeamParts
                <5> QED
                    BY <2>2, <4>3, <5>1, <5>2 DEF HeldStops
            <4> QED
                BY <4>1, <4>2, <4>3
        <3> HIDE DEF intentional
        <3> QED
            BY <2>3, <2>4, <3>5, <3>6, SeamActions DEF next
    <2> QED
        BY <2>5, <2>6
<1> QED
    BY <1>8, <1>10, <1>17, <1>18 DEF Shape

-----------------------------------------------------------------------------
(* The shared deadline and the processes do not show.                      *)
LEMMA QuietStepsSeam ==
    ASSUME SeamInv, SetProjectDeadline \/ TreeStep \/ UNCHANGED vars
    PROVE  Shape' /\ SeamMoves
<1>1. UNCHANGED shapeVars
    BY DEF shapeVars, SetProjectDeadline, TreeStep, ProcessStep, RootExits, Fork, MemberExits, vars,
       adapterVars, runVars, recordVars, ownerVars, historyVars, cleanupVars
<1> QED
    BY <1>1, UnmovedSound

LEMMA EveryStepSeam ==
    ASSUME SeamInv, [Next]_vars
    PROVE  SeamInv' /\ SeamMoves
<1>1. CASE Start \/ RunStarts \/ RunDoesNotStart \/ ReportSpawnFailure \/ Install \/ Forward
    BY <1>1, StartSeam, RunStartsSeam, RunDoesNotStartSeam, ReportSpawnFailureSeam, InstallSeam,
       ForwardSeam, StepKeepsInvariant DEF SeamInv, Shape
<1>2. CASE Claim \/ NothingToDo \/ Begin \/ Clean \/ Finish \/ SendFinished
    BY <1>2, ClaimSeam, NothingToDoSeam, BeginSeam, CleanSeam, FinishSeam, SendFinishedSeam,
       StepKeepsInvariant DEF SeamInv, Shape
<1>3. CASE Stop
    BY <1>3, RefusedStopSeam, QueuedStopSeam, StepKeepsInvariant DEF SeamInv, Shape
<1>4. CASE Handle
    BY <1>4, HandleFailureSeam, HandleSpawnedSeam, HandleFinishedSeam, StepKeepsInvariant
    DEF SeamInv, Shape
<1>5. CASE SetProjectDeadline \/ TreeStep \/ UNCHANGED vars
    BY <1>5, QuietStepsSeam, StepKeepsInvariant DEF SeamInv, Shape
<1> QED
    BY <1>1, <1>2, <1>3, <1>4, <1>5 DEF Next, OwnerStep

LEMMA InitSeam ==
    ASSUME Init
    PROVE  SeamInv /\ Seam!Init
<1>1. IInv
    BY InitIsSound
<1>2. /\ record = "absent" /\ owner = "unborn" /\ inbox = << >> /\ told = "nothing"
      /\ unanswered = 0 /\ endedFirst = FALSE
    BY DEF Init
<1>3. pc = "idle" /\ ~outcome.written /\ ~outcome.confirmed
    BY DEF Init, RunInit
<1>4. Life /\ Concluded
    BY <1>2, <1>3 DEF Life, Concluded, Absent
<1>5. Letters /\ Answered
    BY <1>2 DEF Letters, RefusedLetters, Answered, Absent
<1>6. Seam!Init
    BY <1>2 DEF Seam!Init, Phase
<1> QED
    BY <1>1, <1>4, <1>5, <1>6 DEF SeamInv

(* Where the owner thread, the record and the reports are together stays   *)
(* as SeamInv says, through every race of a stop with an exit.             *)
THEOREM SeamInvariantHolds == Spec => []SeamInv
<1>1. Init => SeamInv
    BY InitSeam
<1>2. SeamInv /\ [Next]_vars => SeamInv'
    BY EveryStepSeam
<1> QED
    BY <1>1, <1>2, PTL DEF Spec

(* The adapter of a Run (run_record.rs, own_run in runtime.rs) implements  *)
(* RunSeam: the Supervisor is told of a spawn before an end, hears of an   *)
(* unconfirmed Run again only when it asks, and of an end either as the    *)
(* Run's own, when it was claimed before every stop, or as the answer to a *)
(* stop.                                                                   *)
THEOREM AdapterKeepsTheSeam == Spec => KeepsTheSeam
<1>1. Init => Seam!Init
    BY InitSeam
<1>2. SeamInv /\ [Next]_vars => [Seam!Next]_SeamNow
    BY EveryStepSeam DEF SeamMoves
<1>3. Spec => [][Seam!Next]_SeamNow
    BY <1>2, SeamInvariantHolds, PTL DEF Spec
<1> QED
    BY <1>1, <1>3, PTL DEF Spec, KeepsTheSeam, Seam!Spec, SeamNow
=============================================================================
