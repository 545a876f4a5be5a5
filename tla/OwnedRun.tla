------------------------------- MODULE OwnedRun -------------------------------
(***************************************************************************)
(* One OS process tree and the value that owns it (src/src/runtime/run.rs, *)
(* ladder.rs, process_tree.rs): how its one cleanup, on behalf of a wait   *)
(* or of a shutdown, signals the tree stage by stage, decides whether the  *)
(* tree is gone, reaps the root and writes the one outcome.                *)
(*                                                                         *)
(* The code looks at the tree in separate system calls, and the tree moves *)
(* between them: each look is a step of its own.  An enumeration is taken  *)
(* to see the group as it is at one moment, or to fail.  Signals are only  *)
(* delivered here; what a process makes of one is its own affair, so it    *)
(* may die at any time or never.                                           *)
(***************************************************************************)
EXTENDS Naturals

CONSTANTS
    Root, Members,         \* the root process and the others that may exist
    Foreign,               \* those this user may not signal (run as someone else)
    ZombieGroupRefuses     \* a group of only the exited root answers EPERM (Darwin)

ASSUME TreeAssumption ==
    /\ Root \notin Members
    /\ Foreign \subseteq Members \cup {Root}
    /\ ZombieGroupRefuses \in BOOLEAN

VARIABLES
    root,       \* "unborn", "running", "zombie" (exited, not reaped) or "reaped"
    members,    \* the other live processes of the root's group
    call,       \* the cleanup in progress or concluded: "none", "wait", "shutdown"
    pc,         \* where it is
    stage,      \* the ladder's stage: 1 interrupt, 2 terminate, 3 kill
    mode,       \* the first signal of the stage, or waiting after it
    target,     \* whom the next signal goes to
    refused,    \* signals_stopped: a signal was refused, none may follow
    outcome,    \* the RunOutcome, once written
    delivered   \* history: the highest stage some signal of which arrived

treeVars == <<root, members>>
cleanupVars == <<call, pc, stage, mode, target, refused, outcome, delivered>>
runVars == <<root, members, call, pc, stage, mode, target, refused, outcome, delivered>>

Steps == {"idle", "lookAtRoot", "lookAtMembers", "unsettled", "aim", "signal",
          "finalRoot", "finalMembers", "reap", "drain"}

Outcome == [written : BOOLEAN, intentional : BOOLEAN, confirmed : BOOLEAN]

RunTypeOK ==
    /\ root \in {"unborn", "running", "zombie", "reaped"}
    /\ members \subseteq Members
    /\ call \in {"none", "wait", "shutdown"}
    /\ pc \in Steps
    /\ stage \in 1..3
    /\ mode \in {"send", "wait"}
    /\ target \in {"group", "root"}
    /\ refused \in BOOLEAN
    /\ outcome \in Outcome
    /\ delivered \in 0..3

RunInit ==
    /\ root = "unborn"
    /\ members = {}
    /\ call = "none"
    /\ pc = "idle"
    /\ stage = 1
    /\ mode = "send"
    /\ target = "group"
    /\ refused = FALSE
    /\ outcome = [written |-> FALSE, intentional |-> FALSE, confirmed |-> FALSE]
    /\ delivered = 0

-----------------------------------------------------------------------------
(* The processes.                                                          *)

Exited == root \in {"zombie", "reaped"}

Alone == members = {}

Fork(m) ==
    /\ root = "running" \/ members # {}
    /\ m \in Members \ members
    /\ members' = members \cup {m}
    /\ UNCHANGED <<root, cleanupVars>>

MemberExits(m) ==
    /\ m \in members
    /\ members' = members \ {m}
    /\ UNCHANGED <<root, cleanupVars>>

RootExits ==
    /\ root = "running"
    /\ root' = "zombie"
    /\ UNCHANGED <<members, cleanupVars>>

ProcessStep == RootExits \/ \E m \in Members : Fork(m) \/ MemberExits(m)

(* kill(2): a group accepts a signal if one of its processes may get it.   *)
GroupAccepts ==
    \/ members \ Foreign # {}
    \/ Root \notin Foreign /\ root = "running"
    \/ Root \notin Foreign /\ root = "zombie" /\ ~ZombieGroupRefuses

Accepted == IF target = "group" THEN GroupAccepts ELSE Root \notin Foreign

-----------------------------------------------------------------------------
(* The cleanup.                                                            *)

GoTo(step) == pc' = step

(* Fault: every call cleans up.                                            *)
NeverConcluded == FALSE

(* A call that finds the outcome written returns it.                       *)
AlreadyConcluded == outcome.written

(* wait is called once the root was seen to exit (own_run in runtime.rs),  *)
(* so its own wait for that, at most 30 s, is over at once.                *)
BeginCleanup(kind) ==
    /\ pc = "idle"
    /\ ~AlreadyConcluded
    /\ call' = kind
    /\ stage' = 1
    /\ mode' = "send"
    /\ GoTo(IF refused THEN "finalRoot" ELSE "lookAtRoot")
    /\ UNCHANGED <<treeVars, target, refused, outcome, delivered>>

(* Fault: the kill stage is left out.                                      *)
NextStageShort ==
    IF stage < 2
    THEN stage' = stage + 1 /\ mode' = "send" /\ GoTo("lookAtRoot")
    ELSE GoTo("finalRoot") /\ UNCHANGED <<stage, mode>>

NextStage ==
    IF stage < 3
    THEN stage' = stage + 1 /\ mode' = "send" /\ GoTo("lookAtRoot")
    ELSE GoTo("finalRoot") /\ UNCHANGED <<stage, mode>>

(* tree_settled, first half; the second half is not evaluated unless the   *)
(* root has exited.                                                        *)
LookAtRoot ==
    /\ pc = "lookAtRoot"
    /\ GoTo(IF Exited THEN "lookAtMembers" ELSE "unsettled")
    /\ UNCHANGED <<treeVars, call, stage, mode, target, refused, outcome, delivered>>

(* Fault: a failed enumeration counts as an empty group.                   *)
SeesNobodyOrFails(step) == pc = step

(* The enumeration of the group says that nobody is left.                  *)
SeesNobody(step) == pc = step /\ Alone

(* Somebody is left, or the enumeration failed, which counts the same.     *)
SeesSomebody(step) == pc = step

FindsSettled ==
    /\ SeesNobody("lookAtMembers")
    /\ IF mode = "send"
       THEN mode' = "wait" /\ GoTo("lookAtRoot") /\ UNCHANGED stage
       ELSE NextStage
    /\ UNCHANGED <<treeVars, call, target, refused, outcome, delivered>>

FindsMembers ==
    /\ SeesSomebody("lookAtMembers")
    /\ GoTo("unsettled")
    /\ UNCHANGED <<treeVars, call, stage, mode, target, refused, outcome, delivered>>

PollAgain ==
    /\ pc = "unsettled"
    /\ mode = "wait"
    /\ GoTo("lookAtRoot")
    /\ UNCHANGED <<treeVars, call, stage, mode, target, refused, outcome, delivered>>

StageTimesOut ==
    /\ pc = "unsettled"
    /\ mode = "wait"
    /\ NextStage
    /\ UNCHANGED <<treeVars, call, target, refused, outcome, delivered>>

(* The first signal of a stage, or one sent again after a while.           *)
DecideToSignal ==
    /\ pc = "unsettled"
    /\ GoTo("aim")
    /\ UNCHANGED <<treeVars, call, stage, mode, target, refused, outcome, delivered>>

(* With nobody but the root in sight, the root alone is signalled.         *)
Aim ==
    /\ pc = "aim"
    /\ \/ SeesNobody("aim") /\ target' = "root"
       \/ SeesSomebody("aim") /\ target' = "group"
    /\ GoTo("signal")
    /\ UNCHANGED <<treeVars, call, stage, mode, refused, outcome, delivered>>

(* A refusal stops the ladder for good.                                    *)
Signal ==
    /\ pc = "signal"
    /\ \/ /\ Accepted
          /\ mode' = "wait"
          /\ GoTo("lookAtRoot")
          /\ delivered' = stage
          /\ UNCHANGED refused
       \/ /\ ~Accepted
          /\ refused' = TRUE
          /\ GoTo("finalRoot")
          /\ UNCHANGED <<mode, delivered>>
    /\ UNCHANGED <<treeVars, call, stage, target, outcome>>

-----------------------------------------------------------------------------
(* finalize_after_ladder.                                                  *)

Conclude(confirmed) ==
    /\ outcome' = [written |-> TRUE, intentional |-> call = "shutdown", confirmed |-> confirmed]
    /\ GoTo("idle")
    /\ UNCHANGED <<treeVars, call, stage, mode, target, refused, delivered>>

FinalLookAtRoot ==
    /\ pc = "finalRoot"
    /\ IF Exited
       THEN /\ GoTo("finalMembers")
            /\ UNCHANGED <<treeVars, call, stage, mode, target, refused, outcome, delivered>>
       ELSE Conclude(FALSE)

FinalLookAtMembers ==
    /\ SeesNobody("finalMembers")
    /\ GoTo("reap")
    /\ UNCHANGED <<treeVars, call, stage, mode, target, refused, outcome, delivered>>

(* Fault: the root of an abandoned tree is reaped all the same.            *)
AbandonReaping ==
    /\ SeesSomebody("finalMembers")
    /\ GoTo("reap")
    /\ UNCHANGED <<treeVars, call, stage, mode, target, refused, outcome, delivered>>

(* A tree that is not settled is abandoned: its root is not reaped, so     *)
(* that its identity stays reserved.                                       *)
Abandon == SeesSomebody("finalMembers") /\ Conclude(FALSE)

(* wait(2) on an exited child succeeds.  A PTY is drained before and a     *)
(* pipe after; nothing depends on the order here.                          *)
Reap ==
    /\ pc = "reap"
    /\ root' = "reaped"
    /\ GoTo("drain")
    /\ UNCHANGED <<members, call, stage, mode, target, refused, outcome, delivered>>

(* The output is drained and the workers joined, or some of it fails.      *)
Drain ==
    /\ pc = "drain"
    /\ Conclude(FALSE) \/ (~refused /\ SeesNobody("drain") /\ Conclude(TRUE))

LadderStep ==
    \/ LookAtRoot \/ FindsSettled \/ FindsMembers \/ PollAgain \/ StageTimesOut
    \/ DecideToSignal \/ Aim \/ Signal
    \/ FinalLookAtRoot \/ FinalLookAtMembers \/ Abandon \/ Reap \/ Drain

-----------------------------------------------------------------------------
(* Properties.                                                             *)

(* "Confirmed" is said only of a tree that is gone, whatever the processes *)
(* did between the looks (RunOutcome::cleanup_confirmed, outcome.rs).      *)
ConfirmedMeansGone == outcome.confirmed => root = "reaped" /\ members = {}

(* The root is reaped only when it is the last of its group: until then    *)
(* its unreaped entry keeps the group's number from being reused           *)
(* (ladder.rs, run.rs).                                                    *)
ReapedLast == [][root' = "reaped" /\ root # "reaped" => members = {}]_runVars

(* After a refusal, and after the root was reaped, no signal is delivered  *)
(* to that number any more, in this call or in a later one (ladder::run    *)
(* fails closed; "no signal of any kind follows a reap").                  *)
NoSignalAfterwards ==
    [][pc = "signal" /\ pc' # "signal" => ~refused /\ root # "reaped"]_runVars

(* A root that is still running is given up only after SIGKILL reached its *)
(* group or a signal was refused (the ladder's last stage).                *)
GivenUpOnlyAfterKill ==
    outcome.written /\ root = "running" => delivered = 3 \/ refused
=============================================================================
