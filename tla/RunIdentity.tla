----------------------------- MODULE RunIdentity ------------------------------
(***************************************************************************)
(* What the Supervisor promises about the Runs of one Process, whatever    *)
(* its users, its adapter and its timers do: identities are used once and  *)
(* in order, an identity is held until the OS process tree behind it is    *)
(* confirmed gone, the next one is admitted only then, and once the        *)
(* session is closed none is admitted any more.                            *)
(***************************************************************************)
EXTENDS Naturals

VARIABLES
    run,      \* the identity held now, 0 for none
    next,     \* the identity of the next Run
    alive,    \* the Runs that own an OS process tree
    closed    \* the Project shutdown began

runVars == <<run, next, alive, closed>>

Init ==
    /\ run = 0
    /\ next = 1
    /\ alive = {}
    /\ closed = FALSE

(* From no Run, or from one whose end this very step confirms.             *)
Admit ==
    /\ ~closed
    /\ run' = next
    /\ next' = next + 1
    /\ alive' = {run'}
    /\ closed' = closed
    /\ run = 0 => alive = {}

(* The worker could not start the Run; its identity is held a while more.  *)
NeverSpawned ==
    /\ alive' = {}
    /\ UNCHANGED <<run, next, closed>>

Release ==
    /\ run # 0
    /\ run' = 0
    /\ alive' = {}
    /\ UNCHANGED <<next, closed>>

Close ==
    /\ closed' = TRUE
    /\ UNCHANGED <<run, next, alive>>

Next == Admit \/ NeverSpawned \/ Release \/ Close

Spec == Init /\ [][Next]_runVars
=============================================================================
