-------------------------------- MODULE RunSeam --------------------------------
(***************************************************************************)
(* The runtime adapter as the Supervisor relies on it, for one Run: what   *)
(* it may report, in which order, and how stop requests are answered.  The *)
(* actions are those that Supervisor takes on its adapter variable.        *)
(***************************************************************************)
EXTENDS SeamState

VARIABLE seam

ThisRun == 1

Init ==
    seam = [phase |-> "none", stops |-> 0, ended |-> FALSE, failed |-> {}, alive |-> {}]

Reserve == seam.phase = "none" /\ seam' = Reserved(seam, ThisRun)

Spawn == seam.phase = "spawning" /\ seam' = [seam EXCEPT !.phase = "early"]

SpawnFails == seam.phase = "spawning" /\ seam' = NeverStarted(seam, ThisRun)

ReportSpawned == seam.phase = "early" /\ seam' = [seam EXCEPT !.phase = "live"]

Stop == seam.phase # "none" /\ seam' = Contacted(seam)

EndByItself ==
    /\ seam.phase \in {"early", "live"}
    /\ seam.stops = 0
    /\ seam' = [seam EXCEPT !.ended = TRUE]

Finish(intentional) ==
    /\ MayFinish(seam, intentional)
    /\ \/ seam' = Released(seam, ThisRun)
       \/ \E stops \in HeldStops(seam, intentional) :
             seam' = [seam EXCEPT !.phase = "held", !.ended = FALSE, !.stops = stops]

ReportFailed(kind) ==
    /\ seam.phase = "gone"
    /\ kind \in seam.failed
    /\ \/ seam' = Released(seam, ThisRun)
       \/ seam' = [seam EXCEPT !.failed = @ \ {kind}]

Next ==
    \/ Reserve \/ Spawn \/ SpawnFails \/ ReportSpawned \/ Stop \/ EndByItself
    \/ \E intentional \in BOOLEAN : Finish(intentional)
    \/ \E kind \in {"Configuration", "Spawn"} : ReportFailed(kind)

Spec == Init /\ [][Next]_seam
=============================================================================
