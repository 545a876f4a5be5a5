------------------------------ MODULE MCCheckSet ------------------------------
(* Instances of CheckSet for TLC: one probe and one log matcher.           *)
EXTENDS CheckSet, TLC

CONSTANTS probe, log

MCProbes == {probe}
MCLogs == {log}
MCSuccess == (probe :> 2) @@ (log :> 1)
MCFailure == (probe :> 2) @@ (log :> 2)
=============================================================================
