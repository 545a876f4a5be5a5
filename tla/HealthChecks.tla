----------------------------- MODULE HealthChecks -----------------------------
(***************************************************************************)
(* How one applied check result can move the aggregate state of a policy.  *)
(*                                                                         *)
(* The Supervisor core reacts to the aggregate state of a CheckSet         *)
(* (src/src/supervisor/checks.rs) and to nothing inside it, so             *)
(* Supervisor.tla takes from here the set of aggregate states one accepted *)
(* result may lead to.  CheckSet.tla models the set itself, with its       *)
(* attempts, thresholds and deadlines, and checks that it never moves      *)
(* otherwise.                                                              *)
(*                                                                         *)
(* A policy is "None", one "Probe", one "Log" matcher, several "Probes",   *)
(* or a "Mixed" set of probes and log matchers.                            *)
(***************************************************************************)

AggregateStates == {"Pending", "Passing", "Failing"}

Policies == {"None", "Probe", "Log", "Probes", "Mixed"}

(* Readiness: no child fails before it has passed once, and no child       *)
(* returns to Pending.  With several children the aggregate still can: one *)
(* recovers from Failing while another has never passed.                   *)
ReadinessMoves(policy, state) ==
    CASE policy = "Log" ->
            IF state = "Pending" THEN {"Passing"} ELSE {}
      [] policy = "Probe" ->
            IF state = "Pending" THEN {"Pending", "Passing"} ELSE {"Passing", "Failing"}
      [] policy \in {"Probes", "Mixed"} ->
            IF state = "Passing" THEN {"Passing", "Failing"} ELSE AggregateStates
      [] OTHER -> {}

(* Liveness: a child may fail before it has passed.                        *)
LivenessMoves(policy, state) ==
    CASE policy \in {"Probe", "Log"} ->
            IF state = "Pending" THEN AggregateStates ELSE {"Passing", "Failing"}
      [] policy \in {"Probes", "Mixed"} ->
            IF state = "Passing" THEN {"Passing", "Failing"} ELSE AggregateStates
      [] OTHER -> {}
=============================================================================
