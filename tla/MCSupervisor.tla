----------------------------- MODULE MCSupervisor -----------------------------
(***************************************************************************)
(* Projects small enough for TLC: the constants of Supervisor for each     *)
(* configuration.  Each names the behaviours it is built to reach.         *)
(***************************************************************************)
EXTENDS Supervisor, TLC

NoDependencies == [p \in Processes |-> [d \in Processes |-> "none"]]

BaseOnly(depends) == [m \in Profiles |-> depends]

BaseDependencies == BaseOnly(NoDependencies)

BaseLabels == [m \in Profiles |-> [p \in Processes |-> m]]

AllEnabled == [m \in Profiles |-> Processes]

NoProcess == [p \in Processes |-> FALSE]

NoPolicy == [p \in Processes |-> "None"]

(* pair: a Service that is restarted once on failure and needs a completed *)
(* One-shot configured after it.                                           *)
PairKind == <<"Service", "OneShot">>
PairPolicy == <<"on-failure", "never">>
PairRestarts == <<1, 0>>
PairDepends == BaseOnly([NoDependencies EXCEPT ![1][2] = "completed_successfully"])
PairRequests == {"Start", "Stop", "Restart", "Rerun", "Shutdown"}
PairAutostart == {1}

(* chain: three Services, each needing the one before it started.          *)
ChainKind == <<"Service", "Service", "Service">>
ChainPolicy == <<"never", "never", "on-failure">>
ChainRestarts == <<0, 0, 1>>
ChainDepends ==
    BaseOnly([NoDependencies EXCEPT ![2][1] = "started", ![3][2] = "started"])
ChainAutostart == {1, 2, 3}
ChainRequests == {"StartAutostart", "Shutdown"}

(* profiles: a database whose readiness is a log line under a startup      *)
(* timeout and whose liveness, of several probes, replaces it; only        *)
(* Profile 1 enables the Service that needs it ready and has several       *)
(* probes of its own.                                                      *)
ProfilesKind == <<"Service", "Service">>
ProfilesPolicy == <<"always", "never">>
ProfilesRestarts == <<1, 0>>
ProfilesOnUnhealthy == <<TRUE, FALSE>>
ProfilesReadiness == <<"Log", "Probes">>
ProfilesTimeout == <<TRUE, FALSE>>
ProfilesLiveness == <<"Probes", "None">>
ProfilesEnabled == (0 :> {1}) @@ (1 :> {1, 2})
ProfilesDepends ==
    (0 :> NoDependencies) @@ (1 :> [NoDependencies EXCEPT ![2][1] = "ready"])
ProfilesAutostart == {1, 2}
ProfilesRequests ==
    {"StartAutostart", "StartAnyway", "SelectProfile", "RestartProfiledAutostart"}

(* progress: a Service with a startup timeout and a retry, and a Service   *)
(* configured before it that needs it ready.                               *)
ProgressKind == <<"Service", "Service">>
ProgressPolicy == <<"never", "on-failure">>
ProgressRestarts == <<0, 1>>
ProgressReadiness == <<"None", "Probe">>
ProgressTimeout == <<FALSE, TRUE>>
ProgressDepends == BaseOnly([NoDependencies EXCEPT ![1][2] = "ready"])
ProgressAutostart == {1}
ProgressRequests == {"StartAutostart", "StopAll", "Shutdown"}

(* The instances of the runs that disagree with the documentation.         *)
OnlyServices == [p \in Processes |-> "Service"]
NeverRestarted == [p \in Processes |-> "never"]
NoRestarts == [p \in Processes |-> 0]
StopRequests == {"Start", "Stop"}
RestartRequests == {"Start", "Restart"}
NoAutostart == {}
=============================================================================
