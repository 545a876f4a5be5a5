-------------------------- MODULE EffectiveProject --------------------------
(***************************************************************************)
(* The validated Project: one Dependency graph and one specification of    *)
(* every Process for the base Project and for each Profile that can be     *)
(* selected (src/model.rs).  A Process is its position.                    *)
(***************************************************************************)
EXTENDS ConfigLayers

LOCAL INSTANCE SequencesExt

NoProfile == "no profile"

-----------------------------------------------------------------------------
(* A depth-first search in configuration order, each Process unvisited, on *)
(* the path, or explored.                                                  *)
RECURSIVE Visit(_, _, _)
Visit(index, needs, walk) ==
    IF walk.cycle # <<>> \/ walk.state[index] = "explored" THEN walk
    ELSE IF walk.state[index] = "on path" THEN
        [walk EXCEPT !.cycle =
            Append(SubSeq(walk.path, SelectInSeq(walk.path, LAMBDA i : i = index), Len(walk.path)),
                   index)]
    ELSE LET inside ==
                FoldLeft(LAMBDA sofar, dependency : Visit(dependency, needs, sofar),
                         [walk EXCEPT !.state[index] = "on path", !.path = Append(@, index)],
                         needs[index])
         IN IF inside.cycle # <<>> THEN inside
            ELSE [inside EXCEPT !.state[index] = "explored", !.path = Front(@)]

\* The Processes of one cycle, the first of them repeated, or nothing.
FindDependencyCycle(needs) ==
    FoldLeft(LAMBDA walk, index : Visit(index, needs, walk),
             [state |-> [i \in DOMAIN needs |-> "unvisited"], path |-> <<>>, cycle |-> <<>>],
             [i \in DOMAIN needs |-> i]).cycle

-----------------------------------------------------------------------------
Position(specs, name) == CHOOSE i \in DOMAIN specs : specs[i].name = name

Configured(specs, name) == \E i \in DOMAIN specs : specs[i].name = name

DependencyIndices(specs) ==
    [i \in DOMAIN specs |->
        [k \in DOMAIN specs[i].dependencies |-> Position(specs, specs[i].dependencies[k].name)]]

\* Only a One-shot exits, and only a Service becomes ready.
ConditionFits(kind, condition) ==
    CASE condition \in {"exited", "completed_successfully"} -> kind = "one-shot"
      [] condition = "ready" -> kind = "service"
      [] OTHER -> TRUE

\* What a graph may not hold.  Its cycle is looked for last, in one whose
\* Dependencies are all configured.
GraphProblems(specs) ==
    LET needs == UNION {ToSet(specs[i].dependencies) : i \in DOMAIN specs}
        found ==
            When(\E need \in needs : ~Configured(specs, need.name), "unknown Dependency")
                \cup When(\E need \in needs :
                            /\ Configured(specs, need.name)
                            /\ ~ConditionFits(specs[Position(specs, need.name)].kind,
                                              need.condition), "Dependency condition")
                \cup When(\E i \in DOMAIN specs :
                            /\ specs[i].kind = "one-shot"
                            /\ \/ specs[i].readiness # <<>> \/ specs[i].liveness # <<>>
                               \/ specs[i].restart.policy = "always", "One-shot policy")
    IN Stages(found, When(FindDependencyCycle(DependencyIndices(specs)) # <<>>, "cycle"))

\* Fault: only the base graph is looked at.
BaseGraphProblems(base, byProfile) == GraphProblems(base)

\* The base graph is looked at first, then every Profile's.
ProjectProblems(base, byProfile) ==
    UNION {GraphProblems(specs) :
            specs \in {base} \cup {byProfile[profile] : profile \in DOMAIN byProfile}}

-----------------------------------------------------------------------------
\* The Processes and the graph of one selection.
ProcessesForSelection(project, selection) ==
    IF selection \in DOMAIN project.processes_by_profile
    THEN project.processes_by_profile[selection] ELSE project.base_processes

LabelsForSelection(project, selection) ==
    IF selection \in DOMAIN project.labels_by_profile
    THEN project.labels_by_profile[selection] ELSE project.base_labels

ProcessProfile(project, index) == LabelsForSelection(project, project.selected)[index]

\* A name that is no Profile leaves the selection alone.
SelectProcessProfile(project, profile) ==
    IF profile \notin {NoProfile} \cup DOMAIN project.processes_by_profile THEN project
    ELSE [project EXCEPT
            !.processes = ProcessesForSelection(project, profile),
            !.dependency_indices = project.dependency_indices_by_profile[profile],
            !.selected = profile]

WithResolvedProfiles(base, baseLabels, byProfile, labelsByProfile, selected, settings) ==
    SelectProcessProfile(
        settings @@
        [base_processes |-> base, base_labels |-> baseLabels,
         processes_by_profile |-> byProfile, labels_by_profile |-> labelsByProfile,
         dependency_indices_by_profile |->
            (NoProfile :> DependencyIndices(base))
                @@ [profile \in DOMAIN byProfile |-> DependencyIndices(byProfile[profile])],
         processes |-> base, dependency_indices |-> DependencyIndices(base),
         selected |-> NoProfile],
        selected)

\* A terminal may be needed by a Process under any Profile.
TerminalProcesses(base, byProfile) ==
    {i \in DOMAIN base :
        \/ base[i].terminal_mode = "pty"
        \/ \E profile \in DOMAIN byProfile : byProfile[profile][i].terminal_mode = "pty"}
=============================================================================
