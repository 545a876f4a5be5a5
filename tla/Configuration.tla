---------------------------- MODULE Configuration ----------------------------
(***************************************************************************)
(* Loading a Project: the documents that were found are laid over each     *)
(* other, checked, and turned into an effective Project, whose Profile     *)
(* can then be changed (src/config/mod.rs, src/model.rs), and which can be *)
(* shown as a document again (src/config/show.rs).  Sizes are in MiB and   *)
(* durations in seconds.                                                   *)
(***************************************************************************)
EXTENDS ConfigProcess, EffectiveProject

LOCAL INSTANCE SequencesExt
LOCAL INSTANCE FiniteSets

CONSTANT
    Sources    \* what there may be to load: base document, local override, Profile

VARIABLES
    sources,   \* what there is
    loaded     \* nothing yet, the problem, or the Project

configVars == <<sources, loaded>>

NoFile == [is |-> "no file"]

-----------------------------------------------------------------------------
Effective(base, local) == IF local = NoFile THEN base ELSE ApplyLocalOverride(base, local)

SourceProblems(base, local) ==
    Stages(When(~IsMapping(base) \/ Option(base, "version", 0) # 1, "version"),
    Stages(When(~ValidateShapes(base), "environment"),
    IF local = NoFile THEN {}
    ELSE Stages(When(~ValidateShapes(local), "environment"),
         Stages(OverrideProblems(local),
                When(~ValidateShapes(Effective(base, local)), "environment")))))

-----------------------------------------------------------------------------
DefaultOutput ==
    [terminal_scrollback_bytes |-> 16, terminal_project_bytes |-> 128,
     per_process_history_bytes |-> 32, global_history_bytes |-> 256]

Settings(document) == Section(document, "settings")

OutputSettings(document) ==
    [size \in DOMAIN DefaultOutput |->
        Option(Section(Settings(document), "output"), size, DefaultOutput[size])]

OutputProblems(document) ==
    LET output == OutputSettings(document) IN
    When(\/ \E size \in DOMAIN output : output[size] < 1
         \/ output.terminal_scrollback_bytes > output.terminal_project_bytes
         \/ output.per_process_history_bytes > output.global_history_bytes, "output")

\* Every Process that may use a terminal has a fixed share of the budget, and
\* a MiB beside it.
TerminalLimitForSlots(output, slots) ==
    IF slots = 0 THEN output.terminal_scrollback_bytes
    ELSE LET room == output.terminal_project_bytes
             share == (IF room > slots THEN room - slots ELSE 0) \div slots
         IN IF share < output.terminal_scrollback_bytes THEN share
            ELSE output.terminal_scrollback_bytes

BuildShell(document) ==
    LET shell == Section(Settings(document), "shell") IN
    [program |-> Option(shell, "program", "/bin/sh"), args |-> Option(shell, "args", <<"-c">>)]

ShellProblems(document) ==
    LET shell == Section(Settings(document), "shell") IN
    When(/\ Given(Settings(document), "shell")
         /\ \/ Option(shell, "program", "") = "" \/ Option(shell, "args", <<"-c">>) = <<>>, "shell")

-----------------------------------------------------------------------------
Groups(document) == Section(document, "groups")

Members(document) ==
    FlattenSeq([i \in DOMAIN Groups(document).keys |->
                    Groups(document).of[Groups(document).keys[i]].of])

GroupProblems(document) ==
    LET groups == Groups(document)
        members == Members(document)
    IN When(\E group \in DOMAIN groups.of : group \in {"", "Other"} \/ groups.of[group].of = <<>>,
            "Process Group")
        \cup When(\/ ~(ToSet(members) \subseteq DOMAIN Section(document, "processes").of)
                  \/ Cardinality(ToSet(members)) # Len(members), "Process Group")

\* Grouped Processes first, by Process Group, and then the others.
ProcessOrder(document) ==
    Members(document)
        \o SelectSeq(Section(document, "processes").keys,
                     LAMBDA name : name \notin ToSet(Members(document)))

ProcessGroup(document, name) ==
    LET groups == {g \in DOMAIN Groups(document).of : name \in ToSet(Groups(document).of[g].of)} IN
    IF groups = {} THEN None ELSE CHOOSE group \in groups : TRUE

-----------------------------------------------------------------------------
ProcessesOf(document) ==
    {Section(document, "processes").of[name] : name \in DOMAIN Section(document, "processes").of}

ProfileNames(document) ==
    DOMAIN Section(document, "profiles").of
        \cup UNION {DOMAIN Section(process, "profiles").of : process \in ProcessesOf(document)}

NameProblems(document, request) ==
    LET shown == Option(document, "base_profile_name", "base") IN
    When(shown = "" \/ (shown # "base" /\ shown \in ProfileNames(document)), "base_profile_name")
        \cup When("base" \in DOMAIN Section(document, "profiles").of, "reserved Profile")
        \cup When(request \notin {NoProfile} \cup ProfileNames(document), "unknown Profile")

\* A Project Profile's environment files replace the Project's.
ReplacesEnvironment(document, selection) ==
    /\ selection \in DOMAIN Section(document, "profiles").of
    /\ Given(Section(document, "profiles").of[selection], "env_files")

ProjectFiles(document, selection) ==
    IF ReplacesEnvironment(document, selection)
    THEN Section(document, "profiles").of[selection].of["env_files"].of
    ELSE Option(document, "env_files", <<>>)

\* What every Process is under a selection ...
ResolveProfile(document, selection) ==
    [i \in DOMAIN ProcessOrder(document) |->
        LET name == ProcessOrder(document)[i]
            process == Section(document, "processes").of[name]
        IN BuildSpec(name, ProfiledDefinition(process, Applied(process, selection)),
                     LoadFiles(ProjectFiles(document, selection)))]

\* ... and what it is called: the whole selection counts where it has other
\* environment files.
ResolveLabels(document, selection) ==
    [i \in DOMAIN ProcessOrder(document) |->
        IF ReplacesEnvironment(document, selection) THEN selection
        ELSE Applied(Section(document, "processes").of[ProcessOrder(document)[i]], selection)]

DefinitionProblems(document) ==
    UNION {ProfiledProblems(process) : process \in ProcessesOf(document)}
        \cup UNION {FileProblems(ProjectFiles(document, selection)) :
                        selection \in {NoProfile} \cup ProfileNames(document)}

-----------------------------------------------------------------------------
(* Loading.                                                                *)
DeclarationProblems(document) ==
    When(\E section \in {"groups", "processes"} :
            Has(document, section) /\ ~IsMapping(document.of[section]), "no mapping")
        \cup OutputProblems(document) \cup ShellProblems(document)

BuildProject(document, request, base, byProfile) ==
    WithResolvedProfiles(
        base, ResolveLabels(document, NoProfile),
        byProfile, [profile \in ProfileNames(document) |-> ResolveLabels(document, profile)],
        request,
        [is |-> "project", output |-> OutputSettings(document), shell |-> BuildShell(document),
         base_profile_name |-> Option(document, "base_profile_name", "base"),
         process_groups |-> [i \in DOMAIN ProcessOrder(document) |->
                                ProcessGroup(document, ProcessOrder(document)[i])]])

Failed(problem) == [is |-> "failed", problem |-> problem]

Outcomes(problems, otherwise) ==
    IF problems = {} THEN otherwise ELSE {Failed(problem) : problem \in problems}

ProjectOutcomes(document, request, base, byProfile) ==
    Outcomes(
        Stages(ProjectProblems(base, byProfile),
               When(TerminalLimitForSlots(OutputSettings(document),
                        Cardinality(TerminalProcesses(base, byProfile))) < 1, "terminal share")),
        {BuildProject(document, request, base, byProfile)})

\* What may come of a document: a Project, or one of its problems.  One that has
\* no mapping of Processes is taken for one with none, until the definitions are
\* looked up in that mapping: a panic.
LoadOutcomes(document, request) ==
    Outcomes(
        Stages(DeclarationProblems(document),
        Stages(When(~Has(document, "processes"), "panic"),
        Stages(GroupProblems(document) \cup NameProblems(document, request),
               DefinitionProblems(document)))),
        ProjectOutcomes(document, request, ResolveProfile(document, NoProfile),
            [profile \in ProfileNames(document) |-> ResolveProfile(document, profile)]))

-----------------------------------------------------------------------------
(* The Project as a document: what the selected Profile makes of every     *)
(* Process, without the values of environments.  What show.rs leaves out   *)
(* is null here, or its default.                                           *)
Redacted == "<redacted>"

RedactedValues(env) == [name \in DOMAIN env |-> Redacted]

EnvironmentNode(env, removed) ==
    [is |-> "mapping",
     keys |-> SetToSeq(DOMAIN env \cup removed),
     of |-> [name \in DOMAIN env \cup removed |->
                IF name \in removed THEN Null ELSE Scalar(Redacted)]]

ShowCommand(command) ==
    IF "shell" \in DOMAIN command THEN <<"shell", Scalar(command.shell)>>
    ELSE <<"command", Scalar(<<command.program>> \o command.args)>>

ShowProbe(probe) ==
    CASE "tcp" \in DOMAIN probe -> <<"tcp", Scalar(probe.tcp)>>
      [] "log" \in DOMAIN probe -> <<"log", Scalar(probe.log)>>
      [] "http" \in DOMAIN probe -> <<"http", Scalar(probe.http)>>
      [] OTHER -> <<"exec", Mapping(
            <<ShowCommand(probe.command),
              <<"cwd", IF probe.cwd = None THEN Null ELSE Scalar(probe.cwd)>>,
              <<"environment", EnvironmentNode(probe.env, {})>>,
              <<"success_exit_codes", Scalar(probe.success_exit_codes)>>>>)>>

ShowCheck(check) ==
    Mapping(<<ShowProbe(check.probe), <<"initial_delay", Scalar(check.initial_delay)>>,
              <<"interval", Scalar(check.interval)>>, <<"timeout", Scalar(check.timeout)>>,
              <<"success_threshold", Scalar(check.success_threshold)>>,
              <<"failure_threshold", Scalar(check.failure_threshold)>>>>)

\* A single check stands for itself.
ShowChecks(checks) ==
    IF Len(checks) = 1 THEN ShowCheck(checks[1])
    ELSE Mapping(<<<<"all", List([i \in DOMAIN checks |-> ShowCheck(checks[i])])>>>>)

ShowDependencies(needs) ==
    Mapping([i \in DOMAIN needs |-> <<needs[i].name, Scalar(needs[i].condition)>>])

ShowTerminal(spec) ==
    Mapping(<<<<"mode", Scalar(spec.terminal_mode)>>, <<"input", Scalar(spec.input_policy)>>>>)

ShowRestart(restart) ==
    Mapping(<<<<"policy", Scalar(restart.policy)>>, <<"backoff", Scalar(restart.backoff)>>,
              <<"max_restarts", Scalar(restart.max_restarts)>>,
              <<"on_unhealthy", Scalar(restart.on_unhealthy)>>>>)

ShowProcess(spec) ==
    Mapping(
        <<<<"kind", Scalar(spec.kind)>>, <<"enabled", Scalar(spec.enabled)>>,
          <<"autostart", Scalar(spec.autostart)>>, <<"cwd", Scalar(spec.working_dir)>>,
          <<"environment", EnvironmentNode(spec.env, spec.env_remove)>>,
          <<"terminal", ShowTerminal(spec)>>,
          <<"success_exit_codes", Scalar(spec.success_exit_codes)>>,
          <<"depends_on", ShowDependencies(spec.dependencies)>>,
          <<"ready", IF spec.readiness = <<>> THEN Null
                     ELSE Insert(ShowChecks(spec.readiness), "startup_timeout",
                                 Scalar(spec.startup_timeout))>>,
          <<"liveness", IF spec.liveness = <<>> THEN Null ELSE ShowChecks(spec.liveness)>>,
          <<"restart", ShowRestart(spec.restart)>>, ShowCommand(spec.command)>>)

ShowGroups(project) ==
    LET places == DOMAIN project.processes
        named == {i \in places : project.process_groups[i] # None}
        first == SelectSeq([i \in places |-> i],
            LAMBDA i : /\ i \in named
                       /\ \A k \in 1..(i - 1) : project.process_groups[k] # project.process_groups[i])
        InGroup(i) == SelectSeq([k \in places |-> k],
            LAMBDA k : project.process_groups[k] = project.process_groups[i])
    IN Mapping([g \in DOMAIN first |->
            <<project.process_groups[first[g]],
              Scalar([k \in DOMAIN InGroup(first[g]) |->
                        project.processes[InGroup(first[g])[k]].name])>>])

ShowSettings(project) ==
    Mapping(<<<<"shell", Mapping(<<<<"program", Scalar(project.shell.program)>>,
                                   <<"args", Scalar(project.shell.args)>>>>)>>,
              <<"output", [is |-> "mapping", keys |-> SetToSeq(DOMAIN project.output),
                           of |-> [size \in DOMAIN project.output |-> Scalar(project.output[size])]]>>>>)

ShowProject(project) ==
    Mapping(
        <<<<"version", Scalar(1)>>, <<"base_profile_name", Scalar(project.base_profile_name)>>,
          <<"groups", ShowGroups(project)>>,
          <<"processes", Mapping([i \in DOMAIN project.processes |->
                            <<project.processes[i].name, ShowProcess(project.processes[i])>>])>>,
          <<"settings", ShowSettings(project)>>>>)

-----------------------------------------------------------------------------
Init == sources \in Sources /\ loaded = [is |-> "unread"]

Load ==
    /\ loaded.is = "unread"
    /\ loaded' \in Outcomes(SourceProblems(sources.base, sources.local),
                            LoadOutcomes(Effective(sources.base, sources.local), sources.request))
    /\ UNCHANGED sources

\* By the user, while the Project runs.
Select ==
    /\ loaded.is = "project"
    /\ \E profile \in {NoProfile, "unknown"} \cup DOMAIN loaded.processes_by_profile :
        loaded' = SelectProcessProfile(loaded, profile)
    /\ UNCHANGED sources

Next == Load \/ Select

Spec == Init /\ [][Next]_configVars

-----------------------------------------------------------------------------
(* Properties.                                                             *)
IsProject == loaded.is = "project"

Selections == {NoProfile} \cup DOMAIN loaded.processes_by_profile

Document == Effective(sources.base, sources.local)

\* The Processes that i needs, at any distance.
RECURSIVE ReachedFrom(_, _)
ReachedFrom(needs, places) ==
    LET next == places \cup UNION {ToSet(needs[i]) : i \in places} IN
    IF next = places THEN places ELSE ReachedFrom(needs, next)

NeedsItself(needs) == {i \in DOMAIN needs : i \in ReachedFrom(needs, ToSet(needs[i]))}

CheckCanRun(check) ==
    /\ check.interval > 0 /\ check.timeout > 0
    /\ check.success_threshold > 0 /\ check.failure_threshold > 0

\* A loaded Project runs, under every Profile that can be selected later: its
\* Dependencies are there and are no cycle, they wait for what their Process can
\* do, its health policies can pass and fail, and the terminals of all its
\* Processes fit the budget at once (with_resolved_profiles; the Supervisor
\* assumes all of it).
LoadedProjectCanRun ==
    IsProject =>
        /\ \A selection \in Selections :
            LET specs == ProcessesForSelection(loaded, selection)
                needs == loaded.dependency_indices_by_profile[selection]
            IN /\ NeedsItself(needs) = {}
               /\ \A i \in DOMAIN specs :
                    /\ Len(needs[i]) = Len(specs[i].dependencies)
                    /\ \A k \in DOMAIN needs[i] :
                        /\ specs[needs[i][k]].name = specs[i].dependencies[k].name
                        /\ specs[i].dependencies[k].condition = "ready" =>
                            specs[needs[i][k]].kind = "service"
                        /\ specs[i].dependencies[k].condition
                            \in {"exited", "completed_successfully"} =>
                            specs[needs[i][k]].kind = "one-shot"
                    /\ \A c \in DOMAIN specs[i].readiness : CheckCanRun(specs[i].readiness[c])
                    /\ \A c \in DOMAIN specs[i].liveness : CheckCanRun(specs[i].liveness[c])
        /\ LET slots == Cardinality({i \in DOMAIN loaded.processes :
                            loaded.processes[i].terminal_mode = "pty"})
               limit == TerminalLimitForSlots(loaded.output, slots)
           IN slots > 0 =>
                limit >= 1 /\ slots * (limit + 1) <= loaded.output.terminal_project_bytes

\* A Project is rejected for a cycle only if a Process of one of its graphs needs
\* itself, and the cycle that is reported is one: every Process of it needs the
\* next, none comes twice, and it closes (find_dependency_cycle).
RejectedCycleIsReal ==
    (loaded.is = "failed" /\ loaded.problem = "cycle") =>
        \E selection \in {NoProfile} \cup ProfileNames(Document) :
            LET needs == DependencyIndices(ResolveProfile(Document, selection))
                cycle == FindDependencyCycle(needs)
            IN /\ NeedsItself(needs) # {}
               /\ Len(cycle) > 1 /\ cycle[1] = cycle[Len(cycle)]
               /\ Cardinality(ToSet(cycle)) = Len(cycle) - 1
               /\ \A k \in 1..(Len(cycle) - 1) : cycle[k + 1] \in ToSet(needs[cycle[k]])

\* The layers that may mention a variable, from the lowest to the highest.
Inline(process) == Section(process, "environment").of

FileLayer(files) == [name \in DOMAIN LoadFiles(files) |-> Scalar(LoadFiles(files)[name])]

LastGiven(nodes, key, default) ==
    LET given == {i \in DOMAIN nodes : Given(nodes[i], key)} IN
    IF given = {} THEN default
    ELSE nodes[CHOOSE i \in given : \A k \in given : k <= i].of[key].of

PatchOf(process, label) ==
    IF Given(process, "profiles") THEN Section(process.of["profiles"], label) ELSE EmptyMapping

EnvironmentLayers(name, selection) ==
    LET local == IF sources.local = NoFile THEN EmptyMapping ELSE sources.local
        Of(document) == Section(Section(document, "processes"), name)
        label == Applied(Of(Document), selection)
        definitions == <<Of(sources.base), Of(local),
                         PatchOf(Of(sources.base), label), PatchOf(Of(local), label)>>
    IN <<FileLayer(ProjectFiles(Document, selection)),
         FileLayer(LastGiven(definitions, "env_files", <<>>))>>
        \o [i \in DOMAIN definitions |-> Inline(definitions[i])]

\* A variable has the value of the last layer that mentions it, and is removed
\* if that layer says null: the Project's files, the Process's files, and then
\* the base document, the local override and the Process Profile of each
\* (build_process_environment, merge_environment_mapping).
LastLayerWins ==
    IsProject => \A selection \in Selections : \A i \in DOMAIN loaded.processes :
        LET spec == ProcessesForSelection(loaded, selection)[i]
            layers == EnvironmentLayers(spec.name, selection)
            names == UNION {DOMAIN layers[k] : k \in DOMAIN layers}
        IN /\ DOMAIN spec.env \cup spec.env_remove = names
           /\ DOMAIN spec.env \cap spec.env_remove = {}
           /\ \A name \in names :
                LET last == CHOOSE k \in DOMAIN layers :
                        /\ name \in DOMAIN layers[k]
                        /\ \A m \in (k + 1)..Len(layers) : name \notin DOMAIN layers[m]
                IN IF layers[last][name].is = "null" THEN name \in spec.env_remove
                   ELSE name \in DOMAIN spec.env /\ spec.env[name] = layers[last][name].of

\* A selection is whole: Processes and graph are of the selected Profile.  A
\* Process that keeps its label across a selection keeps its specification, so
\* that nothing is pending for its Run; only a Process with a fixed Process
\* Profile can hide a change of environment files, under the Project Profile of
\* the same name (resolve_profile, select_process_profile).
SelectionIsWhole ==
    IsProject =>
        /\ loaded.processes = ProcessesForSelection(loaded, loaded.selected)
        /\ loaded.dependency_indices = DependencyIndices(loaded.processes)
        /\ \A one, other \in Selections : \A i \in DOMAIN loaded.processes :
            LabelsForSelection(loaded, one)[i] = LabelsForSelection(loaded, other)[i] =>
                \/ ProcessesForSelection(loaded, one)[i] = ProcessesForSelection(loaded, other)[i]
                \/ LET fixed == Option(Section(Section(Document, "processes"),
                                               loaded.processes[i].name), "profile", None)
                   IN fixed \in {one, other} /\ ReplacesEnvironment(Document, fixed)

WithoutValues(checks) ==
    [c \in DOMAIN checks |->
        IF "env" \in DOMAIN checks[c].probe
        THEN [checks[c] EXCEPT !.probe.env = RedactedValues(@)] ELSE checks[c]]

Comparable(spec) ==
    [spec EXCEPT !.env = RedactedValues(@), !.readiness = WithoutValues(@),
                 !.liveness = WithoutValues(@)]

\* The shown Project is one: loading it gives the same Processes, in the same
\* order and the same Process Groups, with the same policies (show.rs).
ShownProjectLoads ==
    IsProject =>
        \A again \in LoadOutcomes(ShowProject(loaded), NoProfile) :
            /\ again.is = "project"
            /\ again.process_groups = loaded.process_groups
            /\ again.output = loaded.output /\ again.shell = loaded.shell
            /\ Len(again.processes) = Len(loaded.processes)
            /\ \A i \in DOMAIN again.processes :
                Comparable(again.processes[i]) = Comparable(loaded.processes[i])
=============================================================================
