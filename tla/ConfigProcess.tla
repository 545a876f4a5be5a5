---------------------------- MODULE ConfigProcess ----------------------------
(***************************************************************************)
(* From the definition of a Process to its specification: command, paths,  *)
(* Dependencies, health policies, restart policy, environment and Process  *)
(* Profiles (src/config/mod.rs, src/config/readiness.rs, src/config/env.rs)*)
(*                                                                         *)
(* A builder of the code returns its value or the first of the problems it *)
(* meets.  Here it is two operators: the problems, of which the code       *)
(* reports one, and the value, which there is when there are no problems.  *)
(***************************************************************************)
EXTENDS ConfigLayers

CONSTANTS
    EnvFiles,      \* the readable environment files, as functions from names to values
    Directories,   \* the spellings of existing directories, with the directory each is
    Programs,      \* the programs that may be launched, with what each spelling resolves to
    Urls,          \* the URLs a probe accepts, with their canonical spelling
    BaseDir        \* the directory of the base Project

LOCAL INSTANCE SequencesExt

MaxExitCode == 255

LeastExitCode == 0

None == "none"

-----------------------------------------------------------------------------
\* A later file replaces what an earlier one says.
LoadFiles(files) ==
    FoldLeft(LAMBDA values, file : EnvFiles[file] @@ values, <<>>, files)

FileProblems(files) ==
    When(\E i \in DOMAIN files : files[i] \notin DOMAIN EnvFiles, "environment file")

\* A null removes the variable of every layer below it, and is passed on to
\* remove the parent's.
BuildProcessEnvironment(file, projectEnvironment) ==
    LET inherited == LoadFiles(Option(file, "env_files", <<>>)) @@ projectEnvironment
        entries == Section(file, "environment").of
        set == {name \in DOMAIN entries : entries[name].is # "null"}
    IN [values |-> [name \in (DOMAIN inherited \ DOMAIN entries) \cup set |->
                        IF name \in set THEN entries[name].of ELSE inherited[name]],
        removals |-> DOMAIN entries \ set]

-----------------------------------------------------------------------------
\* Exactly one of a direct command and a shell expression.
CommandProblems(file) ==
    IF Given(file, "command") = Given(file, "shell") THEN {"command form"}
    ELSE IF Given(file, "shell") THEN When(file.of["shell"].of = "", "command form")
    ELSE LET command == file.of["command"].of IN
         When(command = <<>> \/ Head(command) \notin DOMAIN Programs, "program")

BuildCommand(file) ==
    IF Given(file, "shell") THEN [shell |-> file.of["shell"].of]
    ELSE [program |-> Programs[Head(file.of["command"].of)], args |-> Tail(file.of["command"].of)]

ExitCodeProblems(file) ==
    LET codes == Option(file, "success_exit_codes", <<0>>) IN
    When(\/ codes = <<>>
         \/ \E i \in DOMAIN codes : codes[i] \notin LeastExitCode..MaxExitCode
         \/ \E i, j \in DOMAIN codes : i # j /\ codes[i] = codes[j], "exit codes")

DirectoryProblems(file) ==
    When(Given(file, "cwd") /\ Option(file, "cwd", BaseDir) \notin DOMAIN Directories, "directory")

TerminalProblems(file) ==
    LET terminal == Section(file, "terminal") IN
    When(\/ Option(terminal, "mode", "pty") \notin {"pty", "pipe"}
         \/ Option(terminal, "input", "focused") \notin {"focused", "disabled"}, "terminal")

\* Only a terminal takes input unless its Process says so.
BuildTerminalSettings(file) ==
    LET terminal == Section(file, "terminal")
        mode == Option(terminal, "mode", "pty")
    IN [mode |-> mode,
        input |-> Option(terminal, "input", IF mode = "pty" THEN "focused" ELSE "disabled")]

-----------------------------------------------------------------------------
(* Health policies.                                                        *)
Leaves == {"tcp", "http", "exec", "log"}

DefaultSchedule ==
    [initial_delay |-> 0, interval |-> 2, timeout |-> 5,
     success_threshold |-> 1, failure_threshold |-> 1]

DefaultStartupTimeout == 600

\* A field the check leaves out is its parent's.
BuildSchedule(file, parent) ==
    [field \in DOMAIN parent |-> Option(file, field, parent[field])]

ScheduleProblems(file, parent) ==
    When(\E field \in DOMAIN parent \ {"initial_delay"} : BuildSchedule(file, parent)[field] = 0,
         "schedule")

ProbeProblems(file) ==
    LET given == {leaf \in Leaves : Given(file, leaf)} IN
    CASE given = {"tcp"} -> When(file.of["tcp"].of = "", "tcp")
      [] given = {"log"} -> When(file.of["log"].of = "", "log")
      [] given = {"http"} -> When(file.of["http"].of \notin DOMAIN Urls, "http")
      [] given = {"exec"} -> CommandProblems(file.of["exec"])
                                \cup DirectoryProblems(file.of["exec"])
                                \cup ExitCodeProblems(file.of["exec"])
      [] OTHER -> {"probe"}

BuildProbe(file) ==
    CASE Given(file, "tcp") -> [tcp |-> file.of["tcp"].of]
      [] Given(file, "log") -> [log |-> file.of["log"].of]
      [] Given(file, "http") -> [http |-> Urls[file.of["http"].of]]
      [] Given(file, "exec") ->
            LET exec == file.of["exec"] IN
            [command |-> BuildCommand(exec),
             cwd |-> IF Given(exec, "cwd") THEN Directories[exec.of["cwd"].of] ELSE None,
             \* a probe's null says nothing, and it has no files
             env |-> BuildProcessEnvironment(exec, <<>>).values,
             success_exit_codes |-> Option(exec, "success_exit_codes", <<0>>)]

LeafProblems(file, parent, isChild) ==
    When(Given(file, "all") \/ Given(file, "any"), "nested checks")
        \cup When(isChild /\ Given(file, "startup_timeout"), "startup timeout of a child")
        \cup ProbeProblems(file)
        \cup ScheduleProblems(file, parent)

BuildLeaf(file, parent) == BuildSchedule(file, parent) @@ [probe |-> BuildProbe(file)]

CheckProblems(file) ==
    LET children == Option(file, "all", <<>>) IN
    IF ~Given(file, "all") THEN LeafProblems(file, DefaultSchedule, FALSE)
    ELSE When(\E leaf \in Leaves : Given(file, leaf), "probe")
            \cup When(Len(children) < 2, "children")
            \cup ScheduleProblems(file, DefaultSchedule)
            \cup UNION {LeafProblems(children[i], BuildSchedule(file, DefaultSchedule), TRUE) :
                            i \in DOMAIN children}

BuildChecks(file) ==
    IF ~Given(file, "all") THEN <<BuildLeaf(file, DefaultSchedule)>>
    ELSE [i \in DOMAIN file.of["all"].of |->
            BuildLeaf(file.of["all"].of[i], BuildSchedule(file, DefaultSchedule))]

ReadinessProblems(file) ==
    IF ~Given(file, "ready") THEN {}
    ELSE When(Given(file.of["ready"], "any"), "any")
            \cup When(Option(file.of["ready"], "startup_timeout", DefaultStartupTimeout) = 0,
                      "startup timeout")
            \cup CheckProblems(file.of["ready"])

LivenessProblems(file) ==
    IF ~Given(file, "liveness") THEN {}
    ELSE When(Given(file.of["liveness"], "any"), "any")
            \cup When(Given(file.of["liveness"], "startup_timeout"), "startup timeout")
            \cup CheckProblems(file.of["liveness"])

-----------------------------------------------------------------------------
Conditions == {"started", "ready", "exited", "completed_successfully"}

DependencyProblems(file) ==
    LET needs == Section(file, "depends_on") IN
    When(\E name \in DOMAIN needs.of :
            needs.of[name].is # "scalar" \/ needs.of[name].of \notin Conditions, "condition")

BuildDependencies(file) ==
    LET needs == Section(file, "depends_on") IN
    [i \in DOMAIN needs.keys |->
        [name |-> needs.keys[i], condition |-> needs.of[needs.keys[i]].of]]

RestartProblems(file) ==
    LET restart == Section(file, "restart") IN
    When(Option(restart, "policy", "never") \notin {"never", "on_failure", "always"}, "policy")
        \cup When(Option(restart, "backoff", 2) = 0, "backoff")

BuildRestart(file) ==
    LET restart == Section(file, "restart") IN
    [policy |-> Option(restart, "policy", "never"), backoff |-> Option(restart, "backoff", 2),
     max_restarts |-> Option(restart, "max_restarts", 5),
     on_unhealthy |-> Option(restart, "on_unhealthy", FALSE)]

SpecProblems(file) ==
    When(Option(file, "kind", "service") \notin {"service", "one-shot"}, "kind")
        \cup CommandProblems(file) \cup DirectoryProblems(file) \cup TerminalProblems(file)
        \cup DependencyProblems(file) \cup ReadinessProblems(file) \cup LivenessProblems(file)
        \cup ExitCodeProblems(file) \cup RestartProblems(file)
        \cup FileProblems(Option(file, "env_files", <<>>))

BuildSpec(name, file, projectEnvironment) ==
    LET environment == BuildProcessEnvironment(file, projectEnvironment)
        terminal == BuildTerminalSettings(file)
    IN [name |-> name,
        kind |-> Option(file, "kind", "service"),
        enabled |-> Option(file, "enabled", TRUE),
        autostart |-> Option(file, "autostart", TRUE),
        success_exit_codes |-> Option(file, "success_exit_codes", <<0>>),
        restart |-> BuildRestart(file),
        command |-> BuildCommand(file),
        working_dir |-> IF Given(file, "cwd") THEN Directories[file.of["cwd"].of] ELSE BaseDir,
        env |-> environment.values,
        env_remove |-> environment.removals,
        terminal_mode |-> terminal.mode,
        input_policy |-> terminal.input,
        dependencies |-> BuildDependencies(file),
        readiness |-> IF Given(file, "ready") THEN BuildChecks(file.of["ready"]) ELSE <<>>,
        startup_timeout |-> Option(Section(file, "ready"), "startup_timeout", DefaultStartupTimeout),
        liveness |-> IF Given(file, "liveness") THEN BuildChecks(file.of["liveness"]) ELSE <<>>]

-----------------------------------------------------------------------------
(* Process Profiles.                                                       *)
ProfileFields ==
    {"command", "shell", "cwd", "env_files", "environment", "enabled", "depends_on"}

\* The Process without its Process Profiles.  One without a field may be a null.
BaseDefinition(process) ==
    IF process.is = "null" THEN EmptyMapping ELSE Drop(Drop(process, "profile"), "profiles")

ProfiledDefinition(process, label) ==
    IF label = None THEN BaseDefinition(process)
    ELSE MergeProcessProfile(BaseDefinition(process), process.of["profiles"].of[label])

PatchProblems(process, label) ==
    LET patch == process.of["profiles"].of[label] IN
    IF label = "base" THEN {"reserved Profile"}
    ELSE IF ~IsMapping(patch) THEN {"patch is no mapping"}
    ELSE IF DOMAIN patch.of \subseteq ProfileFields /\ ShapesAreValid(patch)
        THEN SpecProblems(ProfiledDefinition(process, label))
    ELSE {"patch"}

\* A problem of any Process Profile is one, selected or not.
ProfiledProblems(process) ==
    LET patches == DOMAIN Section(process, "profiles").of
        override == Option(process, "profile", "base")
    IN SpecProblems(BaseDefinition(process))
        \cup UNION {PatchProblems(process, label) : label \in patches}
        \cup When(override \notin patches \cup {"base"}, "Profile override")

\* The Process Profile that applies: the fixed one, or the selected one if the
\* Process has it.
Applied(process, selection) ==
    LET override == Option(process, "profile", None) IN
    CASE override = "base" -> None
      [] override \notin {"base", None} -> override
      [] OTHER -> IF selection \in DOMAIN Section(process, "profiles").of THEN selection ELSE None
=============================================================================
