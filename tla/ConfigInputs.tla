---------------------------- MODULE ConfigInputs ----------------------------
(***************************************************************************)
(* What the checked instance of Configuration loads.                       *)
(***************************************************************************)
EXTENDS ConfigLayers, FiniteSets

NoSource == [is |-> "no file"]

SomeFiles ==
    ("base.env" :> [V |-> "project"]) @@ ("cloud.env" :> [V |-> "cloud", W |-> "cloud"])
        @@ ("api.env" :> [V |-> "process"])

SomeDirectories == ("web" :> "/project/web") @@ ("/project/web" :> "/project/web")
                    @@ ("/project" :> "/project")

SomePrograms == ("run" :> "run") @@ ("./run" :> "/project/run") @@ ("/project/run" :> "/project/run")

SomeUrls == ("http://host" :> "http://host:80/") @@ ("http://host:80/" :> "http://host:80/")

Run == <<"command", Scalar(<<"run">>)>>

Document(entries) == Mapping(<<<<"version", Scalar(1)>>>> \o entries)

Processes(entries) == <<"processes", Mapping(entries)>>

Alone(base) == [base |-> base, local |-> NoSource, request |-> "no profile"]

\* An entry, if there is one.
Entry(key, choice) == IF choice = NoSource THEN <<>> ELSE <<<<key, choice>>>>

-----------------------------------------------------------------------------
(* Every graph of three Services, the Dependencies of the last of which are *)
(* those of a Process Profile.                                             *)
Needs(names) ==
    <<"depends_on", Mapping(SelectSeq(<<<<"a", Scalar("started")>>, <<"b", Scalar("ready")>>,
                                       <<"c", Scalar("started")>>>>,
                                     LAMBDA need : need[1] \in names))>>

Graphs ==
    {Alone(Document(<<Processes(<<<<"a", Mapping(<<Run, Needs(A)>>)>>, <<"b", Mapping(<<Run, Needs(B)>>)>>,
        <<"c", Mapping(<<Run, <<"profiles", Mapping(<<<<"p", Mapping(<<Needs(C)>>)>>>>)>>>>)>>>>)>>)) :
        A, B, C \in SUBSET {"a", "b", "c"}}

-----------------------------------------------------------------------------
(* What every layer may say of one variable.                               *)
Says(values) == {NoSource} \cup {Mapping(<<<<"V", value>>>>) : value \in values}

Environments ==
    {[base |-> Document(
        <<<<"env_files", Scalar(<<"base.env">>)>>, <<"profiles", Mapping(Entry("p", project))>>,
          Processes(<<<<"api", Mapping(
            <<Run>> \o Entry("env_files", files) \o Entry("environment", inline) \o Entry("profile", fixed)
                \o <<<<"profiles", Mapping(<<<<"p", Mapping(Entry("environment", patch))>>>>)>>>>)>>>>)>>),
      local |-> IF local = NoSource THEN NoSource
                ELSE Mapping(<<Processes(<<<<"api", Mapping(
                        <<<<"environment", local>>, <<"profiles", Mapping(<<<<"p", Mapping(
                            <<<<"environment", Mapping(<<<<"W", Null>>>>)>>>>)>>>>)>>>>)>>>>)>>),
      request |-> request] :
        project \in {NoSource, Mapping(<<<<"env_files", Scalar(<<>>)>>>>),
                     Mapping(<<<<"env_files", Scalar(<<"cloud.env">>)>>>>)},
        files \in {NoSource, Scalar(<<"api.env">>)},
        inline \in Says({Scalar("inline")}), local \in Says({Scalar("local"), Null}),
        patch \in Says({Scalar("patch"), Null}), fixed \in {NoSource, Scalar("base"), Scalar("p")},
        request \in {"p"}}

-----------------------------------------------------------------------------
(* Fields of one Process, each with values that are accepted and not.      *)
Check(entries) == Mapping(<<<<"tcp", Scalar("host")>>>> \o entries)

Exec == Mapping(<<<<"shell", Scalar("probe")>>, <<"environment", Mapping(<<<<"V", Scalar("v")>>>>)>>,
                  <<"success_exit_codes", Scalar(<<0, 3>>)>>>>)

All(children, entries) == Mapping(<<<<"all", List(children)>>>> \o entries)

Field ==
    {<<"kind", Scalar("one-shot")>>, <<"kind", Scalar("daemon")>>, <<"cwd", Scalar("web")>>,
     <<"cwd", Scalar("nowhere")>>, <<"enabled", Scalar(FALSE)>>, <<"autostart", Scalar(FALSE)>>,
     <<"shell", Scalar("both forms")>>, <<"environment", List(<<>>)>>,
     <<"env_files", Scalar(<<"missing.env">>)>>, <<"profile", Scalar("unknown")>>,
     <<"terminal", Mapping(<<<<"mode", Scalar("pipe")>>>>)>>,
     <<"terminal", Mapping(<<<<"mode", Scalar("tty")>>>>)>>,
     <<"success_exit_codes", Scalar(<<0, 255>>)>>, <<"success_exit_codes", Scalar(<<>>)>>,
     <<"success_exit_codes", Scalar(<<256>>)>>, <<"success_exit_codes", Scalar(<<1, 1>>)>>,
     <<"restart", Mapping(<<<<"policy", Scalar("always")>>, <<"max_restarts", Scalar(0)>>>>)>>,
     <<"restart", Mapping(<<<<"policy", Scalar("once")>>>>)>>,
     <<"restart", Mapping(<<<<"backoff", Scalar(0)>>>>)>>,
     <<"profiles", Mapping(<<<<"base", EmptyMapping>>>>)>>,
     <<"profiles", Mapping(<<<<"p", Mapping(<<<<"kind", Scalar("one-shot")>>>>)>>>>)>>,
     <<"profiles", Mapping(<<<<"p", Mapping(<<<<"command", Null>>, <<"shell", Scalar("run")>>>>)>>>>)>>,
     <<"depends_on", Mapping(<<<<"other", Scalar("ready")>>>>)>>,
     <<"depends_on", Mapping(<<<<"other", Scalar("exited")>>>>)>>,
     <<"depends_on", Mapping(<<<<"none", Scalar("started")>>>>)>>,
     <<"depends_on", Mapping(<<<<"other", Scalar("done")>>>>)>>,
     <<"liveness", Check(<<>>)>>, <<"liveness", Check(<<<<"startup_timeout", Scalar(1)>>>>)>>,
     <<"liveness", Mapping(<<<<"http", Scalar("http://host")>>>>)>>,
     <<"liveness", Mapping(<<<<"http", Scalar("https://host")>>>>)>>,
     <<"liveness", Mapping(<<<<"log", Scalar("")>>>>)>>, <<"liveness", EmptyMapping>>,
     <<"ready", Check(<<<<"interval", Scalar(0)>>>>)>>,
     <<"ready", Check(<<<<"initial_delay", Scalar(0)>>, <<"startup_timeout", Scalar(9)>>>>)>>,
     <<"ready", Check(<<<<"startup_timeout", Scalar(0)>>>>)>>,
     <<"ready", Check(<<<<"log", Scalar("up")>>>>)>>, <<"ready", Check(<<<<"any", List(<<>>)>>>>)>>,
     <<"ready", All(<<Check(<<>>)>>, <<>>)>>,
     <<"ready", All(<<Check(<<>>), All(<<>>, <<>>)>>, <<>>)>>,
     <<"ready", All(<<Check(<<>>), Check(<<>>)>>, <<<<"failure_threshold", Scalar(0)>>>>)>>,
     <<"ready", All(<<Check(<<<<"timeout", Scalar(3)>>>>), Mapping(<<<<"exec", Exec>>>>)>>,
                    <<<<"timeout", Scalar(9)>>, <<"success_threshold", Scalar(2)>>>>)>>}

Fields ==
    {Alone(Document(<<Processes(<<<<"api", Mapping(<<Run, field>>)>>,
                                  <<"other", Mapping(<<Run>> \o Entry("kind", kind))>>>>)>>)) :
        field \in Field, kind \in {NoSource, Scalar("one-shot")}}
    \cup {Alone(Document(<<Processes(<<<<"api", process>>>>)>>)) :
        process \in {EmptyMapping, Mapping(<<<<"shell", Scalar("")>>>>),
                     Mapping(<<<<"command", Scalar(<<"./run", "x">>)>>, <<"kind", Scalar("one-shot")>>,
                               <<"restart", Mapping(<<<<"policy", Scalar("always")>>>>)>>>>),
                     Mapping(<<<<"command", Scalar(<<"./run", "x">>)>>>>),
                     Mapping(<<<<"command", Scalar(<<"./gone">>)>>>>)}}

-----------------------------------------------------------------------------
(* Fields of the Project.                                                  *)
Output(sizes) == <<"settings", Mapping(<<<<"output", Mapping(sizes)>>>>)>>

Shell(entries) == <<"settings", Mapping(<<<<"shell", Mapping(entries)>>>>)>>

Groups(entries) == <<"groups", Mapping(entries)>>

ThreeProcesses == Processes(<<<<"a", Mapping(<<Run>>)>>, <<"b", Mapping(<<Run>>)>>, <<"c", Mapping(<<Run>>)>>>>)

Projects ==
    {Alone(Document(<<entry, ThreeProcesses>>)) :
        entry \in {Output(<<<<"terminal_project_bytes", Scalar(5)>>, <<"terminal_scrollback_bytes", Scalar(2)>>>>),
                   Output(<<<<"terminal_project_bytes", Scalar(8)>>, <<"terminal_scrollback_bytes", Scalar(4)>>>>),
                   Output(<<<<"per_process_history_bytes", Scalar(0)>>>>),
                   Output(<<<<"global_history_bytes", Scalar(8)>>>>),
                   Output(<<<<"terminal_scrollback_bytes", Scalar(256)>>>>),
                   Shell(<<>>), Shell(<<<<"program", Scalar("bash")>>>>),
                   Shell(<<<<"program", Scalar("bash")>>, <<"args", Scalar(<<>>)>>>>),
                   Groups(<<<<"g", Scalar(<<"c">>)>>, <<"h", Scalar(<<"b", "a">>)>>>>),
                   Groups(<<<<"g", Scalar(<<"c", "a">>)>>>>), Groups(<<<<"g", Scalar(<<"a", "a">>)>>>>),
                   Groups(<<<<"g", Scalar(<<"d">>)>>>>), Groups(<<<<"Other", Scalar(<<"a">>)>>>>),
                   Groups(<<<<"g", Scalar(<<>>)>>>>),
                   <<"base_profile_name", Scalar("local")>>, <<"base_profile_name", Scalar("")>>,
                   <<"profiles", Mapping(<<<<"base", EmptyMapping>>>>)>>,
                   <<"profiles", Mapping(<<<<"p", Mapping(<<<<"env_files", Scalar(<<"gone.env">>)>>>>)>>>>)>>}}
    \cup {[base |-> Document(<<Groups(<<<<"g", Scalar(<<"c">>)>>, <<"h", Scalar(<<"b">>)>>, <<"i", Scalar(<<"a">>)>>>>),
                             ThreeProcesses>>), local |-> local, request |-> request] :
            local \in {Null, EmptyMapping, Mapping(<<<<"version", Scalar(2)>>>>),
                       Mapping(<<<<"processes", Null>>>>), Mapping(<<<<"groups", Null>>>>),
                       Mapping(<<Groups(<<<<"g", Null>>>>)>>),
                       Mapping(<<Processes(<<<<"a", Null>>>>)>>),
                       Mapping(<<Processes(<<<<"d", Mapping(<<Run>>)>>>>)>>)},
            request \in {"no profile", "p"}}
    \cup {Alone(document) : document \in {Document(<<>>), Document(<<Processes(<<>>)>>), EmptyMapping}}

SomeSources == Graphs \cup Environments \cup Fields \cup Projects
=============================================================================
