------------------------------- MODULE MCParts -------------------------------
(***************************************************************************)
(* The components that share no step with another one, side by side: a     *)
(* behaviour chooses one of them, in one instance, and takes its steps.    *)
(***************************************************************************)
EXTENDS Naturals, Sequences, TLC, ConfigInputs

VARIABLES
    part,    \* the component, or the instance of it, that this behaviour is about
    liveness, started, progress, inFlight, elapsed, awaited, answers,
    unhealthy, sent, outcomes,                                  \* CheckSet
    screen, shared, owner, client, events, reports, owed,       \* TerminalFrames
    queue, shutdown, reader, app, waiting, count,               \* InputScheduler
    world, terminals, ui, logs, menus, requests, frame, loop,
    resize, effects, moved, refocused,                          \* ProjectInteraction
    project, views,                                             \* OutputHistory
    output, scroll, marks, search, unseen, shown,               \* LogScroll
    segments, appended, cache, found, current,                  \* LogSearch
    sources, loaded                                             \* Configuration

checkVars == <<liveness, started, progress, inFlight, elapsed, awaited, answers,
               unhealthy, sent, outcomes>>
frameVars == <<screen, shared, owner, client, events, reports, owed>>
schedulerVars == <<queue, shutdown, reader, app, waiting, count>>
interactionVars == <<world, terminals, ui, logs, menus, requests, frame, loop,
                     resize, effects, moved, refocused>>
historyVars == <<project, views>>
scrollVars == <<output, scroll, marks, search, unseen, shown>>
searchVars == <<segments, appended, cache, found, current>>
loadingVars == <<sources, loaded>>

-----------------------------------------------------------------------------
(* One probe and one log matcher.                                          *)
Checks == INSTANCE CheckSet WITH
    Probes <- {"probe"}, Logs <- {"log"},
    SuccessThreshold <- ("probe" :> 2) @@ ("log" :> 1),
    FailureThreshold <- ("probe" :> 2) @@ ("log" :> 2),
    MaxAttempts <- 3

Frames == INSTANCE TerminalFrames WITH EventSlots <- 2, MaxChanges <- 2, MaxReports <- 3

Scheduler == INSTANCE InputScheduler WITH QueueLimit <- 2, MaxEvents <- 5

(* Keys, in batches of two, over a child that takes input and one that     *)
(* does not.                                                               *)
Keyboard == INSTANCE ProjectInteraction WITH
    P <- 2, Pty <- {1, 2}, Accepts <- {1}, Tracks <- {1}, HasProfiles <- FALSE,
    Inputs <- {"CtrlA", "S", "Esc", "/", "s", "v", "j", "text"},
    BatchLimit <- 2, MaxRuns <- 2, MaxResizes <- 0

(* The mouse over a terminal, its scrollbar and the list.                  *)
Mouse == INSTANCE ProjectInteraction WITH
    P <- 2, Pty <- {1}, Accepts <- {1}, Tracks <- {1}, HasProfiles <- FALSE,
    Inputs <- {"Drag", "Up", "ClickConsole", "ClickList", "ClickBar", "ClickPort",
               "WheelList"},
    BatchLimit <- 1, MaxRuns <- 1, MaxResizes <- 0

(* The footer and the menus.                                               *)
Footer == INSTANCE ProjectInteraction WITH
    P <- 2, Pty <- {1}, Accepts <- {1}, Tracks <- {1}, HasProfiles <- TRUE,
    Inputs <- {"ClickFooter", "ClickOption", "ClickTrigger", "CtrlA", "Paste", "Focus"},
    BatchLimit <- 2, MaxRuns <- 1, MaxResizes <- 0

(* Two Processes with two streams each, and lines of at most two bytes.    *)
History == INSTANCE OutputHistory WITH
    Writers <- {1, 2}, Streams <- {1, 2}, Chunks <- {<<"text">>, <<"invalid", "newline">>},
    LineBytes <- 2, SegmentBytes <- 8, SegmentRecords <- 2, PerProcess <- 10, Global <- 13,
    MaxRuns <- 1, MaxSequence <- 3

(* Reading with keys and the search, and with the mouse; all with the same *)
(* page, so that the properties of one are those of each.                  *)
Reading == INSTANCE LogScroll WITH
    Hits <- ("hit" :> {2, 4}), Rows <- 2, MatchLimit <- 2, Gestures <- {"keys", "search"},
    MaxLine <- 4, MaxPending <- 1

Selecting == INSTANCE LogScroll WITH
    Hits <- ("hit" :> {2, 4}), Rows <- 2, MatchLimit <- 2, Gestures <- {"keys", "mouse"},
    MaxLine <- 3, MaxPending <- 1

Dragging == INSTANCE LogScroll WITH
    Hits <- ("hit" :> {2, 4}), Rows <- 2, MatchLimit <- 2, Gestures <- {"keys", "bar"},
    MaxLine <- 5, MaxPending <- 1

Finding == INSTANCE LogSearch WITH
    Hits <- {1, 2, 4, 5, 7, 8}, WorkLimit <- 2, MatchLimit <- 3, SegmentRecords <- 2, MaxRecords <- 8

Configured == INSTANCE Configuration WITH
    EnvFiles <- SomeFiles, Directories <- SomeDirectories, Programs <- SomePrograms,
    Urls <- SomeUrls, BaseDir <- "/project", Sources <- SomeSources

ASSUME PartsAssumption ==
    /\ Checks!CheckSetAssumption /\ Frames!FramesAssumption /\ Scheduler!SchedulerAssumption
    /\ Keyboard!InteractionAssumption /\ Mouse!InteractionAssumption /\ Footer!InteractionAssumption
    /\ History!HistoryAssumption /\ Finding!LogSearchAssumption
    /\ Reading!LogScrollAssumption /\ Selecting!LogScrollAssumption /\ Dragging!LogScrollAssumption

-----------------------------------------------------------------------------
Interactions == {"keyboard", "mouse", "footer"}

Readings == {"reading", "selecting", "dragging"}

Parts ==
    {"checks", "frames", "scheduler", "history", "finding", "loading"}
        \cup Interactions \cup Readings

Init ==
    /\ part \in Parts
    /\ Checks!Init /\ (part # "checks" => ~liveness)
    /\ Frames!Init /\ Scheduler!Init /\ Keyboard!Init
    /\ History!Init /\ Reading!Init /\ Finding!Init
    /\ IF part = "loading" THEN Configured!Init ELSE sources = NoSource /\ loaded = NoSource

Interacts ==
    \/ part = "keyboard" /\ Keyboard!Next
    \/ part = "mouse" /\ Mouse!Next
    \/ part = "footer" /\ Footer!Next

Reads ==
    \/ part = "reading" /\ Reading!Next
    \/ part = "selecting" /\ Selecting!Next
    \/ part = "dragging" /\ Dragging!Next

Next ==
    /\ UNCHANGED part
    /\ IF part = "checks" THEN Checks!Next ELSE UNCHANGED checkVars
    /\ IF part = "frames" THEN Frames!Next ELSE UNCHANGED frameVars
    /\ IF part = "scheduler" THEN Scheduler!Next ELSE UNCHANGED schedulerVars
    /\ IF part \in Interactions THEN Interacts ELSE UNCHANGED interactionVars
    /\ IF part = "history" THEN History!Next ELSE UNCHANGED historyVars
    /\ IF part \in Readings THEN Reads ELSE UNCHANGED scrollVars
    /\ IF part = "finding" THEN Finding!Next ELSE UNCHANGED searchVars
    /\ IF part = "loading" THEN Configured!Next ELSE UNCHANGED loadingVars

vars == <<part, checkVars, frameVars, schedulerVars, interactionVars,
          historyVars, scrollVars, searchVars, loadingVars>>

Spec == Init /\ [][Next]_vars

-----------------------------------------------------------------------------
(* The properties of the components, each stated and explained in its own  *)
(* module.                                                                 *)

(* Check sets: thresholds count every result once, as the result of its    *)
(* own attempt, and a failing liveness set shows (checks.rs).              *)
ChecksAreCounted ==
    part = "checks" =>
        Checks!ThresholdsExplainState /\ Checks!OutcomesAreTheirOwn /\ Checks!FailingIsVisible

(* Check sets move only as the Supervisor's model expects (checks.rs).     *)
ChecksMoveAsExpected == [][part = "checks" => Checks!MovesAsExpected]_checkVars

(* A terminal's newest frame, and the failure of one of its threads, reach *)
(* the application (terminal/owner.rs, runtime/input_writer.rs).           *)
TerminalIsObserved == part = "frames" => Frames!FrameIsNotMissed /\ Frames!FailureIsHeard

(* The host's ordered input is kept, and its reader waits only while there *)
(* is no room (app/input_scheduler.rs).                                    *)
OrderedInputArrives ==
    part = "scheduler" => Scheduler!OrderedInputIsKept /\ Scheduler!WaitsOnlyWhileFull

(* Keys and actions reach the Process that was selected, and actions of    *)
(* the footer are not typed into it (app/interaction.rs, console.rs).      *)
InputIsForTheSelectedProcess ==
    [][/\ part = "keyboard" => Keyboard!KeyReachesTheSelectedProcess
       /\ part = "mouse" => Mouse!KeyReachesTheSelectedProcess
       /\ part = "footer" => Footer!KeyReachesTheSelectedProcess /\ Footer!ActionIsNotTyped
      ]_interactionVars

(* Leaving Copy clears what it selected, by key, mouse or footer           *)
(* (console.rs).                                                           *)
LeavingCopyClears ==
    [][/\ part = "keyboard" => Keyboard!CopyClears
       /\ part = "mouse" => Mouse!CopyClears
       /\ part = "footer" => Footer!CopyClears]_interactionVars

(* Retained output is counted, bounded also in a reader's hands, in order, *)
(* and complete for a reader told that nothing changed (output.rs,         *)
(* output/).                                                               *)
HistoryIsSound ==
    part = "history" =>
        /\ History!CountsAreExact /\ History!LimitsHold
        /\ History!RecordsAreOrdered /\ History!UnchangedMeansComplete
        /\ History!SnapshotsFit

(* Another Process loses history only if it had the most (output.rs).      *)
LargestHistoryGoesFirst == [][part = "history" => History!LargestIsTrimmedFirst]_historyVars

(* A page that does not follow stays, and so do a selection and the        *)
(* current match, while output arrives and expires (pipe_scroll.rs,        *)
(* log_view.rs).                                                           *)
PausedPageStays ==
    [][/\ part \in Readings => Reading!PageStays /\ Reading!SelectionCanBeCopied
       /\ part = "finding" => Finding!MatchStays]_<<scrollVars, searchVars>>

(* A match that is asked for is shown (pipe_scroll.rs).                    *)
MatchIsShown == [][part = "reading" => Reading!MatchIsShown]_scrollVars

(* A page is a full window of what is retained, so are the matches, and it *)
(* says when there is more (pipe_scroll.rs, log_view.rs).                  *)
PagesAreSound ==
    part \in Readings =>
        /\ Reading!PageIsSound /\ Reading!NewOutputIsAnnounced
        /\ Reading!MatchesAreRetained /\ Reading!MatchesAreOfTheQuery

(* An incremental search is as good as a whole one and comes to an end     *)
(* (output/search.rs).                                                     *)
SearchIsIncremental ==
    part = "finding" => Finding!ResultIsNewestFirst /\ Finding!PendingSearchAdvances

(* A loaded Project can run, its environments are those of the last layer  *)
(* that mentions a variable, a selection of it is whole, and it shows as a *)
(* document that loads again (config/, model.rs).                          *)
ConfigurationIsSound ==
    part = "loading" =>
        /\ Configured!LoadedProjectCanRun /\ Configured!RejectedCycleIsReal
        /\ Configured!LastLayerWins /\ Configured!SelectionIsWhole
        /\ Configured!ShownProjectLoads
=============================================================================
