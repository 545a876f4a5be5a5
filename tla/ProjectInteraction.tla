-------------------------- MODULE ProjectInteraction --------------------------
(***************************************************************************)
(* The application's side of a Project (src/src/app.rs,                    *)
(* app/interaction.rs, console.rs, tui/): one pass of the event loop reads *)
(* a snapshot, applies what was requested, chooses the selected Process's  *)
(* pane and draws; then it routes a batch of input with those facts, while *)
(* Runs start and end.  Warnings, following and what Logs keeps besides    *)
(* its view are left out; key releases are not reported by the host.       *)
(***************************************************************************)
EXTENDS Naturals, Sequences

CONSTANTS
    P,            \* how many Processes the Project has
    Pty,          \* those with terminal_mode Pty
    Accepts,      \* those with input_focused
    Tracks,       \* those whose child tracks the mouse
    HasProfiles,  \* whether there is a Profile to choose
    Inputs,       \* the input that arrives
    BatchLimit,   \* bound: so much input arrives in one batch
    MaxRuns,      \* bound: so many Runs start
    MaxResizes    \* bound: so often the host is resized

Processes == 1..P

InteractionAssumption ==
    /\ P \in Nat \ {0} /\ BatchLimit \in Nat /\ MaxRuns \in Nat /\ MaxResizes \in Nat
    /\ Pty \subseteq Processes /\ Accepts \subseteq Processes /\ Tracks \subseteq Processes
    /\ HasProfiles \in BOOLEAN

VARIABLES
    world,      \* what the Supervisor knows: Runs, waiting Processes, a Profile change
    terminals,  \* of each Process: the size and whether cells or a copy cursor show
    ui,         \* selected Process, mode, mode before Copy, mouse gesture, scrollbar gesture
    logs,       \* of each Process: its view, and the search editor with its origin
    menus,      \* the menus that are open
    requests,   \* the queues of Project commands, selection moves and lifecycle commands
    frame,      \* what the pass works with: process, pane, Run, whether it waits, footer
    loop,       \* how much more input the batch may have, and the keys an action stands for
    resize,     \* the size of the pane, the size not yet applied, and how often it changed
    effects,    \* history: who got input by the last step, and which commands a pass sent
    moved,      \* history: whether another Process was selected since the pass
    refocused   \* history: whether the focus moved since the pass, or with a menu open

vars == <<world, terminals, ui, logs, menus, requests, frame, loop, resize, effects, moved,
          refocused>>

NoRequests == [project |-> <<>>, moves |-> <<>>, lifecycle |-> <<>>]
NoEffects == [child |-> 0, sent |-> {}]

Init ==
    /\ world = [run |-> [p \in Processes |-> 0], started |-> 0, waiting |-> {}, pending |-> FALSE]
    /\ terminals = [p \in Processes |-> [size |-> 0, selecting |-> FALSE]]
    /\ ui = [selected |-> 1, mode |-> "list", back |-> "list", gesture |-> "none", bar |-> FALSE]
    /\ logs = [p \in Processes |-> [view |-> "terminal", editing |-> FALSE, origin |-> "terminal"]]
    /\ menus = {}
    /\ requests = NoRequests
    /\ frame = [process |-> 1, pane |-> "logs", run |-> 0, waits |-> FALSE,
                pending |-> FALSE, footer |-> {}]
    /\ loop = [left |-> 0, keys |-> <<>>]
    /\ resize = [pane |-> 0, latest |-> 0, count |-> 0]
    /\ effects = NoEffects
    /\ moved = FALSE /\ refocused = FALSE

-----------------------------------------------------------------------------
(* The Supervisor, at any time.                                            *)

RunStarts(p) ==
    /\ world.run[p] = 0 /\ world.started < MaxRuns
    /\ world' = [world EXCEPT !.run[p] = world.started + 1, !.started = @ + 1,
                              !.waiting = @ \ {p}]
    /\ terminals' = [terminals EXCEPT ![p] = [size |-> 0, selecting |-> FALSE]]

RunEnds(p) ==
    /\ world.run[p] # 0
    /\ world' = [world EXCEPT !.run[p] = 0, !.pending = FALSE]
    /\ terminals' = [terminals EXCEPT ![p].selecting = FALSE]

Waits(p) ==
    /\ world.run[p] = 0 /\ p \notin world.waiting
    /\ world' = [world EXCEPT !.waiting = @ \cup {p}]
    /\ UNCHANGED terminals

ProfilePends ==
    /\ HasProfiles /\ ~world.pending /\ \E p \in Processes : world.run[p] # 0
    /\ world' = [world EXCEPT !.pending = TRUE]
    /\ UNCHANGED terminals

SupervisorMoves ==
    /\ \/ \E p \in Processes : RunStarts(p) \/ RunEnds(p) \/ Waits(p)
       \/ ProfilePends
    /\ effects' = NoEffects
    /\ UNCHANGED <<ui, logs, menus, requests, frame, loop, resize>>

-----------------------------------------------------------------------------
(* One pass of the event loop.                                             *)

(* apply_selection_moves: the moves not yet applied, one after another.    *)
Moved(selected, move) ==
    IF move = "up" THEN (IF selected = 1 THEN 1 ELSE selected - 1)
    ELSE (IF selected = P THEN P ELSE selected + 1)

Aim ==
    LET after[i \in 0..Len(requests.moves)] ==
            IF i = 0 THEN ui.selected ELSE Moved(after[i - 1], requests.moves[i])
    IN  after[Len(requests.moves)]

PaneOf(p) ==
    IF p \in Pty /\ logs[p].view = "terminal" /\ world.run[p] # 0 THEN "terminal" ELSE "logs"

(* The actions the footer shows.                                           *)
ListActions(p) ==
    IF HasProfiles /\ "profiles" \in menus THEN {"ChooseProfile", "CloseProfileMenu"}
    ELSE {"OpenLifecycleMenu", "ToggleView", "SearchEdit", "Quit"}
             \cup (IF HasProfiles THEN {"OpenProfiles"} ELSE {})
             \cup (IF world.pending THEN {"ApplyProfile"} ELSE {})
             \cup (IF p \in world.waiting THEN {"StartAnyway"} ELSE {})

FooterActions(p) ==
    IF PaneOf(p) = "logs" /\ logs[p].editing THEN {"SearchSubmit", "SearchCancel"}
    ELSE CASE ui.mode = "list" -> ListActions(p)
           [] ui.mode = "copy" -> {"ToggleSelection", "Copy", "SelectAll", "ExitCopy"}
           [] PaneOf(p) = "terminal" -> {"EnterCopy", "Quit"}
           [] OTHER -> {"SearchEdit", "Follow", "Copy", "FocusProcesses"}
                           \cup (IF p \in Pty /\ world.run[p] # 0 THEN {"ToggleView"} ELSE {})

(* A lifecycle command is for the Process that is selected when all moves  *)
(* have been applied; what it was aimed at is kept to compare.             *)
Sent(selected) ==
    {[to |-> selected, aimed |-> requests.lifecycle[i]] : i \in DOMAIN requests.lifecycle}
        \cup {requests.project[i] : i \in DOMAIN requests.project}

(* A resize that has settled goes to the pane that is shown.               *)
TakeResize(p) ==
    \/ UNCHANGED <<resize, terminals>>
    \/ /\ resize.latest # 0
       /\ resize' = [resize EXCEPT !.latest = 0]
       /\ terminals' = IF PaneOf(p) = "terminal"
                       THEN [terminals EXCEPT ![p].size = resize.latest] ELSE terminals

(* What the pass and the input after it work with; a pane chosen before    *)
(* the moves are applied would be another Process's.                       *)
FrameBeforeMoves(p) ==
    [process |-> ui.selected, pane |-> PaneOf(ui.selected), run |-> world.run[ui.selected],
     waits |-> ui.selected \in world.waiting, pending |-> world.pending,
     footer |-> FooterActions(ui.selected)]

FrameOf(p) ==
    [process |-> p, pane |-> PaneOf(p), run |-> world.run[p], waits |-> p \in world.waiting,
     pending |-> world.pending, footer |-> FooterActions(p)]

NextPass ==
    /\ loop.keys = <<>>
    /\ ui' = [ui EXCEPT !.selected = Aim]
    /\ requests' = NoRequests
    /\ effects' = [child |-> 0, sent |-> Sent(Aim)]
    /\ frame' = FrameOf(Aim)
    /\ TakeResize(Aim)
    /\ loop' = [left |-> BatchLimit, keys |-> <<>>]
    /\ UNCHANGED <<world, logs, menus>>

-----------------------------------------------------------------------------
(* What routing works with.                                                *)

(* The next input; a key that an action stands for comes first.            *)
Keys == {"CtrlQ", "CtrlA", "q", "p", "R", "S", "Enter", "Esc", "/", "l", "f", "c", "a", "j",
         "k", "s", "v", "text"}

Arrives(input) == loop.keys = <<>> /\ loop.left > 0 /\ input \in Inputs

Pressed(k) == Arrives(k) \/ (loop.keys # <<>> /\ k = Head(loop.keys))

Rest == IF loop.keys = <<>> THEN [loop EXCEPT !.left = @ - 1] ELSE [loop EXCEPT !.keys = Tail(@)]

StandsFor(keys) == loop' = [Rest EXCEPT !.keys = keys \o @]

Take(k) == Pressed(k) /\ StandsFor(<<>>)

TakeMouse(m) == Arrives(m) /\ StandsFor(<<>>)

(* The session of the pane, while its Run still has it.                    *)
InTerminal == frame.pane = "terminal"
Live == InTerminal /\ world.run[frame.process] = frame.run

Editing == logs[ui.selected].editing

Deselect(ts) == [ts EXCEPT ![frame.process].selecting = FALSE]

(* focus_process_list and focus_console: leaving Copy clears the selection.*)
FocusKeepingCells(mode) ==
    /\ ui' = [ui EXCEPT !.mode = mode, !.bar = FALSE]
    /\ UNCHANGED terminals

Focus(mode) ==
    /\ ui' = [ui EXCEPT !.mode = mode, !.bar = FALSE]
    /\ terminals' = IF ui.mode = "copy" /\ Live THEN Deselect(terminals) ELSE terminals

Consumed == effects' = NoEffects /\ UNCHANGED <<world, terminals, ui, logs, menus, requests, frame, resize>>

-----------------------------------------------------------------------------
(* Keys, in the order in which route_input offers them.                    *)

Quits(k) == k = "CtrlQ" \/ (k = "q" /\ ui.mode = "list" /\ ~Editing)

QuitKey(k) == Take(k) /\ Quits(k) /\ Consumed

MenuOpen == "lifecycle" \in menus \/ (HasProfiles /\ "profiles" \in menus)

(* The lifecycle menu: an option stands for its key, Escape closes it.     *)
LifecycleMenuKey(k) ==
    /\ Pressed(k) /\ ~Quits(k) /\ "lifecycle" \in menus
    /\ StandsFor(IF k = "Enter" THEN <<"s">> ELSE <<>>)
    /\ menus' = IF k \in {"Enter", "Esc"} THEN menus \ {"lifecycle"} ELSE menus
    /\ effects' = NoEffects
    /\ UNCHANGED <<world, terminals, ui, logs, requests, frame, resize>>

(* A command with the Process it names and the one it was aimed at; 0 is   *)
(* the Project.                                                            *)
ForProject == [to |-> 0, aimed |-> 0]

ToProject(command) == requests' = [requests EXCEPT !.project = Append(@, command)]

ProfileMenuKey(k) ==
    /\ Take(k) /\ ~Quits(k) /\ "lifecycle" \notin menus /\ MenuOpen
    /\ menus' = IF k \in {"Enter", "Esc", "p"} THEN menus \ {"profiles"} ELSE menus
    /\ IF k = "Enter" THEN ToProject(ForProject) ELSE UNCHANGED requests
    /\ effects' = NoEffects
    /\ UNCHANGED <<world, terminals, ui, logs, frame, resize>>

(* Keys for the whole Project.                                             *)
ProjectKey(k) ==
    /\ ui.mode = "list"
    /\ \/ k = "p" /\ HasProfiles
       \/ k = "R" /\ frame.pending
       \/ k = "S" /\ frame.waits

RouteProjectKey(k) ==
    /\ Take(k) /\ ~Quits(k) /\ ~MenuOpen /\ ProjectKey(k)
    /\ CASE k = "p" -> menus' = menus \cup {"profiles"} /\ UNCHANGED requests
         [] k = "R" -> ToProject(ForProject) /\ UNCHANGED menus
         [] k = "S" -> ToProject([to |-> frame.process, aimed |-> Aim]) /\ UNCHANGED menus
    /\ effects' = NoEffects
    /\ UNCHANGED <<world, terminals, ui, logs, frame, resize>>

ToPane(k) == ~Quits(k) /\ ~MenuOpen /\ ~ProjectKey(k)

(* The search editor takes every key; Escape returns to where it began.    *)
SearchKey(k) ==
    /\ Take(k) /\ ToPane(k) /\ Editing
    /\ logs' = CASE k = "Esc" -> [logs EXCEPT ![ui.selected].editing = FALSE,
                                             ![ui.selected].view = logs[ui.selected].origin]
                 [] k = "Enter" -> [logs EXCEPT ![ui.selected].editing = FALSE]
                 [] OTHER -> logs
    /\ effects' = NoEffects
    /\ UNCHANGED <<world, terminals, ui, menus, requests, frame, resize>>

(* Logs commands follow the pane that is shown, but for the view's toggle. *)
HasTerminal(k) == InTerminal \/ (k = "l" /\ frame.process \in Pty)
Representation(k) == IF HasTerminal(k) THEN logs[ui.selected].view ELSE "logs"
LogsActive(k) == Representation(k) = "logs"
ForLogs(k) == ui.mode = "list" \/ LogsActive(k)

LogsKey(k) ==
    \/ k = "/" /\ ForLogs(k)
    \/ k = "l" /\ ForLogs(k) /\ HasTerminal(k)
    \/ k \in {"f", "c"} /\ LogsActive(k)

RouteLogsKey(k) ==
    /\ Take(k) /\ ToPane(k) /\ ~Editing /\ LogsKey(k)
    /\ logs' = CASE k = "/" -> [logs EXCEPT ![ui.selected] =
                                   [view |-> "logs", editing |-> TRUE, origin |-> Representation(k)]]
                 [] k = "l" -> [logs EXCEPT ![ui.selected].view =
                                   IF @ = "logs" THEN "terminal" ELSE "logs"]
                 [] OTHER -> logs
    /\ effects' = NoEffects
    /\ UNCHANGED <<world, terminals, ui, menus, requests, frame, resize>>

ForPane(k) == ToPane(k) /\ ~Editing /\ ~LogsKey(k)

(* Focus moves to the list or from it; a Logs pane knows no selection.     *)
FocusKey(k) ==
    /\ Take(k) /\ ForPane(k) /\ k = "CtrlA"
    /\ \/ Live /\ Focus(IF ui.mode = "list" THEN "console" ELSE "list")
       \/ ~InTerminal /\ ui' = [ui EXCEPT !.mode = IF @ = "list" THEN "console" ELSE "list"]
                      /\ UNCHANGED terminals
    /\ effects' = NoEffects
    /\ UNCHANGED <<world, logs, menus, requests, frame, resize>>

(* A terminal in focus takes the key, if the Process accepts input.        *)
ChildKey(k) ==
    /\ Take(k) /\ ForPane(k) /\ k # "CtrlA" /\ Live /\ ui.mode = "console"
    /\ effects' = [child |-> IF frame.process \in Accepts THEN frame.process ELSE 0, sent |-> {}]
    /\ UNCHANGED <<world, terminals, ui, logs, menus, requests, frame, resize>>

(* The list in focus: moves, lifecycle commands, and the way into Copy.    *)
Requested(k) ==
    CASE k = "j" -> [requests EXCEPT !.moves = Append(@, "down")]
      [] k = "k" -> [requests EXCEPT !.moves = Append(@, "up")]
      [] k = "s" -> [requests EXCEPT !.lifecycle = Append(@, Aim)]
      [] OTHER -> requests

ListKey(k) ==
    /\ Take(k) /\ ForPane(k) /\ k # "CtrlA" /\ (Live \/ ~InTerminal) /\ ui.mode = "list"
    /\ requests' = Requested(k)
    /\ \/ k = "v" /\ InTerminal
          /\ ui' = [ui EXCEPT !.back = "list", !.mode = "copy"]
          /\ terminals' = [terminals EXCEPT ![frame.process].selecting = TRUE]
       \/ (k # "v" \/ ~InTerminal) /\ UNCHANGED <<ui, terminals>>
    /\ effects' = NoEffects
    /\ UNCHANGED <<world, logs, menus, frame, resize>>

(* Copy: leaving it clears the selection and returns to where it began.    *)
CopyKey(k) ==
    /\ Take(k) /\ ForPane(k) /\ k # "CtrlA" /\ ui.mode = "copy"
    /\ \/ /\ Live /\ k \in {"q", "Esc"}
          /\ ui' = [ui EXCEPT !.mode = ui.back]
          /\ terminals' = Deselect(terminals)
       \/ Live /\ k \in {"j", "k", "a", "v"} /\ UNCHANGED ui
          /\ terminals' = [terminals EXCEPT ![frame.process].selecting = TRUE]
       \/ Live /\ k \notin {"q", "Esc", "j", "k", "a", "v"} /\ UNCHANGED <<ui, terminals>>
       \/ ~InTerminal /\ ui' = [ui EXCEPT !.mode = "list"] /\ UNCHANGED terminals
    /\ effects' = NoEffects
    /\ UNCHANGED <<world, logs, menus, requests, frame, resize>>

(* Logs in focus; Escape may clear Logs' own selection first.              *)
LogsFocusKey(k) ==
    /\ Take(k) /\ ForPane(k) /\ k # "CtrlA" /\ ~InTerminal /\ ui.mode = "console"
    /\ \/ k \in {"q", "Esc"} /\ ui' = [ui EXCEPT !.mode = "list", !.bar = FALSE]
       \/ k # "q" /\ UNCHANGED ui
    /\ effects' = NoEffects
    /\ UNCHANGED <<world, terminals, logs, menus, requests, frame, resize>>

(* A terminal whose Run just ended takes nothing.                          *)
LostKey(k) == Take(k) /\ ForPane(k) /\ InTerminal /\ ~Live /\ Consumed

KeyInput == \E k \in Keys :
    \/ QuitKey(k) \/ LifecycleMenuKey(k) \/ ProfileMenuKey(k) \/ RouteProjectKey(k)
    \/ SearchKey(k) \/ RouteLogsKey(k) \/ FocusKey(k) \/ ChildKey(k) \/ ListKey(k)
    \/ CopyKey(k) \/ LogsFocusKey(k) \/ LostKey(k)

(* A paste asks for the focus only, not for the menus.                     *)
Paste ==
    /\ TakeMouse("Paste")
    /\ effects' = [child |-> IF ~Editing /\ Live /\ ui.mode = "console" /\ frame.process \in Accepts
                             THEN frame.process ELSE 0,
                   sent |-> {}]
    /\ UNCHANGED <<world, terminals, ui, logs, menus, requests, frame, resize>>

(* The host's focus goes to the child whatever has the focus here.         *)
FocusReport ==
    /\ TakeMouse("Focus")
    /\ effects' = [child |-> IF Live /\ frame.process \in Accepts THEN frame.process ELSE 0,
                   sent |-> {}]
    /\ UNCHANGED <<world, terminals, ui, logs, menus, requests, frame, resize>>

-----------------------------------------------------------------------------
(* The mouse, in the order in which route_mouse offers it.                 *)

Clicks == {"ClickOption", "ClickTrigger", "ClickFooter", "ClickBar", "ClickList", "ClickPort",
           "ClickConsole"}

ForProfileMenu == {"ClickOption", "ClickTrigger", "ClickFooter"}

(* A click beside an open menu closes it and does nothing else.            *)
CloseMenu(m) ==
    /\ TakeMouse(m) /\ m \in Clicks
    /\ \/ /\ "lifecycle" \in menus /\ m # "ClickOption"
          /\ menus' = menus \ {"lifecycle"}
       \/ /\ "lifecycle" \notin menus /\ MenuOpen /\ m \notin ForProfileMenu
          /\ menus' = menus \ {"profiles"}
    /\ effects' = NoEffects
    /\ UNCHANGED <<world, terminals, ui, logs, requests, frame, resize>>

ClickOption ==
    /\ Arrives("ClickOption") /\ MenuOpen
    /\ IF "lifecycle" \in menus
       THEN menus' = menus \ {"lifecycle"} /\ StandsFor(<<"s">>) /\ UNCHANGED requests
       ELSE menus' = menus \ {"profiles"} /\ StandsFor(<<>>) /\ ToProject(ForProject)
    /\ effects' = NoEffects
    /\ UNCHANGED <<world, terminals, ui, logs, frame, resize>>

ClickTrigger ==
    /\ TakeMouse("ClickTrigger") /\ HasProfiles /\ "lifecycle" \notin menus
    /\ menus' = IF MenuOpen THEN menus \ {"profiles"} ELSE menus \cup {"profiles"}
    /\ effects' = NoEffects
    /\ UNCHANGED <<world, terminals, ui, logs, requests, frame, resize>>

(* An action of the footer stands for its key, wherever the focus is; for  *)
(* Logs the two keys that begin a search are the same.                     *)
KeyOf(action) ==
    CASE action = "ApplyProfile" -> "R"
      [] action \in {"ChooseProfile", "SearchSubmit"} -> "Enter"
      [] action \in {"CloseProfileMenu", "ExitCopy", "SearchCancel"} -> "Esc"
      [] action = "Copy" -> "c"
      [] action \in {"EnterCopy", "ToggleSelection"} -> "v"
      [] action = "FocusProcesses" -> "CtrlA"
      [] action = "Follow" -> "f"
      [] action = "OpenProfiles" -> "p"
      [] action = "SearchEdit" -> "/"
      [] action = "SelectAll" -> "a"
      [] action = "StartAnyway" -> "S"
      [] action = "ToggleView" -> "l"

KeyAlone(action) == <<KeyOf(action)>>

KeysOf(action) ==
    IF action = "EnterCopy" /\ ui.mode = "console" THEN <<"CtrlA", "v">> ELSE <<KeyOf(action)>>

ClickFooter(action) ==
    /\ Arrives("ClickFooter") /\ "lifecycle" \notin menus /\ action \in frame.footer
    /\ StandsFor(IF action \in {"Quit", "OpenLifecycleMenu"} THEN <<>> ELSE KeysOf(action))
    /\ menus' = IF action = "OpenLifecycleMenu" THEN menus \cup {"lifecycle"} ELSE menus
    /\ effects' = NoEffects
    /\ UNCHANGED <<world, terminals, ui, logs, requests, frame, resize>>

(* The terminal's scrollbar keeps the mouse until the button is released.  *)
ClickBar ==
    /\ TakeMouse("ClickBar") /\ ~MenuOpen /\ Live
    /\ ui' = [ui EXCEPT !.mode = IF @ = "list" THEN "console" ELSE @, !.bar = TRUE]
    /\ effects' = NoEffects
    /\ UNCHANGED <<world, terminals, logs, menus, requests, frame, resize>>

(* A port, and the wheel over the list, change the selected Process and    *)
(* nothing else; a row takes the focus, too.                               *)
ClickPort ==
    /\ TakeMouse("ClickPort") /\ ~MenuOpen
    /\ \E p \in Processes : ui' = [ui EXCEPT !.selected = p]
    /\ effects' = NoEffects
    /\ UNCHANGED <<world, terminals, logs, menus, requests, frame, resize>>

WheelList ==
    /\ TakeMouse("WheelList")
    /\ \E move \in {"up", "down"} : ui' = [ui EXCEPT !.selected = Moved(@, move)]
    /\ effects' = NoEffects
    /\ UNCHANGED <<world, terminals, logs, menus, requests, frame, resize>>

ClickList ==
    /\ TakeMouse("ClickList") /\ ~MenuOpen
    /\ \E p \in Processes :
          IF InTerminal /\ ~Live THEN ui' = [ui EXCEPT !.selected = p]
          ELSE ui' = [ui EXCEPT !.selected = p, !.mode = "list", !.bar = FALSE]
    /\ terminals' = IF ui.mode = "copy" /\ Live THEN Deselect(terminals) ELSE terminals
    /\ effects' = NoEffects
    /\ UNCHANGED <<world, logs, menus, requests, frame, resize>>

(* Who owns the mouse over a terminal, and into Copy.                      *)
Owner(mode, shift) ==
    IF mode = "console" /\ ~shift /\ frame.process \in Accepts \cap Tracks THEN "child"
    ELSE "stackhand"

Owning == IF ui.gesture # "none" THEN {ui.gesture} ELSE {Owner(ui.mode, shift) : shift \in BOOLEAN}

ToChild(owner) ==
    effects' = [child |-> IF owner = "child" THEN frame.process ELSE 0, sent |-> {}]

IntoCopy(u) ==
    [u EXCEPT !.back = IF u.mode = "copy" THEN @ ELSE u.mode, !.mode = "copy"]

Focused == IF ui.mode = "list" THEN "console" ELSE ui.mode

(* A press takes the focus and the gesture; a second one soon after it     *)
(* selects.                                                                *)
Press ==
    /\ TakeMouse("ClickConsole") /\ ~MenuOpen /\ Live
    /\ \E shift \in BOOLEAN, again \in BOOLEAN :
          LET owner == Owner(Focused, shift)
              pressed == [ui EXCEPT !.mode = Focused, !.gesture = owner,
                                    !.bar = @ /\ ui.mode # "list"]
          IN  /\ again => owner = "stackhand" /\ ui.mode # "list"
              /\ ui' = IF again THEN IntoCopy(pressed) ELSE pressed
              /\ terminals' = IF owner = "stackhand"
                              THEN [terminals EXCEPT ![frame.process].selecting = again]
                              ELSE terminals
              /\ ToChild(owner)
    /\ UNCHANGED <<world, logs, menus, requests, frame, resize>>

PressLogs ==
    /\ TakeMouse("ClickConsole") /\ ~MenuOpen /\ ~InTerminal
    /\ ui' = [ui EXCEPT !.mode = Focused, !.bar = @ /\ ui.mode # "list"]
    /\ effects' = NoEffects
    /\ UNCHANGED <<world, terminals, logs, menus, requests, frame, resize>>

(* A drag stays with its gesture wherever it goes; one that began outside  *)
(* counts once it is over the console.                                     *)
Drag ==
    /\ TakeMouse("Drag") /\ Live /\ ~ui.bar
    /\ \E owner \in Owning :
          /\ ui' = IF owner = "stackhand" THEN IntoCopy(ui) ELSE ui
          /\ terminals' = IF owner = "stackhand"
                          THEN [terminals EXCEPT ![frame.process].selecting = TRUE] ELSE terminals
          /\ ToChild(owner)
    /\ UNCHANGED <<world, logs, menus, requests, frame, resize>>

Release ==
    /\ TakeMouse("Up") /\ Live
    /\ IF ui.bar THEN ui' = [ui EXCEPT !.bar = FALSE] /\ effects' = NoEffects
       ELSE /\ ui' = [ui EXCEPT !.gesture = "none"]
            /\ \E owner \in Owning : ToChild(owner)
    /\ UNCHANGED <<world, terminals, logs, menus, requests, frame, resize>>

(* Over Logs the terminal's scrollbar gives the mouse back.                *)
MouseOverLogs ==
    /\ \E m \in {"Drag", "Up"} : TakeMouse(m)
    /\ ~InTerminal
    /\ ui' = [ui EXCEPT !.bar = FALSE]
    /\ effects' = NoEffects
    /\ UNCHANGED <<world, terminals, logs, menus, requests, frame, resize>>

MouseInput ==
    \/ \E m \in Clicks : CloseMenu(m)
    \/ ClickOption \/ ClickTrigger \/ \E action \in frame.footer : ClickFooter(action)
    \/ ClickBar \/ ClickPort \/ WheelList \/ ClickList
    \/ Press \/ PressLogs \/ Drag \/ Release \/ MouseOverLogs

-----------------------------------------------------------------------------
(* The host's window changes: the size is kept until it has settled.       *)
Resize ==
    /\ TakeMouse("Resize") /\ resize.count < MaxResizes
    /\ resize' = [pane |-> resize.count + 1, latest |-> resize.count + 1, count |-> resize.count + 1]
    /\ effects' = NoEffects
    /\ UNCHANGED <<world, terminals, ui, logs, menus, requests, frame>>

Input == KeyInput \/ Paste \/ FocusReport \/ MouseInput \/ Resize

SelectionMoves == ui'.selected # ui.selected \/ requests'.moves # requests.moves

(* The focus moves by an input, or by a whole action of the footer.        *)
FocusMoves == ui'.mode # ui.mode /\ loop'.keys = <<>>

Next ==
    \/ NextPass /\ moved' = FALSE /\ refocused' = (refocused /\ "lifecycle" \in menus)
    \/ /\ SupervisorMoves \/ Input
       /\ moved' = (moved \/ SelectionMoves)
       /\ refocused' = (refocused \/ FocusMoves)

Spec == Init /\ [][Next]_vars

-----------------------------------------------------------------------------
(* What a key does to a child or to a Process, it does to the Process that *)
(* was selected when it was pressed (console.rs: "One requested lifecycle  *)
(* command for the currently selected Process"), unless the same batch of  *)
(* input selected another one before it or after it.                       *)
KeyReachesTheSelectedProcess ==
    moved \/ (/\ effects'.child \in {0, Aim}
              /\ \A command \in effects'.sent : command.to = command.aimed)

(* However Copy is left, the cells it selected no longer look active       *)
(* (console.rs: "Leaving Copy also clears its terminal selection so stale  *)
(* selected cells do not look active").                                    *)
CopyClears ==
    ui.mode = "copy" /\ ui'.mode # "copy" /\ Live => ~terminals'[frame.process].selecting

(* An action of the footer, or of the menu it opens, is never typed into   *)
(* the child (footer.rs: input "cannot drift from clipped or conditional   *)
(* footer content"), unless the focus moved after the footer was drawn and *)
(* before the click, or while the menu was open.                           *)
ActionIsNotTyped == loop.keys # <<>> /\ ~refocused => effects'.child = 0

(* While search text is typed, no key of it opens a menu or requests       *)
(* anything of the Project (README.md: "Start a case-sensitive search.     *)
(* Type text and press Enter").                                            *)
TypingStaysInTheSearch ==
    [][Editing /\ Editing' =>
           menus' \subseteq menus /\ Len(requests'.project) <= Len(requests.project)]_vars

(* The terminal that is shown has the size of its pane (app.rs: "The child *)
(* sees exactly the rendered console pane").                               *)
ShownTerminalFits ==
    Live /\ resize.latest = 0 => terminals[frame.process].size = resize.pane
=============================================================================
