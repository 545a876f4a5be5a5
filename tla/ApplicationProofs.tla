-------------------------- MODULE ApplicationProofs --------------------------
(***************************************************************************)
(* What the application does with its input.  For any number of Processes, *)
(* any input in any batches and any Runs: keys and commands reach the      *)
(* Process that is selected, an action of the footer is never typed, and   *)
(* leaving Copy clears the cells.  Before that, for every length of the    *)
(* queue between host and application and any number of events: ordered    *)
(* input is neither dropped nor reordered while the application runs, and  *)
(* its reader waits for space only while there is none.                    *)
(***************************************************************************)
EXTENDS ProjectInteraction, SequenceTheorems, WellFoundedInduction, TLAPS

-----------------------------------------------------------------------------
(* Types.                                                                  *)

Commands == [to : 0..P, aimed : 0..P]
Actions == {"ChooseProfile", "CloseProfileMenu", "OpenLifecycleMenu", "ToggleView", "SearchEdit",
            "Quit", "OpenProfiles", "ApplyProfile", "StartAnyway", "SearchSubmit", "SearchCancel",
            "ToggleSelection", "Copy", "SelectAll", "ExitCopy", "EnterCopy", "Follow",
            "FocusProcesses"}
Modes == {"list", "console", "copy"}
Views == {"terminal", "logs"}

WorldType ==
    /\ world \in [run : [Processes -> Nat], started : Nat, waiting : SUBSET Processes,
                  pending : BOOLEAN]
    /\ terminals \in [Processes -> [size : Nat, selecting : BOOLEAN]]
UiStates ==
    [selected : Processes, mode : Modes, back : Modes, gesture : {"none", "child", "stackhand"},
     bar : BOOLEAN]
UiType == ui \in UiStates
LogsType ==
    /\ logs \in [Processes -> [view : Views, editing : BOOLEAN, origin : Views]]
    /\ menus \subseteq {"lifecycle", "profiles"}
RequestsType ==
    requests \in [project : Seq(Commands), moves : Seq({"up", "down"}), lifecycle : Seq(Processes)]
FrameType ==
    frame \in [process : Processes, pane : Views, run : Nat, waits : BOOLEAN, pending : BOOLEAN,
               footer : SUBSET Actions]
LoopType ==
    /\ loop \in [left : Nat, keys : Seq(Keys)]
    /\ resize \in [pane : Nat, latest : Nat, count : Nat]
EffectsType ==
    /\ effects \in [child : 0..P, sent : SUBSET Commands]
    /\ moved \in BOOLEAN /\ refocused \in BOOLEAN

TypeOK ==
    /\ WorldType /\ UiType /\ LogsType /\ RequestsType /\ FrameType /\ LoopType /\ EffectsType

LEMMA InitIsTyped ==
    ASSUME InteractionAssumption, Init
    PROVE  TypeOK
<1>1. 1 \in Processes /\ 0 \in 0..P
    BY DEF InteractionAssumption, Processes
<1>2. WorldType /\ UiType /\ LogsType /\ FrameType /\ EffectsType
    BY <1>1 DEF Init, WorldType, UiType, UiStates, LogsType, FrameType, EffectsType, NoEffects, Modes, Views
<1>3. RequestsType /\ LoopType
    BY EmptySeq DEF Init, RequestsType, LoopType, NoRequests
<1> QED
    BY <1>2, <1>3 DEF TypeOK

-----------------------------------------------------------------------------
(* The Process that is selected when all moves have been applied.          *)

(* What holds of 0, and of n + 1 when of n, holds of every number.         *)
LEMMA FromZero ==
    ASSUME NEW S, 0 \in S, \A n \in Nat : n \in S => n + 1 \in S
    PROVE  Nat \subseteq S
<1> SUFFICES ASSUME Nat \ S # {}
             PROVE  FALSE
    OBVIOUS
<1>1. PICK least \in Nat \ S : \A x \in Nat \ S : ~(<<x, least>> \in OpToRel(<, Nat))
    BY WFMin, NatLessThanWellFounded
<1>2. least # 0 /\ least \in Nat /\ \A x \in Nat \ S : ~(x < least)
    BY <1>1 DEF OpToRel
<1>3. least - 1 \in Nat /\ least - 1 < least /\ (least - 1) + 1 = least
    BY <1>2
<1>4. least - 1 \in S
    BY <1>2, <1>3
<1> QED
    BY <1>1, <1>3, <1>4

LEMMA MovedIsAProcess ==
    ASSUME InteractionAssumption, NEW p \in Processes, NEW move
    PROVE  Moved(p, move) \in Processes
BY DEF InteractionAssumption, Processes, Moved

Follows(f, n) ==
    f = [i \in 0..n |-> IF i = 0 THEN ui.selected ELSE Moved(f[i - 1], requests.moves[i])]

LEMMA AimFollows ==
    ASSUME NEW f, Follows(f, Len(requests.moves))
    PROVE  \E g : Follows(g, Len(requests.moves)) /\ Aim = g[Len(requests.moves)]
<1> DEFINE g == CHOOSE h : Follows(h, Len(requests.moves))
<1>1. Follows(g, Len(requests.moves))
    OBVIOUS
<1>2. Aim = g[Len(requests.moves)]
    BY Zenon DEF Aim, Follows
<1> QED
    BY <1>1, <1>2

LEMMA AimIsAProcess ==
    ASSUME InteractionAssumption, UiType, RequestsType
    PROVE  Aim \in Processes
<1> DEFINE n == Len(requests.moves)
           S == {k \in Nat : k <= n => \E f \in [0..k -> Processes] : Follows(f, k)}
<1>1. ui.selected \in Processes
    BY DEF UiType, UiStates
<1>2. n \in Nat
    BY LenProperties DEF RequestsType
<1>3. 0 \in S
    <2> DEFINE f == [i \in 0..0 |-> ui.selected]
    <2>1. f \in [0..0 -> Processes]
        BY <1>1
    <2>2. Follows(f, 0)
        BY DEF Follows
    <2> QED
        BY <2>1, <2>2
<1>4. ASSUME NEW k \in Nat, k \in S
      PROVE  k + 1 \in S
    <2> SUFFICES ASSUME k + 1 <= n
                 PROVE  \E f \in [0..(k + 1) -> Processes] : Follows(f, k + 1)
        OBVIOUS
    <2>1. PICK g \in [0..k -> Processes] : Follows(g, k)
        BY <1>2, <1>4
    <2> DEFINE f == [i \in 0..(k + 1) |-> IF i = k + 1 THEN Moved(g[k], requests.moves[k + 1])
                                          ELSE g[i]]
    <2>2. \A i \in 0..(k + 1) : i # k + 1 => i \in 0..k
        OBVIOUS
    <2>3. g[k] \in Processes /\ \A i \in 0..k : g[i] \in Processes
        BY <2>1
    <2>4. Moved(g[k], requests.moves[k + 1]) \in Processes
        BY <2>3, MovedIsAProcess
    <2>5. f \in [0..(k + 1) -> Processes]
        BY <2>2, <2>3, <2>4
    <2>6. \A i \in 0..k : g[i] = IF i = 0 THEN ui.selected ELSE Moved(g[i - 1], requests.moves[i])
        BY <2>1 DEF Follows
    <2>7. \A i \in 0..(k + 1) :
              f[i] = IF i = 0 THEN ui.selected ELSE Moved(f[i - 1], requests.moves[i])
        <3> SUFFICES ASSUME NEW i \in 0..(k + 1)
                     PROVE  f[i] = IF i = 0 THEN ui.selected ELSE Moved(f[i - 1], requests.moves[i])
            OBVIOUS
        <3>1. CASE i = 0
            <4>1. 0 \in 0..k /\ 0 \in 0..(k + 1) /\ 0 # k + 1
                OBVIOUS
            <4>2. f[0] = g[0]
                BY <4>1
            <4> HIDE DEF f
            <4>3. g[0] = ui.selected
                BY <2>6, <4>1
            <4> QED
                BY <3>1, <4>2, <4>3
        <3>2. CASE i # 0
            <4>1. i - 1 \in 0..k /\ i - 1 # k + 1 /\ i - 1 \in 0..(k + 1)
                BY <3>2
            <4>2. f[i - 1] = g[i - 1]
                BY <4>1
            <4>3. CASE i = k + 1
                <5>1. f[i] = Moved(g[k], requests.moves[k + 1]) /\ i - 1 = k
                    BY <4>3
                <5> HIDE DEF f
                <5> QED
                    BY <3>2, <4>2, <4>3, <5>1
            <4>4. CASE i # k + 1
                <5>1. f[i] = g[i] /\ i \in 0..k
                    BY <2>2, <4>4
                <5> HIDE DEF f
                <5> QED
                    BY <2>6, <3>2, <4>2, <5>1
            <4> QED
                BY <4>3, <4>4
        <3> QED
            BY <3>1, <3>2
    <2>8. DOMAIN f = 0..(k + 1)
        OBVIOUS
    <2>9. f = [i \in 0..(k + 1) |-> f[i]]
        OBVIOUS
    <2> HIDE DEF f
    <2>10. Follows(f, k + 1)
        BY <2>7, <2>9 DEF Follows
    <2> QED
        BY <2>5, <2>10
<1>5. n \in S
    <2> HIDE DEF S, n
    <2> QED
        BY <1>2, <1>3, <1>4, FromZero
<1>6. PICK f \in [0..n -> Processes] : Follows(f, n)
    BY <1>2, <1>5
<1>7. PICK g : Follows(g, n) /\ Aim = g[n]
    BY <1>6, AimFollows
(* Whichever function follows the moves, its values are Processes.         *)
<1> DEFINE T == {k \in Nat : k <= n => g[k] \in Processes}
<1>8. \A i \in 0..n : g[i] = IF i = 0 THEN ui.selected ELSE Moved(g[i - 1], requests.moves[i])
    <2> HIDE DEF n
    <2> QED
        BY <1>7 DEF Follows
<1>9. 0 \in T
    BY <1>1, <1>2, <1>8
<1>10. ASSUME NEW k \in Nat, k \in T
       PROVE  k + 1 \in T
    <2> SUFFICES ASSUME k + 1 <= n
                 PROVE  g[k + 1] \in Processes
        OBVIOUS
    <2>1. k + 1 \in 0..n /\ k + 1 # 0 /\ (k + 1) - 1 = k /\ g[k] \in Processes
        BY <1>2, <1>10
    <2>2. g[k + 1] = Moved(g[k], requests.moves[k + 1])
        <3> HIDE DEF n
        <3>1. g[k + 1] = Moved(g[(k + 1) - 1], requests.moves[k + 1])
            BY <1>8, <2>1
        <3> QED
            BY <2>1, <3>1
    <2> QED
        BY <2>1, <2>2, MovedIsAProcess
<1>11. n \in T
    <2> HIDE DEF T, n
    <2> QED
        BY <1>2, <1>9, <1>10, FromZero
<1> QED
    BY <1>2, <1>7, <1>11

LEMMA AimWithoutMoves ==
    ASSUME requests.moves = <<>>
    PROVE  Aim = ui.selected
<1> DEFINE f == [i \in 0..0 |-> ui.selected]
<1>1. Len(requests.moves) = 0
    BY EmptySeq
<1>2. f = [i \in 0..0 |-> IF i = 0 THEN ui.selected ELSE Moved(f[i - 1], requests.moves[i])]
    OBVIOUS
<1> HIDE DEF f
<1>3. Follows(f, 0)
    BY <1>2 DEF Follows
<1>4. PICK g : Follows(g, 0) /\ Aim = g[0]
    BY <1>1, <1>3, AimFollows
<1> QED
    BY <1>4 DEF Follows

-----------------------------------------------------------------------------
(* Every step keeps the types, one group of variables after another.       *)

LEMMA TerminalsStayTyped ==
    ASSUME TypeOK
    PROVE  /\ \A size \in Nat, p \in Processes :
                  [terminals EXCEPT ![p].size = size]
                      \in [Processes -> [size : Nat, selecting : BOOLEAN]]
           /\ \A selecting \in BOOLEAN, p \in Processes :
                  [terminals EXCEPT ![p].selecting = selecting]
                      \in [Processes -> [size : Nat, selecting : BOOLEAN]]
           /\ \A p \in Processes : [terminals EXCEPT ![p] = [size |-> 0, selecting |-> FALSE]]
                      \in [Processes -> [size : Nat, selecting : BOOLEAN]]
BY DEF TypeOK, WorldType

LEMMA SupervisorKeepsTypes ==
    ASSUME InteractionAssumption, TypeOK, SupervisorMoves
    PROVE  WorldType'
<1>1. ASSUME NEW p \in Processes, RunStarts(p)
      PROVE  WorldType'
    <2>1. terminals' \in [Processes -> [size : Nat, selecting : BOOLEAN]]
        BY <1>1, TerminalsStayTyped DEF RunStarts
    <2>2. /\ world' = [world EXCEPT !.run = [world.run EXCEPT ![p] = world.started + 1],
                                    !.started = world.started + 1,
                                    !.waiting = world.waiting \ {p}]
          /\ world \in [run : [Processes -> Nat], started : Nat, waiting : SUBSET Processes,
                        pending : BOOLEAN]
        BY <1>1 DEF RunStarts, TypeOK, WorldType
    <2>3. [world.run EXCEPT ![p] = world.started + 1] \in [Processes -> Nat]
          /\ world.started + 1 \in Nat /\ world.waiting \ {p} \in SUBSET Processes
        BY <2>2
    <2>4. world' \in [run : [Processes -> Nat], started : Nat, waiting : SUBSET Processes,
                      pending : BOOLEAN]
        BY <2>2, <2>3
    <2> QED
        BY <2>1, <2>4 DEF WorldType
<1>2. ASSUME NEW p \in Processes, RunEnds(p)
      PROVE  WorldType'
    <2>1. terminals' \in [Processes -> [size : Nat, selecting : BOOLEAN]]
        BY <1>2, TerminalsStayTyped DEF RunEnds
    <2>2. world' \in [run : [Processes -> Nat], started : Nat, waiting : SUBSET Processes,
                      pending : BOOLEAN]
        BY <1>2 DEF TypeOK, WorldType, RunEnds
    <2> QED
        BY <2>1, <2>2 DEF WorldType
<1>3. ASSUME NEW p \in Processes, Waits(p)
      PROVE  WorldType'
    BY <1>3 DEF TypeOK, WorldType, Waits
<1>4. CASE ProfilePends
    BY <1>4 DEF TypeOK, WorldType, ProfilePends
<1> QED
    BY <1>1, <1>2, <1>3, <1>4 DEF SupervisorMoves

LEMMA InputKeepsTerminalsTyped ==
    ASSUME InteractionAssumption, TypeOK, Input
    PROVE  WorldType' /\ world' = world /\ frame' = frame
<1>0. frame.process \in Processes
    BY DEF TypeOK, FrameType
<1>1. world' = world /\ frame' = frame
    BY DEF Input, KeyInput, QuitKey, LifecycleMenuKey, ProfileMenuKey, RouteProjectKey, SearchKey,
           RouteLogsKey, FocusKey, ChildKey, ListKey, CopyKey, LogsFocusKey, LostKey, Consumed,
           Paste, FocusReport, MouseInput, CloseMenu, ClickOption, ClickTrigger, ClickFooter,
           ClickBar, ClickPort, WheelList, ClickList, Press, PressLogs, Drag, Release,
           MouseOverLogs, Resize
<1>2. \/ terminals' = terminals
      \/ \E selecting \in BOOLEAN :
            terminals' = [terminals EXCEPT ![frame.process].selecting = selecting]
    BY DEF Input, KeyInput, QuitKey, LifecycleMenuKey, ProfileMenuKey, RouteProjectKey, SearchKey,
           RouteLogsKey, FocusKey, Focus, Deselect, ChildKey, ListKey, CopyKey, LogsFocusKey,
           LostKey, Consumed, Paste, FocusReport, MouseInput, CloseMenu, ClickOption,
           ClickTrigger, ClickFooter, ClickBar, ClickPort, WheelList, ClickList, Press, PressLogs,
           Drag, Release, MouseOverLogs, Resize
<1>3. terminals' \in [Processes -> [size : Nat, selecting : BOOLEAN]]
    <2>1. terminals \in [Processes -> [size : Nat, selecting : BOOLEAN]]
        BY DEF TypeOK, WorldType
    <2>2. ASSUME NEW selecting \in BOOLEAN,
                 terminals' = [terminals EXCEPT ![frame.process].selecting = selecting]
          PROVE  terminals' \in [Processes -> [size : Nat, selecting : BOOLEAN]]
        <3>1. [terminals EXCEPT ![frame.process].selecting = selecting]
                  \in [Processes -> [size : Nat, selecting : BOOLEAN]]
            BY <1>0, TerminalsStayTyped
        <3> QED
            BY <2>2, <3>1, Zenon
    <2> QED
        BY <1>2, <2>1, <2>2, Zenon
<1>4. WorldType
    BY DEF TypeOK
<1> QED
    BY <1>1, <1>3, <1>4 DEF WorldType

(* Which input changes what.                                               *)
UiKey(k) == FocusKey(k) \/ ListKey(k) \/ CopyKey(k) \/ LogsFocusKey(k)
UiMouse ==
    \/ ClickBar \/ ClickPort \/ WheelList \/ ClickList \/ Press \/ PressLogs \/ Drag \/ Release
    \/ MouseOverLogs
MenuKey(k) == LifecycleMenuKey(k) \/ ProfileMenuKey(k) \/ RouteProjectKey(k)
MenuMouse ==
    \/ \E m \in Clicks : CloseMenu(m)
    \/ ClickOption \/ ClickTrigger \/ \E action \in frame.footer : ClickFooter(action)

LEMMA WhoChanges ==
    ASSUME Input
    PROVE  /\ ui' = ui \/ (\E k \in Keys : UiKey(k)) \/ UiMouse
           /\ menus' = menus \/ (\E k \in Keys : MenuKey(k)) \/ MenuMouse
           /\ logs' = logs \/ \E k \in Keys : SearchKey(k) \/ RouteLogsKey(k)
           /\ \/ requests' = requests
              \/ (\E k \in Keys : ProfileMenuKey(k) \/ RouteProjectKey(k) \/ ListKey(k))
              \/ ClickOption
<1>1. ASSUME NEW k \in Keys,
             \/ QuitKey(k) \/ LifecycleMenuKey(k) \/ ProfileMenuKey(k) \/ RouteProjectKey(k)
             \/ SearchKey(k) \/ RouteLogsKey(k) \/ FocusKey(k) \/ ChildKey(k) \/ ListKey(k)
             \/ CopyKey(k) \/ LogsFocusKey(k) \/ LostKey(k)
      PROVE  /\ ui' = ui \/ UiKey(k)
             /\ menus' = menus \/ MenuKey(k)
             /\ logs' = logs \/ SearchKey(k) \/ RouteLogsKey(k)
             /\ requests' = requests \/ ProfileMenuKey(k) \/ RouteProjectKey(k) \/ ListKey(k)
    BY <1>1 DEF UiKey, MenuKey, QuitKey, LifecycleMenuKey, ProfileMenuKey, RouteProjectKey,
       SearchKey, RouteLogsKey, FocusKey, ChildKey, ListKey, CopyKey, LogsFocusKey, LostKey, Consumed
<1>2. CASE MouseInput
    BY <1>2 DEF UiMouse, MenuMouse, MouseInput, CloseMenu, ClickOption, ClickTrigger, ClickFooter,
       ClickBar, ClickPort, WheelList, ClickList, Press, PressLogs, Drag, Release, MouseOverLogs
<1>3. CASE Paste \/ FocusReport \/ Resize
    BY <1>3 DEF Paste, FocusReport, Resize
<1> QED
    BY <1>1, <1>2, <1>3 DEF Input, KeyInput

LEMMA CopyIsAState ==
    ASSUME NEW u \in UiStates
    PROVE  IntoCopy(u) \in UiStates
BY DEF IntoCopy, UiStates, Modes

LEMMA InputKeepsUiTyped ==
    ASSUME InteractionAssumption, TypeOK, Input
    PROVE  UiType'
<1>1. \A p \in Processes : \A move : Moved(p, move) \in Processes
    BY MovedIsAProcess
<1>2. UiType
    BY DEF TypeOK
<1>3. ASSUME NEW k \in Keys, UiKey(k)
      PROVE  UiType'
    <2>1. CASE FocusKey(k)
        BY <1>2, <2>1 DEF UiType, UiStates, Modes, FocusKey, Focus
    <2>2. CASE ListKey(k)
        BY <1>2, <2>2 DEF UiType, UiStates, Modes, ListKey
    <2>3. CASE CopyKey(k)
        BY <1>2, <2>3 DEF UiType, UiStates, Modes, CopyKey
    <2>4. CASE LogsFocusKey(k)
        BY <1>2, <2>4 DEF UiType, UiStates, Modes, LogsFocusKey
    <2> QED
        BY <1>3, <2>1, <2>2, <2>3, <2>4 DEF UiKey
<1>4. CASE ClickBar \/ ClickPort \/ WheelList \/ ClickList
    <2>1. CASE ClickBar
        BY <1>2, <2>1 DEF UiType, UiStates, Modes, ClickBar
    <2>2. CASE ClickPort
        BY <1>2, <2>2 DEF UiType, UiStates, ClickPort
    <2>3. CASE WheelList
        <3>1. \E p \in Processes : ui' = [ui EXCEPT !.selected = p]
            BY <1>1, <1>2, <2>3 DEF UiType, UiStates, WheelList
        <3> QED
            BY <1>2, <3>1 DEF UiType, UiStates
    <2>4. CASE ClickList
        BY <1>2, <2>4 DEF UiType, UiStates, Modes, ClickList
    <2> QED
        BY <1>4, <2>1, <2>2, <2>3, <2>4
<1>5. CASE Release \/ MouseOverLogs
    BY <1>2, <1>5 DEF UiType, UiStates, Modes, Release, MouseOverLogs
<1>6. CASE Press \/ PressLogs
    <2> DEFINE bar == ui.bar /\ ui.mode # "list"
               pressed(owner) == [ui EXCEPT !.mode = Focused, !.gesture = owner, !.bar = bar]
    <2>1. bar \in BOOLEAN /\ Focused \in Modes
        BY <1>2 DEF UiType, UiStates, Modes, Focused
    <2> HIDE DEF bar
    <2>6. \A owner \in {"child", "stackhand"} : pressed(owner) \in UiStates
        BY <1>2, <2>1 DEF UiType, UiStates, Modes
    <2>2. \A owner \in {"child", "stackhand"} :
              pressed(owner) \in UiStates /\ IntoCopy(pressed(owner)) \in UiStates
        <3> HIDE DEF pressed
        <3> QED
            BY <2>6, CopyIsAState
    <2>3. \A mode, shift : Owner(mode, shift) \in {"child", "stackhand"}
        BY DEF Owner
    <2>4. CASE Press
        <3>1. \E shift \in BOOLEAN : LET owner == Owner(Focused, shift)
                                     IN  \/ ui' = pressed(owner)
                                         \/ ui' = IntoCopy(pressed(owner))
            BY <2>4 DEF Press, bar
        <3> HIDE DEF pressed
        <3>2. ui' \in UiStates
            BY <2>2, <2>3, <3>1
        <3> QED
            BY <3>2 DEF UiType, UiStates
    <2>5. CASE PressLogs
        <3>1. ui' = [ui EXCEPT !.mode = Focused, !.bar = bar]
            BY <2>5 DEF PressLogs, bar
        <3> QED
            BY <1>2, <2>1, <3>1 DEF UiType, UiStates
    <2> QED
        BY <1>6, <2>4, <2>5
<1>7. CASE Drag
    <2>1. ui \in UiStates
        BY <1>2 DEF UiType, UiStates
    <2>2. ui' \in UiStates
        BY <1>7, <2>1, CopyIsAState DEF Drag
    <2> QED
        BY <2>2 DEF UiType, UiStates
<1> QED
    BY <1>2, <1>3, <1>4, <1>5, <1>6, <1>7, WhoChanges DEF UiMouse, UiType, UiStates

LEMMA InputKeepsLogsTyped ==
    ASSUME InteractionAssumption, TypeOK, Input
    PROVE  LogsType'
<1>1. ui.selected \in Processes /\ LogsType
    BY DEF TypeOK, UiType, UiStates
<1>2. menus' \subseteq {"lifecycle", "profiles"}
    <2>1. ASSUME NEW k \in Keys, MenuKey(k)
          PROVE  menus' \subseteq {"lifecycle", "profiles"}
        BY <1>1, <2>1 DEF LogsType, MenuKey, LifecycleMenuKey, ProfileMenuKey, RouteProjectKey, ProjectKey
    <2>2. CASE MenuMouse
        BY <1>1, <2>2 DEF LogsType, MenuMouse, CloseMenu, ClickOption, ClickTrigger, ClickFooter
    <2> QED
        BY <1>1, <2>1, <2>2, WhoChanges DEF LogsType
<1>4. ASSUME NEW k \in Keys, SearchKey(k) \/ RouteLogsKey(k)
      PROVE  logs' \in [Processes -> [view : Views, editing : BOOLEAN, origin : Views]]
    <2>1. \A view \in Views, editing \in BOOLEAN, origin \in Views :
              [logs EXCEPT ![ui.selected] = [view |-> view, editing |-> editing, origin |-> origin]]
                  \in [Processes -> [view : Views, editing : BOOLEAN, origin : Views]]
        BY <1>1 DEF LogsType
    <2>2. /\ logs[ui.selected] \in [view : Views, editing : BOOLEAN, origin : Views]
          /\ logs \in [Processes -> [view : Views, editing : BOOLEAN, origin : Views]]
        BY <1>1 DEF LogsType
    <2>3. Representation(k) \in Views
        BY <2>2 DEF Representation, Views
    <2>4. CASE SearchKey(k)
        BY <1>1, <2>2, <2>4 DEF SearchKey
    <2>5. CASE RouteLogsKey(k) /\ k = "/"
        BY <2>1, <2>3, <2>5 DEF RouteLogsKey, Views
    <2>6. CASE RouteLogsKey(k) /\ k # "/"
        BY <1>1, <2>2, <2>6 DEF RouteLogsKey, Views
    <2> QED
        BY <1>4, <2>4, <2>5, <2>6
<1> QED
    BY <1>1, <1>2, <1>4, WhoChanges DEF LogsType

LEMMA InputKeepsRequestsTyped ==
    ASSUME InteractionAssumption, TypeOK, Input
    PROVE  RequestsType'
<1>1. frame.process \in Processes /\ RequestsType /\ Aim \in Processes
    BY AimIsAProcess DEF TypeOK, FrameType
<1>2. /\ ForProject \in Commands /\ [to |-> frame.process, aimed |-> Aim] \in Commands
    BY <1>1 DEF Commands, ForProject, InteractionAssumption, Processes
<1>3. /\ \A command \in Commands : Append(requests.project, command) \in Seq(Commands)
      /\ \A p \in Processes : Append(requests.lifecycle, p) \in Seq(Processes)
      /\ \A move \in {"up", "down"} : Append(requests.moves, move) \in Seq({"up", "down"})
    <2>1. /\ requests.project \in Seq(Commands) /\ requests.lifecycle \in Seq(Processes)
          /\ requests.moves \in Seq({"up", "down"})
        BY <1>1 DEF RequestsType
    <2> QED
        BY <2>1, AppendProperties
<1>4. \A command \in Commands : ToProject(command) => RequestsType'
    BY <1>1, <1>3 DEF ToProject, RequestsType
<1>5. ASSUME NEW k \in Keys, ProfileMenuKey(k) \/ RouteProjectKey(k)
      PROVE  requests' = requests \/ \E command \in Commands : ToProject(command)
    <2>1. CASE ProfileMenuKey(k)
        BY <1>2, <2>1 DEF ProfileMenuKey
    <2>2. CASE RouteProjectKey(k) /\ k = "p"
        BY <2>2 DEF RouteProjectKey
    <2>3. CASE RouteProjectKey(k) /\ k = "R"
        BY <1>2, <2>3 DEF RouteProjectKey
    <2>4. CASE RouteProjectKey(k) /\ k = "S"
        BY <1>2, <2>4 DEF RouteProjectKey
    <2> QED
        BY <1>5, <2>1, <2>2, <2>3, <2>4 DEF RouteProjectKey, ProjectKey
<1>8. requests' = requests => RequestsType'
    BY <1>1 DEF RequestsType
<1>6. CASE ClickOption
    BY <1>2, <1>4, <1>6, <1>8 DEF ClickOption
<1>7. ASSUME NEW k \in Keys, ListKey(k)
      PROVE  RequestsType'
    <2>1. \/ requests' = requests
          \/ \E move \in {"up", "down"} : requests' = [requests EXCEPT !.moves = Append(requests.moves, move)]
          \/ requests' = [requests EXCEPT !.lifecycle = Append(requests.lifecycle, Aim)]
        BY <1>7 DEF ListKey, Requested
    <2> QED
        BY <1>1, <1>3, <2>1 DEF RequestsType
<1> QED
    BY <1>4, <1>5, <1>6, <1>7, <1>8, WhoChanges

LEMMA KeysAreTyped ==
    ASSUME NEW action \in Actions \ {"Quit", "OpenLifecycleMenu"}
    PROVE  KeyOf(action) \in Keys /\ KeysOf(action) \in Seq(Keys)
<1>1. KeyOf(action) \in Keys
    BY DEF KeyOf, Keys, Actions
<1>2. <<"CtrlA", "v">> \in Seq(Keys)
    BY DEF Keys
<1>3. \A k \in Keys : <<k>> \in Seq(Keys)
    OBVIOUS
<1> QED
    BY <1>1, <1>2, <1>3, Zenon DEF KeysOf

LEMMA InputKeepsLoopTyped ==
    ASSUME InteractionAssumption, TypeOK, Input
    PROVE  LoopType'
<1>1. LoopType /\ FrameType
    BY DEF TypeOK
<1>2. ASSUME NEW keys \in Seq(Keys), StandsFor(keys), loop.keys = <<>> => loop.left > 0
      PROVE  loop' \in [left : Nat, keys : Seq(Keys)]
    <2>1. Rest \in [left : Nat, keys : Seq(Keys)]
        <3>1. CASE loop.keys = <<>>
            BY <1>1, <1>2, <3>1 DEF Rest, LoopType
        <3>2. CASE loop.keys # <<>>
            <4>1. Tail(loop.keys) \in Seq(Keys)
                BY <1>1, <3>2, HeadTailProperties DEF LoopType
            <4> QED
                BY <1>1, <3>2, <4>1 DEF Rest, LoopType
        <3> QED
            BY <3>1, <3>2
    <2>2. keys \o Rest.keys \in Seq(Keys)
        BY <2>1, ConcatProperties
    <2> QED
        BY <1>2, <2>1, <2>2 DEF StandsFor
<1>3. \E keys : StandsFor(keys) /\ keys \in Seq(Keys) /\ (loop.keys = <<>> => loop.left > 0)
    <2>1. <<>> \in Seq(Keys) /\ <<"s">> \in Seq(Keys)
        BY DEF Keys
    <2>2. ASSUME KeyInput
          PROVE  \E keys \in {<<>>, <<"s">>} :
                     StandsFor(keys) /\ (loop.keys = <<>> => loop.left > 0)
        BY <2>2 DEF KeyInput, QuitKey, LifecycleMenuKey, ProfileMenuKey, RouteProjectKey, SearchKey,
               RouteLogsKey, FocusKey, ChildKey, ListKey, CopyKey, LogsFocusKey, LostKey, Take,
               Pressed, Arrives
    <2>3. ASSUME NEW action \in frame.footer, ClickFooter(action)
          PROVE  \E keys \in Seq(Keys) :
                     StandsFor(keys) /\ (loop.keys = <<>> => loop.left > 0)
        <3>1. loop.left > 0 /\ action \in Actions
            BY <1>1, <2>3 DEF ClickFooter, Arrives, FrameType
        <3> QED
            BY <2>1, <2>3, <3>1, KeysAreTyped DEF ClickFooter
    <2>4. ASSUME Input, ~KeyInput, ~\E action \in frame.footer : ClickFooter(action)
          PROVE  \E keys \in {<<>>, <<"s">>} :
                     StandsFor(keys) /\ (loop.keys = <<>> => loop.left > 0)
        BY <2>4 DEF Input, Paste, FocusReport, MouseInput, CloseMenu, ClickOption, ClickTrigger,
               ClickBar, ClickPort, WheelList, ClickList, Press, PressLogs, Drag, Release,
               MouseOverLogs, Resize, TakeMouse, Arrives
    <2> QED
        BY <2>1, <2>2, <2>3, <2>4
<1>4. resize' \in [pane : Nat, latest : Nat, count : Nat]
    <2>1. resize' = resize \/ Resize
        BY DEF Input, KeyInput, QuitKey, LifecycleMenuKey, ProfileMenuKey, RouteProjectKey,
           SearchKey, RouteLogsKey, FocusKey, ChildKey, ListKey, CopyKey, LogsFocusKey, LostKey,
           Consumed, Paste, FocusReport, MouseInput, CloseMenu, ClickOption, ClickTrigger,
           ClickFooter, ClickBar, ClickPort, WheelList, ClickList, Press, PressLogs, Drag, Release,
           MouseOverLogs
    <2> QED
        BY <1>1, <2>1 DEF LoopType, Resize
<1> QED
    BY <1>2, <1>3, <1>4 DEF LoopType

(* What an input does to a child or has a pass send.                       *)
LEMMA InputEffects ==
    ASSUME Input
    PROVE  effects' \in {[child |-> 0, sent |-> {}], [child |-> frame.process, sent |-> {}]}
BY DEF Input, KeyInput, QuitKey, LifecycleMenuKey, ProfileMenuKey, RouteProjectKey, SearchKey,
       RouteLogsKey, FocusKey, ChildKey, ListKey, CopyKey, LogsFocusKey, LostKey, Consumed, Paste,
       FocusReport, MouseInput, CloseMenu, ClickOption, ClickTrigger, ClickFooter, ClickBar,
       ClickPort, WheelList, ClickList, Press, PressLogs, Drag, Release, MouseOverLogs, Resize,
       ToChild, NoEffects

LEMMA FooterIsTyped ==
    ASSUME NEW p
    PROVE  FooterActions(p) \in SUBSET Actions
<1>1. ListActions(p) \in SUBSET Actions
    BY DEF ListActions, Actions
<1>2. CASE ui.mode = "list"
    BY <1>1, <1>2 DEF FooterActions, Actions
<1>3. CASE ui.mode # "list" /\ ui.mode = "copy"
    BY <1>3 DEF FooterActions, Actions
<1>4. CASE ui.mode # "list" /\ ui.mode # "copy"
    BY <1>4 DEF FooterActions, Actions
<1> QED
    BY <1>2, <1>3, <1>4

LEMMA PassKeepsTypes ==
    ASSUME InteractionAssumption, TypeOK, NextPass
    PROVE  WorldType' /\ UiType' /\ LogsType' /\ RequestsType' /\ FrameType' /\ LoopType'
           /\ effects' \in [child : 0..P, sent : SUBSET Commands]
<1>1. Aim \in Processes
    BY AimIsAProcess DEF TypeOK
<1>2. UiType' /\ LogsType'
    BY <1>1 DEF TypeOK, NextPass, UiType, UiStates, LogsType
<1>3. RequestsType'
    BY EmptySeq DEF NextPass, NoRequests, RequestsType
<1>4. FrameType'
    <2> DEFINE waits == Aim \in world.waiting
    <2>1. waits \in BOOLEAN /\ world.pending \in BOOLEAN /\ world.run[Aim] \in Nat
        BY <1>1 DEF TypeOK, WorldType
    <2>2. PaneOf(Aim) \in Views /\ FooterActions(Aim) \in SUBSET Actions
        BY FooterIsTyped DEF PaneOf, Views
    <2>3. frame' = [process |-> Aim, pane |-> PaneOf(Aim), run |-> world.run[Aim], waits |-> waits,
                    pending |-> world.pending, footer |-> FooterActions(Aim)]
        BY DEF NextPass, FrameOf
    <2> HIDE DEF waits
    <2> QED
        BY <1>1, <2>1, <2>2, <2>3 DEF FrameType
<1>5. WorldType' /\ resize' \in [pane : Nat, latest : Nat, count : Nat]
    <2>1. world' = world /\ WorldType /\ resize \in [pane : Nat, latest : Nat, count : Nat]
        BY DEF NextPass, TypeOK, LoopType
    <2>2. \/ resize' = resize /\ terminals' = terminals
          \/ resize' = [resize EXCEPT !.latest = 0]
             /\ \/ terminals' = terminals
                \/ terminals' = [terminals EXCEPT ![Aim].size = resize.latest]
        BY DEF NextPass, TakeResize
    <2>3. resize.latest \in Nat
        BY <2>1
    <2>4. [terminals EXCEPT ![Aim].size = resize.latest]
              \in [Processes -> [size : Nat, selecting : BOOLEAN]]
        BY <1>1, <2>3, TerminalsStayTyped
    <2>5. resize' \in [pane : Nat, latest : Nat, count : Nat]
        BY <2>1, <2>2
    <2>6. terminals' \in [Processes -> [size : Nat, selecting : BOOLEAN]]
        BY <2>1, <2>2, <2>4, Zenon DEF WorldType
    <2> QED
        BY <2>1, <2>5, <2>6 DEF WorldType
<1>6. LoopType'
    <2>1. loop' = [left |-> BatchLimit, keys |-> <<>>] /\ BatchLimit \in Nat
        BY DEF NextPass, InteractionAssumption
    <2>2. loop' \in [left : Nat, keys : Seq(Keys)]
        BY <2>1, EmptySeq
    <2> QED
        BY <1>5, <2>2 DEF LoopType
<1>7. effects' \in [child : 0..P, sent : SUBSET Commands]
    <2>1. /\ requests.lifecycle \in Seq(Processes) /\ requests.project \in Seq(Commands)
        BY DEF TypeOK, RequestsType
    <2>2. /\ \A i \in DOMAIN requests.lifecycle : requests.lifecycle[i] \in Processes
          /\ \A i \in DOMAIN requests.project : requests.project[i] \in Commands
        BY <2>1
    <2>3. Sent(Aim) \in SUBSET Commands
        BY <1>1, <2>2 DEF Sent, Commands, Processes
    <2>4. effects' = [child |-> 0, sent |-> Sent(Aim)] /\ 0 \in 0..P
        BY DEF NextPass, InteractionAssumption
    <2> QED
        BY <2>3, <2>4
<1> QED
    BY <1>2, <1>3, <1>4, <1>5, <1>6, <1>7

LEMMA StepIsTyped ==
    ASSUME InteractionAssumption, TypeOK, [Next]_vars
    PROVE  TypeOK'
<1>1. CASE Next
    <2>1. moved' \in BOOLEAN /\ refocused' \in BOOLEAN
        <3>1. (moved' = FALSE \/ moved' = (moved \/ SelectionMoves))
              /\ \/ refocused' = (refocused /\ "lifecycle" \in menus)
                 \/ refocused' = (refocused \/ FocusMoves)
            BY <1>1, Zenon DEF Next
        <3> QED
            BY <3>1, Zenon
    <2>2. CASE NextPass
        BY <2>1, <2>2, PassKeepsTypes DEF TypeOK, EffectsType
    <2>3. CASE SupervisorMoves
        <3>1. WorldType'
            BY <2>3, SupervisorKeepsTypes
        <3>2. UNCHANGED <<ui, logs, menus, requests, frame, loop, resize>>
            BY <2>3 DEF SupervisorMoves
        <3>3. effects' \in [child : 0..P, sent : SUBSET Commands]
            BY <2>3 DEF SupervisorMoves, NoEffects, InteractionAssumption
        <3> QED
            BY <2>1, <3>1, <3>2, <3>3 DEF TypeOK, UiType, LogsType, RequestsType, FrameType, LoopType,
                                          EffectsType
    <2>4. CASE Input
        <3>1. WorldType' /\ frame' = frame
            BY <2>4, InputKeepsTerminalsTyped
        <3>2. UiType' /\ LogsType' /\ RequestsType' /\ LoopType'
            BY <2>4, InputKeepsUiTyped, InputKeepsLogsTyped, InputKeepsRequestsTyped,
               InputKeepsLoopTyped
        <3>3. FrameType' /\ frame.process \in 0..P /\ 0 \in 0..P
            BY <3>1 DEF TypeOK, FrameType, InteractionAssumption, Processes
        <3>4. effects' \in [child : 0..P, sent : SUBSET Commands]
            BY <2>4, <3>3, InputEffects
        <3> QED
            BY <2>1, <3>1, <3>2, <3>3, <3>4 DEF TypeOK, EffectsType
    <2> QED
        BY <1>1, <2>2, <2>3, <2>4 DEF Next
<1>2. CASE UNCHANGED vars
    BY <1>2 DEF vars, TypeOK, WorldType, UiType, LogsType, RequestsType, FrameType, LoopType,
                EffectsType
<1> QED
    BY <1>1, <1>2

-----------------------------------------------------------------------------
(* While no other Process was selected, everything is about the one that   *)
(* is: the pane and the footer, and the commands not yet sent.             *)
Aligned ==
    ~moved =>
        /\ ui.selected = frame.process /\ requests.moves = <<>>
        /\ \A i \in DOMAIN requests.lifecycle : requests.lifecycle[i] = ui.selected
        /\ \A i \in DOMAIN requests.project : requests.project[i].to = requests.project[i].aimed

(* One more request.                                                       *)
LEMMA AppendedIs ==
    ASSUME NEW S, NEW s \in Seq(S), NEW e \in S, NEW i \in DOMAIN Append(s, e)
    PROVE  Append(s, e)[i] = e \/ (i \in DOMAIN s /\ Append(s, e)[i] = s[i])
<1>1. PICK n \in Nat : n = Len(s) /\ DOMAIN s = 1..n
    BY LenProperties
<1>2. PICK m \in Nat : m = Len(Append(s, e)) /\ DOMAIN Append(s, e) = 1..m
    BY AppendProperties, LenProperties
<1>3. /\ m = n + 1 /\ Append(s, e)[n + 1] = e /\ \A j \in 1..n : Append(s, e)[j] = s[j]
    BY <1>1, <1>2, AppendProperties
<1>4. i \in 1..n \/ i = n + 1
    BY <1>2, <1>3
<1> QED
    BY <1>1, <1>3, <1>4

LEMMA RequestsStayAligned ==
    ASSUME InteractionAssumption, TypeOK, Aligned, ~moved, Input
    PROVE  /\ \A i \in DOMAIN requests'.lifecycle : requests'.lifecycle[i] = ui.selected
           /\ \A i \in DOMAIN requests'.project : requests'.project[i].to = requests'.project[i].aimed
<1>1. /\ ui.selected = frame.process /\ Aim = ui.selected /\ Aim \in Processes
      /\ requests.lifecycle \in Seq(Processes) /\ requests.project \in Seq(Commands)
      /\ \A i \in DOMAIN requests.lifecycle : requests.lifecycle[i] = ui.selected
      /\ \A i \in DOMAIN requests.project : requests.project[i].to = requests.project[i].aimed
    BY AimWithoutMoves, AimIsAProcess DEF Aligned, TypeOK, RequestsType
<1>2. /\ requests \in [project : Seq(Commands), moves : Seq({"up", "down"}),
                      lifecycle : Seq(Processes)]
      /\ ForProject \in Commands /\ [to |-> frame.process, aimed |-> Aim] \in Commands
    BY <1>1 DEF TypeOK, RequestsType, Commands, ForProject, InteractionAssumption, Processes
<1>3. \A command \in {ForProject, [to |-> frame.process, aimed |-> Aim]} :
          command \in Commands /\ command.to = command.aimed
    BY <1>1, <1>2 DEF ForProject
<1>4. ASSUME NEW command \in {ForProject, [to |-> frame.process, aimed |-> Aim]},
             ToProject(command)
      PROVE  /\ requests'.lifecycle = requests.lifecycle
             /\ \A i \in DOMAIN requests'.project :
                    requests'.project[i].to = requests'.project[i].aimed
    <2>1. requests'.lifecycle = requests.lifecycle
          /\ requests'.project = Append(requests.project, command)
        BY <1>2, <1>4 DEF ToProject
    <2>2. ASSUME NEW i \in DOMAIN Append(requests.project, command)
          PROVE  \/ Append(requests.project, command)[i] = command
                 \/ i \in DOMAIN requests.project
                    /\ Append(requests.project, command)[i] = requests.project[i]
        BY <1>1, <1>3, AppendedIs
    <2> QED
        BY <1>1, <1>3, <2>1, <2>2
<1>5. ASSUME NEW k \in Keys, ProfileMenuKey(k) \/ RouteProjectKey(k)
      PROVE  requests' = requests
             \/ \E command \in {ForProject, [to |-> frame.process, aimed |-> Aim]} : ToProject(command)
    <2>1. CASE ProfileMenuKey(k)
        BY <2>1 DEF ProfileMenuKey
    <2>2. CASE RouteProjectKey(k) /\ k = "p"
        BY <2>2 DEF RouteProjectKey
    <2>3. CASE RouteProjectKey(k) /\ k = "R"
        BY <2>3 DEF RouteProjectKey
    <2>4. CASE RouteProjectKey(k) /\ k = "S"
        BY <2>4 DEF RouteProjectKey
    <2> QED
        BY <1>5, <2>1, <2>2, <2>3, <2>4 DEF RouteProjectKey, ProjectKey
<1>6. ClickOption => requests' = requests \/ ToProject(ForProject)
    BY DEF ClickOption
<1>7. ASSUME NEW k \in Keys, ListKey(k)
      PROVE  /\ requests'.project = requests.project
             /\ \A i \in DOMAIN requests'.lifecycle : requests'.lifecycle[i] = ui.selected
    <2>1. /\ requests'.project = requests.project
          /\ \/ requests'.lifecycle = requests.lifecycle
             \/ requests'.lifecycle = Append(requests.lifecycle, Aim)
        BY <1>2, <1>7 DEF ListKey, Requested
    <2>2. ASSUME NEW i \in DOMAIN Append(requests.lifecycle, Aim)
          PROVE  \/ Append(requests.lifecycle, Aim)[i] = Aim
                 \/ i \in DOMAIN requests.lifecycle
                    /\ Append(requests.lifecycle, Aim)[i] = requests.lifecycle[i]
        BY <1>1, AppendedIs
    <2> QED
        BY <1>1, <2>1, <2>2
<1> QED
    BY <1>1, <1>4, <1>5, <1>6, <1>7, WhoChanges

LEMMA StepKeepsAligned ==
    ASSUME InteractionAssumption, TypeOK, Aligned, [Next]_vars
    PROVE  Aligned'
<1>1. CASE NextPass
    <2>1. ui'.selected = Aim /\ frame'.process = Aim
        BY <1>1 DEF NextPass, FrameOf, TypeOK, UiType, UiStates
    <2>2. requests'.moves = <<>> /\ requests'.lifecycle = <<>> /\ requests'.project = <<>>
        BY <1>1 DEF NextPass, NoRequests
    <2> QED
        BY <2>1, <2>2 DEF Aligned
<1>2. CASE (SupervisorMoves \/ Input) /\ moved' = (moved \/ SelectionMoves)
    <2> SUFFICES ASSUME ~moved'
                 PROVE  Aligned'
        BY DEF Aligned
    <2>1. ~moved /\ ui'.selected = ui.selected /\ requests'.moves = requests.moves
        <3>1. ~moved /\ ~SelectionMoves
            BY <1>2, Zenon
        <3> QED
            BY <3>1 DEF SelectionMoves
    <2>2. frame' = frame
        BY <1>2, InputKeepsTerminalsTyped DEF SupervisorMoves
    <2>3. CASE SupervisorMoves
        BY <2>1, <2>2, <2>3 DEF Aligned, SupervisorMoves
    <2>4. CASE Input
        BY <2>1, <2>2, <2>4, RequestsStayAligned DEF Aligned
    <2> QED
        BY <1>2, <2>3, <2>4
<1>3. CASE UNCHANGED vars
    BY <1>3 DEF vars, Aligned
<1> QED
    BY <1>1, <1>2, <1>3 DEF Next

-----------------------------------------------------------------------------
(* The types, and what a child or a Process gets is what the selected one  *)
(* was given.                                                              *)
THEOREM InputIsTyped ==
    ASSUME InteractionAssumption
    PROVE  Spec => []TypeOK
<1>1. Init => TypeOK
    BY InitIsTyped
<1>2. TypeOK /\ [Next]_vars => TypeOK'
    BY StepIsTyped
<1> QED
    BY <1>1, <1>2, PTL DEF Spec

(* What a key does to a child or to a Process, it does to the one that was *)
(* selected when it was pressed.                                           *)
THEOREM KeysReachTheSelectedProcess ==
    ASSUME InteractionAssumption
    PROVE  Spec => [][KeyReachesTheSelectedProcess]_vars
<1>1. Init => TypeOK /\ Aligned
    <2> SUFFICES ASSUME Init
                 PROVE  Aligned
        BY InitIsTyped
    <2> QED
        BY DEF Init, Aligned, NoRequests
<1>2. TypeOK /\ Aligned /\ [Next]_vars => (TypeOK /\ Aligned)'
    BY StepIsTyped, StepKeepsAligned
<1>3. ASSUME TypeOK, Aligned, [Next]_vars
      PROVE  [KeyReachesTheSelectedProcess]_vars
    <2> SUFFICES ASSUME Next, ~moved
                 PROVE  /\ effects'.child \in {0, Aim}
                        /\ \A command \in effects'.sent : command.to = command.aimed
        BY <1>3 DEF KeyReachesTheSelectedProcess
    <2>1. /\ Aim = ui.selected /\ ui.selected = frame.process
          /\ \A i \in DOMAIN requests.lifecycle : requests.lifecycle[i] = ui.selected
          /\ \A i \in DOMAIN requests.project : requests.project[i].to = requests.project[i].aimed
        BY <1>3, AimWithoutMoves DEF Aligned
    <2>2. CASE NextPass
        BY <2>1, <2>2 DEF NextPass, Sent
    <2>3. CASE SupervisorMoves
        BY <2>3 DEF SupervisorMoves, NoEffects
    <2>4. CASE Input
        BY <2>1, <2>4, InputEffects
    <2> QED
        BY <2>2, <2>3, <2>4 DEF Next
<1> QED
    BY <1>1, <1>2, <1>3, PTL DEF Spec

-----------------------------------------------------------------------------
(* However Copy is left, the cells it selected no longer look active.      *)
THEOREM LeavingCopyClears ==
    ASSUME InteractionAssumption
    PROVE  Spec => [][CopyClears]_vars
<1>1. Init => TypeOK
    BY InitIsTyped
<1>2. TypeOK /\ [Next]_vars => TypeOK'
    BY StepIsTyped
<1>3. ASSUME TypeOK, [Next]_vars
      PROVE  [CopyClears]_vars
    <2> SUFFICES ASSUME Next, ui.mode = "copy", ui'.mode # "copy", Live
                 PROVE  ~terminals'[frame.process].selecting
        BY <1>3 DEF CopyClears
    <2>1. /\ ui \in UiStates /\ frame.process \in Processes
          /\ terminals \in [Processes -> [size : Nat, selecting : BOOLEAN]]
        BY <1>3 DEF TypeOK, UiType, FrameType, WorldType
    <2>2. terminals' = Deselect(terminals) => ~terminals'[frame.process].selecting
        BY <2>1 DEF Deselect
    <2>3. InTerminal
        BY DEF Live
    <2>4. Input
        BY <2>1 DEF Next, NextPass, SupervisorMoves, UiStates
    <2>5. ASSUME NEW k \in Keys, UiKey(k)
          PROVE  terminals' = Deselect(terminals)
        BY <2>1, <2>3, <2>5 DEF UiStates, UiKey, FocusKey, Focus, ListKey, CopyKey, LogsFocusKey
    <2>6. CASE ClickBar \/ ClickPort \/ WheelList \/ PressLogs \/ Release \/ MouseOverLogs
        BY <2>1, <2>6 DEF UiStates, ClickBar, ClickPort, WheelList, PressLogs, Focused, Release,
                          MouseOverLogs
    <2>7. CASE ClickList
        BY <2>2, <2>7 DEF ClickList
    <2>8. CASE Press \/ Drag
        BY <2>1, <2>8 DEF UiStates, Press, Focused, IntoCopy, Drag
    <2> QED
        BY <2>2, <2>4, <2>5, <2>6, <2>7, <2>8, WhoChanges DEF UiMouse
<1> QED
    BY <1>1, <1>2, <1>3, PTL DEF Spec

-----------------------------------------------------------------------------
(* What an action of the footer stands for.                                *)

(* While the focus stays where the footer was drawn for, an action of a    *)
(* terminal in focus begins with the key that leaves it, and the menu of   *)
(* lifecycle commands is closed.                                           *)
KeysAreFew ==
    \/ loop.keys = <<>>
    \/ /\ \/ \E k \in Keys : loop.keys = <<k>>
          \/ loop.keys = <<"CtrlA", "v">> /\ ui.mode = "console"
       /\ "lifecycle" \notin menus

Terminal == frame.pane = "terminal" /\ ui.mode = "console"

MenuIsElsewhere ==
    ~refocused /\ ui.mode = "console" =>
        "lifecycle" \notin menus /\ "OpenLifecycleMenu" \notin frame.footer

ActionsLeaveTheTerminal ==
    ~refocused /\ Terminal =>
        /\ frame.footer \subseteq {"EnterCopy", "Quit"}
        /\ \/ loop.keys = <<>> \/ loop.keys = <<"CtrlA", "v">>
           \/ loop.keys = <<"v">> /\ (~Live \/ Editing \/ MenuOpen)

RunsAreOld ==
    /\ frame.run <= world.started /\ \A p \in Processes : world.run[p] <= world.started
    /\ frame.pane = "terminal" => frame.run # 0

FooterSound == KeysAreFew /\ MenuIsElsewhere /\ ActionsLeaveTheTerminal /\ RunsAreOld

(* A Run that ended does not come back.                                    *)
LEMMA SupervisorKeepsFooterSound ==
    ASSUME InteractionAssumption, TypeOK, FooterSound, SupervisorMoves,
           refocused' = (refocused \/ FocusMoves)
    PROVE  FooterSound'
<1>1. /\ UNCHANGED <<ui, logs, menus, requests, frame, loop>>
      /\ (refocused' <=> refocused)
    <2>1. UNCHANGED <<ui, logs, menus, requests, frame, loop>>
        BY DEF SupervisorMoves
    <2>2. ~FocusMoves
        BY <2>1 DEF FocusMoves
    <2>3. refocused' <=> refocused
        BY <2>2, Zenon
    <2> QED
        BY <2>1, <2>3
<1>2. /\ world.started \in Nat /\ world.run \in [Processes -> Nat] /\ frame.run \in Nat
      /\ world \in [run : [Processes -> Nat], started : Nat, waiting : SUBSET Processes,
                    pending : BOOLEAN]
      /\ frame.process \in Processes
    BY DEF TypeOK, WorldType, FrameType
<1>3. /\ world'.started \in Nat /\ world'.started >= world.started
      /\ \A p \in Processes : \/ world'.run[p] = world.run[p] \/ world'.run[p] = 0
                              \/ world'.run[p] = world.started + 1 /\ world'.started = world.started + 1
    <2>1. ASSUME NEW p \in Processes, RunStarts(p)
          PROVE  world'.started = world.started + 1
                 /\ world'.run = [world.run EXCEPT ![p] = world.started + 1]
        BY <1>2, <2>1 DEF RunStarts
    <2>2. ASSUME NEW p \in Processes, RunEnds(p)
          PROVE  world'.started = world.started /\ world'.run = [world.run EXCEPT ![p] = 0]
        BY <1>2, <2>2 DEF RunEnds
    <2>3. ASSUME (\E p \in Processes : Waits(p)) \/ ProfilePends
          PROVE  world'.started = world.started /\ world'.run = world.run
        BY <1>2, <2>3 DEF Waits, ProfilePends
    <2>6. \A q \in Processes, n \in Nat, p \in Processes :
              [world.run EXCEPT ![p] = n][q] = IF q = p THEN n ELSE world.run[q]
        BY <1>2
    <2>7. world.started + 1 \in Nat /\ world.started + 1 >= world.started
          /\ world.started >= world.started /\ 0 \in Nat
        BY <1>2
    <2>4. CASE \E p \in Processes : RunStarts(p)
        <3>1. PICK p \in Processes : RunStarts(p)
            BY <2>4
        <3>2. world'.started = world.started + 1
              /\ world'.run = [world.run EXCEPT ![p] = world.started + 1]
            BY <2>1, <3>1
        <3> QED
            BY <2>6, <2>7, <3>2
    <2>5. CASE \E p \in Processes : RunEnds(p)
        <3>1. PICK p \in Processes : RunEnds(p)
            BY <2>5
        <3>2. world'.started = world.started /\ world'.run = [world.run EXCEPT ![p] = 0]
            BY <2>2, <3>1
        <3> QED
            BY <1>2, <2>6, <2>7, <3>2
    <2> QED
        BY <1>2, <2>3, <2>4, <2>5 DEF SupervisorMoves
<1>4. RunsAreOld'
    BY <1>1, <1>2, <1>3 DEF FooterSound, RunsAreOld
<1>5. frame.pane = "terminal" /\ ~Live => ~Live'
    BY <1>1, <1>2, <1>3 DEF FooterSound, RunsAreOld, Live, InTerminal
<1>6. KeysAreFew' /\ MenuIsElsewhere'
    BY <1>1 DEF FooterSound, KeysAreFew, MenuIsElsewhere
<1>7. ActionsLeaveTheTerminal'
    BY <1>1, <1>5 DEF FooterSound, ActionsLeaveTheTerminal, Terminal, Editing, MenuOpen
<1> QED
    BY <1>4, <1>6, <1>7 DEF FooterSound

LEMMA PassKeepsFooterSound ==
    ASSUME InteractionAssumption, TypeOK, FooterSound, NextPass,
           refocused' = (refocused /\ "lifecycle" \in menus)
    PROVE  FooterSound'
<1>1. /\ loop'.keys = <<>> /\ menus' = menus /\ world' = world /\ ui'.mode = ui.mode
      /\ frame' = FrameOf(Aim) /\ Aim \in Processes
    BY AimIsAProcess DEF NextPass, TypeOK, UiType, UiStates
<1>2. ~refocused' => ~refocused \/ "lifecycle" \notin menus
    <2>1. ~(refocused /\ "lifecycle" \in menus) => ~refocused \/ "lifecycle" \notin menus
        OBVIOUS
    <2> QED
        BY <2>1, Zenon
<1>3. ~refocused' /\ ui.mode = "console" => "lifecycle" \notin menus
    BY <1>2 DEF FooterSound, MenuIsElsewhere
<1>4. ui.mode = "console" => /\ "OpenLifecycleMenu" \notin FooterActions(Aim)
                             /\ PaneOf(Aim) = "terminal" => FooterActions(Aim) = {"EnterCopy", "Quit"}
    BY DEF FooterActions
<1>5. /\ frame'.footer = FooterActions(Aim) /\ frame'.pane = PaneOf(Aim)
      /\ frame'.run = world.run[Aim]
    BY <1>1 DEF FrameOf
<1>6. PaneOf(Aim) = "terminal" => world.run[Aim] # 0
    BY DEF PaneOf
<1>7. RunsAreOld'
    BY <1>1, <1>5, <1>6 DEF FooterSound, RunsAreOld
<1> QED
    BY <1>1, <1>3, <1>4, <1>5, <1>7 DEF FooterSound, KeysAreFew, MenuIsElsewhere,
                                        ActionsLeaveTheTerminal, Terminal

LEMMA KeysAfter ==
    ASSUME TypeOK, NEW keys \in Seq(Keys), StandsFor(keys)
    PROVE  /\ loop.keys = <<>> => loop'.keys = keys
           /\ loop.keys # <<>> /\ keys = <<>> => loop'.keys = Tail(loop.keys)
<1>1. loop \in [left : Nat, keys : Seq(Keys)]
    BY DEF TypeOK, LoopType
<1>2. CASE loop.keys = <<>>
    <2>1. Rest = [loop EXCEPT !.left = loop.left - 1]
        BY <1>2 DEF Rest
    <2>2. loop'.keys = keys \o <<>>
        BY <1>1, <1>2, <2>1 DEF StandsFor
    <2> QED
        BY <1>2, <2>2, ConcatEmptySeq
<1>3. CASE loop.keys # <<>>
    <2>1. Rest = [loop EXCEPT !.keys = Tail(loop.keys)] /\ Tail(loop.keys) \in Seq(Keys)
        BY <1>1, <1>3, HeadTailProperties DEF Rest
    <2>2. loop'.keys = keys \o Tail(loop.keys)
        BY <1>1, <2>1 DEF StandsFor
    <2> QED
        BY <1>3, <2>1, <2>2, ConcatEmptySeq
<1> QED
    BY <1>2, <1>3

(* A key other than one for the lifecycle menu.                            *)
OtherKey(k) ==
    \/ QuitKey(k) \/ ProfileMenuKey(k) \/ RouteProjectKey(k)
    \/ SearchKey(k) \/ RouteLogsKey(k) \/ FocusKey(k) \/ ChildKey(k) \/ ListKey(k)
    \/ CopyKey(k) \/ LogsFocusKey(k) \/ LostKey(k)

(* An input while no action's keys are being taken, and one of those keys. *)
LEMMA InputOrKey ==
    ASSUME TypeOK, KeysAreFew, Input
    PROVE  \/ loop.keys = <<>> /\ loop'.keys = <<>>
           \/ /\ loop.keys = <<>> /\ loop'.keys = <<"s">>
              /\ "lifecycle" \in menus /\ menus' = menus \ {"lifecycle"} /\ ui' = ui
           \/ /\ loop.keys = <<>>
              /\ \E action \in frame.footer :
                    /\ action \notin {"Quit", "OpenLifecycleMenu"} /\ "lifecycle" \notin menus
                    /\ loop'.keys = KeysOf(action) /\ menus' = menus /\ ui' = ui
           \/ /\ loop.keys # <<>> /\ loop'.keys = Tail(loop.keys)
              /\ \E k \in Keys : k = Head(loop.keys) /\ OtherKey(k)
<1>0. <<>> \in Seq(Keys) /\ <<"s">> \in Seq(Keys)
    BY DEF Keys
<1>1. ASSUME NEW k \in Keys, OtherKey(k)
      PROVE  Pressed(k) /\ StandsFor(<<>>)
    BY <1>1 DEF OtherKey, QuitKey, ProfileMenuKey, RouteProjectKey, SearchKey, RouteLogsKey,
                FocusKey, ChildKey, ListKey, CopyKey, LogsFocusKey, LostKey, Take
<1>2. CASE \E k \in Keys : OtherKey(k)
    <2>1. PICK k \in Keys : OtherKey(k) /\ Pressed(k) /\ StandsFor(<<>>)
        BY <1>1, <1>2
    <2>2. loop.keys # <<>> => k = Head(loop.keys)
        BY <2>1 DEF Pressed, Arrives
    <2> QED
        BY <1>0, <2>1, <2>2, KeysAfter
<1>3. CASE \E k \in Keys : LifecycleMenuKey(k)
    <2>1. PICK k \in Keys : LifecycleMenuKey(k)
        BY <1>3
    <2>2. "lifecycle" \in menus /\ loop.keys = <<>> /\ ui' = ui
        BY <2>1 DEF LifecycleMenuKey, KeysAreFew
    <2>3. CASE k = "Enter"
        BY <1>0, <2>1, <2>2, <2>3, KeysAfter DEF LifecycleMenuKey
    <2>4. CASE k # "Enter"
        BY <1>0, <2>1, <2>2, <2>4, KeysAfter DEF LifecycleMenuKey
    <2> QED
        BY <2>3, <2>4
<1>4. CASE ClickOption
    <2>1. loop.keys = <<>>
        BY <1>4 DEF ClickOption, Arrives
    <2>2. CASE "lifecycle" \in menus
        BY <1>0, <1>4, <2>1, <2>2, KeysAfter DEF ClickOption
    <2>3. CASE "lifecycle" \notin menus
        BY <1>0, <1>4, <2>1, <2>3, KeysAfter DEF ClickOption
    <2> QED
        BY <2>2, <2>3
<1>5. ASSUME NEW action \in frame.footer, ClickFooter(action)
      PROVE  \/ loop.keys = <<>> /\ loop'.keys = <<>>
             \/ /\ loop.keys = <<>> /\ action \notin {"Quit", "OpenLifecycleMenu"}
                /\ "lifecycle" \notin menus
                /\ loop'.keys = KeysOf(action) /\ menus' = menus /\ ui' = ui
    <2>1. loop.keys = <<>> /\ "lifecycle" \notin menus /\ ui' = ui
        BY <1>5 DEF ClickFooter, Arrives
    <2>2. CASE action \in {"Quit", "OpenLifecycleMenu"}
        BY <1>0, <1>5, <2>1, <2>2, KeysAfter DEF ClickFooter
    <2>3. CASE action \notin {"Quit", "OpenLifecycleMenu"}
        <3>1. KeysOf(action) \in Seq(Keys)
            BY <2>3, KeysAreTyped DEF TypeOK, FrameType
        <3> QED
            BY <1>5, <2>1, <2>3, <3>1, KeysAfter DEF ClickFooter
    <2> QED
        BY <2>2, <2>3
<1>6. CASE Paste \/ FocusReport \/ Resize \/ (\E m \in Clicks : CloseMenu(m)) \/ ClickTrigger
           \/ UiMouse
    <2>1. loop.keys = <<>> /\ StandsFor(<<>>)
        BY <1>6 DEF Paste, FocusReport, Resize, CloseMenu, ClickTrigger, UiMouse, ClickBar, ClickPort,
               WheelList, ClickList, Press, PressLogs, Drag, Release, MouseOverLogs, TakeMouse,
               Arrives
    <2> QED
        BY <1>0, <2>1, KeysAfter
<1> QED
    BY <1>2, <1>3, <1>4, <1>5, <1>6 DEF Input, KeyInput, MouseInput, OtherKey, UiMouse

LEMMA FooterOpensTheMenu ==
    ASSUME Input, "lifecycle" \in menus', "lifecycle" \notin menus
    PROVE  "OpenLifecycleMenu" \in frame.footer /\ loop.keys = <<>>
<1>1. ASSUME NEW k \in Keys, MenuKey(k)
      PROVE  FALSE
    <2>1. ~LifecycleMenuKey(k) /\ ~ProfileMenuKey(k)
        BY DEF LifecycleMenuKey, ProfileMenuKey
    <2>2. CASE RouteProjectKey(k) /\ k = "p"
        BY <2>2 DEF RouteProjectKey
    <2>3. CASE RouteProjectKey(k) /\ k = "R"
        BY <2>3 DEF RouteProjectKey
    <2>4. CASE RouteProjectKey(k) /\ k = "S"
        BY <2>4 DEF RouteProjectKey
    <2> QED
        BY <1>1, <2>1, <2>2, <2>3, <2>4 DEF MenuKey, RouteProjectKey, ProjectKey
<1>2. MenuMouse
    BY <1>1, WhoChanges
<1>3. PICK action \in frame.footer : ClickFooter(action)
    BY <1>2 DEF MenuMouse, CloseMenu, ClickOption, ClickTrigger
<1> QED
    BY <1>3 DEF ClickFooter, Arrives

LEMMA InputKeepsFooterSound ==
    ASSUME InteractionAssumption, TypeOK, FooterSound, Input,
           refocused' = (refocused \/ FocusMoves)
    PROVE  FooterSound'
<1>1. world' = world /\ frame' = frame
    BY InputKeepsTerminalsTyped
<1>2. RunsAreOld'
    BY <1>1 DEF FooterSound, RunsAreOld
<1>3. ~refocused' => ~refocused /\ (loop'.keys = <<>> => ui'.mode = ui.mode)
    <2>1. ~(refocused \/ FocusMoves) => ~refocused /\ ~FocusMoves
        OBVIOUS
    <2>2. ~refocused' => ~refocused /\ ~FocusMoves
        BY <2>1, Zenon
    <2> QED
        BY <2>2 DEF FocusMoves
<1>4. KeysAreFew /\ MenuIsElsewhere /\ ActionsLeaveTheTerminal
    BY DEF FooterSound
<1>5. CASE loop.keys = <<>> /\ loop'.keys = <<>>
    <2>1. KeysAreFew'
        BY <1>5 DEF KeysAreFew
    <2>2. MenuIsElsewhere'
        BY <1>1, <1>3, <1>4, <1>5, FooterOpensTheMenu DEF MenuIsElsewhere
    <2>3. ActionsLeaveTheTerminal'
        BY <1>1, <1>3, <1>4, <1>5 DEF ActionsLeaveTheTerminal, Terminal
    <2> QED
        BY <1>2, <2>1, <2>2, <2>3 DEF FooterSound
<1>6. CASE /\ loop.keys = <<>> /\ loop'.keys = <<"s">>
           /\ "lifecycle" \in menus /\ menus' = menus \ {"lifecycle"} /\ ui' = ui
    <2>1. KeysAreFew'
        BY <1>6 DEF KeysAreFew, Keys
    <2>2. ~refocused' => ui.mode # "console"
        BY <1>3, <1>4, <1>6 DEF MenuIsElsewhere
    <2>3. MenuIsElsewhere' /\ ActionsLeaveTheTerminal'
        BY <1>6, <2>2 DEF MenuIsElsewhere, ActionsLeaveTheTerminal, Terminal
    <2> QED
        BY <1>2, <2>1, <2>3 DEF FooterSound
<1>7. ASSUME NEW action \in frame.footer,
             /\ loop.keys = <<>>
             /\ action \notin {"Quit", "OpenLifecycleMenu"} /\ "lifecycle" \notin menus
             /\ loop'.keys = KeysOf(action) /\ menus' = menus /\ ui' = ui
      PROVE  FooterSound'
    <2>1. KeyOf(action) \in Keys
        BY <1>7, KeysAreTyped DEF TypeOK, FrameType
    <2>2. /\ \/ loop'.keys = <<KeyOf(action)>>
             \/ loop'.keys = <<"CtrlA", "v">> /\ action = "EnterCopy" /\ ui.mode = "console"
          /\ action = "EnterCopy" /\ ui.mode = "console" => loop'.keys = <<"CtrlA", "v">>
        <3>1. action = "EnterCopy" /\ ui.mode = "console" => KeysOf(action) = <<"CtrlA", "v">>
            BY Zenon DEF KeysOf
        <3>2. ~(action = "EnterCopy" /\ ui.mode = "console") => KeysOf(action) = <<KeyOf(action)>>
            BY Zenon DEF KeysOf
        <3>3. loop'.keys = KeysOf(action)
            BY <1>7
        <3> QED
            BY <3>1, <3>2, <3>3, Zenon
    <2>3. KeysAreFew'
        BY <1>7, <2>1, <2>2 DEF KeysAreFew
    <2>4. MenuIsElsewhere'
        BY <1>1, <1>3, <1>4, <1>7 DEF MenuIsElsewhere
    <2>5. ActionsLeaveTheTerminal'
        BY <1>1, <1>3, <1>4, <1>7, <2>2 DEF ActionsLeaveTheTerminal, Terminal
    <2> QED
        BY <1>2, <2>3, <2>4, <2>5 DEF FooterSound
<1>8. ASSUME NEW k \in Keys,
             loop.keys # <<>> /\ loop'.keys = Tail(loop.keys) /\ k = Head(loop.keys) /\ OtherKey(k)
      PROVE  FooterSound'
    <2>1. "lifecycle" \notin menus /\ "lifecycle" \notin menus'
        BY <1>4, <1>8, FooterOpensTheMenu DEF KeysAreFew
    <2>2. CASE \E j \in Keys : loop.keys = <<j>>
        <3>1. loop'.keys = <<>>
            BY <1>8, <2>2
        <3> QED
            BY <1>1, <1>2, <1>3, <1>4, <2>1, <3>1
               DEF FooterSound, KeysAreFew, MenuIsElsewhere, ActionsLeaveTheTerminal, Terminal
    <2>3. CASE loop.keys = <<"CtrlA", "v">> /\ ui.mode = "console"
        <3>1. k = "CtrlA" /\ loop'.keys = <<"v">>
            BY <1>8, <2>3
        <3>2. KeysAreFew'
            BY <2>1, <3>1 DEF KeysAreFew, Keys
        <3>3. MenuIsElsewhere'
            BY <1>1, <1>3, <1>4, <2>1, <2>3 DEF MenuIsElsewhere
        <3>4. ui'.mode = "console" /\ frame.pane = "terminal" => (~Live \/ Editing \/ MenuOpen)'
            <4> SUFFICES ASSUME ui'.mode = "console", frame.pane = "terminal"
                         PROVE  (~Live \/ Editing \/ MenuOpen)'
                OBVIOUS
            <4>1. ui \in UiStates /\ InTerminal /\ (Live' <=> Live)
                BY <1>1 DEF TypeOK, UiType, InTerminal, Live
            <4>2. ~FocusKey(k)
                BY <2>3, <4>1 DEF FocusKey, Focus, UiStates
            <4>3. CASE ProfileMenuKey(k)
                BY <3>1, <4>3 DEF ProfileMenuKey, MenuOpen
            <4>4. CASE SearchKey(k)
                BY <3>1, <4>4 DEF SearchKey, Editing
            <4>5. CASE LostKey(k)
                BY <4>1, <4>5 DEF LostKey
            <4>6. ~(QuitKey(k) \/ RouteProjectKey(k) \/ RouteLogsKey(k) \/ ChildKey(k)
                      \/ ListKey(k) \/ CopyKey(k) \/ LogsFocusKey(k))
                BY <2>3, <3>1 DEF QuitKey, Quits, RouteProjectKey, ProjectKey, RouteLogsKey, LogsKey,
                                  ChildKey, ListKey, CopyKey, LogsFocusKey
            <4> QED
                BY <1>8, <4>2, <4>3, <4>4, <4>5, <4>6 DEF OtherKey
        <3>5. ActionsLeaveTheTerminal'
            BY <1>1, <1>3, <1>4, <2>3, <3>1, <3>4 DEF ActionsLeaveTheTerminal, Terminal
        <3> QED
            BY <1>2, <3>2, <3>3, <3>5 DEF FooterSound
    <2> QED
        BY <1>4, <1>8, <2>2, <2>3 DEF KeysAreFew
<1> QED
    BY <1>4, <1>5, <1>6, <1>7, <1>8, InputOrKey

(* An action of the footer, or of the menu it opens, is never typed into   *)
(* the child, unless the focus moved after the footer was drawn and before *)
(* the click, or while the menu was open.                                  *)
THEOREM ActionsAreNotTyped ==
    ASSUME InteractionAssumption
    PROVE  Spec => [][ActionIsNotTyped]_vars
<1>1. Init => TypeOK /\ FooterSound
    <2> SUFFICES ASSUME Init
                 PROVE  FooterSound
        BY InitIsTyped
    <2> QED
        BY DEF Init, FooterSound, KeysAreFew, MenuIsElsewhere, ActionsLeaveTheTerminal, Terminal,
               RunsAreOld
<1>2. TypeOK /\ FooterSound /\ [Next]_vars => (TypeOK /\ FooterSound)'
    <2> SUFFICES ASSUME TypeOK, FooterSound, [Next]_vars
                 PROVE  FooterSound'
        BY StepIsTyped
    <2>1. CASE Next
        BY <2>1, SupervisorKeepsFooterSound, PassKeepsFooterSound, InputKeepsFooterSound DEF Next
    <2>2. CASE UNCHANGED vars
        BY <2>2 DEF vars, FooterSound, KeysAreFew, MenuIsElsewhere, ActionsLeaveTheTerminal, Terminal,
                    Live, InTerminal, Editing, MenuOpen, RunsAreOld
    <2> QED
        BY <2>1, <2>2
<1>3. ASSUME TypeOK, FooterSound, [Next]_vars
      PROVE  [ActionIsNotTyped]_vars
    <2> SUFFICES ASSUME Next, loop.keys # <<>>, ~refocused, effects'.child # 0
                 PROVE  FALSE
        BY <1>3 DEF ActionIsNotTyped
    <2>1. Input
        BY DEF Next, NextPass, SupervisorMoves, NoEffects
    <2>2. KeysAreFew /\ ActionsLeaveTheTerminal
        BY <1>3 DEF FooterSound
    <2>3. PICK k \in Keys : k = Head(loop.keys) /\ OtherKey(k)
        BY <1>3, <2>1, <2>2, InputOrKey
    <2>4. ChildKey(k)
        <3>1. effects' # NoEffects
            BY DEF NoEffects
        <3> QED
            BY <2>3, <3>1 DEF OtherKey, QuitKey, ProfileMenuKey, RouteProjectKey, SearchKey,
               RouteLogsKey, FocusKey, ListKey, CopyKey, LogsFocusKey, LostKey, Consumed
    <2>5. k # "CtrlA" /\ Live /\ Terminal /\ ~Editing /\ ~MenuOpen
        BY <2>4 DEF ChildKey, ForPane, ToPane, Live, InTerminal, Terminal
    <2>6. loop.keys = <<"CtrlA", "v">>
        BY <2>2, <2>5 DEF ActionsLeaveTheTerminal
    <2> QED
        BY <2>3, <2>5, <2>6
<1> QED
    BY <1>1, <1>2, <1>3, PTL DEF Spec

-----------------------------------------------------------------------------
(* Before the loop: the reader of the host's terminal and its queue.  They *)
(* share no state with the loop; only what receive takes goes on to it.    *)

CONSTANTS QueueLimit, MaxEvents
VARIABLES queue, shutdown, reader, app, waiting, count

Host == INSTANCE InputScheduler

Entries == [kind : Host!Kinds, id : Nat, repeats : Nat]

Holding == {"push", "decided", "waiting", "recheck"}

ReaderStates ==
    [at : Holding \cup {"poll", "read", "failed", "error", "ended"},
     event : [kind : Host!Kinds \cup {"none"}, id : Nat],
     notified : BOOLEAN]

SchedulerTypeOK ==
    /\ queue \in Seq(Entries) /\ Len(queue) <= QueueLimit
    /\ shutdown \in BOOLEAN
    /\ reader \in ReaderStates
    /\ app \in {"work", "dropping", "joining", "gone"}
    /\ waiting \subseteq Nat
    /\ count \in Nat

(* Events are numbered as they are read, and the queue keeps their order:  *)
(* the reader's own is later than all of them.                             *)
Numbered ==
    /\ \A i \in DOMAIN queue : queue[i].id <= count
    /\ \A i, j \in DOMAIN queue : i < j => queue[i].id < queue[j].id
    /\ reader.at \in Holding =>
          /\ reader.event.kind \in Host!Kinds /\ reader.event.id <= count
          /\ \A i \in DOMAIN queue : queue[i].id < reader.event.id
    /\ reader.at \notin Holding => reader.event = Host!NoEvent

(* The lock is held from the look at the queue to the wait.                *)
DecidedWhileFull == reader.at = "decided" => Len(queue) = QueueLimit

SchedulerInvariant ==
    /\ SchedulerTypeOK /\ Numbered /\ DecidedWhileFull
    /\ Host!OrderedInputIsKept /\ Host!WaitsOnlyWhileFull

-----------------------------------------------------------------------------
(* RemoveAt takes out one element and keeps the order of the others.       *)
LEMMA RemoveAtElements ==
    ASSUME NEW S, NEW s \in Seq(S), NEW i \in 1..Len(s)
    PROVE  /\ Host!RemoveAt(s, i) \in Seq(S)
           /\ Len(Host!RemoveAt(s, i)) = Len(s) - 1
           /\ \A j \in 1..(Len(s) - 1) :
                 Host!RemoveAt(s, i)[j] = IF j < i THEN s[j] ELSE s[j + 1]
<1> DEFINE a == SubSeq(s, 1, i - 1)
           b == SubSeq(s, i + 1, Len(s))
<1>1. a \in Seq(S) /\ Len(a) = i - 1 /\ \A j \in 1..(i - 1) : a[j] = s[j]
    OBVIOUS
<1>2. b \in Seq(S) /\ Len(b) = Len(s) - i /\ \A j \in 1..(Len(s) - i) : b[j] = s[i + j]
    OBVIOUS
<1>3. Host!RemoveAt(s, i) = a \o b
    BY DEF Host!RemoveAt
<1> HIDE DEF a, b
<1>4. /\ a \o b \in Seq(S) /\ Len(a \o b) = Len(a) + Len(b)
      /\ \A j \in 1..(Len(a) + Len(b)) :
            (a \o b)[j] = IF j <= Len(a) THEN a[j] ELSE b[j - Len(a)]
    BY <1>1, <1>2, ConcatProperties
<1>5. ASSUME NEW j \in 1..(Len(s) - 1)
      PROVE  (a \o b)[j] = IF j < i THEN s[j] ELSE s[j + 1]
    <2>1. CASE j < i
        BY <1>1, <1>2, <1>4, <2>1
    <2>2. CASE ~(j < i)
        <3> DEFINE k == j - (i - 1)
        <3>1. k \in 1..(Len(s) - i) /\ i + k = j + 1
            BY <2>2
        <3>2. (a \o b)[j] = b[k]
            BY <1>1, <1>2, <1>4, <2>2
        <3>3. b[k] = s[i + k]
            BY <1>2, <3>1
        <3> QED
            BY <2>2, <3>1, <3>2, <3>3
    <2> QED
        BY <2>1, <2>2
<1>6. Len(a \o b) = Len(s) - 1
    BY <1>1, <1>2, <1>4
<1> QED
    BY <1>3, <1>4, <1>5, <1>6

(* The queue once there is room in it: nothing but mouse input is gone.    *)
KeepsOrdered(kept) ==
    /\ kept \in Seq(Entries) /\ Len(kept) < QueueLimit
    /\ \A j \in 1..Len(kept) : \E i \in DOMAIN queue : kept[j] = queue[i]
    /\ \A j, k \in 1..Len(kept) : j < k => kept[j].id < kept[k].id
    /\ \A i \in Host!Ordered : \E j \in 1..Len(kept) : kept[j] = queue[i]

LEMMA RoomIsMade ==
    ASSUME Host!SchedulerAssumption, SchedulerInvariant, Host!Enqueue
    PROVE  \E kept : KeepsOrdered(kept) /\ queue' = Append(kept, Host!Entry(reader.event))
<1> USE DEF SchedulerInvariant, SchedulerTypeOK, Numbered, Host!SchedulerAssumption
<1>1. CASE Len(queue) < QueueLimit /\ queue' = Append(queue, Host!Entry(reader.event))
    <2>1. KeepsOrdered(queue)
        BY <1>1 DEF KeepsOrdered, Host!Ordered
    <2> QED
        BY <1>1, <2>1
<1>2. ASSUME Len(queue) = QueueLimit, NEW i \in Host!Lossy,
             queue' = Append(Host!RemoveAt(queue, i), Host!Entry(reader.event))
      PROVE  \E kept : KeepsOrdered(kept) /\ queue' = Append(kept, Host!Entry(reader.event))
    <2> DEFINE kept == Host!RemoveAt(queue, i)
    <2>1. i \in 1..Len(queue) /\ i \notin Host!Ordered
        BY DEF Host!Lossy, Host!Ordered
    <2>2. /\ kept \in Seq(Entries) /\ Len(kept) = Len(queue) - 1
          /\ \A j \in 1..(Len(queue) - 1) :
                kept[j] = IF j < i THEN queue[j] ELSE queue[j + 1]
        BY <2>1, RemoveAtElements
    <2> HIDE DEF kept
    <2> DEFINE from(j) == IF j < i THEN j ELSE j + 1
    <2>3. \A j \in 1..Len(kept) : from(j) \in DOMAIN queue /\ kept[j] = queue[from(j)]
        BY <2>1, <2>2
    <2>4. \A j, k \in 1..Len(kept) : j < k => kept[j].id < kept[k].id
        <3> SUFFICES ASSUME NEW j \in 1..Len(kept), NEW k \in 1..Len(kept), j < k
                     PROVE  kept[j].id < kept[k].id
            OBVIOUS
        <3>1. from(j) < from(k)
            BY <2>1, <2>2
        <3>2. queue[from(j)].id < queue[from(k)].id
            BY <2>3, <3>1
        <3> QED
            BY <2>3, <3>2
    <2>5. ASSUME NEW k \in Host!Ordered
          PROVE  \E j \in 1..Len(kept) : kept[j] = queue[k]
        <3>1. k \in 1..Len(queue) /\ k # i
            BY <2>1 DEF Host!Ordered
        <3>2. CASE k < i
            <4>1. k \in 1..(Len(queue) - 1)
                BY <2>1, <3>1, <3>2
            <4> QED
                BY <2>2, <3>2, <4>1
        <3>3. CASE k > i
            <4>1. k - 1 \in 1..Len(kept) /\ ~(k - 1 < i) /\ (k - 1) + 1 = k
                BY <2>1, <2>2, <3>1, <3>3
            <4>2. kept[k - 1] = queue[(k - 1) + 1]
                BY <2>2, <4>1
            <4> QED
                BY <4>1, <4>2
        <3> QED
            BY <2>1, <3>1, <3>2, <3>3
    <2>6. \A j \in 1..Len(kept) : \E k \in DOMAIN queue : kept[j] = queue[k]
        <3> HIDE DEF from
        <3> QED
            BY <2>3
    <2>7. Len(kept) < QueueLimit
        BY <1>2, <2>2
    <2>8. KeepsOrdered(kept)
        BY <2>2, <2>4, <2>5, <2>6, <2>7 DEF KeepsOrdered
    <2> QED
        BY <1>2, <2>8 DEF kept
<1> QED
    BY <1>1, <1>2 DEF Host!Enqueue

-----------------------------------------------------------------------------
(* What only moves the reader, or the application, keeps the order.        *)
LEMMA OrderStays ==
    ASSUME Host!OrderedInputIsKept, UNCHANGED <<queue, waiting>>, reader'.event = reader.event,
           ~shutdown' => ~shutdown
    PROVE  Host!OrderedInputIsKept'
BY DEF Host!OrderedInputIsKept, Host!Ordered, Host!AtReader

LEMMA ReaderIsTyped ==
    ASSUME NEW r \in ReaderStates
    PROVE  /\ \A at \in Holding \cup {"poll", "read", "failed", "error", "ended"} :
                 [r EXCEPT !.at = at] \in ReaderStates
           /\ [r EXCEPT !.notified = TRUE] \in ReaderStates
           /\ r.at \in Holding \cup {"poll", "read", "failed", "error", "ended"}
           /\ r.notified \in BOOLEAN
           /\ r.event.id \in Nat
BY DEF ReaderStates

LEMMA PushedIsTyped ==
    ASSUME NEW at \in {"poll", "error"}
    PROVE  Host!Pushed(at) \in ReaderStates
<1>1. Host!NoEvent \in [kind : Host!Kinds \cup {"none"}, id : Nat]
    BY DEF Host!NoEvent
<1> QED
    BY <1>1 DEF Host!Pushed, ReaderStates

LEMMA NumbersAreBounded ==
    ASSUME SchedulerTypeOK, Numbered
    PROVE  count \in Nat /\ \A i \in DOMAIN queue : queue[i].id \in Nat /\ queue[i].id <= count
<1>1. \A i \in DOMAIN queue : queue[i] \in Entries
    BY DEF SchedulerTypeOK
<1>2. \A entry \in Entries : entry.id \in Nat
    BY DEF Entries
<1> QED
    BY <1>1, <1>2 DEF Numbered, SchedulerTypeOK

LEMMA SchedulerStarts == Host!SchedulerAssumption /\ Host!Init => SchedulerInvariant
<1> SUFFICES ASSUME Host!SchedulerAssumption, Host!Init PROVE SchedulerInvariant
    OBVIOUS
<1>1. reader.at = "poll" /\ reader.event = Host!NoEvent /\ queue = <<>> /\ ~shutdown /\ waiting = {}
    BY DEF Host!Init
<1>2. SchedulerTypeOK
    <2>1. queue \in Seq(Entries) /\ Len(queue) <= QueueLimit
        BY <1>1 DEF Host!SchedulerAssumption
    <2>2. reader = Host!Pushed("poll")
        BY DEF Host!Init, Host!Pushed
    <2> QED
        BY <2>1, <2>2, PushedIsTyped DEF Host!Init, SchedulerTypeOK
<1>3. Numbered /\ DecidedWhileFull /\ Host!WaitsOnlyWhileFull
    BY <1>1 DEF Numbered, DecidedWhileFull, Host!WaitsOnlyWhileFull, Holding
<1>4. Host!Ordered = {} /\ Host!AtReader = {}
    BY <1>1 DEF Host!Ordered, Host!AtReader, Host!NoEvent
<1>5. Host!OrderedInputIsKept
    BY <1>1, <1>4 DEF Host!OrderedInputIsKept
<1> QED
    BY <1>2, <1>3, <1>5 DEF SchedulerInvariant

(* An event is read: its number is the largest there is.                   *)
LEMMA ReadKeeps ==
    ASSUME Host!SchedulerAssumption, SchedulerInvariant, Host!ReadEvent
    PROVE  SchedulerInvariant'
<1> USE DEF SchedulerInvariant
<1>a. reader.at = "read" /\ reader.event = Host!NoEvent /\ UNCHANGED <<queue, shutdown, app>>
    BY DEF Host!ReadEvent, Numbered, Holding
<1>1. ASSUME NEW kind \in Host!Kinds,
             count' = count + 1,
             reader' = [reader EXCEPT !.at = "push", !.event = [kind |-> kind, id |-> count + 1]],
             waiting' = IF kind = "ordered" THEN waiting \cup {count + 1} ELSE waiting
      PROVE  SchedulerInvariant'
    <2>1. /\ reader'.at = "push" /\ reader'.event = [kind |-> kind, id |-> count + 1]
          /\ reader'.notified = reader.notified
        BY <1>1, <1>a DEF SchedulerTypeOK, ReaderStates
    <2>2. Host!AtReader = {} /\ Host!Ordered' = Host!Ordered
        BY <1>a DEF Host!AtReader, Host!NoEvent, Host!Ordered
    <2>3. SchedulerTypeOK'
        <3>1. count + 1 \in Nat /\ [kind |-> kind, id |-> count + 1] \in [kind : Host!Kinds, id : Nat]
            BY DEF SchedulerTypeOK
        <3>2. reader' \in ReaderStates
            BY <1>1, <3>1 DEF SchedulerTypeOK, ReaderStates, Holding
        <3>3. waiting' \subseteq Nat
            BY <1>1, <3>1 DEF SchedulerTypeOK
        <3> QED
            BY <1>1, <1>a, <3>1, <3>2, <3>3 DEF SchedulerTypeOK
    <2>4. Numbered'
        <3>2. \A i \in DOMAIN queue : queue[i].id < count + 1 /\ queue[i].id <= count + 1
            BY NumbersAreBounded
        <3>3. count + 1 <= count + 1
            BY DEF SchedulerTypeOK
        <3> QED
            BY <1>1, <1>a, <2>1, <3>2, <3>3 DEF Numbered, Holding
    <2>5. DecidedWhileFull' /\ Host!WaitsOnlyWhileFull'
        BY <2>1 DEF DecidedWhileFull, Host!WaitsOnlyWhileFull
    <2>6. Host!AtReader' = IF kind = "ordered" THEN {count + 1} ELSE {}
        BY <2>1 DEF Host!AtReader
    <2>7. \A i \in Host!Ordered : queue[i].id < count + 1
        <3>1. \A i \in Host!Ordered : i \in DOMAIN queue
            BY DEF Host!Ordered
        <3> QED
            BY <3>1, NumbersAreBounded
    <2>8. Host!OrderedInputIsKept'
        BY <1>1, <1>a, <2>2, <2>6, <2>7 DEF Host!OrderedInputIsKept
    <2> QED
        BY <2>3, <2>4, <2>5, <2>8
<1>2. ASSUME NEW at \in {"poll", "failed"},
             reader' = [reader EXCEPT !.at = at], UNCHANGED <<waiting, count>>
      PROVE  SchedulerInvariant'
    <2>1. reader'.at = at /\ reader'.event = reader.event /\ reader'.notified = reader.notified
        BY <1>2 DEF SchedulerTypeOK, ReaderStates
    <2>2. SchedulerTypeOK'
        BY <1>2, <1>a, ReaderIsTyped DEF SchedulerTypeOK
    <2>3. Numbered' /\ DecidedWhileFull' /\ Host!WaitsOnlyWhileFull'
        BY <1>2, <1>a, <2>1 DEF Numbered, DecidedWhileFull, Host!WaitsOnlyWhileFull, Holding
    <2>4. Host!OrderedInputIsKept'
        BY <1>2, <1>a, <2>1, OrderStays
    <2> QED
        BY <2>2, <2>3, <2>4
<1> QED
    BY <1>1, <1>2 DEF Host!ReadEvent

(* The mouse input that merges leaves ordered input alone.                 *)
LEMMA MergeKeeps ==
    ASSUME Host!SchedulerAssumption, SchedulerInvariant, Host!MergeTail
    PROVE  SchedulerInvariant'
<1> USE DEF SchedulerInvariant
<1> DEFINE n == Len(queue)
           e == reader.event
<1>1. n \in 1..QueueLimit /\ queue[n] \in Entries
    BY DEF Host!MergeTail, Host!Mergeable, SchedulerTypeOK, Host!SchedulerAssumption
<1>2. Host!Merges(e, queue[n]) /\ reader.at = "push"
    BY DEF Host!MergeTail, Host!Mergeable, Host!Last
<1>3. Host!IsLossyMouse(e) /\ Host!IsLossyMouse(queue[n])
    BY <1>2 DEF Host!Merges, Host!IsLossyMouse, Host!IsWheel, Host!IsMotion
<1>4. /\ queue' = [queue EXCEPT ![n] =
                      IF Host!IsWheel(queue[n]) THEN Host!Repeated(queue[n]) ELSE Host!Entry(e)]
      /\ reader' = Host!Pushed("poll") /\ UNCHANGED <<shutdown, app, waiting, count>>
    BY DEF Host!MergeTail
<1>5. e \in [kind : Host!Kinds, id : Nat] /\ e.id <= count
    <2>1. e \in [kind : Host!Kinds \cup {"none"}, id : Nat]
        BY DEF SchedulerTypeOK, ReaderStates
    <2>2. e.kind \in Host!Kinds /\ e.id <= count
        BY <1>2 DEF Numbered, Holding
    <2> QED
        BY <2>1, <2>2
<1>6. /\ queue' \in Seq(Entries) /\ Len(queue') = n
      /\ \A i \in 1..n : i # n => queue'[i] = queue[i]
    <2>1. Host!Repeated(queue[n]) \in Entries
        BY <1>1 DEF Entries, Host!Repeated
    <2>2. Host!Entry(e) \in Entries
        BY <1>5 DEF Entries, Host!Entry
    <2>3. (IF Host!IsWheel(queue[n]) THEN Host!Repeated(queue[n]) ELSE Host!Entry(e)) \in Entries
        BY <2>1, <2>2
    <2>4. queue \in Seq(Entries)
        BY DEF SchedulerTypeOK
    <2> QED
        BY <1>1, <1>4, <2>3, <2>4
<1>7. Host!IsLossyMouse(queue'[n]) /\ queue'[n].id \in {queue[n].id, e.id}
    BY <1>1, <1>3, <1>4, <1>5 DEF SchedulerTypeOK, Entries, Host!Entry, Host!Repeated,
                                  Host!IsLossyMouse, Host!IsWheel, Host!IsMotion
<1>8. reader'.at = "poll" /\ reader'.event = Host!NoEvent
    BY <1>4 DEF Host!Pushed
<1>9. SchedulerTypeOK'
    BY <1>1, <1>4, <1>6, PushedIsTyped DEF SchedulerTypeOK
<1>10. Numbered'
    <2>1. /\ count \in Nat /\ e.id \in Nat /\ DOMAIN queue = 1..n /\ DOMAIN queue' = 1..n
          /\ \A i \in 1..n : queue[i].id \in Nat /\ queue[i].id <= count /\ queue[i].id < e.id
        BY <1>1, <1>2, <1>5, <1>6, NumbersAreBounded DEF Numbered, SchedulerTypeOK, Holding
    <2>2. \A i \in 1..n : queue'[i].id <= count
        BY <1>5, <1>6, <1>7, <2>1
    <2>3. ASSUME NEW i \in 1..n, NEW j \in 1..n, i < j
          PROVE  queue'[i].id < queue'[j].id
        <3>1. queue[i].id < queue[j].id
            BY <2>1, <2>3 DEF Numbered
        <3>2. i # n /\ queue'[i] = queue[i]
            BY <1>1, <1>6, <2>3
        <3> QED
            BY <1>6, <1>7, <2>1, <3>1, <3>2
    <2>4. count' = count /\ reader'.at \notin Holding
        BY <1>4, <1>8 DEF Holding
    <2> QED
        BY <1>8, <2>1, <2>2, <2>3, <2>4 DEF Numbered
<1>11. Host!Ordered' = Host!Ordered /\ \A i \in Host!Ordered : queue'[i] = queue[i]
    BY <1>1, <1>3, <1>6, <1>7 DEF Host!Ordered, SchedulerTypeOK
<1>12. Host!AtReader = {} /\ Host!AtReader' = {}
    BY <1>3, <1>8 DEF Host!AtReader, Host!NoEvent, Host!IsLossyMouse, Host!IsWheel, Host!IsMotion
<1>13. Host!OrderedInputIsKept'
    BY <1>4, <1>11, <1>12 DEF Host!OrderedInputIsKept
<1> QED
    BY <1>8, <1>9, <1>10, <1>13 DEF DecidedWhileFull, Host!WaitsOnlyWhileFull

LEMMA HeldEvent ==
    ASSUME SchedulerTypeOK, Numbered, reader.at \in Holding
    PROVE  /\ reader.event \in [kind : Host!Kinds, id : Nat]
           /\ reader.event.id \in Nat /\ reader.event.id <= count
           /\ \A i \in DOMAIN queue : queue[i].id < reader.event.id
           /\ Host!AtReader = IF Host!IsLossyMouse(reader.event) THEN {} ELSE {reader.event.id}
<1>1. reader.event \in [kind : Host!Kinds \cup {"none"}, id : Nat]
    BY DEF SchedulerTypeOK, ReaderStates
<1>2. reader.event.kind \in Host!Kinds
    BY DEF Numbered
<1>3. reader.event \in [kind : Host!Kinds, id : Nat]
    BY <1>1, <1>2
<1>4. Host!AtReader = IF Host!IsLossyMouse(reader.event) THEN {} ELSE {reader.event.id}
    BY <1>2 DEF Host!AtReader, Host!IsLossyMouse, Host!IsWheel, Host!IsMotion, Host!Kinds
<1> QED
    BY <1>3, <1>4 DEF Numbered

(* An event that finds or is given room is the last of the queue, and its  *)
(* number the largest.                                                     *)
LEMMA EnqueueKeeps ==
    ASSUME Host!SchedulerAssumption, SchedulerInvariant, Host!Enqueue
    PROVE  SchedulerInvariant'
<1> USE DEF SchedulerInvariant
<1> DEFINE e == reader.event
<1>1. PICK kept : KeepsOrdered(kept) /\ queue' = Append(kept, Host!Entry(e))
    BY RoomIsMade
<1> DEFINE n == Len(kept)
<1>2. /\ kept \in Seq(Entries) /\ n \in Nat /\ n < QueueLimit
      /\ \A j \in 1..n : \E i \in DOMAIN queue : kept[j] = queue[i]
      /\ \A j, k \in 1..n : j < k => kept[j].id < kept[k].id
      /\ \A i \in Host!Ordered : \E j \in 1..n : kept[j] = queue[i]
    BY <1>1 DEF KeepsOrdered
<1>3. reader.at \in Holding
    BY DEF Host!Enqueue, Host!Unmerged, Holding
<1>4. Host!Entry(e) \in Entries /\ Host!Entry(e).id = e.id /\ Host!Entry(e).kind = e.kind
    BY <1>3, HeldEvent DEF Host!Entry, Entries
<1>5. /\ queue' \in Seq(Entries) /\ Len(queue') = n + 1 /\ DOMAIN queue' = 1..(n + 1)
      /\ \A j \in 1..n : queue'[j] = kept[j]
      /\ queue'[n + 1] = Host!Entry(e)
    BY <1>1, <1>2, <1>4
<1>6. /\ reader' = Host!Pushed("poll") /\ reader'.at = "poll" /\ reader'.event = Host!NoEvent
      /\ UNCHANGED <<shutdown, app, waiting, count>>
    BY DEF Host!Enqueue, Host!Pushed
<1>7. Len(queue') <= QueueLimit
    BY <1>2, <1>5 DEF Host!SchedulerAssumption
<1>8. SchedulerTypeOK'
    BY <1>5, <1>6, <1>7, PushedIsTyped DEF SchedulerTypeOK
<1>9. \A j \in 1..n : kept[j].id \in Nat /\ kept[j].id <= count /\ kept[j].id < e.id
    BY <1>2, <1>3, NumbersAreBounded, HeldEvent
<1>10. Numbered'
    <2>1. \A j \in 1..(n + 1) : queue'[j].id <= count
        BY <1>2, <1>3, <1>4, <1>5, <1>9, HeldEvent
    <2>2. ASSUME NEW j \in 1..(n + 1), NEW k \in 1..(n + 1), j < k
          PROVE  queue'[j].id < queue'[k].id
        <3>1. j \in 1..n /\ queue'[j] = kept[j]
            BY <1>2, <1>5, <2>2
        <3>2. CASE k \in 1..n
            BY <1>2, <1>5, <2>2, <3>1, <3>2
        <3>3. CASE k = n + 1
            BY <1>4, <1>5, <1>9, <3>1, <3>3
        <3> QED
            BY <1>2, <3>2, <3>3
    <2>3. reader'.at \notin Holding
        BY <1>6 DEF Holding
    <2> QED
        BY <1>5, <1>6, <2>1, <2>2, <2>3 DEF Numbered
<1>11. Host!AtReader' = {}
    BY <1>6 DEF Host!AtReader, Host!NoEvent
<1>12. ASSUME NEW j \in Host!Ordered'
       PROVE  queue'[j].id \in {queue[i].id : i \in Host!Ordered} \cup Host!AtReader
    <2>1. j \in 1..(n + 1) /\ ~Host!IsLossyMouse(queue'[j])
        BY <1>5 DEF Host!Ordered
    <2>2. CASE j \in 1..n
        <3>1. PICK i \in DOMAIN queue : kept[j] = queue[i]
            BY <1>2, <2>2
        <3>2. i \in Host!Ordered /\ queue'[j].id = queue[i].id
            BY <1>5, <2>1, <2>2, <3>1 DEF Host!Ordered
        <3> QED
            BY <3>2
    <2>3. CASE j = n + 1
        <3>1. ~Host!IsLossyMouse(e)
            BY <1>4, <1>5, <2>1, <2>3 DEF Host!IsLossyMouse, Host!IsWheel, Host!IsMotion
        <3> QED
            BY <1>3, <1>4, <1>5, <2>3, <3>1, HeldEvent
    <2> QED
        BY <1>2, <2>1, <2>2, <2>3
<1>13. ASSUME NEW i \in Host!Ordered
       PROVE  queue[i].id \in {queue'[j].id : j \in Host!Ordered'}
    <2>1. PICK j \in 1..n : kept[j] = queue[i]
        BY <1>2
    <2>2. j \in Host!Ordered' /\ queue'[j].id = queue[i].id
        BY <1>2, <1>5, <2>1 DEF Host!Ordered
    <2> QED
        BY <2>2
<1>14. ASSUME NEW id \in Host!AtReader
       PROVE  id \in {queue'[j].id : j \in Host!Ordered'}
    <2>1. ~Host!IsLossyMouse(e) /\ id = e.id
        BY <1>3, HeldEvent
    <2>2. n + 1 \in Host!Ordered' /\ queue'[n + 1].id = e.id
        BY <1>2, <1>4, <1>5, <2>1 DEF Host!Ordered, Host!IsLossyMouse, Host!IsWheel, Host!IsMotion
    <2> QED
        BY <2>1, <2>2
<1>15. {queue'[j].id : j \in Host!Ordered'} = {queue[i].id : i \in Host!Ordered} \cup Host!AtReader
    BY <1>12, <1>13, <1>14
<1>16. Host!OrderedInputIsKept'
    <2>1. \A j, k \in Host!Ordered' : j < k => queue'[j].id < queue'[k].id
        BY <1>10 DEF Numbered, Host!Ordered
    <2> QED
        BY <1>6, <1>11, <1>15, <2>1 DEF Host!OrderedInputIsKept
<1> QED
    BY <1>6, <1>8, <1>10, <1>16 DEF DecidedWhileFull, Host!WaitsOnlyWhileFull

(* An event is dropped: mouse input, or whatever it is after the shutdown. *)
LEMMA DropKeeps ==
    ASSUME Host!SchedulerAssumption, SchedulerInvariant, Host!DropEvent
    PROVE  SchedulerInvariant'
<1> USE DEF SchedulerInvariant
<1>1. reader.at \in Holding
    BY DEF Host!DropEvent, Host!NoRoom, Host!Unmerged, Holding
<1>2. /\ reader' = Host!Pushed("poll") /\ reader'.at = "poll" /\ reader'.event = Host!NoEvent
      /\ waiting' = waiting \ {reader.event.id} /\ UNCHANGED <<queue, shutdown, app, count>>
    BY DEF Host!DropEvent, Host!Pushed
<1>3. SchedulerTypeOK'
    BY <1>2, PushedIsTyped DEF SchedulerTypeOK
<1>4. Numbered'
    BY <1>2 DEF Numbered, Holding
<1>5. ASSUME ~shutdown' PROVE Host!OrderedInputIsKept'
    <2>1. ~shutdown /\ Host!AtReader = {} /\ Host!AtReader' = {}
        BY <1>1, <1>2, <1>5, HeldEvent DEF Host!DropEvent, Host!AtReader, Host!NoEvent
    <2>2. Host!Ordered' = Host!Ordered
        BY <1>2 DEF Host!Ordered
    <2>3. \A i \in Host!Ordered : queue[i].id # reader.event.id
        <3>1. \A i \in Host!Ordered : i \in DOMAIN queue
            BY DEF Host!Ordered
        <3> QED
            BY <1>1, <3>1, HeldEvent, NumbersAreBounded
    <2>4. waiting' = waiting
        BY <1>2, <2>1, <2>3 DEF Host!OrderedInputIsKept
    <2> QED
        BY <1>2, <2>1, <2>2, <2>4 DEF Host!OrderedInputIsKept
<1>6. Host!OrderedInputIsKept'
    BY <1>5 DEF Host!OrderedInputIsKept
<1> QED
    BY <1>2, <1>3, <1>4, <1>6 DEF DecidedWhileFull, Host!WaitsOnlyWhileFull

(* The application takes the whole queue, or the error.                    *)
LEMMA ReceiveKeeps ==
    ASSUME Host!SchedulerAssumption, SchedulerInvariant, Host!Receive
    PROVE  SchedulerInvariant'
<1> USE DEF SchedulerInvariant
<1>1. CASE app' = "dropping" /\ UNCHANGED <<queue, reader, waiting>>
    <2>1. UNCHANGED <<shutdown, count>>
        BY DEF Host!Receive
    <2>2. SchedulerTypeOK' /\ Numbered' /\ DecidedWhileFull' /\ Host!WaitsOnlyWhileFull'
        BY <1>1, <2>1 DEF SchedulerTypeOK, Numbered, DecidedWhileFull, Host!WaitsOnlyWhileFull
    <2> QED
        BY <1>1, <2>1, <2>2, OrderStays
<1>2. CASE /\ queue' = <<>>
           /\ waiting' = waiting \ {queue[i].id : i \in DOMAIN queue}
           /\ reader' = Host!NotifySpace
           /\ UNCHANGED app
    <2>1. UNCHANGED <<shutdown, count>> /\ reader.at # "decided"
        BY DEF Host!Receive, Host!LockHeld
    <2>2. /\ reader' \in ReaderStates /\ reader'.at = reader.at /\ reader'.event = reader.event
          /\ reader.at = "waiting" => reader'.notified
        <3>1. reader \in ReaderStates
            BY DEF SchedulerTypeOK
        <3>2. CASE reader.at = "waiting"
            <4>1. reader' = [reader EXCEPT !.notified = TRUE]
                BY <1>2, <3>2 DEF Host!NotifySpace
            <4> QED
                BY <3>1, <4>1, ReaderIsTyped DEF ReaderStates
        <3>3. CASE reader.at # "waiting"
            BY <1>2, <3>1, <3>3 DEF Host!NotifySpace
        <3> QED
            BY <3>2, <3>3
    <2>3. SchedulerTypeOK'
        <3>1. queue' \in Seq(Entries) /\ Len(queue') <= QueueLimit
            BY <1>2 DEF Host!SchedulerAssumption
        <3>2. waiting' \subseteq Nat
            BY <1>2 DEF SchedulerTypeOK
        <3> QED
            BY <1>2, <2>1, <2>2, <3>1, <3>2 DEF SchedulerTypeOK
    <2>4. Numbered'
        BY <1>2, <2>1, <2>2 DEF Numbered
    <2>5. DecidedWhileFull' /\ Host!WaitsOnlyWhileFull'
        BY <2>1, <2>2 DEF DecidedWhileFull, Host!WaitsOnlyWhileFull
    <2>6. Host!Ordered' = {} /\ Host!AtReader' = Host!AtReader
        BY <1>2, <2>2 DEF Host!Ordered, Host!AtReader
    <2>7. \A id \in Host!AtReader : \A i \in DOMAIN queue : queue[i].id # id
        <3> SUFFICES ASSUME NEW id \in Host!AtReader, NEW i \in DOMAIN queue
                     PROVE  queue[i].id # id
            OBVIOUS
        <3>1. id = reader.event.id /\ reader.event # Host!NoEvent
            BY DEF Host!AtReader, Host!NoEvent
        <3>2. reader.at \in Holding
            BY <3>1 DEF Numbered
        <3> QED
            BY <3>1, <3>2, HeldEvent, NumbersAreBounded
    <2>8. ASSUME ~shutdown PROVE waiting' = Host!AtReader
        <3>1. \A i \in Host!Ordered : i \in DOMAIN queue
            BY DEF Host!Ordered
        <3>2. waiting = {queue[i].id : i \in Host!Ordered} \cup Host!AtReader
            BY <2>8 DEF Host!OrderedInputIsKept
        <3> QED
            BY <1>2, <2>7, <3>1, <3>2
    <2>9. Host!OrderedInputIsKept'
        BY <2>1, <2>6, <2>8 DEF Host!OrderedInputIsKept
    <2> QED
        BY <2>3, <2>4, <2>5, <2>9
<1> QED
    BY <1>1, <1>2 DEF Host!Receive

(* Everything else moves the reader or the application, and neither the    *)
(* queue nor an event.                                                     *)
LEMMA ControlKeeps ==
    ASSUME Host!SchedulerAssumption, SchedulerInvariant,
           \/ Host!CheckFlag \/ Host!DecideToWait \/ Host!Wait \/ Host!WakeUp
           \/ Host!KeepError \/ Host!Quit \/ Host!StoreFlag \/ Host!NotifyDrop \/ Host!Join
    PROVE  SchedulerInvariant'
<1> USE DEF SchedulerInvariant
<1>1. UNCHANGED <<queue, waiting, count>> /\ (~shutdown' => ~shutdown)
    BY DEF Host!CheckFlag, Host!DecideToWait, Host!Wait, Host!WakeUp, Host!KeepError, Host!Quit,
           Host!StoreFlag, Host!NotifyDrop, Host!Join
<1>2. /\ shutdown' \in BOOLEAN /\ app' \in {"work", "dropping", "joining", "gone"}
    BY DEF SchedulerTypeOK, Host!CheckFlag, Host!DecideToWait, Host!Wait, Host!WakeUp,
           Host!KeepError, Host!Quit, Host!StoreFlag, Host!NotifyDrop, Host!Join
<1>3. /\ reader' \in ReaderStates /\ reader'.event = reader.event
      /\ reader'.at \in Holding <=> reader.at \in Holding
      /\ reader'.at = "decided" => Len(queue) = QueueLimit
      /\ reader'.at = "waiting" /\ ~reader'.notified =>
            reader.at = "decided" \/ (reader.at = "waiting" /\ ~reader.notified)
    <2>0. reader \in ReaderStates
        BY DEF SchedulerTypeOK
    <2>1. CASE Host!CheckFlag
        BY <2>0, <2>1 DEF Host!CheckFlag, ReaderStates, Holding
    <2>2. CASE Host!DecideToWait
        BY <2>0, <2>2 DEF Host!DecideToWait, Host!NoRoom, Host!Unmerged, ReaderStates, Holding
    <2>3. CASE Host!Wait
        BY <2>0, <2>3 DEF Host!Wait, ReaderStates, Holding
    <2>4. CASE Host!WakeUp
        BY <2>0, <2>4 DEF Host!WakeUp, ReaderStates, Holding
    <2>5. CASE Host!KeepError
        BY <2>5, PushedIsTyped DEF Host!KeepError, Host!Pushed, Numbered, Holding
    <2>6. CASE Host!Quit \/ Host!StoreFlag \/ Host!Join
        BY <2>0, <2>6 DEF Host!Quit, Host!StoreFlag, Host!Join, DecidedWhileFull
    <2>7. CASE Host!NotifyDrop
        BY <2>0, <2>7 DEF Host!NotifyDrop, Host!NotifySpace, ReaderStates, DecidedWhileFull
    <2> QED
        BY <2>1, <2>2, <2>3, <2>4, <2>5, <2>6, <2>7
<1>4. SchedulerTypeOK'
    BY <1>1, <1>2, <1>3 DEF SchedulerTypeOK
<1>5. Numbered'
    BY <1>1, <1>3 DEF Numbered
<1>6. Host!OrderedInputIsKept'
    BY <1>1, <1>3, OrderStays
<1>7. DecidedWhileFull' /\ Host!WaitsOnlyWhileFull'
    BY <1>1, <1>3 DEF DecidedWhileFull, Host!WaitsOnlyWhileFull
<1> QED
    BY <1>4, <1>5, <1>6, <1>7

-----------------------------------------------------------------------------
(* Whatever the limit of the queue (at least one) and however many events  *)
(* are read, the invariant is kept by every step of reader and application.*)
THEOREM InputInvariantHolds ==
    ASSUME Host!SchedulerAssumption
    PROVE  Host!Spec => []SchedulerInvariant
<1>1. Host!Init => SchedulerInvariant
    BY SchedulerStarts
<1>2. SchedulerInvariant /\ [Host!Next]_(Host!vars) => SchedulerInvariant'
    <2> SUFFICES ASSUME SchedulerInvariant, [Host!Next]_(Host!vars) PROVE SchedulerInvariant'
        OBVIOUS
    <2>1. CASE Host!ReadEvent
        BY <2>1, ReadKeeps
    <2>2. CASE Host!MergeTail
        BY <2>2, MergeKeeps
    <2>3. CASE Host!Enqueue
        BY <2>3, EnqueueKeeps
    <2>4. CASE Host!DropEvent
        BY <2>4, DropKeeps
    <2>5. CASE Host!Receive
        BY <2>5, ReceiveKeeps
    <2>6. CASE \/ Host!CheckFlag \/ Host!DecideToWait \/ Host!Wait \/ Host!WakeUp
               \/ Host!KeepError \/ Host!Quit \/ Host!StoreFlag \/ Host!NotifyDrop \/ Host!Join
        BY <2>6, ControlKeeps
    <2>7. CASE UNCHANGED Host!vars
        BY <2>7 DEF Host!vars, SchedulerInvariant, SchedulerTypeOK, Numbered,
                    Host!OrderedInputIsKept, Host!Ordered, Host!AtReader,
                    DecidedWhileFull, Host!WaitsOnlyWhileFull
    <2> QED
        BY <2>1, <2>2, <2>3, <2>4, <2>5, <2>6, <2>7 DEF Host!Next, Host!ReaderStep
<1> QED
    BY <1>1, <1>2, PTL DEF Host!Spec

(* While the application runs, the ordered input that was read and not     *)
(* taken is what the queue and the reader hold, in the order it was read:  *)
(* shedding, merging and waiting lose and reorder nothing else.            *)
THEOREM OrderedInputHolds ==
    ASSUME Host!SchedulerAssumption
    PROVE  Host!Spec => []Host!OrderedInputIsKept
<1>1. SchedulerInvariant => Host!OrderedInputIsKept
    BY DEF SchedulerInvariant
<1> QED
    BY <1>1, InputInvariantHolds, PTL

(* A reader that waits and was not notified has a full queue before it, so *)
(* the next receive wakes it.                                              *)
THEOREM WaitingIsForSpace ==
    ASSUME Host!SchedulerAssumption
    PROVE  Host!Spec => []Host!WaitsOnlyWhileFull
<1>1. SchedulerInvariant => Host!WaitsOnlyWhileFull
    BY DEF SchedulerInvariant
<1> QED
    BY <1>1, InputInvariantHolds, PTL
=============================================================================
