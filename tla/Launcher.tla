------------------------------ MODULE Launcher ------------------------------
(***************************************************************************)
(* The Windows launcher (gui_main.cpp): its window and buttons, the        *)
(* pipeline process it starts with a stop event, the test animation it     *)
(* starts, and the profiles it saves; with the pipeline process as far as  *)
(* the launcher sees it (wmain, and the stop checks of the loop).          *)
(*                                                                         *)
(* A handler of the window runs to its end before the next message is      *)
(* read, so it is one action; Save profile is the exception, because other *)
(* processes touch its files while it runs: it takes the steps of          *)
(* ProfileStore, and no other message is handled meanwhile.                *)
(***************************************************************************)
EXTENDS ProfileStore, Naturals

CONSTANTS
    Windows,      \* windows that can be targets
    TestWindow,   \* the one that a test animation opens
    ExecutableOf, \* the executable each window belongs to
    Settings,     \* values of the settings with a flag that assigns
    Masks,        \* texts of the mask field, the unreadable one among them
    CliArguments, \* argument lists given to osss.exe --save-profile
    MaxRequests   \* a bound on the changes, saves, starts and tests together

\* What the window may show: the settings of LauncherState.
ShownRecords ==
    [setting : Settings \cup {DefaultSetting}, mask : Masks \cup {None},
     auto : BOOLEAN, profile : BOOLEAN]

\* What the savers store.
Lines == CliArguments \cup {ProfileArgumentsFor(shown) : shown \in ShownRecords}

CliValues == UNION {{line[i][2] : i \in DOMAIN line} : line \in CliArguments}

\* The other savers are runs of osss.exe --save-profile, each in a terminal.
Terminals == Savers \ {"launcher"}

\* A line that parses has known flags only, and a whole file is never Torn.
ASSUME LauncherAssumption ==
    /\ "launcher" \in Savers
    /\ CliArguments \subseteq Seq(Flags \X CliValues)
    /\ Torn \notin [Executables -> Lines \cup {None}]

VARIABLES
    ui,         \* LauncherState, and the controls of its window
    windows,    \* the windows that are open and restored
    child,      \* the pipeline process
    signalled,  \* the stop event: manual reset, kept while a handle is open
    animation,  \* the test animation process
    requests    \* how many of those there were

vars == <<store, ui, windows, child, signalled, animation, requests>>

NoChild ==
    [state |-> "none", target |-> None, arguments |-> <<>>,
     shown |-> None, options |-> NoOptions]

-----------------------------------------------------------------------------
(* Start needs a target and nothing under way, Stop a running pipeline.    *)
UpdateControlAvailability(u) ==
    [u EXCEPT !.start = ~u.child_process /\ ~u.test_process /\ u.target # None,
              !.stop = u.child_process,
              !.controls = ~u.child_process]

(* The list is filled again: the selection is kept when it is still there, *)
(* else the foreground window is taken, else the first.                    *)
PopulateTargets(u) ==
    LET choices == IF u.target \in windows THEN {u.target}
                   ELSE IF windows = {} THEN {None} ELSE windows IN
    { UpdateControlAvailability([u EXCEPT !.listed = windows, !.target = t]) :
        t \in choices }

SelectTargetInCombo(u, target) ==
    IF target \in u.listed
    THEN UpdateControlAvailability([u EXCEPT !.target = target])
    ELSE u

FinishPendingTestLaunch(u) ==
    UpdateControlAvailability([u EXCEPT !.test_process = FALSE])

CloseChildHandles(u) ==
    [u EXCEPT !.child_process = FALSE, !.stop_event = FALSE]

(* Messages are handled while the window is there and no save is running.  *)
Idle == ui.window = "open" /\ save["launcher"].step = "idle"

(* WM_CREATE; the state of a launcher that has just been opened.           *)
NewLauncher ==
    [window |-> "open", closing |-> FALSE, target |-> None, listed |-> {},
     shown |-> [setting |-> DefaultSetting, mask |-> None, auto |-> FALSE,
                profile |-> FALSE],
     child_process |-> FALSE, stop_event |-> FALSE, test_process |-> FALSE,
     start |-> FALSE, stop |-> FALSE, controls |-> TRUE]

Init ==
    /\ StoreInit
    /\ windows \in SUBSET (Windows \ {TestWindow})
    /\ ui \in PopulateTargets(NewLauncher)
    /\ child = NoChild
    /\ signalled = FALSE
    /\ animation = "none"
    /\ requests = 0

-----------------------------------------------------------------------------
(* The user's controls.  A disabled control sends no message.              *)

Counted == requests < MaxRequests /\ requests' = requests + 1

(* Another target is selected, among those listed.                         *)
SelectTarget(t) ==
    /\ Idle /\ ui.controls /\ t \in ui.listed \ {ui.target}
    /\ ui' = UpdateControlAvailability([ui EXCEPT !.target = t])
    /\ Counted
    /\ UNCHANGED <<store, windows, child, signalled, animation>>

(* A setting, the mask field or a check box changes.                       *)
ChangeSettings ==
    /\ Idle /\ ui.controls
    /\ \/ \E value \in Settings : ui' = [ui EXCEPT !.shown.setting = value]
       \/ \E text \in Masks : ui' = [ui EXCEPT !.shown.mask = text]
       \/ ui' = [ui EXCEPT !.shown.auto = ~@]
       \/ ui' = [ui EXCEPT !.shown.profile = ~@]
    /\ Counted
    /\ UNCHANGED <<store, windows, child, signalled, animation>>

Refresh ==
    /\ Idle /\ ui.controls
    /\ ui' \in PopulateTargets(ui)
    /\ UNCHANGED <<store, windows, child, signalled, animation, requests>>

(* Save profile, as far as SetProfileArguments; SaveProfiles follows.  The *)
(* target has to be open, and its executable known.                        *)
SaveTargetProfile ==
    /\ Idle /\ ui.controls
    /\ ui.target \in windows /\ ExecutableOf[ui.target] \in Executables
    /\ LoadForSave("launcher", ExecutableOf[ui.target],
                   ProfileArgumentsFor(ui.shown))
    /\ Counted
    /\ UNCHANGED <<ui, windows, child, signalled, animation>>

(* Start with a target that has gone: the list is filled again.            *)
TargetLost ==
    /\ ui.target \notin windows
    /\ ui' \in PopulateTargets(ui)
    /\ UNCHANGED <<store, windows, child, signalled, animation, requests>>

(* Start.  The mask is checked before anything is created.  Reading the    *)
(* display rate, finding osss.exe, creating the event and creating the     *)
(* process can all fail, and then every handle is closed again: no change. *)
LaunchPipeline ==
    /\ ui.target \in windows
    /\ ui.shown.mask # Unreadable
    /\ child' = [NoChild EXCEPT !.state = "starting", !.target = ui.target,
                    !.arguments = LaunchArguments(ui.shown, ui.target),
                    !.shown = ui.shown]
    /\ signalled' = FALSE
    /\ ui' = UpdateControlAvailability(
                [ui EXCEPT !.child_process = TRUE, !.stop_event = TRUE])
    /\ Counted
    /\ UNCHANGED <<store, windows, animation>>

(* BeginGeneration: a click on Start.                                      *)
BeginGeneration ==
    /\ Idle /\ ui.start /\ ~ui.child_process
    /\ TargetLost \/ LaunchPipeline

(* A mutant of LaunchTestAnimation: the buttons are left as they were.     *)
LaunchTestQuietly ==
    /\ Idle /\ ~ui.child_process /\ ~ui.test_process
    /\ animation \in {"none", "exited"}
    /\ animation' = "starting"
    /\ ui' = [ui EXCEPT !.test_process = TRUE]
    /\ Counted
    /\ UNCHANGED <<store, windows, child, signalled>>

(* The menu starts a test animation, unless one is starting or a pipeline  *)
(* runs.  The bound leaves one animation at a time.                        *)
LaunchTestAnimation ==
    /\ Idle /\ ~ui.child_process /\ ~ui.test_process
    /\ animation \in {"none", "exited"}
    /\ animation' = "starting"
    /\ ui' = UpdateControlAvailability([ui EXCEPT !.test_process = TRUE])
    /\ Counted
    /\ UNCHANGED <<store, windows, child, signalled>>

(* A mutant of RequestStop: the event is pulsed, and only a pipeline that  *)
(* already waits for it sees it.                                           *)
PulseStop(u) ==
    IF ~u.stop_event THEN UNCHANGED signalled /\ ui' = u
    ELSE signalled' = (child.state = "running") /\ ui' = [u EXCEPT !.stop = FALSE]

(* RequestStop: without an event nothing happens; SetEvent that fails is   *)
(* shown and not tried again.                                              *)
RequestStop(u) ==
    IF ~u.stop_event THEN UNCHANGED signalled /\ ui' = u
    ELSE \/ signalled' = TRUE /\ ui' = [u EXCEPT !.stop = FALSE]
         \/ UNCHANGED signalled /\ ui' = u

(* A click on Stop.                                                        *)
Stop ==
    /\ Idle /\ ui.stop
    /\ RequestStop(ui)
    /\ UNCHANGED <<store, windows, child, animation, requests>>

(* WM_DESTROY: handles are closed, and the timer with the window.          *)
Destroyed(u) ==
    [FinishPendingTestLaunch(CloseChildHandles(u)) EXCEPT !.window = "destroyed"]

(* A mutant of Close: the window goes at once, with the stop requested.    *)
CloseAtOnce ==
    /\ Idle
    /\ ui' = Destroyed(ui)
    /\ signalled' \in {signalled, ui.stop_event}
    /\ UNCHANGED <<store, windows, child, animation, requests>>

(* WM_CLOSE: with a pipeline the window waits for it to stop.              *)
Close ==
    /\ Idle
    /\ IF ui.child_process
       THEN RequestStop([ui EXCEPT !.closing = TRUE])
       ELSE ui' = Destroyed(ui) /\ UNCHANGED signalled
    /\ UNCHANGED <<store, windows, child, animation, requests>>

-----------------------------------------------------------------------------
(* The timer, every 200 ms: the results of PollTestAnimation, given how    *)
(* the animation stands, then of PollChild.                                *)
PolledTest(u) ==
    IF ~u.test_process THEN {u}
    ELSE IF animation = "shown"
    THEN { SelectTargetInCombo(FinishPendingTestLaunch(v), TestWindow) :
             v \in PopulateTargets(u) }
    ELSE IF animation = "exited" THEN {FinishPendingTestLaunch(u)}
    ELSE {u} \cup PopulateTargets(FinishPendingTestLaunch(u))  \* 5000 ms

PolledChild(u) ==
    IF ~u.child_process \/ child.state # "ended" THEN {u}
    ELSE IF u.closing THEN {Destroyed(CloseChildHandles(u))}
    ELSE PopulateTargets(CloseChildHandles(u))

Timer ==
    /\ Idle
    /\ \E u \in PolledTest(ui) : ui' \in PolledChild(u)
    /\ UNCHANGED <<store, windows, child, signalled, animation, requests>>

(* The launcher's save goes on, in its handler.                            *)
ContinueSave ==
    /\ SaveProfiles("launcher")
    /\ UNCHANGED <<ui, windows, child, signalled, animation, requests>>

-----------------------------------------------------------------------------
(* The other processes.                                                    *)

(* osss.exe --save-profile, from a terminal, with a line that parses.      *)
SaveFromCommandLine(s, executable, arguments) ==
    /\ ~ParseOptions(arguments).failed
    /\ LoadForSave(s, executable, arguments)
    /\ Counted
    /\ UNCHANGED <<ui, windows, child, signalled, animation>>

ContinueCliSave(s) ==
    /\ SaveProfiles(s) \/ Killed(s)
    /\ UNCHANGED <<ui, windows, child, signalled, animation, requests>>

(* wmain of the pipeline, up to its loop: the line is parsed, the profile  *)
(* read and merged, the target resolved.  What fails ends the process.     *)
ChildStarts ==
    /\ child.state = "starting"
    /\ LET options == PreparedOptions(child.arguments,
                                      StoredFor(ExecutableOf[child.target])) IN
       IF options.failed \/ child.target \notin windows
       THEN child' = [NoChild EXCEPT !.state = "ended"]
       ELSE child' = [child EXCEPT !.state = "running", !.options = options]
    /\ UNCHANGED <<store, ui, windows, signalled, animation, requests>>

(* The loop finds the event set; it is looked at on every pass.            *)
ChildStops ==
    /\ child.state = "running" /\ signalled
    /\ child' = [NoChild EXCEPT !.state = "ended"]
    /\ UNCHANGED <<store, ui, windows, signalled, animation, requests>>

(* It ends by itself: its hotkey, its target closed, an error, an          *)
(* unreadable profile.                                                     *)
ChildEnds ==
    /\ child.state \in {"starting", "running"}
    /\ child' = [NoChild EXCEPT !.state = "ended"]
    /\ UNCHANGED <<store, ui, windows, signalled, animation, requests>>

AnimationChanges ==
    /\ \/ /\ animation = "starting"
          /\ animation' = "shown" /\ windows' = windows \cup {TestWindow}
       \/ /\ animation \in {"starting", "shown"}
          /\ animation' = "exited" /\ windows' = windows \ {TestWindow}
    /\ UNCHANGED <<store, ui, child, signalled, requests>>

(* Another window opens or is restored, or closes or is minimized.         *)
WindowChanges(w) ==
    /\ w # TestWindow
    /\ windows' = IF w \in windows THEN windows \ {w} ELSE windows \cup {w}
    /\ UNCHANGED <<store, ui, child, signalled, animation, requests>>

-----------------------------------------------------------------------------
Next ==
    \/ \E t \in Windows : SelectTarget(t)
    \/ ChangeSettings
    \/ Refresh
    \/ SaveTargetProfile
    \/ BeginGeneration
    \/ LaunchTestAnimation
    \/ Stop
    \/ Close
    \/ Timer
    \/ ContinueSave
    \/ \E s \in Terminals :
          \/ \E executable \in Executables, arguments \in CliArguments :
                SaveFromCommandLine(s, executable, arguments)
          \/ ContinueCliSave(s)
    \/ ChildStarts
    \/ ChildStops
    \/ ChildEnds
    \/ AnimationChanges
    \/ \E w \in Windows : WindowChanges(w)

(* The timer fires and the processes run; the user need do nothing.        *)
Fairness ==
    /\ WF_vars(Timer)
    /\ WF_vars(ContinueSave)
    /\ WF_vars(ChildStarts)
    /\ WF_vars(ChildStops)

Spec == Init /\ [][Next]_vars /\ Fairness

-----------------------------------------------------------------------------
(* The buttons tell what can be done (gui_main.cpp, UpdateControl-         *)
(* Availability is called by hand after every change): a pipeline is never *)
(* started beside another or beside a test that is still coming up, though *)
(* BeginGeneration itself only looks for the pipeline; and while one runs  *)
(* that has not been told to stop, Stop can be pressed.                    *)
ControlsAgree ==
    /\ ~(ui.child_process /\ ui.test_process)
    /\ ui.start => ~ui.child_process /\ ~ui.test_process /\ ui.target # None
    /\ ui.child_process /\ ~signalled => ui.stop

(* A pipeline runs with what the launcher showed when Start was pressed:   *)
(* what a profile holds never wins over a flag of the launch line          *)
(* (main.cpp, 1890).  A profile can add to the masks and can turn the      *)
(* automatic mask on; without one, these are as shown too.                 *)
RunsAsShown ==
    child.state = "running" =>
        LET asked == child.shown
            masks == IF asked.mask = None THEN {} ELSE {asked.mask} IN
        /\ child.options.window = child.target
        /\ child.options.setting = asked.setting
        /\ masks \subseteq child.options.masks
        /\ asked.auto => child.options.auto
        /\ ~asked.profile => /\ child.options.masks = masks
                             /\ child.options.auto = asked.auto

(* The window never goes away from a pipeline that is still alive, which   *)
(* nothing but its hotkey could then stop (gui_main.cpp, WM_CLOSE).        *)
CloseLeavesNoChild ==
    ui.window = "destroyed" => child.state \in {"none", "ended"}

(* A stop that the launcher took is obeyed, even when it comes before the  *)
(* pipeline has opened its event: the pipeline ends, and the launcher lets *)
(* go of it (gui_main.cpp, 2239).                                          *)
StopIsHonoured ==
    ui.child_process /\ ~ui.stop ~> ~ui.child_process
=============================================================================
