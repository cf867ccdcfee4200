-------------------------------- MODULE Tui --------------------------------
(***************************************************************************)
(* `cmdman tui` (tui/tui.go): the program the Widget option selects.  The  *)
(* full model is three parts that share the Update loop and no state, the  *)
(* list and its streams, the preview and the keys; each widget is a        *)
(* program of its own, and so is the attach that the full model runs while *)
(* it is suspended (tea.Exec), which `cmdman attach` runs by itself.       *)
(*                                                                         *)
(* As the parts share no state, a step of one is a stutter of the others:  *)
(* the behaviours of each are those it has alone, so one part steps in a   *)
(* behaviour and the others rest in an initial state of theirs.            *)
(***************************************************************************)
EXTENDS TuiWatch, TuiPreview, TuiKeys, Launcher, Switcher, ProjectManager, Attach

VARIABLE part

Parts == {"list", "preview", "keys", "launcher", "switcher", "manager", "attach"}

tuiVars == <<part, watchVars, previewVars, keysVars, launchVars, switchVars, panelVars, attachVars>>

TuiInit ==
    /\ part \in Parts
    /\ WatchInit /\ PreviewInit /\ KeysInit /\ LaunchInit /\ SwitchInit /\ PanelInit /\ AttachInit

ListSteps     == part = "list"     /\ WatchNext
PreviewSteps  == part = "preview"  /\ PreviewNext
KeysStep      == part = "keys"     /\ KeysNext
LauncherSteps == part = "launcher" /\ LaunchNext
SwitcherSteps == part = "switcher" /\ SwitchNext
ManagerSteps  == part = "manager"  /\ PanelNext
AttachSteps   == part = "attach"   /\ AttachNext

TuiNext ==
    /\ part' = part
    /\ \/ ListSteps
          /\ UNCHANGED <<previewVars, keysVars, launchVars, switchVars, panelVars, attachVars>>
       \/ PreviewSteps
          /\ UNCHANGED <<watchVars, keysVars, launchVars, switchVars, panelVars, attachVars>>
       \/ KeysStep
          /\ UNCHANGED <<watchVars, previewVars, launchVars, switchVars, panelVars, attachVars>>
       \/ LauncherSteps
          /\ UNCHANGED <<watchVars, previewVars, keysVars, switchVars, panelVars, attachVars>>
       \/ SwitcherSteps
          /\ UNCHANGED <<watchVars, previewVars, keysVars, launchVars, panelVars, attachVars>>
       \/ ManagerSteps
          /\ UNCHANGED <<watchVars, previewVars, keysVars, launchVars, switchVars, attachVars>>
       \/ AttachSteps
          /\ UNCHANGED <<watchVars, previewVars, keysVars, launchVars, switchVars, panelVars>>

TuiSpec == TuiInit /\ [][TuiNext]_tuiVars

-----------------------------------------------------------------------------
(* Properties: those of the part that steps.                               *)

\* The list and its streams: whatever overlaps, fails and is cancelled, no pump
\* outlives the program or sends on a closed channel, and the list on screen
\* comes to what is in the store.
ListSafety ==
    part = "list" => WatchTypeOK /\ NoSendAfterClose /\ PumpsHeld /\ CacheFollowsList /\ ListSettles

\* The preview holds one stream, the selected row's, every open is answered, and
\* one loop reads what it shows.
PreviewSafety ==
    part = "preview" =>
        /\ PreviewTypeOK /\ NoStreamLeaks /\ LoadingAnswered /\ OneLoop
        /\ DisabledForGood /\ CrashAfterReturn

\* The rows, the markers and the overlays stand for what is under way, and the
\* keys typed into an attach reach its command but for those that detach.
KeysSafety ==
    /\ part = "keys" =>
          /\ KeysTypeOK /\ SelectionInRange
          /\ MarkerMeansWork /\ OneLifecycle /\ OneSpinner /\ UpsRead /\ DefinitionOwn
    /\ part = "attach" => AttachSafety

\* The rows, selections and spinners of the three widgets do too.
WidgetSafety ==
    /\ part = "launcher" =>
          LaunchTypeOK /\ SpinMeansWork /\ RowsDistinct /\ FailureOnRow /\ TypedListed /\ RunningAgrees
    /\ part = "switcher" => SwitchTypeOK /\ JoinComplete /\ TornAsAsked /\ BellQuiet /\ BellNews
    /\ part = "manager" => PanelTypeOK /\ OneInFlight /\ ScalesFromTruth

\* What arrives late moves neither the selection nor the target of a question.
TuiSteps == [][SelectionKept /\ RemovesAsked /\ DownsAsked /\ SelectionStays]_tuiVars
=============================================================================
