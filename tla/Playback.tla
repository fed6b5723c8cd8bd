------------------------------ MODULE Playback ------------------------------
(***************************************************************************)
(* Playing the timeline of a project: the audio player with its pair of    *)
(* states (BaseAudioPlayer), the project that saves its selection and its  *)
(* flags for the time of playback and restores them afterwards (Project),  *)
(* the window that is hidden and shown again, the model editor and the     *)
(* question before a model is deleted, and the menu of the application,    *)
(* which mirrors the playback from events and sends commands (the          *)
(* ApplicationMenuBuilder).  The menu and the project are two processes:   *)
(* commands and events travel in two queues.                               *)
(*                                                                         *)
(* The clock of the player is not modelled: an update moves the timeline   *)
(* to any frame; the frame that closing the editor seeks back to is any    *)
(* frame too.                                                              *)
(***************************************************************************)
EXTENDS Naturals, Sequences, FiniteSets

CONSTANTS
  Models,          \* the models of the project at first
  NoModel,         \* the null pointer
  NoState,         \* a state that was not saved
  Duration,        \* the last frame of the playing segment
  MaxMessages,     \* bound of each queue
  MaxDialogs,      \* bound of the open dialogs
  AllowedCrossings, \* the crossings of use cases that may happen
  MaxCrossings     \* bound of the kinds of crossings in one behaviour

ASSUME ModelsAssumption == NoModel \notin Models /\ NoState \notin Models
ASSUME BoundsAssumption ==
  Duration \in Nat \ {0} /\ MaxMessages \in Nat \ {0} /\ MaxDialogs \in Nat

VARIABLES
  project,   \* the player and the parts of Project that playback touches
  editor,    \* the state the model editor saved when it was opened
  asked,     \* the models whose deletion is asked for, one modal dialog each
  commands,  \* messages from the menu and the window to the project
  events,    \* messages from the project to the menu
  items,     \* the enabled menu items: play and stop
  covered,   \* m_wasEnabledItemMap: the items as they were under a dialog
  chosen,    \* history: the model and the loop flag the user chose last
  hiding,    \* history: what the hiding of the window interrupted
  crossed,   \* history: the crossings of use cases that happened so far
  missed     \* history: a playback event came while a dialog covered the menu

vars == <<project, editor, asked, commands, events, items, covered,
          chosen, hiding, crossed, missed>>

PlayerStates == {"stop", "suspend", "pause", "play"}
Frames == 0..Duration
Pointers == Models \cup {NoModel}
SavedStates == [model : Pointers, loop : BOOLEAN, editing : BOOLEAN]
Projects == [state : PlayerStates, last : PlayerStates, frame : Frames,
             models : SUBSET Models, model : Pointers,
             saved : SavedStates \cup {NoState},
             loop : BOOLEAN, editing : BOOLEAN, active : BOOLEAN]
Items == [play : BOOLEAN, stop : BOOLEAN]
ASSUME StatesAssumption == NoState \notin SavedStates /\ NoState \notin Items
Commands == {"play", "stop", "edit", "delete", "clearAudio",
             "activate", "deactivate"}
Events == {"play", "stop", "pause", "resume", "dialog", "clear",
           "editing", "edited"}
Crossings == {"replayed", "cleared", "edited", "deleted", "hidden", "looped",
              "asked twice"}

TypeOK ==
  /\ project \in Projects
  /\ editor \in SavedStates \cup {NoState}
  /\ asked \in Seq(Models) /\ Len(asked) <= MaxDialogs
  /\ commands \in Seq(Commands) /\ Len(commands) <= MaxMessages
  /\ events \in Seq(Events) /\ Len(events) <= MaxMessages + 1
  /\ items \in Items /\ covered \in Items \cup {NoState}
  /\ chosen \in [model : Pointers, loop : BOOLEAN]
  /\ hiding \in {"no", "playing", "idle", "touched"}
  /\ crossed \subseteq Crossings
  /\ missed \in BOOLEAN

Playing(p) == p.state = "play"
MutWasPlaying(p) == p.state = "suspend" /\ p.last = "play"
WasPlaying(p) == p.state # "suspend" /\ p.last = "play"

-----------------------------------------------------------------------------
(* The player: m_state is the pair of the present state and the last one.  *)

SetState(p, s) == [p EXCEPT !.last = p.state, !.state = s]
PlayerPlay(p) == IF Playing(p) THEN p ELSE SetState(p, "play")
PlayerPause(p) == IF Playing(p) THEN SetState(p, "pause") ELSE p
PlayerStop(p) ==
  IF p.state \in {"play", "pause"} THEN SetState(p, "stop") ELSE p

(* The project.                                                            *)

SaveState(p) == [model |-> p.model, loop |-> p.loop, editing |-> p.editing]
SetActiveModel(p, m) == IF p.editing THEN p ELSE [p EXCEPT !.model = m]
RestoreState(p, s) ==
  [SetActiveModel(p, s.model) EXCEPT !.loop = s.loop, !.editing = s.editing]

PreparePlaying(p) ==
  SetActiveModel([p EXCEPT !.saved = SaveState(p)], NoModel)
PrepareStopping(p) ==
  IF p.saved = NoState
  THEN p
  ELSE [RestoreState(p, p.saved) EXCEPT !.saved = NoState]

\* Each operation yields the project and the events it publishes.
Quietly(p) == [project |-> p, sent |-> <<>>]
Telling(p, e) == [project |-> p, sent |-> <<e>>]

Play(p) ==
  IF p.editing THEN Quietly(p)
  ELSE Telling(PlayerPlay(PreparePlaying(p)), "play")
MutStop(p) == Telling([PlayerStop(p) EXCEPT !.frame = 0], "stop")
Stop(p) ==
  Telling([PrepareStopping(PlayerStop(p)) EXCEPT !.frame = 0], "stop")
Pause(p, force) ==
  IF force \/ Playing(p)
  THEN Telling(PrepareStopping(PlayerPause(p)), "pause")
  ELSE Quietly(p)
MutResume(p, force) ==
  IF force \/ WasPlaying(p)
  THEN Telling(SetState(PreparePlaying(p), "play"), "resume")
  ELSE Quietly(p)
Resume(p, force) ==
  IF (force \/ WasPlaying(p)) /\ ~p.editing
  THEN Telling(SetState(PreparePlaying(p), "play"), "resume")
  ELSE Quietly(p)

SetActive(p, value) ==
  LET paused == Pause(p, FALSE)
      r == CASE value -> Resume(p, WasPlaying(p))
             [] ~value /\ Playing(p) -> paused
             [] OTHER -> Quietly(SetState(p, "suspend"))
  IN  IF p.active = value THEN Quietly(p)
      ELSE [r EXCEPT !.project.active = value]

\* The end of the segment: playback stops, and starts again with the loop flag.
MutContinuesPlaying(p) ==
  LET again == Play(Stop(p).project)
  IN  [again EXCEPT !.sent = <<"stop">> \o @]
ContinuesPlaying(p) ==
  LET stopped == Stop(p)
      again == Play(stopped.project)
  IN  IF stopped.project.loop
      THEN [project |-> again.project, sent |-> stopped.sent \o again.sent]
      ELSE stopped

ClearAudioSource(p) == [p EXCEPT !.state = "stop"]

MutRemoveModel(p, m) == [p EXCEPT !.models = @ \ {m}]
RemoveModel(p, m) ==
  LET q == IF p.model = m
           THEN [SetActiveModel(p, NoModel) EXCEPT !.frame = 0] ELSE p
  IN  [q EXCEPT !.models = @ \ {m}]

Perform(r) == project' = r.project /\ events' = events \o r.sent

-----------------------------------------------------------------------------
(* History.                                                                *)

Crossing(what, happens) ==
  /\ crossed' = IF happens THEN crossed \cup {what} ELSE crossed
  /\ crossed' \subseteq AllowedCrossings /\ Cardinality(crossed') <= MaxCrossings
Starting(p) ==   \* a playback that starts now, over another one or unseen
  IF p.saved # NoState THEN Crossing("replayed", ~p.editing)
  ELSE Crossing("hidden", ~p.editing /\ ~p.active)
Touching ==
  hiding' = IF project.active \/ project' = project THEN hiding ELSE "touched"
Keep == UNCHANGED <<chosen, hiding, crossed, missed>>

-----------------------------------------------------------------------------
(* The menu and the window, on the thread of the user interface.           *)

Send(c) == /\ Len(commands) < MaxMessages
           /\ commands' = Append(commands, c)
           /\ UNCHANGED <<project, editor, asked, events, items, covered>>
           /\ Keep

ClickPlay == items.play /\ Send("play")
ClickStop == items.stop /\ Send("stop")
ClickMenu(c) == covered = NoState /\ Send(c)
HideWindow == Send("deactivate")
ShowWindow == Send("activate")

MutEventItems(e, i) ==
  CASE e = "play"                -> [play |-> FALSE, stop |-> TRUE]
    [] e = "stop"                -> [play |-> TRUE, stop |-> FALSE]
    [] e \in {"pause", "resume"} -> [play |-> TRUE, stop |-> TRUE]
    [] e = "editing"             -> [i EXCEPT !.play = FALSE]
    [] e = "edited"              -> [i EXCEPT !.play = TRUE]
EventItems(e, i) ==
  CASE e \in {"play", "resume"} -> [play |-> FALSE, stop |-> TRUE]
    [] e = "stop"                -> [play |-> TRUE, stop |-> FALSE]
    [] e = "pause"               -> [play |-> TRUE, stop |-> TRUE]
    [] e = "editing"             -> [i EXCEPT !.play = FALSE]
    [] e = "edited"              -> [i EXCEPT !.play = TRUE]

HandleEvent ==
  /\ events # <<>>
  /\ LET e == Head(events)
     IN  \/ /\ e = "dialog"      \* startModalDialog
            /\ covered' = IF covered = NoState THEN items ELSE covered
            /\ items' = [play |-> FALSE, stop |-> FALSE]
            /\ UNCHANGED missed
         \/ /\ e = "clear"       \* stopModalDialog
            /\ items' = IF covered = NoState THEN items ELSE covered
            /\ covered' = NoState
            /\ UNCHANGED missed
         \/ /\ e \notin {"dialog", "clear"}
            /\ items' = IF covered = NoState THEN EventItems(e, items) ELSE items
            /\ missed' = IF e \in {"editing", "edited"} THEN missed
                         ELSE covered # NoState
            /\ UNCHANGED covered
  /\ events' = Tail(events)
  /\ UNCHANGED <<project, editor, asked, commands, chosen, hiding, crossed>>

-----------------------------------------------------------------------------
(* The project, on the thread that draws.                                  *)

Room == Len(events) < MaxMessages

Receive(c) == Room /\ commands # <<>> /\ Head(commands) = c
              /\ commands' = Tail(commands)

ReceivePlay ==
  /\ Receive("play") /\ Perform(Play(project)) /\ Starting(project) /\ Touching
  /\ UNCHANGED <<editor, asked, items, covered, chosen, missed>>

ReceiveStop ==
  /\ Receive("stop") /\ Perform(Stop(project)) /\ Touching
  /\ UNCHANGED <<editor, asked, items, covered, chosen, crossed, missed>>

ReceiveClearAudio ==
  /\ Receive("clearAudio") /\ Perform(Quietly(ClearAudioSource(project)))
  /\ Crossing("cleared", Playing(project) \/ ~project.active)
  /\ UNCHANGED <<editor, asked, items, covered, chosen, hiding, missed>>

ReceiveActivate ==
  /\ Receive("activate") /\ Perform(SetActive(project, TRUE))
  /\ hiding' = "no"
  /\ UNCHANGED <<editor, asked, items, covered, chosen, crossed, missed>>

ReceiveDeactivate ==
  /\ Receive("deactivate") /\ Perform(SetActive(project, FALSE))
  /\ hiding' = IF ~project.active THEN hiding
               ELSE IF Playing(project) THEN "playing" ELSE "idle"
  /\ UNCHANGED <<editor, asked, items, covered, chosen, crossed, missed>>

\* openModelParameterDialog, with the command that enables the mode.
OpensEditor == editor = NoState /\ project.model # NoModel
ReceiveEdit ==
  /\ Receive("edit")
  /\ IF OpensEditor
     THEN LET p == [project EXCEPT !.editing = TRUE]
          IN  Perform(Telling(p, "editing")) /\ editor' = SaveState(p)
     ELSE UNCHANGED <<project, editor, events>>
  /\ Crossing("edited", OpensEditor /\ Playing(project))
  /\ UNCHANGED <<asked, items, covered, chosen, hiding, missed>>

AskDelete ==
  /\ IF project.model # NoModel
     THEN /\ Len(asked) < MaxDialogs
          /\ asked' = Append(asked, project.model)
          /\ events' = Append(events, "dialog")
     ELSE UNCHANGED <<asked, events>>
  /\ Crossing("asked twice", asked # <<>> /\ project.model # NoModel)
  /\ UNCHANGED <<project, editor, items, covered, chosen, hiding, missed>>
ReceiveDelete == Receive("delete") /\ AskDelete

(* Project::update, once for every frame that is drawn.                    *)
Update ==
  /\ Room /\ Playing(project)
  /\ \E f \in Frames :
       LET r == IF project.frame >= Duration THEN ContinuesPlaying(project)
                ELSE Quietly(project)
       IN  Perform(IF Playing(r.project) THEN [r EXCEPT !.project.frame = f]
                   ELSE r)
  /\ UNCHANGED <<editor, asked, commands, items, covered>> /\ Keep

(* The panels, drawn while the window is active, no modal dialog is open   *)
(* and no model is being edited.                                           *)
Panels == Room /\ project.active /\ asked = <<>> /\ ~project.editing
          /\ UNCHANGED <<editor, items, covered, commands, hiding, missed>>

PressPause ==
  /\ Panels /\ Playing(project) /\ Perform(Pause(project, TRUE))
  /\ UNCHANGED <<asked, chosen, crossed>>
PressResume ==
  /\ Panels /\ ~Playing(project) /\ project.frame > 0
  /\ Perform(Resume(project, TRUE)) /\ Starting(project)
  /\ UNCHANGED <<asked, chosen>>
PressPlay ==
  /\ Panels /\ ~Playing(project) /\ project.frame = 0
  /\ Perform(Play(project)) /\ Starting(project)
  /\ UNCHANGED <<asked, chosen>>
ToggleLoop ==
  /\ Panels
  /\ project' = [project EXCEPT !.loop = ~@]
  /\ chosen' = [chosen EXCEPT !.loop = ~project.loop]
  /\ Crossing("looped", Playing(project))
  /\ UNCHANGED <<asked, events>>
(* The panel lists no model while the project plays; the menu still does.    *)
ChooseModel(m) ==
  /\ Panels
  /\ project' = SetActiveModel(project, m)
  /\ chosen' = IF Playing(project) THEN chosen ELSE [chosen EXCEPT !.model = m]
  /\ UNCHANGED <<asked, events, crossed>>
SeekTimeline(f) ==
  /\ Panels /\ ~Playing(project) /\ project' = [project EXCEPT !.frame = f]
  /\ UNCHANGED <<asked, events, chosen, crossed>>
PressDelete ==
  /\ Room /\ project.active /\ asked = <<>> /\ ~project.editing
  /\ AskDelete /\ UNCHANGED commands

(* The answer to the oldest question; a playing project keeps its models.  *)
Answer(accepted) ==
  /\ Room /\ asked # <<>>
  /\ LET m == Head(asked)
         removes == accepted /\ ~Playing(project)
     IN  /\ project' = IF removes THEN RemoveModel(project, m) ELSE project
         /\ chosen' = IF removes /\ chosen.model = m
                      THEN [chosen EXCEPT !.model = NoModel] ELSE chosen
         /\ Crossing("deleted", removes /\ project.editing)
  /\ asked' = Tail(asked)
  /\ events' = IF Tail(asked) = <<>> THEN Append(events, "clear") ELSE events
  /\ UNCHANGED <<editor, commands, items, covered, hiding, missed>>

(* DisableModelEditingCommand: the user closes the editor, or the editor   *)
(* closes itself when no model is active.                                  *)
CloseEditor ==
  /\ Room /\ editor # NoState
  /\ asked = <<>> \/ project.model = NoModel
  /\ \E f \in Frames :
       LET p == [RestoreState(project, editor) EXCEPT !.frame = f]
       IN  IF p.model # NoModel /\ p.editing
           THEN Perform(Telling([p EXCEPT !.editing = FALSE], "edited"))
           ELSE Perform(Quietly(p))
  /\ editor' = NoState
  /\ UNCHANGED <<asked, commands, items, covered>> /\ Keep

-----------------------------------------------------------------------------
Init ==
  /\ \E m \in Pointers :
       /\ project = [state |-> "stop", last |-> "stop", frame |-> 0,
                     models |-> Models, model |-> m, saved |-> NoState,
                     loop |-> FALSE, editing |-> FALSE, active |-> TRUE]
       /\ chosen = [model |-> m, loop |-> FALSE]
  /\ editor = NoState /\ asked = <<>>
  /\ commands = <<>> /\ events = <<>>
  /\ items = [play |-> TRUE, stop |-> FALSE] /\ covered = NoState
  /\ hiding = "no" /\ crossed = {} /\ missed = FALSE

Menu == \/ ClickPlay \/ ClickStop \/ HideWindow \/ ShowWindow \/ HandleEvent
        \/ \E c \in {"edit", "delete", "clearAudio"} : ClickMenu(c)
ReceiveAny == \/ ReceivePlay \/ ReceiveStop \/ ReceiveClearAudio
              \/ ReceiveActivate \/ ReceiveDeactivate
              \/ ReceiveEdit \/ ReceiveDelete
Panel == \/ PressPause \/ PressResume \/ PressPlay \/ ToggleLoop \/ PressDelete
         \/ \E m \in project.models \cup {NoModel} : ChooseModel(m)
         \/ \E f \in Frames : SeekTimeline(f)
Next == \/ Menu \/ ReceiveAny \/ Update \/ Panel \/ CloseEditor
        \/ \E accepted \in BOOLEAN : Answer(accepted)

Spec == Init /\ [][Next]_vars
\* The clock of a playing project reaches the end of the segment while the
\* frames are drawn, and the menu reads its events.
Advances == Update /\ (project.frame >= Duration \/ project'.frame > project.frame)
FairSpec == Spec /\ SF_vars(Advances) /\ WF_vars(HandleEvent)

-----------------------------------------------------------------------------
(* Properties.  Each names the crossings of use cases that break it; the   *)
(* README says what each of them does.                                     *)

Unless(crossings) == crossed \cap crossings # {}

\* No stored pointer outlives its model: the active model, the one saved for
\* the time of playback, the editor's and those of the open questions
\* (Project::removeModel destroys the model and clears only the first).
PointersAlive ==
  \/ Unless({"cleared", "edited", "deleted", "asked twice"})
  \/ LET held == {project.model}
                 \cup (IF project.saved = NoState THEN {} ELSE {project.saved.model})
                 \cup (IF editor = NoState THEN {} ELSE {editor.model})
                 \cup {asked[i] : i \in DOMAIN asked}
     IN  held \subseteq project.models \cup {NoModel}

\* m_lastSaveState exists exactly while the project plays (Project::play to
\* Project::stop, pause or the end of the segment): no playback ends without
\* giving the selection back, whatever ends it.  The model and the loop flag that
\* the user chose last are the ones the project has, or will have then.
SelectionSurvives ==
  /\ Unless({"cleared"}) \/ (project.saved # NoState <=> Playing(project))
  /\ \/ Unless({"replayed", "cleared", "edited", "deleted", "looped"})
     \/ IF project.saved = NoState
        THEN project.model = chosen.model /\ project.loop = chosen.loop
        ELSE /\ project.saved.model = chosen.model
             /\ project.saved.loop = chosen.loop

\* A model is never edited while the project plays, through whichever of the
\* menu, the panel and the window either was started (Project::play, resume).
EditingExcludesPlayback ==
  Unless({"edited"}) \/ ~(project.editing /\ Playing(project))

\* With every event read and no dialog in the way, the menu offers to stop a
\* playing project and to play a stopped one (ApplicationMenuBuilder).
MenuFollowsPlayback ==
  \/ events # <<>> \/ covered # NoState \/ missed
  \/ Unless({"cleared", "edited"})
  \/ /\ Playing(project) => items.stop /\ ~items.play
     /\ project.state = "stop" /\ ~project.editing /\ editor = NoState
          => items.play

\* Showing the window again (Project::setActive) starts the playback that
\* hiding it interrupted, and never another one.
ShowingResumesWhatHidingStopped ==
  [][~project.active /\ project'.active
       => /\ hiding = "playing" => Playing(project') \/ project.editing
          /\ ~Playing(project) /\ Playing(project')
               => hiding = "playing" \/ Unless({"hidden", "cleared"})]_vars

\* Without the loop flag a playback comes to its end, as long as the window is
\* shown (Project::continuesPlaying).  Closing a model editor that was opened
\* during playback seeks the timeline back.
PlaybackEnds ==
  Playing(project) /\ project.active
    ~> \/ ~Playing(project) \/ ~project.active \/ project.loop
       \/ Unless({"edited"})
=============================================================================
