----------------------------- MODULE ProjectUndo -----------------------------
(***************************************************************************)
(* The undo stacks of a project (emapp/src/Project.cc) and what moves      *)
(* them: the operations of the user on the active model or, with no active *)
(* model, on the camera; undo and redo; the timeline, which discards a     *)
(* pose that was not registered as a keyframe; switching the active model; *)
(* and playback.                                                           *)
(*                                                                         *)
(* There is one stack per model and one for the project (camera mode).  A  *)
(* transform (TransformBoneCommand, TransformMorphCommand,                 *)
(* UpdateCameraCommand) remembers in m_transformPerformedAt where it was   *)
(* performed; the next seek to another frame moves a stack back to that    *)
(* offset.  A keyframe edit forgets the place, a motion snapshot (paste,   *)
(* scale, move of keyframes) leaves it alone.                              *)
(***************************************************************************)
EXTENDS UndoStackOps

CONSTANTS Model,         \* the models of the project
          Project,       \* stands for the project's own stack and camera motion
          Frame,         \* frames of the timeline
          SoftLimit,     \* limit of every stack
          CameraShared,  \* whether models use the global camera (isCameraShared)
          Operations     \* kinds of operation the user performs

Kinds == {"transform", "keyframe", "snapshot"}

ASSUME CommandAssumption == Command \subseteq Nat \ {0}
ASSUME ProjectAssumption == Project \notin Model /\ NULL \notin Model \cup {Project}
ASSUME FrameAssumption == Frame \subseteq Nat /\ 0 \in Frame
ASSUME SoftLimitAssumption == SoftLimit \in 1 .. HardLimit
ASSUME SettingsAssumption ==
  CameraShared \in BOOLEAN /\ Operations \subseteq Kinds \cup {"move", "switch", "play"}

Scene == Model \cup {Project}

VARIABLES stacks,     \* undo stack of each model and of the project
          motion,     \* version of the keyframes of each model and of the camera
          info,       \* the stack each command is on and what it edits
          created,    \* number of commands created
          active,     \* the active model, Project in camera mode
          frame,      \* m_localFrameIndex.first
          performed,  \* m_transformPerformedAt
          playing,    \* whether the audio player plays
          saved,      \* active model in m_lastSaveState, NULL without one
          chosen,     \* (auxiliary) the user chose a model while playing
          performer,  \* (auxiliary) the scene whose transform set performed
          latest      \* (auxiliary) command the user expects undo to revert, or NULL

vars == <<stacks, motion, info, created, active, frame, performed, playing,
          saved, chosen, performer, latest>>

Torn == -1
Version == {Torn, 0} \cup Command
NoFrame == -1    \* Motion::kMaxFrameIndex, no frame of any timeline
Unset == [frame |-> NoFrame, offset |-> 0]

Info == [stack : Scene, scene : Scene, kind : Kinds, frame : Frame, last : Version]

TypeOK ==
  /\ stacks \in [Scene -> Stack]
  /\ motion \in [Scene -> Version]
  /\ info \in [Command -> Info]
  /\ created \in {0} \cup Command
  /\ active \in Scene
  /\ frame \in Frame
  /\ performed \in [frame : {NoFrame} \cup Frame, offset : 0 .. HardLimit]
  /\ playing \in BOOLEAN
  /\ saved \in Scene \cup {NULL}
  /\ chosen \in BOOLEAN
  /\ performer \in Scene
  /\ latest \in Command \cup {NULL}

Init ==
  /\ stacks = [s \in Scene |-> CreateWithSoftLimit(SoftLimit)]
  /\ motion = [s \in Scene |-> 0]
  /\ info = [c \in Command |->
               [stack |-> Project, scene |-> Project, kind |-> "keyframe",
                frame |-> 0, last |-> 0]]
  /\ created = 0
  /\ active = Project
  /\ frame = 0
  /\ performed = Unset
  /\ playing = FALSE
  /\ saved = NULL
  /\ chosen = FALSE
  /\ performer = Project
  /\ latest = NULL

-----------------------------------------------------------------------------
\* Effect of a command on the keyframes of its scene.  A keyframe command adds
\* or removes the keyframes it names and is right only on the motion it was
\* recorded against; a snapshot command replaces the whole motion.
MotionAfterRedo(ms, c) ==
  LET i == info[c]
  IN CASE i.kind = "transform" -> ms
       [] i.kind = "snapshot" -> [ms EXCEPT ![i.scene] = c]
       [] i.kind = "keyframe" -> [ms EXCEPT ![i.scene] = IF @ = i.last THEN c ELSE Torn]

MotionAfterUndo(ms, c) ==
  LET i == info[c]
  IN CASE i.kind = "transform" -> ms
       [] i.kind = "snapshot" -> [ms EXCEPT ![i.scene] = i.last]
       [] i.kind = "keyframe" -> [ms EXCEPT ![i.scene] = IF @ = c THEN i.last ELSE Torn]

MutPerformedAfterRedo(i, offset) ==
  CASE i.kind = "transform" -> [frame |-> i.frame, offset |-> offset + 1]
    [] i.kind = "keyframe" -> Unset
    [] i.kind = "snapshot" -> performed

\* on_redo runs before the cursor moves, so a transform records the offset its
\* stack had before the command.
PerformedAfterRedo(i, offset) ==
  CASE i.kind = "transform" -> [frame |-> i.frame, offset |-> offset]
    [] i.kind = "keyframe" -> Unset
    [] i.kind = "snapshot" -> performed

PerformedAfterUndo(i) == IF i.kind = "snapshot" THEN performed ELSE Unset

\* A transform seeks to its own frame first (with performed reset, so that this
\* seek moves no stack).
FrameAfter(i) == IF i.kind = "transform" THEN i.frame ELSE frame

PerformerAfter(i) == IF i.kind = "transform" THEN i.scene ELSE performer

-----------------------------------------------------------------------------
\* undoStackSetOffset on one stack, run to its end, with its effect on motions.
UndoStep(w) == [stack |-> Undone(w.stack),
                motion |-> MotionAfterUndo(w.motion, CommandToUndo(w.stack))]
RedoStep(w) == [stack |-> Redone(w.stack),
                motion |-> MotionAfterRedo(w.motion, CommandToRedo(w.stack))]

Rewound(w, n) ==
  LET at[k \in 0 .. n] == IF k = 0 THEN w ELSE UndoStep(at[k - 1]) IN at[n]
Replayed(w, n) ==
  LET at[k \in 0 .. n] == IF k = 0 THEN w ELSE RedoStep(at[k - 1]) IN at[n]

\* The redo loop runs while i <= value, one command more than asked for.
OffsetSet(w, value) ==
  LET cursor == w.stack.current_index
      redoable == w.stack.num_commands - cursor
  IN IF value < cursor THEN Rewound(w, cursor - value)
     ELSE IF value > cursor
     THEN Replayed(w, IF value - cursor + 1 < redoable THEN value - cursor + 1
                      ELSE redoable)
     ELSE w

Pending(f) == performed # Unset /\ f # performed.frame

MutTakeBack(f, scene) ==
  /\ performed' = IF Pending(f) THEN Unset ELSE performed
  /\ IF Pending(f) /\ scene \in Model
     THEN LET w == OffsetSet([stack |-> stacks[scene], motion |-> motion],
                             performed.offset)
          IN stacks' = [stacks EXCEPT ![scene] = w.stack]
     ELSE UNCHANGED stacks
  /\ UNCHANGED motion

\* A transform that was performed on another frame is taken back, on the stack
\* of whatever model is active now.
TakeBack(f, scene) ==
  /\ performed' = IF Pending(f) THEN Unset ELSE performed
  /\ IF Pending(f) /\ scene \in Model
     THEN LET w == OffsetSet([stack |-> stacks[scene], motion |-> motion],
                             performed.offset)
          IN stacks' = [stacks EXCEPT ![scene] = w.stack] /\ motion' = w.motion
     ELSE UNCHANGED <<stacks, motion>>

InternalSeek(f, scene) == TakeBack(f, scene) /\ frame' = f

-----------------------------------------------------------------------------
\* A new command on the stack it names; its on_redo runs inside the push.
Push(i) ==
  \E c \in Command :
    /\ c = created + 1
    /\ created' = c
    /\ info' = [info EXCEPT ![c] = i]
    /\ stacks' = [stacks EXCEPT ![i.stack] = Pushed(@, c)]
    /\ motion' = IF i.kind = "transform" THEN motion
                 ELSE [motion EXCEPT ![i.scene] = c]
    /\ performed' = PerformedAfterRedo(i, stacks[i.stack].current_index)
    /\ performer' = PerformerAfter(i)
    /\ UNCHANGED <<active, frame, playing, saved, chosen>>

NewInfo(stack, scene, kind) ==
  [stack |-> stack, scene |-> scene, kind |-> kind, frame |-> frame, last |-> motion[scene]]

\* An operation on the active model goes to its stack, one in camera mode to
\* the project's (Model::pushUndo, Project::pushUndo).
MutOperate(kind) ==
  /\ ~ playing
  /\ kind \in Operations
  /\ Push(NewInfo(IF kind = "snapshot" THEN Project ELSE active, active, kind))
  /\ latest' = created'

Operate(kind) ==
  /\ ~ playing
  /\ kind \in Operations
  /\ Push(NewInfo(active, active, kind))
  /\ latest' = created'

\* The global camera can be moved while a model is active if models share it.
MoveCamera ==
  /\ ~ playing
  /\ "transform" \in Operations
  /\ active \in Model /\ CameraShared
  /\ Push(NewInfo(Project, Project, "transform"))
  /\ latest' = NULL

\* registerMoveAllSelectedKeyframesCommand records the moved keyframes of the
\* active model on the project's stack: an operation that may span several
\* motions is undone in camera mode.
MoveSelectedKeyframes ==
  /\ ~ playing
  /\ "move" \in Operations
  /\ active \in Model
  /\ Push(NewInfo(Project, active, "snapshot"))
  /\ latest' = NULL

\* handleUndoAction and handleRedoAction work on the stack of the active model.
UserUndo ==
  LET s == stacks[active] c == CommandToUndo(s)
  IN /\ ~ playing /\ CanUndo(s)
     /\ stacks' = [stacks EXCEPT ![active] = Undone(s)]
     /\ motion' = MotionAfterUndo(motion, c)
     /\ performed' = PerformedAfterUndo(info[c])
     /\ frame' = FrameAfter(info[c])
     /\ latest' = NULL
     /\ UNCHANGED <<info, created, active, playing, saved, chosen, performer>>

UserRedo ==
  LET s == stacks[active] c == CommandToRedo(s)
  IN /\ ~ playing /\ CanRedo(s)
     /\ stacks' = [stacks EXCEPT ![active] = Redone(s)]
     /\ motion' = MotionAfterRedo(motion, c)
     /\ performed' = PerformedAfterRedo(info[c], s.current_index)
     /\ frame' = FrameAfter(info[c])
     /\ performer' = PerformerAfter(info[c])
     /\ latest' = NULL
     /\ UNCHANGED <<info, created, active, playing, saved, chosen>>

Seek(f) ==
  /\ ~ playing
  /\ InternalSeek(f, active)
  /\ latest' = IF Pending(f) THEN NULL ELSE latest
  /\ UNCHANGED <<info, created, active, playing, saved, chosen, performer>>

\* setActiveModel seeks to the current frame with the new model active.
SetActiveModel(scene) ==
  /\ active' = scene
  /\ IF scene = active THEN UNCHANGED <<stacks, motion, performed>>
                       ELSE TakeBack(frame, scene)

\* The panel offers no model while playing, the menu does (SET_ACTIVE_MODEL).
SwitchModel(scene) ==
  /\ "switch" \in Operations
  /\ scene # active
  /\ SetActiveModel(scene)
  /\ latest' = NULL
  /\ chosen' = playing
  /\ UNCHANGED <<info, created, frame, playing, saved, performer>>

-----------------------------------------------------------------------------
MutPlay ==
  /\ ~ playing
  /\ "play" \in Operations
  /\ saved' = active
  /\ playing' = TRUE
  /\ UNCHANGED <<stacks, motion, performed, frame, active, info, created,
                 chosen, performer, latest>>

\* preparePlaying saves the active model and plays with none.
Play ==
  /\ ~ playing
  /\ "play" \in Operations
  /\ saved' = active
  /\ SetActiveModel(Project)
  /\ playing' = TRUE
  /\ UNCHANGED <<info, created, frame, chosen, performer, latest>>

\* Project::update follows the audio position.
Tick(f) ==
  /\ playing
  /\ InternalSeek(f, active)
  /\ UNCHANGED <<info, created, active, playing, saved, chosen, performer, latest>>

\* prepareStopping brings the saved active model back, without a seek.
Pause ==
  /\ playing
  /\ playing' = FALSE
  /\ SetActiveModel(saved)
  /\ saved' = NULL
  /\ chosen' = FALSE
  /\ UNCHANGED <<info, created, frame, performer, latest>>

\* stop sets the frame itself, behind internalSeek's back, and can be asked for
\* while nothing plays.
Stop ==
  /\ "play" \in Operations
  /\ playing' = FALSE
  /\ IF saved = NULL THEN UNCHANGED <<active, stacks, motion, performed>>
                     ELSE SetActiveModel(saved)
  /\ saved' = NULL
  /\ chosen' = FALSE
  /\ frame' = 0
  /\ UNCHANGED <<info, created, performer, latest>>

Next ==
  \/ \E kind \in Kinds : Operate(kind)
  \/ MoveCamera
  \/ MoveSelectedKeyframes
  \/ UserUndo
  \/ UserRedo
  \/ \E f \in Frame : Seek(f)
  \/ \E scene \in Scene : SwitchModel(scene)
  \/ Play
  \/ \E f \in Frame : Tick(f)
  \/ Pause
  \/ Stop

Spec == Init /\ [][Next]_vars

-----------------------------------------------------------------------------
\* Playback seeks on every tick, and what it seeks away from is lost, but it is no
\* edit: starting, pausing and stopping move no undo stack and touch no keyframe,
\* and neither does a tick, unless the user chose a model from the menu while
\* playing.  Then only the stack of that model moves, once: the transform that is
\* taken back is forgotten.
PlaybackKeepsHistory ==
  [][playing \/ playing' =>
       \A scene \in Scene :
         \/ stacks'[scene] = stacks[scene] /\ motion'[scene] = motion[scene]
         \/ /\ chosen' /\ scene = active'
            /\ performed # Unset /\ performed' = Unset]_vars

\* The keyframes of every scene are those that the last edit below the cursor
\* of its stack made, whatever seeks, rewinds and truncations happened before:
\* no keyframe command ever runs on a motion it was not recorded against.  It
\* says nothing of a scene whose keyframes were moved by a command that another
\* stack holds.
Edits(scene) ==
  {k \in Slots : k < stacks[scene].current_index
                 /\ LET i == info[stacks[scene].commands[k]]
                    IN i.scene = scene /\ i.kind # "transform"}
LastEdit(scene) ==
  stacks[scene].commands[CHOOSE k \in Edits(scene) : \A j \in Edits(scene) : j <= k]
OwnStackOnly(scene) ==
  \A c \in Command : c <= created /\ info[c].scene = scene => info[c].stack = scene

MotionAtCursor ==
  \A scene \in {s \in Scene : OwnStackOnly(s)} :
    /\ motion[scene] # Torn
    /\ Edits(scene) # {} => motion[scene] = LastEdit(scene)

\* Undo reverts the operation the user performed last on the active model or
\* the camera, if nothing but seeks within the frame and playback came in
\* between (docs/menu.rst: undo rewinds the previous operation).
UndoRevertsLatest ==
  [][UserUndo /\ latest # NULL => CommandToUndo(stacks[active]) = latest]_vars

\* As long as no snapshot was taken, a seek away from an unregistered transform
\* of the active model takes back that transform and nothing else: the cursor goes
\* where it was before, one command back (not at all where the transform made a
\* full stack drop its oldest command), and no keyframe edit is undone.  A snapshot
\* leaves the place of the transform behind it, and once later snapshots have
\* pushed the transform off the full stack the seek even redoes what was undone.
NoSnapshot == \A c \in Command : c <= created => info[c].kind # "snapshot"

SeekTakesTransformBack ==
  [][\A f \in Frame :
       Seek(f) /\ performer = active /\ NoSnapshot
         => /\ UNCHANGED motion
            /\ Pending(f) /\ active \in Model =>
                 LET s == stacks[active]
                 IN /\ info[CommandToUndo(s)].kind = "transform"
                    /\ stacks'[active].current_index = performed.offset
                    /\ s.current_index < SoftLimit
                         => performed.offset = s.current_index - 1]_vars
=============================================================================
