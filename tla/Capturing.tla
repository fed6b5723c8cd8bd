------------------------------ MODULE Capturing ------------------------------
(***************************************************************************)
(* Exporting an image or a video (internal/CapturingPassState).  A         *)
(* capturing object is configured in a dialog, started when the host sends *)
(* the path, advanced by every drawn frame through the order of its        *)
(* StateTransition, and destroyed at the start of a later frame.  Frames   *)
(* of a video are read from the GPU: the handler of a read runs on a       *)
(* thread of the graphics library, takes the mutex of the object and       *)
(* encodes the frame with the plugin, while the application thread may be  *)
(* stopping the encoder.                                                   *)
(***************************************************************************)
EXTENDS Integers, Sequences, FiniteSets, SequencesExt

CONSTANTS
  Start, End,     \* m_startFrameIndex and m_endFrameIndex
  Scale,          \* motionFPSScaleFactor: video frames per frame of the motion
  MaxExports,     \* bound of the exports of a session
  MaxFaults,      \* bound of the failures of the plugin
  MaxInFlight,    \* command buffers the graphics library lets run at once
  Crossings       \* the disturbances that are allowed, see the README

ASSUME CapturingAssumption ==
  /\ Start \in Nat /\ End \in Nat /\ Start <= End
  /\ {Scale, MaxExports, MaxInFlight} \subseteq Nat \ {0} /\ MaxFaults \in Nat
  /\ Crossings \subseteq {"asked again", "called off"}

VARIABLES
  kind,       \* m_capturingPassState: which object there is
  state,      \* m_state
  plugin,     \* m_encoderPluginPtr is not null
  saved,      \* m_saveState is not null
  blitted,    \* m_blittedCount
  at,         \* the frame and m_amount, counted in frames of the video
  lastPTS,    \* m_lastVideoPTS, -1 for none
  pending,    \* m_captureDestroyPending
  todo,       \* what the application thread has to do before its next event
  dialog,     \* the dialog of the export
  host,       \* what the host does with it: panel open, or a path on its way
  settings,   \* pixel ratio, rate and samples of the project: whose they are
  selection,  \* the active model and the frame of the project: whose they are
  captured,   \* isViewportCaptured
  encoder,    \* the file of the plugin
  recorded,   \* reads in the command buffer of the frame that is drawn
  flying,     \* reads the GPU works on
  inside,     \* the read whose handler holds the mutex, -1 for none
  stage,      \* where that handler is
  left,       \* reads whose handler has left the mutex and still counts
  async,      \* sg::read_pass_async exists
  issued,     \* history: the frames of the video that were read
  encoded,    \* history: the frames the plugin got, in their order
  late,       \* history: the frames the plugin got when its file was closed
  exports, faults, crashed

object == <<kind, state, saved, blitted, at, lastPTS>>
project == <<settings, selection, captured>>
user == <<dialog, host>>
handlers == <<flying, inside, stage, left>>
coder == <<plugin, encoder>>
history == <<issued, encoded, late>>
vars == <<object, coder, pending, todo, user, project, recorded, handlers, async, history, exports, faults, crashed>>

States == <<"None", "Initialized", "Configured", "Ready", "Blitted", "Finished", "DestroyReady",
            "Cancelled", "Restored", "Destroyed">>
Order(s) == CHOOSE i \in DOMAIN States : States[i] = s
Over(s) == Order(s) >= Order("Finished")
Frames == 0 .. (End - Start + 1) * Scale
Reads == recorded \cup flying \cup left \cup ({inside} \ {-1})   \* as many as m_asyncCount
Unlocked == inside = -1
Idle == todo = <<>> /\ ~crashed
Doing(step) == todo # <<>> /\ Head(todo) = step /\ ~crashed
Then(steps) == todo' = steps \o Tail(todo)
Stopping == {"exchange", "close", "finished", "cancelled"}
Stages == {"none", "check", "audio", "sound", "video", "frame", "fail", "shut", "leave"}

TypeOK ==
  /\ kind \in {"none", "image", "video"} /\ state \in ToSet(States)
  /\ {plugin, saved, pending, captured, async, crashed} \subseteq BOOLEAN
  /\ blitted \in 0 .. 3 /\ at \in Frames /\ lastPTS \in -1 .. (End - Start + 1) * Scale
  /\ ToSet(todo) \subseteq Stopping \cup {"destroy", "restore", "restored", "capture", "stopped", "windows"}
  /\ dialog \in {"none", "configure", "progress"} /\ host \in {"none", "panel", "path", "nothing"}
  /\ settings \in {"own", "capture", "zero"} /\ selection \in {"own", "capture"}
  /\ encoder \in {"closed", "open"} /\ stage \in Stages
  /\ recorded \cup flying \cup left \cup issued \cup ToSet(encoded) \cup late \subseteq Frames
  /\ inside \in Frames \cup {-1} /\ (Unlocked <=> stage = "none")
  /\ exports \in 0 .. MaxExports /\ faults \in 0 .. MaxFaults

Init ==
  /\ kind = "none" /\ state = "None" /\ plugin = FALSE /\ saved = FALSE /\ blitted = 0 /\ at = 0 /\ lastPTS = -1
  /\ pending = FALSE /\ todo = <<>> /\ dialog = "none" /\ host = "none"
  /\ settings = "own" /\ selection = "own" /\ captured = FALSE /\ encoder = "closed"
  /\ recorded = {} /\ flying = {} /\ inside = -1 /\ stage = "none" /\ left = {}
  /\ async \in BOOLEAN /\ issued = {} /\ encoded = <<>> /\ late = {}
  /\ exports = 0 /\ faults = 0 /\ crashed = FALSE

-----------------------------------------------------------------------------
(* The user and the host, between two frames or in the windows of one.     *)

\* The old object is deleted without any transition, whatever it was doing.
Request(k) ==
  /\ Idle /\ exports < MaxExports /\ exports' = exports + 1
  /\ kind # "none" => "asked again" \in Crossings
  /\ kind' = k /\ state' = "None" /\ saved' = FALSE /\ blitted' = 0 /\ at' = 0 /\ lastPTS' = -1
  /\ plugin' = FALSE /\ encoder' = IF plugin THEN "closed" ELSE encoder
  /\ dialog' = "configure" /\ issued' = {} /\ encoded' = <<>> /\ late' = {}
  /\ UNCHANGED <<pending, todo, host, project, recorded, handlers, async, faults, crashed>>

OnAccepted ==
  /\ Doing("windows") /\ dialog = "configure" /\ dialog' = "none" /\ host' = "panel"
  /\ plugin' = (kind = "video")
  /\ UNCHANGED <<object, encoder, pending, todo, project, recorded, handlers, async, history, exports, faults, crashed>>

OnCancelled ==
  /\ Doing("windows") /\ dialog = "configure" /\ dialog' = "none" /\ host' = "nothing"
  /\ UNCHANGED <<object, coder, pending, todo, project, recorded, handlers, async, history, exports, faults, crashed>>

ClosePanel ==
  /\ host = "panel" /\ host' \in {"path", "nothing"}
  /\ UNCHANGED <<object, coder, pending, todo, dialog, project, recorded, handlers, async, history, exports, faults, crashed>>

\* The settings of the project are saved and replaced, then the export starts.
\* A plugin that cannot open the file, or that is missing, ends it at once.
Execute ==
  /\ Idle /\ host = "path" /\ host' = "none" /\ kind # "none"
  /\ saved' = TRUE /\ settings' = "capture" /\ selection' = "capture"
  /\ \/ /\ kind = "image" \/ plugin
        /\ state' = "Initialized" /\ dialog' = "progress"
        /\ encoder' = IF kind = "video" THEN "open" ELSE encoder
        /\ UNCHANGED <<todo, faults>>
     \/ /\ kind = "video" /\ faults < MaxFaults /\ faults' = faults + 1
        /\ state' = (IF plugin THEN "Cancelled" ELSE state) /\ todo' = <<"destroy">>
        /\ UNCHANGED <<dialog, encoder>>
  /\ UNCHANGED <<kind, plugin, blitted, at, lastPTS, pending, captured, recorded, handlers, async, history, exports, crashed>>

\* An empty path calls the export off.
CallOff ==
  /\ Idle /\ host = "nothing" /\ host' = "none"
  /\ kind = "image" => "called off" \in Crossings
  /\ todo' = IF kind = "none" THEN <<>> ELSE <<"destroy">>
  /\ UNCHANGED <<object, coder, pending, dialog, project, recorded, handlers, async, history, exports, faults, crashed>>

\* The button of the progress dialog: cancel of the image or the video.
PressCancel ==
  /\ Doing("windows") /\ dialog = "progress" /\ dialog' = "none"
  /\ todo' = (IF kind = "video" THEN <<"exchange", "cancelled">> ELSE <<"cancelled">>) \o todo
  /\ UNCHANGED <<object, coder, pending, host, project, recorded, handlers, async, history, exports, faults, crashed>>

-----------------------------------------------------------------------------
(* A frame: destroy what the last frame left, capture, note whether the     *)
(* capture is over, the windows, and the commit of the command buffer.     *)

\* Frames without an export change nothing here.
Draw ==
  /\ Idle /\ kind # "none" /\ Cardinality(flying) < MaxInFlight
  /\ todo' = (IF pending THEN <<"destroy">> ELSE <<>>) \o <<"capture", "stopped", "windows">>
  /\ pending' = FALSE
  /\ UNCHANGED <<object, coder, user, project, recorded, handlers, async, history, exports, faults, crashed>>

\* prepareCapturingViewport, as far as it configures; a video goes on in the frame
\* that makes it ready.
Prepare ==
  /\ Doing("capture") /\ Unlocked /\ Then(<<>>)
  /\ \/ /\ state = "Initialized" /\ state' = "Configured" /\ captured' = TRUE /\ UNCHANGED blitted
     \/ /\ state = "Configured" /\ state' = "Ready" /\ UNCHANGED captured
        /\ blitted' = IF kind = "video" THEN blitted + 1 ELSE blitted
     \/ /\ state = "Ready" /\ blitted' = blitted + 1 /\ UNCHANGED captured
        /\ state' = IF blitted >= 2 THEN "Blitted" ELSE "Ready"
  /\ UNCHANGED <<kind, saved, at, lastPTS, coder, pending, user, settings, selection, recorded, handlers, async, history, exports, faults, crashed>>

CaptureNothing ==
  /\ Doing("capture") /\ Then(<<>>)
  /\ kind = "none" \/ state = "None" \/ Over(state)
  /\ UNCHANGED <<object, coder, pending, user, project, recorded, handlers, async, history, exports, faults, crashed>>

WriteImage ==
  /\ Doing("capture") /\ kind = "image" /\ state = "Blitted" /\ state' = "Finished" /\ Then(<<>>)
  /\ UNCHANGED <<kind, saved, blitted, at, lastPTS, coder, pending, user, project, recorded, handlers, async, history, exports, faults, crashed>>

\* Mutant: the range ends one frame early.
MutAdvance(after) ==
  LET frame == Start + (at + 1) \div Scale IN
  /\ at' = at + 1 /\ issued' = issued \cup {at}
  /\ Then(IF frame > End - Start /\ plugin THEN <<"exchange">> ELSE <<>>)
  /\ state' = IF frame >= End \/ (frame > End - Start /\ ~plugin) THEN "Finished" ELSE after

\* The frame of a video is read and the project is moved to the next one.  Past the
\* end the capture is finished; past the duration, which is compared with the index of
\* the frame in the motion, the encoder is stopped.
Advance(after) ==
  LET frame == Start + (at + 1) \div Scale IN
  /\ at' = at + 1 /\ issued' = issued \cup {at}
  /\ Then(IF frame > End - Start /\ plugin THEN <<"exchange">> ELSE <<>>)
  /\ state' = IF frame > End \/ (frame > End - Start /\ ~plugin) THEN "Finished" ELSE after

ReadAsync ==
  /\ Doing("capture") /\ Unlocked /\ kind = "video" /\ state = "Blitted" /\ async
  /\ recorded' = recorded \cup {at} /\ Advance("Blitted")
  /\ UNCHANGED <<kind, saved, blitted, lastPTS, coder, pending, user, project, handlers, async, encoded, late, exports, faults, crashed>>

\* A call of the plugin reaches its file, or finds it closed.
Given(r) == late' = IF encoder = "closed" THEN late \cup {r} ELSE late

\* Without read_pass_async the frame is read and encoded here; a failure marks the
\* object as cancelled, and then the frame advances all the same.
ReadAndEncode ==
  /\ Doing("capture") /\ kind = "video" /\ state = "Blitted" /\ ~async
  /\ lastPTS' = at /\ Given(at)
  /\ \/ Advance("Blitted") /\ encoded' = Append(encoded, at) /\ UNCHANGED faults
     \/ Advance("Cancelled") /\ faults < MaxFaults /\ faults' = faults + 1 /\ UNCHANGED encoded
  /\ UNCHANGED <<kind, saved, blitted, coder, pending, user, project, recorded, handlers, async, exports, crashed>>

\* Mutant: the pointer is kept.
MutExchange ==
  /\ Doing("exchange") /\ UNCHANGED plugin
  /\ Then(IF plugin THEN <<"close">> ELSE <<>>)
  /\ UNCHANGED <<object, encoder, pending, user, project, recorded, handlers, async, history, exports, faults, crashed>>

\* stopEncoding: the pointer is exchanged, and the plugin is closed, without the mutex;
\* only the state is set with it.
Exchange ==
  /\ Doing("exchange") /\ plugin' = FALSE
  /\ Then(IF plugin THEN <<"close">> ELSE <<>>)
  /\ UNCHANGED <<object, encoder, pending, user, project, recorded, handlers, async, history, exports, faults, crashed>>

Close ==
  /\ Doing("close") /\ Then(<<"finished">>) /\ encoder' = "closed"
  /\ UNCHANGED <<object, plugin, pending, user, project, recorded, handlers, async, history, exports, faults, crashed>>

Finish ==
  /\ Doing("finished") /\ Unlocked /\ Then(<<>>) /\ state' = "Finished"
  /\ UNCHANGED <<kind, saved, blitted, at, lastPTS, coder, pending, user, project, recorded, handlers, async, history, exports, faults, crashed>>

Cancelled ==
  /\ Doing("cancelled") /\ Unlocked /\ Then(<<>>) /\ state' = "Cancelled"
  /\ UNCHANGED <<kind, saved, blitted, at, lastPTS, coder, pending, user, project, recorded, handlers, async, history, exports, faults, crashed>>

\* Mutant: the object is destroyed in the frame that ends the capture.
MutNoteStopped ==
  /\ Doing("stopped") /\ Then(IF kind # "none" /\ Over(state) THEN <<"destroy">> ELSE <<>>)
  /\ UNCHANGED pending
  /\ UNCHANGED <<object, coder, user, project, recorded, handlers, async, history, exports, faults, crashed>>

\* draw asks for the destruction in the next frame, when the reads of this one are
\* committed.
NoteStopped ==
  /\ Doing("stopped") /\ Then(<<>>)
  /\ pending' = (pending \/ (kind # "none" /\ Over(state)))
  /\ UNCHANGED <<object, coder, user, project, recorded, handlers, async, history, exports, faults, crashed>>

\* The graphics library commits the command buffer after draw.
Commit ==
  /\ Doing("windows") /\ Then(<<>>)
  /\ flying' = flying \cup recorded /\ recorded' = {}
  /\ UNCHANGED <<object, coder, pending, user, project, inside, stage, left, async, history, exports, faults, crashed>>

-----------------------------------------------------------------------------
(* destroyCapturePassState calls transitDestruction until the object may go; *)
(* the object waits in Restored for the handlers that still count.          *)

\* Mutant: the video restores what it has not saved.
MutRestoreSteps == IF kind = "image" THEN <<"restore">>
                ELSE <<"exchange", "restore">>

RestoreSteps == IF kind = "image" THEN <<"restore">>
                ELSE IF saved THEN <<"exchange", "restore">> ELSE <<>>

\* Mutant: the object does not wait for the handlers.
MutTransitDestruction ==
  /\ Doing("destroy") /\ kind # "none"
  /\ \/ /\ state \in {"Initialized", "Configured", "Ready", "Blitted"}
        /\ Then((IF kind = "video" THEN <<"exchange">> ELSE <<>>) \o <<"cancelled", "destroy">>)
        /\ UNCHANGED state
     \/ /\ state \in {"None", "Finished", "Cancelled"} /\ Unlocked
        /\ state' = "DestroyReady" /\ UNCHANGED todo
     \/ /\ state = "DestroyReady" /\ UNCHANGED state
        /\ Then(RestoreSteps \o <<"restored", "destroy">>)
     \/ /\ state = "Restored" /\ state' = "Destroyed" /\ UNCHANGED todo
  /\ UNCHANGED <<kind, saved, blitted, at, lastPTS, coder, pending, user, project, recorded, handlers, async, history, exports, faults, crashed>>

TransitDestruction ==
  /\ Doing("destroy") /\ kind # "none"
  /\ \/ /\ state \in {"Initialized", "Configured", "Ready", "Blitted"}
        /\ Then((IF kind = "video" THEN <<"exchange">> ELSE <<>>) \o <<"cancelled", "destroy">>)
        /\ UNCHANGED state
     \/ /\ state \in {"None", "Finished", "Cancelled"} /\ Unlocked
        /\ state' = "DestroyReady" /\ UNCHANGED todo
     \/ /\ state = "DestroyReady" /\ UNCHANGED state
        /\ Then(RestoreSteps \o <<"restored", "destroy">>)
     \/ /\ state = "Restored" /\ Reads = {} /\ state' = "Destroyed" /\ UNCHANGED todo
  /\ UNCHANGED <<kind, saved, blitted, at, lastPTS, coder, pending, user, project, recorded, handlers, async, history, exports, faults, crashed>>

\* What a save has not filled is zero: the image restores it all the same.
Restore ==
  /\ Doing("restore") /\ Then(<<>>)
  /\ captured' = FALSE /\ saved' = FALSE
  /\ settings' = IF saved THEN "own" ELSE "zero"
  /\ selection' = IF saved THEN "own" ELSE selection
  /\ UNCHANGED <<kind, state, blitted, at, lastPTS, coder, pending, user, recorded, handlers, async, history, exports, faults, crashed>>

Restored ==
  /\ Doing("restored") /\ Unlocked /\ Then(<<>>) /\ state' = "Restored"
  /\ UNCHANGED <<kind, saved, blitted, at, lastPTS, coder, pending, user, project, recorded, handlers, async, history, exports, faults, crashed>>

Delete ==
  /\ Doing("destroy") /\ state = "Destroyed" /\ Then(<<>>)
  /\ kind' = "none" /\ state' = "None" /\ dialog' = "none"
  /\ plugin' = FALSE /\ encoder' = IF plugin THEN "closed" ELSE encoder
  /\ UNCHANGED <<saved, blitted, at, lastPTS, pending, host, project, recorded, handlers, async, history, exports, faults, crashed>>

-----------------------------------------------------------------------------
(* The handler of a read, on a thread of the graphics library.             *)

Enter(r) ==
  /\ ~crashed /\ Unlocked /\ r \in flying
  /\ inside' = r /\ stage' = "check" /\ flying' = flying \ {r}
  /\ UNCHANGED <<object, coder, pending, todo, user, project, recorded, left, async, history, exports, faults, crashed>>

\* Whether there is sound is a matter of the project: the audio call comes first, or
\* is left out.
Calls == {"audio", "video"}

\* Mutant: a frame is encoded after a later one.
MutCheck ==
  /\ ~crashed /\ stage = "check"
  /\ stage' \in IF plugin THEN Calls ELSE {"leave"}
  /\ UNCHANGED <<object, coder, pending, todo, user, project, recorded, flying, inside, left, async, history, exports, faults, crashed>>

\* encodeVideoFrame: no plugin, or a later frame was encoded: the frame is dropped.
Check ==
  /\ ~crashed /\ stage = "check"
  /\ stage' \in IF plugin /\ (lastPTS = -1 \/ inside > lastPTS) THEN Calls ELSE {"leave"}
  /\ UNCHANGED <<object, coder, pending, todo, user, project, recorded, flying, inside, left, async, history, exports, faults, crashed>>

\* The pointer is read again for each call, and is null after an exchange.
LoadPlugin ==
  /\ ~crashed /\ stage \in Calls
  /\ IF plugin THEN stage' = (IF stage = "audio" THEN "sound" ELSE "frame") /\ UNCHANGED crashed
               ELSE crashed' = TRUE /\ UNCHANGED stage
  /\ UNCHANGED <<object, coder, pending, todo, user, project, recorded, flying, inside, left, async, history, exports, faults>>

\* The calls go to the plugin that was read, whatever has become of its file.
EncodeAudio ==
  /\ ~crashed /\ stage = "sound" /\ stage' = "video" /\ Given(inside)
  /\ UNCHANGED <<object, coder, pending, todo, user, project, recorded, flying, inside, left, async, issued, encoded, exports, faults, crashed>>

\* Either call may have failed, which counts when both are over.
EncodeVideo ==
  /\ ~crashed /\ stage = "frame" /\ Given(inside) /\ lastPTS' = inside
  /\ \/ stage' = "leave" /\ encoded' = Append(encoded, inside) /\ UNCHANGED faults
     \/ /\ faults < MaxFaults /\ faults' = faults + 1 /\ stage' = "fail"
        /\ encoded' \in {encoded, Append(encoded, inside)}
  /\ UNCHANGED <<kind, state, saved, blitted, at, coder, pending, todo, user, project, recorded, flying, inside, left, async, issued, exports, crashed>>

\* The handler stops the encoder itself, unless the application thread was first, and
\* cancels the export.
Fail ==
  /\ ~crashed /\ stage = "fail" /\ plugin' = FALSE
  /\ stage' = (IF plugin THEN "shut" ELSE "leave")
  /\ state' = (IF plugin THEN state ELSE "Cancelled")
  /\ UNCHANGED <<kind, saved, blitted, at, lastPTS, encoder, pending, todo, user, project, recorded, flying, inside, left, async, history, exports, faults, crashed>>

Shut ==
  /\ ~crashed /\ stage = "shut" /\ stage' = "leave"
  /\ encoder' = "closed" /\ state' = "Cancelled"
  /\ UNCHANGED <<kind, saved, blitted, at, lastPTS, plugin, pending, todo, user, project, recorded, flying, inside, left, async, history, exports, faults, crashed>>

Leave ==
  /\ ~crashed /\ stage = "leave" /\ stage' = "none" /\ inside' = -1
  /\ left' = left \cup {inside}
  /\ UNCHANGED <<object, coder, pending, todo, user, project, recorded, flying, async, history, exports, faults, crashed>>

DecrementAsyncCount(r) ==
  /\ ~crashed /\ r \in left /\ left' = left \ {r}
  /\ UNCHANGED <<object, coder, pending, todo, user, project, recorded, flying, inside, stage, async, history, exports, faults, crashed>>

-----------------------------------------------------------------------------
DrawSteps ==
  \/ Draw \/ Prepare \/ CaptureNothing \/ WriteImage \/ ReadAsync \/ ReadAndEncode
  \/ Exchange \/ Close \/ Finish \/ Cancelled \/ NoteStopped \/ Commit
  \/ TransitDestruction \/ Restore \/ Restored \/ Delete

HandlerSteps ==
  \/ \E r \in flying : Enter(r)
  \/ Check \/ LoadPlugin \/ EncodeAudio \/ EncodeVideo \/ Fail \/ Shut \/ Leave
  \/ \E r \in left : DecrementAsyncCount(r)

UserSteps ==
  \/ \E k \in {"image", "video"} : Request(k)
  \/ OnAccepted \/ OnCancelled \/ ClosePanel \/ Execute \/ CallOff \/ PressCancel

Next == DrawSteps \/ HandlerSteps \/ UserSteps
Spec == Init /\ [][Next]_vars
\* Frames are drawn while a project is open, and the GPU completes its command buffers.
FairSpec == Spec /\ WF_vars(DrawSteps) /\ WF_vars(HandlerSteps)

-----------------------------------------------------------------------------
\* The frames reach the file in the order of the video and each once, whatever the order
\* in which the handlers of their reads get the mutex.
EncodedInOrder == \A i, j \in DOMAIN encoded : i < j => encoded[i] < encoded[j]

\* A handler reads and writes the object until it has left the count: while a read is
\* under way the object it belongs to exists, however the export ended.
ReadsOutliveNothing == Reads # {} => kind = "video"

\* When no export is left, the settings of the project, its selection and its viewport
\* are the user's again, whether the export finished, failed, was cancelled or was
\* called off before it began.
SettingsComeBack == kind = "none" => settings = "own" /\ selection = "own" /\ ~captured

\* A video that finished, and was neither cancelled nor failed, has read every frame of
\* its range.
EveryFrameIsRead ==
  kind = "video" /\ state = "Finished" /\ {"cancelled", "destroy"} \cap ToSet(todo) = {}
    => issued = 0 .. (End - Start + 1) * Scale - 1

\* The plugin is closed without the mutex that its handlers hold, so a frame may reach a
\* file that is closed: the one of the handler that had read the pointer by then, and no
\* other, for the handlers that come later find no plugin.  When no export is left, the
\* file is closed, whether the application thread or a failing handler stopped it.
OneFrameIsLate ==
  /\ \A r, s \in late : r = s
  /\ kind = "none" => encoder = "closed"

\* An export that has taken over the project gives it back: the wait for the handlers
\* ends although it blocks the thread that draws, unless a handler lost the encoder.
CaptureEnds == saved ~> (kind = "none" \/ crashed)
=============================================================================
