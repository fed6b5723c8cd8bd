# A TLA+ verification project for nanoem

nanoem is an editor and player of MikuMikuDance scenes: models, motions,
accessories and effects in a *project*, edited on a timeline with undo, saved to
project files, and protected by a redo log against crashes.  This directory holds
TLA+ models of the parts of nanoem whose correctness depends on *orders of events*
(undo histories, playback against editing, crash recovery, threads that talk
over message streams, files written under failures, exports whose frames come
back from the GPU), the TLC runs that check them on small instances, and proofs
checked by TLAPS for any instance.  `PROJECT.json` lists the components, the runs,
the source lines of every definition, the hazards and the theorems.

How to run, in this directory:

    tlc -config MCUndoStack.cfg MCUndoStack        # any run of the table below
    tlapm UndoStackProofs.tla                      # any proof module

All paths below are relative to `src/`, and `emapp/src` is shortened to `E`.


## 1. The system and its parts

### How the parts interact

A front end (macOS `MainWindow.mm`, Windows `MainWindow.cc`, GLFW `main.cc`) owns the
**window thread** and an object of `ThreadedApplicationClient`.  It starts the
**application thread** (`ThreadedApplicationService::run`), which owns every other
object: the project, the user interface, the renderer.  The two share nothing but two
nanomsg publish/subscribe streams: *commands* from the window, *events* back.  The
application thread alternates drawing a frame (during which dialogs and menus of the
immediate-mode user interface are answered) with handling every command that
has arrived.  On the client, listeners are registered before a command is
sent and run once when the event with the answer arrives.

Operations of the user on the project become **undo commands** (`E/command/*.cc`).
A command is pushed to the **undo stack** of the active model or, without one, of the project
(`dependencies/undo/undo.c`).  Pushing calls back into the command: first
`on_persist_redo`, which appends a record to the **redo log**
(`Project::writeRedoMessage`, `internal/project/Redo.cc`), and then `on_redo`, which
takes effect.  Undo does the same with `on_persist_undo` and `on_undo`.  The **timeline**
(`Project::seek`, `update`, `play`, `pause`, `stop`) moves undo stacks too: seeking
away from a frame with a pose that was not registered as a keyframe takes the pose back.

**Playback** changes the project for its time (no active model, a saved selection) and
gives it back at its end; the menu is on the other side of the streams and follows it by
events.  **Saving** goes through a writer that fills a temporary file and renames it; the
save point in the redo log and the link to an archive come after the rename.  A long
operation owns a **Progress** object, which a third thread, the cancel worker, may mark.
An **export** takes over the project's settings, advances with every drawn frame,
and reads the frames of a video from the GPU: their handlers run on threads of the
graphics library.

After a crash the next start finds a *crash file* that names a redo log, asks the user,
and **replays** the log: a worker reads the records and sends them as commands.

### Components

| Component | State | Operations | Hard behaviour | What makes it correct | Status |
|---|---|---|---|---|---|
| Undo stack (`dependencies/undo`) | array of commands, count, cursor, saved index, dirty flag | push, undo, redo, set offset, clear | eviction at the limit, truncation, a loop whose callbacks move the cursor | slots live, each command freed once, document matches cursor | modelled, proved |
| Undo of a project and its timeline (`E/Project.cc`, `E/command`) | one stack per model and for the camera, remembered transform, active model, frame, playing | operate, undo, redo, seek, switch model, play, tick, pause, stop | an offset remembered for one stack and used later, perhaps on another | playback and seeks destroy no edits, undo reverts the latest operation | modelled, proved |
| Batch and snapshot commands (`E/CommandRegistrator.cc`, `BatchUndoCommandListCommand.cc`) | a list of motion snapshots | register, undo, redo | several snapshots of one motion | undo restores what was before, redo what was after | modelled, proved |
| Redo log and recovery (`internal/project/Redo.cc`, `E/Project.cc`, `BaseUndoCommand.cc`) | log, sequence number, crash file, replay position | append, save point, open, create, crash, recover | crash between any two steps; save points; a replay that persists | the log reproduces the document | modelled, proved |
| Application threads and quitting (`E/ThreadedApplicationService.cc`, `BaseApplicationClient.cc`, `MainWindow.mm`) | two streams, once-listeners, dialogs, receive flags | commands and events around activation, saving, quitting, recovery | interleavings, late answers, blocking receives | no change lost without a choice, quitting ends, right order of shutdown | modelled, safety proved |
| Playback and audio player (`E/Project.cc`, `BaseAudioPlayer.cc`, `ApplicationMenuBuilder.cc`) | pair of present and last player state, saved selection, menu items | play, pause, stop, resume, update, hide, show, edit, delete | menu and project are two processes; four restores of saved state | the selection comes back, no pointer outlives its model, the menu follows | modelled, safety proved |
| Cancelling and progress (`E/Progress.cc`, `ThreadedApplicationService.cc`, `MainWindow.mm`) | subscribers, the worker thread and its socket, the sheet | begin, try item, cancel, end, stop the worker | a third thread; a token that nobody hears | tells only the living, a heard cancel ends the operations, stopping ends | modelled, safety proved |
| File reading and writing, file manager (`E/FileUtils.cc`, `DefaultFileManager.cc`, `ModelParameterDialog.cc`) | files, temporary files, URI, dirty flags, link | save, close the editor, load, crash | every call may fail, a crash between any two | files replaced whole, backup first, flags agree with the disk | modelled, proved |
| Capturing (`internal/CapturingPassState.cc`, `BaseApplicationService.cc`) | phase of the export, saved settings, reads in flight, encoder | request, start, frame, handler, cancel, destroy | handlers on other threads, destruction that waits for them | frames in order, no handler outlives its object, settings come back | modelled, safety proved |
| Pointer interaction (`E/StateController.cc`) | the dragging state | press, move, release | release without press, project swapped in between | a drag ends, and pushes one command | planned |
| Motion and keyframes (`nanoem/ext/mutable.c`, `E/command`, `E/internal/MotionKeyframeSelection.cc`) | keyframe objects in an array and an index by frame, pointers to them in the selection and in commands | add, remove, cut, insert or remove a frame of the timeline, select | objects held by commands while undone, redone, evicted; pointers to freed keyframes | array and index agree, one owner each, undo restores poses and curves | modelled, proved |
| The rest: effects, rendering, physics, user interface, plugins, plugin SDK, images, core parsers, mesh readers, Direct3D runtime, project formats, accessories and lights, model parts, other front ends, build and documents | see `PROJECT.json` | | numerical, serialisation, third-party, or no state across frames | | not modelled |


## 2. Modules and how they correspond to the code

    UndoStackOps ---- UndoStack ---- MCUndoStack        EditHistory (abstract)
         |               |  \_ refines _____________________/
         |               +---- UndoStackProofs
         +---------- ProjectUndo ---- MCProjectUndo
                         +---- ProjectUndoProofs
    BatchUndo ---- MCBatchUndo
         +---- ProjectUndoProofs
    RedoLog ---- MCRedoLog
         +---- RedoLogProofs
    ApplicationThreads ---- MCApplicationThreads
         +---- ApplicationThreadsProofs
    Playback ---- MCPlayback
         +---- PlaybackProofs
    FileSave ---- MCFileSave                            FileStore (abstract)
         |  \_ refines ____________________________________/
         +---- FileSaveProofs
    CancelWorker ---- MCCancelWorker
         +---- ApplicationThreadsProofs
    Capturing ---- MCCapturing
         +---- CapturingProofs
    Keyframes ---- MCKeyframes
         +---- KeyframesProofs

Definitions whose name starts with `Mut` are deliberately wrong variants of the definition
below them.  Nothing uses them; they document which mistake each property would catch,
and `PROJECT.json` pairs them.

### UndoStackOps and UndoStack

`UndoStackOps` is `undo_stack_t` as a record and each function of `undo.c` as an operator
on it, so that the library alone and a project with many stacks share one translation.
`Pushed` keeps the order of the code: truncate if something could be redone, else
evict at the limit by shifting, else append, and update the dirty flag.
`UndoStack` adds one document and the callbacks.  The document is a *version*: command
`n` produces version `n` and remembers the version it was created against; a callback that
meets another version leaves the document `Torn`.  `undoStackSetOffset` is a loop whose
callbacks move the real cursor while the loop counts with a copy, so each iteration is
an action (`RedoInLoop`, `UndoInLoop`, `LoopDone`).  A command whose persistence callback
answers 0 is neither stored nor destroyed; the constant `PersistResults` says what
callbacks may answer.  All callbacks in nanoem answer 1 (`BaseUndoCommand.cc:158,187`), so the run
has `{TRUE}`; the proofs of `TypeCorrect` and `SlotsAlwaysLive` hold for any answers, the other
four for `PersistResults = {TRUE}`.

`EditHistory` is what a user is promised: a history with a cursor, of which at
most `Limit` edits are kept, and a document that is the result of the edits before the
cursor.  `UndoStack!History` maps the array to a sequence and the document before the
oldest command to `origin`.

### ProjectUndo

One stack per model and one for the camera (`Project`).  Three kinds of command are told
apart by what they do to the keyframes and to `m_transformPerformedAt`:

| kind | code | keyframes | remembered transform on redo |
|---|---|---|---|
| `transform` | `TransformBoneCommand`, `TransformMorphCommand`, `UpdateCameraCommand` | none | frame and offset |
| `keyframe` | `BaseKeyframeCommand` and its subclasses | adds or removes what it names | forgotten |
| `snapshot` | `MotionSnapshotCommand` | replaces the whole motion | kept |

`TakeBack` is the part of `internalSeek` that applies the remembered offset to the stack of the
model that is active *now*; it is shared by `Seek`, `SetActiveModel`, `Tick`, `Play`
and `Pause`.  `Stop` sets the frame without it, as `Project::stop` does.
Editing, undo and seeks of the user are refused while the project plays (`Model.cc:2382`, `Project.cc:2785,4049,4055`);
choosing a model is not: the panel lists no model then (`ActiveModelSelector.cc:27`), but the entries of the menu
stay enabled and send SET_ACTIVE_MODEL, which asks nothing (`BaseApplicationService.cc:3574`).
`chosen`, `performer` and `latest` are auxiliary: no action reads them except to maintain
them.  `undoStackSetOffset` runs to its end in one step here: all of `internalSeek` is one
handler of the application thread, and the callbacks it makes seek to their own frames only
after they have reset the remembered transform.

### BatchUndo

A motion is a version number.  An operation is the sequence of motions it edits, in the
order in which the registrator visits them; the list has one snapshot (first, last) per edit.
`RedoAll` and `UndoAll` both walk the list from its front, as
`BatchUndoCommandListCommand` does.  `before` and `after` are auxiliary.

### RedoLog

A document is told apart by the last command it shows.  Persisting and applying a command
are two steps, committing a file and writing the save point are two steps, and `Crash` may
come between any of them and during a recovery.  `Records` is what the reader makes of a
file (it stops at a second magic number), `CountOffset`, `IsReplayed`
and `Replayed` are the loop of `Redo::loadAllAsync`.  `expected` and `depth` are
auxiliary.  The constant `Rewrites` says whether the recovery writes a new log, which
builds with `NDEBUG` do.  The module takes the application thread as answering; whether it
can is a question for `ApplicationThreads`.

### ApplicationThreads

`client` has the window thread's once-listeners as counters and flags, `service` the
application thread's position in its loop, its receive flags, the project and the list of
dialogs.  Messages are names.  Each handler is one action and each event
listener is one action; `Semaphore` selects the macOS front end, which waits
for its metrics thread in `sendDestroyMessage`.  `Happens` lists what the user, the disk and
the last session may do, so that a run can ask its question under named circumstances.
The streams are reliable in the model (section 6).

### Playback

`project` has the player's pair `state`, `last` (`BaseAudioPlayer::setState` moves the present
state into the last one) and the parts of `Project` that playback touches; each operation
(`Play`, `Stop`, `Pause`, `Resume`, `SetActive`, `ContinuesPlaying`, `RemoveModel`) is an
operator that yields the project and the events it publishes.  The menu and the window send
`commands`, the project answers with `events`; the panels act on the project directly, as
the user interface is drawn on its thread.  Four places save the selection and give it back at a time of their own: playback, the
model editor, the questions before a deletion and the menu under a dialog.  A *crossing* is
two of them at once; `crossed` remembers which happened, each property names
those that break it, and section 5 says what they do.  The clock is left out: an
update moves the timeline to any frame.

### FileStore and FileSave

`FileStore` promises a set of files, each absent or at a version, where a step replaces one file by another
version as a whole.  `FileSave` is the writer (`PosixFileWriter`, `FileWriterScope`) and its
two users, `DefaultFileManager::saveProject` and the closing of the model editor; one step
is one call of the operating system, which may fail (`faults` remembers the kinds), and
`Crash` comes between any two.  `files` and `temps` are the disk: what a crash
leaves.  Opening the temporary file truncates it, `Write` fills it wholly or in part, `Commit`
renames it, `Drop` is the rollback.  `project.path` is the URI, which the code sets
before it serialises; `logged` is the version of the last save point.  An edit sets the dirty
flag or does not: `Project::isDirty` looks at the camera, the light, models, their bones and so on, and
at no motion, so an edit of keyframes goes unnoticed; `counted` is the last edit that was noticed.
`model.kept` is what `ModelParameterDialog::setActiveModel` kept when the editor was
opened: the file's data, the model in memory when the file could not be read, or nothing when
it could not be opened; then the editor's end writes no backup.  `ShortWrites`
says whether a file system may write less than it was asked without an error.

### CancelWorker

`stack` has the operations that own a `Progress` object, `subscribers` is the set
`m_subscribers` with its mutex (`Locked`), `worker` the thread's place in its loop.  The
worker holds the mutex for as long as it goes through `visit`.  Tokens are sent by the Cancel
button of the window (`PressCancel`) and by `SendStop`; a token sent before the worker is
bound and subscribed is gone.  `sheet` is the window's one sheet for all nested operations.
`asked` and `lost` are auxiliary.

### Capturing

One object, from the request in the menu to its deletion.  `state` is its `StateTransition`
in the order of the code.  A drawn frame is a list of steps (`todo`): destroy
what the last frame left, capture, note whether the capture is over, the windows, the
commit of the command buffer.  A handler waits for the mutex (`Enter`), checks the order and the
plugin (`Check`), and then reads the plugin's pointer again for each of its two calls
(`LoadPlugin`), first for the sound if there is any (`EncodeAudio`) and then for the picture
(`EncodeVideo`); `DecrementAsyncCount` is its destructor.  `stopEncoding` on the
application thread exchanges the pointer (`Exchange`) and closes the plugin (`Close`) without the
mutex, and takes it only to set the state (`Finish`); a handler whose call failed does the same
under its own mutex (`Fail`, `Shut`).  So a handler may find no plugin after its check, and the process ends
(`crashed`), or call a plugin whose file was closed meanwhile (`late`).  Handlers may get the mutex in any
order; every read registers its handler.

### Keyframes

The keyframes of one bone.  A keyframe is an object with an address (`Key`); the record `motion` has the
addresses that are allocated (`live`), the array of the motion (`keyframes`), its index by frame
(`track`), what is stored at each address, freed ones included (`frame`, `state`), and the
selection, a set of pointers.  `Put` and `Withdraw` are the functions of the mutable motion
that add and remove objects; `Added`, `TakeOut` and `Restore` are the loops of
`BaseBoneKeyframeCommand` over the keyframes of a command, with their early exits and the object that is
selected although the motion refused it; `ShiftBackward` and `ShiftForward` are the commands that
insert and remove a frame of the timeline, whose keyframes are `held` by the command until it is undone or
destroyed.  `AddEntry` and `RemoveEntry` record what a new command remembers, with the
curve of the keyframe before that a new keyframe splits.  The commands are on a stack as in
`UndoStackOps`, written as a sequence because `held` is what matters when one is destroyed.
`exact`, and `before` and `after` of a command, are auxiliary.


## 3. The runs

Twelve runs: eleven pass, one shows a disagreement between the code and its documentation.

| Run | Module, cfg | Result | What it shows |
|---|---|---|---|
| `undo_stack` | `MCUndoStack` | pass | slots are live, commands are freed exactly once, the document is at the cursor, the dirty flag is exact while the oldest command starts from the clean document, and the stack implements `EditHistory` |
| `project_undo` | `MCProjectUndo` | pass | every operation together: playback moves no stack but that of a model chosen while playing, whose transform it takes back; keyframes match the cursor, undo reverts the latest operation, a seek takes exactly the transform back and no keyframe |
| `batch_undo` | `MCBatchUndo` | pass | redo restores every operation, undo every operation whose list edits no motion twice |
| `redo_log` | `MCRedoLog` | pass | with saves, opened and new projects and crashes at any step, the log reproduces the document and recovery restores it |
| `application_threads` | `MCApplicationThreads` | pass | libraries are terminated only after the project is destroyed, whatever happens, two close requests included |
| `quit` | `QuitEnds.cfg` | pass | changes are discarded only by choice, and after DESTROY the application ends unless the window is minimised |
| `recovery_waits` | `RecoveryWaits.cfg` | violation of `RecoveryFinishes` | the recovery waits for an answer that only its own thread can give |
| `playback` | `MCPlayback` | pass | the saved selection exists exactly while the project plays and comes back, stored pointers are alive, editing excludes playback, the menu follows, showing the window resumes what hiding it interrupted and nothing else, playback ends |
| `file_save` | `MCFileSave` | pass | saving implements `FileStore`; URI, link and, as far as `isDirty` looks, the clean flag agree with the last save point, no temporary file is left, what the editor kept of a model is in the backup before its file is replaced |
| `cancel` | `MCCancelWorker` | pass | the worker tells only living objects, the sheet is up exactly while an operation runs, a heard cancel ends every operation that ran, stopping the worker ends |
| `capturing` | `MCCapturing` | pass | frames reach the file in order, at most one after it was closed, every frame is read, no handler outlives its object, the settings come back, an export ends |
| `keyframes` | `MCKeyframes` | pass | array, index and frame numbers agree, every keyframe has one owner, undo and redo restore poses and curves, a keyframe that leaves the motion leaves the selection |

Every configuration turns the deadlock check off: the user may do nothing more, the
bounds on commands end a behaviour, and an application that has quit does nothing.  The
deadlocks that matter (quitting, recovery) are therefore stated as liveness.

### Bounds and why they are enough

- `undo_stack`: six commands and a limit of three.  Eviction needs more commands than
  the limit, truncation of several commands needs an undo of several, and six are enough for
  either to follow the other.  The soft limit equals the hard one, as
  `undoStackCreate` sets it (`undo.c:158`).
- `project_undo`: two models, the camera, two frames, three commands and stacks of two.
  The hazards need one transform, one keyframe edit on the same or another stack, and a
  seek to another frame; three commands also overflow a stack.  The models are
  symmetric.
- `batch_undo`: the camera's, the light's and the active model's motion, eight
  versions, enough for an operation after an undone operation.
- `redo_log`: three commands, records up to sequence number 4, three log files, which
  is a session, a new project and one recovery after it.  Sequence 0, the magic
  number and a save point in the middle all occur.
- `application_threads`: two close requests and at most one command waiting when the
  user acts; `quit`: one close, three waiting commands.  The answers of the two threads
  are not bounded by `MaxQueue`, only what the user adds is.
- `playback`: one model, a segment of two frames, one message per queue (an event more when a
  handler publishes two), two open dialogs, and one kind of crossing in each behaviour.
  A second model would only be another value of the saved pointer; deleting the one is what makes a pointer
  dangle.  Both orders of a command and an event that cross are possible with one message each.
- `file_save`: archives and MikuMikuDance projects, two kinds of failing calls (one may
  be the crash, and each may fail any number of times), versions 0 and 1: an old and a
  new content is all that replacing a file needs.
- `cancel`: four operations, two deep, so that an operation follows one that was cancelled
  and a nested one begins after the worker told the outer one.
- `capturing`: a range of two frames at two video frames each, so that four reads follow one another
  while the GPU has two command buffers; two exports, so that the second meets what the first left;
  two failures of the plugin.
- `keyframes`: a motion loaded with two keyframes on a timeline of three frames, two poses, three
  commands on a stack of two, and four addresses: all three frames may be taken while a command holds a
  keyframe.  The stack overflows and is truncated with keyframes held, frame 0 and its
  neighbours are all reached, and a freed address is given out again.  The addresses are symmetric.

### Fairness

`FairSpec` is weak fairness of `WindowThread` and of `ApplicationThread`: both are threads
of a process that the operating system schedules, each handler returns, and a thread that
is blocked in a receive or a join has no enabled action, so nothing is demanded of it.
The user owes nothing: no fairness on clicking, answering or restoring the window.

In `CancelWorker` the same holds for the worker thread and for each step of the application
thread that ends an operation; `Ends` is strongly fair because the worker takes the
mutex again and again, and a cancelled operation is refused its next item.  A mutex is
assumed not to starve a thread.  In `Capturing` frames are drawn for as long as a project is
open (`DrawSteps`) and the GPU completes its command buffers (`HandlerSteps`).  In `Playback` the
clock is strongly fair (`Advances`): frames are drawn again and again while the project plays, and
each of them moves the timeline by the time that passed; the menu reads its events.

The liveness properties start at points from which the user is not needed any more:
DESTROY has been sent, the recovery was accepted.


## 4. What is proved

| Module | Theorem | Statement | Under |
|---|---|---|---|
| `UndoStackProofs` | `TypeCorrect` | `Spec => []TypeOK` | |
| | `SlotsAlwaysLive` | `Spec => []SlotsAreLive` | |
| | `DocumentFollowsCursor` | `Spec => []DocumentAtCursor` | callbacks answer 1 |
| | `DirtyFlagExact` | `Spec => []DirtyIsExact` | callbacks answer 1 |
| | `NothingLeaks` | `Spec => []NoLeak` | callbacks answer 1 |
| | `ImplementsHistory` | `Spec => ImplementsEditHistory`, the refinement of `EditHistory` | callbacks answer 1 |
| `ProjectUndoProofs` | `TypesHold` | `Spec => []TypeOK` | |
| | `PlaybackAlwaysKeepsHistory` | `Spec => PlaybackKeepsHistory` | |
| | `MotionAlwaysAtCursor` | `Spec => []MotionAtCursor` | |
| | `UndoAlwaysRevertsLatest` | `Spec => UndoRevertsLatest` | |
| | `SeekAlwaysTakesTransformBack` | `Spec => SeekTakesTransformBack` | |
| (of `BatchUndo`) | `ListAlwaysRestores` | `BatchSpec => []ListRestoresOperation` | finitely many motions |
| `RedoLogProofs` | `LogAlwaysReproducesDocument` | `Spec => []LogReproducesDocument` | saved commands are not undone, nobody goes on with a recovered project |
| | `RecoveryAlwaysRestoresDocument` | `Spec => RecoveryRestoresDocument` | the same |
| `ApplicationThreadsProofs` | `TerminatesAfterDestroyAlways` | `Spec => []TerminatesAfterDestroy` | |
| | `QuittingAlwaysAsks` | `Spec => []DiscardsByChoice` | at most one close request, only edits and minimising happen |
| (of `CancelWorker`) | `ToldWhileAlive` | `CancelSpec => []TellsOnlyTheLiving` | |
| | `SheetAlwaysFollows` | `CancelSpec => []SheetFollowsOperations` | |
| `PlaybackProofs` | `TypesHold` | `Spec => []TypeOK` | |
| | `PointersStayAlive` | `Spec => []PointersAlive` | |
| | `SelectionAlwaysSurvives` | `Spec => []SelectionSurvives` | |
| | `NeverEditsWhilePlaying` | `Spec => []EditingExcludesPlayback` | |
| | `ShowingResumes` | `Spec => ShowingResumesWhatHidingStopped` | |
| | `MenuFollows` | `Spec => []MenuFollowsPlayback` | |
| `FileSaveProofs` | `TypeCorrect` | `Spec => []TypeOK` | |
| | `FilesReplacedWhole` | `Spec => FilesAreReplacedWhole`, the refinement of `FileStore` | no short writes |
| | `BackupBeforeOverwriting` | `Spec => BackupComesFirst` | no short writes |
| | `NoTemporaryFileStays` | `Spec => []NoTemporaryLeft` | |
| | `SavePointsAgree` | `Spec => []SavePointAgrees` | |
| `CapturingProofs` | `FramesEncodedInOrder` | `Spec => []EncodedInOrder` | |
| | `HandlersMeetTheirObject` | `Spec => []ReadsOutliveNothing` | no second export while one runs |
| | `OneFrameIsLateAtMost` | `Spec => []OneFrameIsLate` | no second export while one runs |
| | `SettingsAlwaysComeBack` | `Spec => []SettingsComeBack` | nor an image called off |
| | `EveryFrameAlwaysRead` | `Spec => []EveryFrameIsRead` | no second export, range from the first frame |
| `KeyframesProofs` | `TypeCorrect` | `Spec => []TypeOK` | |
| | `TrackAlwaysMatchesArray` | `Spec => []TrackMatchesArray` | |
| | `AlwaysOwnedOnce` | `Spec => []OwnedOnce` | |
| | `UndoAlwaysRestoresTrack` | `Spec => []UndoRestoresTrack` | |
| | `SelectionAlwaysFollows` | `Spec => SelectionFollows` | |

They hold for any constants that meet the assumptions of the modules: any limits with
`1 <= SoftLimit <= HardLimit`, commands numbered by positive naturals, any models and frames, any
bounds on dialogs, closes and queues, any number of edits, failures, operations, exports, frames and reads
in flight, any finite set of keyframes and any tracks a motion is loaded with.  The assumptions that
are not about numbers say that a special value is no ordinary one: `NULL` is neither a command nor
a scene, `NoModel` no model, `NoState` no state of the player or of the menu, `NoFile`
and `NoPath` no file and no path, `None` no keyframe and no pose.
Nothing else is assumed but what the last column names, and section 5 shows for each of these what the
code does outside it: each is needed.

A run of TLC shows a property on one instance; the proof of the same property is about every
instance, so it also finds what only larger instances show.  `SeekTakesTransformBack` was first stated
for the position of the cursor in every history, held in the run with its three commands, and was false: section 5 has
the behaviour with four.

### The arguments

**Undo stack.**  `SlotsAreLive` is not inductive: that a shifted slot holds a live command
needs that no destroyed command is stored and that a new command is none of the old.
`IInv` adds that the counts are ordered (`Fits`), that the loop's copy of the cursor equals the
cursor (`Shape`), that stored commands exist and are not destroyed (`Filled`), that they lie
in the order of their creation (`Ordered`), which makes slots distinct and new commands
new, and that destroyed commands once existed.  The lemmas `TruncatedFields`,
`ShiftedFields` and `AppendedFields` say what each way of filling a slot does, `PushedFields`
combines them, and `PushIInv`, `MoveIInv`, `UndoIInv`, `RedoIInv` and `ClearIInv` are the
steps.  For the document, `DocumentIInv` adds `Chained` (each command was recorded
against the version its predecessor makes, the fact that eviction and truncation must
preserve) and `VersionsGrow`, from which the dirty flag follows: a later command's version is
never the clean one.  `NothingLeaks` says for each step that a command leaves its slot exactly when it is
destroyed.  `ImplementsHistory` reads the array as the sequence `Edits`: eviction is the abstract
push that drops the oldest edit, truncation the one that drops the undone edits, and each
iteration of the offset loop is an abstract undo or redo; that the document is the one the abstract history
says is `DocumentIInv`.

**Timeline.**  `PlaybackIInv` says that while playing no model is active unless the user chose one and, if
another model will become active again, there is no transform left that a seek would take back.
`Play` and `SwitchModel` establish it because changing the active model is a seek, every
`Tick` keeps it because it is a seek too, and `Pause` and `Stop` use it: bringing the saved
model back would otherwise move its stack.  A tick on a chosen model may move that model's stack;
`TakingBackMovesOne` says that it moves no other (`CommandsOwn`: what is on the stack of a model edits that
model, so `Apart` holds of the rest).  For the keyframes, `Histories` says that every stack has a
sequence of versions, one for each position of the cursor, which the commands on it lead through and of which the
keyframes are the one at the cursor.  A push gives a new such sequence, a truncation a prefix and an eviction a
suffix.  `undoStackSetOffset` is a recursive function of the number of steps that are left;
the lemmas about it (`StackMoved`) are proved by induction on that number through its least counterexample, as the induction
theorems of the library cannot be used (below).  `NewestOnTop` and `TransformOnTop`
say which command is below the cursor, of the scene that will be active once playback has ended, as long as `latest` and the
remembered offset are to be trusted.

**Lists of snapshots.**  Undo and redo run the same list from its front.  `LoadedUpTo` says what the first k of its snapshots
have made of the motions: each motion has what the last snapshot of it loads, or what it had.
`ListIInv` says the same of the last operation: what it left is what its last snapshots redo, and,
if no motion comes twice (`EachOnce`), what they undo is what was before.

**Redo log.**  What the reader makes of a log is a loop over its records, and its result for every log would need
induction.  `Tells` says instead how it goes: a log holds the magic number and records numbered from 0
(`Numbered`), the last save point among them is known (`SavePoint`), and there is a view of the project
(document and commands done) after each record from there on, each *made* from the one before by its record.
`ReplayTells` shows that the loop comes to the last of these views, by the least record at which
it would not; `CommandTold` and `SavePointTold` that appending a record
appends a view.  The invariant `IInv` says that the log of a project `Reproduces` the document and the commands done since
the last save (`Logged`), one command ahead between persisting and applying (`InApply`), and with unknown commands
between committing the file and its save point (`InSaved`): there the last view is right although
the file it started from has changed, since both show the same document.  After a crash the log that the
crash file names still leads to an expected document (`Recoverable`), and a recovery stands at the
view after the records it has read (`Arrived`), without writing any (`Silent`).  Both conditions are needed:
TLC finds counterexamples without either (section 5).

**Threads.**  Types alone do not bound the order of messages.  `Booting` describes the
states before INITIALIZE is handled; `Booted` says that afterwards no INITIALIZE is in the
stream (so a project that is gone stays gone) and that each sign of the end — a "destroyed"
event, a TERMINATE command, a loop told to stop — is seen only after the project is gone.
`ApplicationThreads!TypeOK` bounds listener counts by `MaxClose`; the proof needs
only that they are numbers (`LooseTypes`).

**Quitting.**  That nothing is discarded but by choice is a property of the conversation as a whole.  `QInv` follows
the question through it: it is in one place, a command, an event or the one dialog
(`OneQuestion`); edits are ahead of the question in the command stream, and until they are handled
nobody has answered (`EditsFirst`); from the moment of a decision — an event that says so, DESTROY on
its way, the project gone — either nothing is unsaved or the user chose to discard it
(`Settled`), because whoever decided has seen the dirty flag, which every edit sets (`Marked`).  The streams are
described by sets of messages (`None`, `Single`), with lemmas about what growing and shrinking a stream does to them.

**Playback.**  The invariant `IInv` is written for any project, editor, open questions, choices and crossings (`Sound`), so
that each operation of the project has a lemma: operations that begin playback (`Begins`),
that end it (`Ends`) and that do neither.  `Session` says that a state is saved exactly while playing and that
the player is never started twice, `Editing` that the editor edits the model it was opened for,
`Alive` and `Chosen` follow the pointers and the choices through all saved states, `Hidden` what
hiding the window interrupted.  Each part excuses the crossings that its property excuses, and no others.  For
`MenuFollows`, `Announced` says of the items under any dialog that the queue of events, read to its end,
makes them agree with the project, and `Uncovered` that the dialogs that cover the menu are closed by events
on their way.

**Saving.**  That a file is replaced whole needs to know what is in the temporary file when it is
renamed.  `Progress` ties the writer's step to the kind of path it writes: only projects come to the
log and the link, a writer that closes or commits has a temporary file, and a file of the editor is
dropped only after an error.  `WholeFiles` adds that files with final names are whole, that what is about to be
renamed is whole, and that nothing has failed on the way to it.  The refinement then maps `Commit` to
`Replace` and every other step, a crash included, to a stutter.  For the backup, `BackupInProgress`
adds that, if the editor kept anything, the data to back up is what it kept, the file or the model in
memory (`BackedUp`), that the
backup's temporary file holds it too, and that the backup itself does once the model is being
written without an error.  `SaveIInv` says of each step of a project's save what it has brought about so far
(`ProjectInProgress`), and of the dirty flag, the URI and the link what they say whenever no save has
changed the project and not yet come to its save point (`SavePointHolds`); `CountedInv` adds that the last noticed
edit is no later than the project's version, which is what the save point records.

**Cancelling.**  `ToldWhileAlive` needs more than that subscribers are alive: in `stopping`, between
leaving the set and being destroyed, the top of the stack is no subscriber, and the worker's
`visit` is part of the set and empty when the mutex is free, so that no object leaves the set
while the worker goes through it.  The sheet is behind by the events that are on their way: `SheetIInv` says that there is a
number of operations after each of them that leads from what the sheet counts to what runs.

**Capturing.**  `FramesEncodedInOrder` rests on `lastPTS`: no encoded frame is later than it,
and a handler that is about to encode has a later one, whichever handlers came between its
reading and its turn; without asynchronous reads the frame to come is the later one.
`HandlersMeetTheirObject` needs that an object ready to be deleted has no reads, which the
wait in `Restored` establishes and no step of a handler can undo.  The other three rest on the order of the
steps of a frame (`Orderly`: which step may be first, and which may come after it) and on `OneExport`:
`GivesBack` follows who owes the settings, `EncoderFollows` who has the plugin and whether the file is
open.  `LateAlone` says why a late frame is the only one: its handler holds the mutex, by then
the plugin is gone for the handlers that come after it, and until another export is asked for nobody
can open a file.  `ReadsInOrder` says that the frames read are those before the present one and that an export that
ends by itself has come to the end of its range.

**Keyframes.**  `TrackMatchesArray` and `OwnedOnce` need each other: a keyframe that a command puts back must
be no keyframe of the motion, or the motion would index it twice, and a keyframe that a command takes
out is found only because the index is right.  `IInv` is both with the types and `WellFormed`: only the
two commands that move the timeline hold keyframes.  `Agree` and `Owns` say the same of any motion and
any set of keyframes held elsewhere, so that each operator of the motion has a lemma of its own
(`WithdrawKeeps`, `PutKeeps`, `ShiftKeeps`, `AddKeeps`, ...), `UndoneKeeps` and `RedoneKeeps`
join them for a command, and `PushKeeps` and `MoveKeeps` for the stack: what is evicted or
truncated takes its keyframes with it, and `Disjoint` says that nobody else had them.
`UndoRestoresTrack` needs `Recorded`: each command on the stack met the track that the one before it leaves
(`Chained`), its effect on that track is what it recorded (`Effect`) and can be taken back (`Reversible`),
the commands that are done hold what they took out (`HoldsBehind`), and the motion stands at the
cursor (`Stands`).

**Only model-checked**, and why:

- the liveness properties `QuitCompletesUnlessMinimized`, `PlaybackEnds`, `CancelEnds`, `StopEnds`,
  `CaptureEnds` and the violated `RecoveryFinishes`: fairness needs `ENABLED`, which the installed
  provers do not handle.

Every other property of a passing run is stated by a theorem.  What a recursive definition computes needs induction, and the
library's induction theorems take an operator as a parameter, which the provers cannot instantiate;
`ProjectUndo`, `BatchUndo` and `RedoLog` use a least counterexample instead.  "Under" names the scope in which a
theorem holds; section 5 says what happens outside it.


## 5. Where the code departs, and the scope of the properties

The violation is listed under "findings" with the quoted document.  Some
properties are stated for a smaller scope than one would first write, because the wider
statement is false for the code.  Each scope is a guard in the property or a named
constant, and removing it shows the behaviour:

| Property | Scope | Outside it |
|---|---|---|
| `SeekTakesTransformBack` | histories without snapshots (`NoSnapshot`) | transform, paste, seek: the snapshot left the remembered offset alone (`MotionSnapshotCommand.cc:118`), and the seek undoes the paste. `docs/change_log_past.rst:401` describes this as fixed for the other commands. On a full stack later snapshots evict the transform and its offset stays: after two undos the seek goes *forward* and redoes a snapshot. That takes four commands on a stack of two, one more than the run has; the attempt to prove the wider statement found it. |
| `SeekTakesTransformBack` | the scene that made the transform is the active one (`performer`) | the offset is applied to the stack that is active now (`Project.cc:6945`): a transform of model A, a switch to model B in which edits were made before, and a seek undoes edits of B |
| `MotionAtCursor` | scenes whose keyframes no other stack edits (`OwnStackOnly`) | moving all selected keyframes is recorded on the project's stack (`CommandRegistrator.cc:543`); undoing it after later edits of the model puts an older motion back |
| `PlaybackKeepsHistory` | a model chosen from the menu while playing is let off once (`chosen`) | transform model A, choose another, play, choose A from the menu: the next tick seeks away from A's transform and moves A's stack (`Project.cc:6945`).  `docs/change_log_past.rst:827` says that everything but pausing and the like was disabled while playing, against unexpected effects of operations; without the second disjunct of the property the run shows the behaviour |
| `UndoRevertsLatest` | operations of the active scene with nothing but seeks in the frame and playback after them | seeks to other frames take transforms back; switching models changes the stack in use |
| `DirtyIsExact` | while the oldest stored command starts from the clean document | after an eviction, undoing everything leaves the flag clear with an edit in place |
| `LogReproducesDocument` | projects with a log; no going on after a recovery (`"continue" \notin Events`); no undo of saved commands | an opened project has no log (`BaseApplicationService.cc:2774`); the log of a recovered project gets a second magic number in its middle (`Redo.cc:140`); a save point replays as the saved file in a new project, which has nothing to undo: the record of an undo of something saved then does nothing |
| `RecoveryRestoresDocument` | the same two events left out; crash file names the log of the crashed project | on macOS the crash file is created exclusively (`CocoaThreadedApplicationService.mm:1830`), so it keeps the first project's log; Windows writes it when it crashes |
| `ListRestoresOperation` | undo: lists that edit no motion twice | scaling records two snapshots of the model's motion (`CommandRegistrator.cc`), and the list is undone from its front (`BatchUndoCommandListCommand.cc:77`): undo ends in the state between them, though `docs/menu.rst:579` says that it rewinds the previous operation |
| `DiscardsByChoice` | one close request; only `"edit"` and `"minimize"` in `Happens` | keyframes are not asked about (`Project.cc:4059`), though `docs/menu.rst:561` says that unsaved changes are; edits behind IS_PROJECT_DIRTY are not in its answer (`MainWindow.mm:973`); an open dialog answers it "clean" (`BaseApplicationService.cc:3115`); a failed save counts as saved (`:3038`) |
| `QuitCompletesUnlessMinimized` | one close request with `Semaphore`; not while minimised | a second one takes the semaphore again and hangs (`MainWindow.mm:2050`): `MaxClose = 2`; minimising clears NN_DONTWAIT, which DESTROY does not restore (`ThreadedApplicationService.cc:629`), so quitting the minimised window (`docs/menu.rst:559`) waits for one command more |
| `SelectionSurvives` | crossings `replayed`, `looped`, `edited`, `deleted`, `cleared` excused | play sent twice before the menu hears of it saves the empty selection (`Project.cc:7413`); a loop flag toggled during playback is restored at its end (`:7671`) |
| `EditingExcludesPlayback`, `PlaybackEnds` | crossing `edited` | a model chosen during playback can be opened in the editor (`ImGuiWindow.cc:1872`), though `docs/model.rst:10` says that there is no playback in the editing mode; add `"edited"` to `AllowedCrossings` to reach it |
| `PointersAlive` | crossings `deleted`, `asked twice`, `edited`, `cleared` | deleting from the menu while editing leaves the active model dangling, because `setActiveModel` refuses in that mode (`Project.cc:2174`); asked twice, the second answer deletes a deleted model (`ModalDialogFactory.cc:700`) |
| `ShowingResumesWhatHidingStopped` | crossings `hidden`, `cleared` | playing and stopping while the window is hidden leaves a player whose last state is play, and showing the window starts it (`Project.cc:6417`); `docs/change_log_past.rst:2019` lists playback that starts by itself as fixed |
| all of `Playback` | crossing `cleared` not allowed in the run | clearing the audio source during playback replaces the player; the selection is not given back (`Project.cc:2557`) |
| `FilesAreReplacedWhole`, `BackupComesFirst` | `ShortWrites = FALSE` | the bytes written of a model are not counted (`Model.cc:1091`) |
| `SavePointAgrees` | clean flag: no write, close or rename failed | the serialisers clear the dirty flags before the bytes are in the file (`Native.cc:1779`): a project whose save failed is not asked about when quitting (`docs/menu.rst:561`) |
| `SavePointAgrees` | edits that `Project::isDirty` notices (`counted`) | it looks at no motion (`Project.cc:4058`): after an edit of keyframes a project calls itself clean and differs from its last save point without any failure, though `docs/menu.rst:561` says that unsaved changes are asked about; with `project.version` for `project.counted` the run shows it |
| `SavePointAgrees` | URI: no close or rename failed | the URI is set back after a failing write only (`DefaultFileManager.cc:1512`) |
| none (`Refused`) | | `docs/menu.rst:236` says that a project opened as an archive is saved neither as `nmm` nor as `pmm`; the code refuses `nmm` only (`DefaultFileManager.cc:1493`), and once it is a `pmm` nothing keeps it from becoming an `nmm` |
| `BackupComesFirst` | an editor that kept something (`model.kept # "nothing"`) | when the model's file cannot be opened, or the model cannot be kept in memory, nothing is kept (`ModelParameterDialog.cc:7524`), and closing the editor writes the model without a backup, though `docs/model.rst:23` says that one is made: without the guard the run shows it |
| `CancelEnds`, `StopEnds` | tokens that found the worker listening | one sent before it is subscribed is lost, and `stop` joins forever (`ThreadedApplicationService.cc:173`) |
| `EveryFrameIsRead` | `Start = 0` | the index in the motion is compared with the duration of the range (`CapturingPassState.cc:1662`): a range that starts later ends early, though `docs/menu.rst:446` lets the user choose it |
| `EveryFrameIsRead` | speaks of reading | the encoder is stopped in the frame of the last read (`CapturingPassState.cc:1664`), whose handler then finds no plugin: the last frames are not encoded when reads are asynchronous |
| `ReadsOutliveNothing`, `SettingsComeBack` | `Crossings = {}` | `"asked again"`: a second export deletes the running object (`BaseApplicationService.cc:3304`); `"called off"`: an image whose panel is cancelled restores settings that were never saved (`:5322`) |
| `OneFrameIsLate` | one late frame, not none | `stopEncoding` closes the plugin without the mutex (`CapturingPassState.cc:1744`), while the handler that holds it may have read the pointer and be about to call it (`:1692`): that frame reaches a file that is closed |
| `CaptureEnds` | unless `crashed` | a handler whose plugin is exchanged between its check and one of its calls calls a null pointer (`CapturingPassState.cc:1680`, `:1692`, `:1694`) and the process ends |
| `UndoRestoresTrack` | no removal of frame 0 (`exact`) | moving keyframes back does nothing at frame 0 (`BaseShiftAllKeyframesCommand.cc:89`), which undoing the removal of that frame asks for, though `docs/menu.rst:650` marks removing a frame as an operation that can be undone |
| `UndoRestoresTrack`, `SelectionFollows` | no cut of a selection that has keyframes that are gone (`exact`) | removing a frame of the timeline leaves its keyframes selected (`BaseShiftAllKeyframesCommand.cc:398`), and a keyframe that the motion refused is selected before it is freed (`BaseBoneKeyframeCommand.cc:113`): cutting them records what was there, undo brings it back |


## 6. What is not modelled, and why

- Data: poses, interpolation, the contents of keyframes, file formats, geometry.
  Properties speak of versions, not of values.
- `undoStackSetSoftLimit` (no caller lowers the limit) and `undoStackDestroy` (end of life).
- Lifetimes of projects: the project that the recovery worker or an export holds while
  another one replaces it; quitting without a project.
- The clock and the data of the audio player; the built-in video recorder, audio and
  the sizes of frames of an export; early returns of the GPU's read functions.
- Files: reading, the archive formats, the Win32 writer; of loading only what saving
  depends on.  The flag that `Archive.cc:205` asks for cancelling is set by no code.
- Messages dropped by nanomsg, which is publish/subscribe and may drop; failing writes
  of the redo log; the Windows crash file.
- Keyframes: copying, pasting and moving them, several bones, the tracks of morphs, models, cameras, lights
  and accessories, which repeat the code of bones; keyframes held by commands when a motion is
  replaced as a whole (`Motion.cc:1435`), whose pointers to the old motion stay.
- Of the several hundred commands of the service, only those named in `ApplicationThreads!Command`;
  `"edit"` and `"keyframe"` stand for the commands that change the project, by whether
  `isDirty` notices.
- The confirm-on-seek setting, which is off by default (`Project.cc:2795`).
- Components listed as not modelled in section 1.


## 7. Plan

Done, in the order of importance: the undo library and its abstract history; the project's stacks with the
timeline; batch commands; the redo log; the threads; playback with the menu and the editor; saving under
failures and its abstract store; cancelling; capturing; the keyframes of a bone with their commands; the
proofs of section 4.

Next models, most important first:

1. **Drawables of a project** as a whole: adding, deleting and activating accessories and motions, with the
   project that the recovery worker holds.
2. **Dialogs** (`E/internal/ImGuiWindow.cc`): the list with additions at the front and removal at the back.
3. **Dragging** (`E/StateController.cc`) as a state machine.
4. Failing writes of the redo log; streams that drop messages.

Proofs: no safety property of a run is left.  Next come the types of the modules whose type invariant is so far only
part of a larger invariant, and quitting with more than one close request or with failing saves, stated with
what it excuses.
