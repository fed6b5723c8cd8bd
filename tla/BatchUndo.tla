------------------------------ MODULE BatchUndo ------------------------------
(***************************************************************************)
(* Operations on keyframes that are recorded as a list of motion snapshots *)
(* and undone together: emapp/src/CommandRegistrator.cc builds the list,   *)
(* BatchUndoCommandListCommand.cc runs it, and MotionSnapshotCommand.cc    *)
(* replaces a whole motion by its state after (redo) or before (undo) the  *)
(* snapshot's edit.                                                        *)
(***************************************************************************)
EXTENDS Integers, Sequences, SequencesExt

CONSTANTS Motion,          \* the motions of the project
          ModelMotion,     \* the one of the active model
          MaxVersion,      \* bound on the states of motions that are told apart
          BatchOperations  \* the operations the user performs

ASSUME MotionAssumption == IsFiniteSet(Motion) /\ ModelMotion \in Motion
ASSUME MaxVersionAssumption == MaxVersion \in Nat

VARIABLES motions,   \* version of each motion
          version,   \* number of versions made so far
          batch,     \* the snapshots of the last operation
          before,    \* the motions before that operation
          after,     \* and after it
          state      \* whether it is done or undone, or none was performed yet

batchVars == <<motions, version, batch, before, after, state>>

MotionVersion == 0 .. MaxVersion
Snapshot == [target : Motion, first : MotionVersion, last : MotionVersion]
Contents == [Motion -> MotionVersion]

BatchTypeOK ==
  /\ motions \in Contents /\ before \in Contents /\ after \in Contents
  /\ version \in MotionVersion
  /\ batch \in Seq(Snapshot)
  /\ state \in {"none", "done", "undone"}

BatchInit ==
  /\ motions = [m \in Motion |-> 0]
  /\ version = 0
  /\ batch = <<>>
  /\ before = motions /\ after = motions
  /\ state = "none"

-----------------------------------------------------------------------------
\* Edits of the given motions, in this order: the version of a motion after the
\* first n edits, and the snapshots, each of the motion before and after an edit.
VersionAfter(targets, n, m) ==
  LET edits == {i \in 1 .. n : targets[i] = m}
  IN IF edits = {} THEN motions[m]
     ELSE version + CHOOSE i \in edits : \A j \in edits : j <= i

Snapshots(targets) ==
  [i \in 1 .. Len(targets) |->
     [target |-> targets[i], first |-> version + i,
      last |-> VersionAfter(targets, i - 1, targets[i])]]

Loaded(contents, target, v) == [contents EXCEPT ![target] = v]

\* The list is run from its front: each snapshot loads a version into its target.
RunFromFront(contents, list, versions) ==
  LET loaded[i \in 0 .. Len(list)] ==
        IF i = 0 THEN contents
        ELSE Loaded(loaded[i - 1], list[i].target, versions[i])
  IN loaded[Len(list)]

\* BatchUndoCommandListCommand::redo and ::undo both run it in this direction.
RedoAll(contents, list) ==
  RunFromFront(contents, list, [i \in 1 .. Len(list) |-> list[i].first])

MutUndoAll(contents, list) ==
  RunFromFront(contents, list, [i \in 1 .. Len(list) |-> list[i].first])

UndoAll(contents, list) ==
  RunFromFront(contents, list, [i \in 1 .. Len(list) |-> list[i].last])

\* The list is pushed after its edits were made; pushing redoes it.
Perform(targets) ==
  /\ targets # <<>>
  /\ version + Len(targets) <= MaxVersion
  /\ version' = version + Len(targets)
  /\ batch' = Snapshots(targets)
  /\ before' = motions
  /\ motions' = RedoAll(motions, Snapshots(targets))
  /\ after' = [m \in Motion |-> VersionAfter(targets, Len(targets), m)]
  /\ state' = "done"

\* The motions whose selected keyframes are moved: those with a selection, and
\* always the one of the active model, which comes last.
Moved(selected) == Append(SetToSeq(selected \ {ModelMotion}), ModelMotion)

MoveAllSelectedKeyframes ==
  "move" \in BatchOperations /\ \E selected \in SUBSET Motion : Perform(Moved(selected))

\* Shrinking scales before it moves, enlarging moves before it scales, and a
\* factor of one moves twice.
ScaleAllMotionKeyframesIn ==
  /\ "scale" \in BatchOperations
  /\ \E selected \in SUBSET Motion :
       \/ Perform(<<ModelMotion>> \o Moved(selected))
       \/ Perform(Append(Moved(selected), ModelMotion))
       \/ Perform(Append(Moved(selected), ModelMotion) \o Moved(selected))

\* Paste, initialisation and removal edit each motion once.
EditEachOnce ==
  "edit" \in BatchOperations /\ \E edited \in SUBSET Motion : Perform(SetToSeq(edited))

Undo ==
  /\ state = "done"
  /\ motions' = UndoAll(motions, batch)
  /\ state' = "undone"
  /\ UNCHANGED <<version, batch, before, after>>

Redo ==
  /\ state = "undone"
  /\ motions' = RedoAll(motions, batch)
  /\ state' = "done"
  /\ UNCHANGED <<version, batch, before, after>>

BatchNext ==
  \/ MoveAllSelectedKeyframes
  \/ ScaleAllMotionKeyframesIn
  \/ EditEachOnce
  \/ Undo
  \/ Redo

BatchSpec == BatchInit /\ [][BatchNext]_batchVars

-----------------------------------------------------------------------------
\* Undo rewinds an operation whose list edits no motion twice, in whatever order
\* it edits them (docs/menu.rst:579; without the condition the code does not keep
\* it, as scaling edits the model's motion twice).
\* Redo brings the whole operation back, the motions that the list edits more
\* than once included.
ListRestoresOperation ==
  /\ state = "undone" /\ IsInjective([i \in 1 .. Len(batch) |-> batch[i].target])
       => motions = before
  /\ state = "done" => motions = after
=============================================================================
