------------------------------- MODULE RedoLog -------------------------------
(***************************************************************************)
(* Crash recovery from the redo log: Project::writeRedoMessage appends a   *)
(* record for every command before it takes effect (the persist callbacks  *)
(* of the undo stack), saving a project appends a save point, and after a  *)
(* crash internal/project/Redo.cc replays the log that the crash file      *)
(* names into a new project.                                               *)
(*                                                                         *)
(* A document is told apart by the command whose result it shows: commands *)
(* carry both the state before and the state after them in their message.  *)
(* The loop of Redo::loadAllAsync is modelled with the application thread  *)
(* answering; whether it can is the subject of ApplicationThreads.         *)
(***************************************************************************)
EXTENDS Integers, Sequences, SequencesExt

CONSTANTS MaxCommand,   \* bound on the commands created
          MaxSequence,  \* bound on m_actionSequence
          MaxProject,   \* bound on the redo log files created
          Rewrites,     \* whether the recovery writes a new log (NDEBUG builds)
          Events        \* what the user and the system do

ASSUME BoundsAssumption ==
  MaxCommand \in Nat /\ MaxSequence \in Nat /\ MaxProject \in Nat \ {0}
ASSUME EventsAssumption ==
  Rewrites \in BOOLEAN
  /\ Events \subseteq {"save", "undoSaved", "open", "new", "crash", "continue"}

VARIABLES project,     \* the current project, or Down
          phase,       \* what the application is doing
          pending,     \* record persisted and not applied yet
          before,      \* document each command was made on
          created,     \* number of commands created
          depth,       \* (auxiliary) commands that were done when it was saved
          disk,        \* document in the saved project file
          logs,        \* redo log files
          files,       \* number of redo log files created
          crashFile,   \* the log that the crash file names, 0 without one
          target,      \* log that the recovery rewrites
          replay,      \* progress of the recovery
          expected     \* (auxiliary) documents that a recovery may restore, empty if
                       \* the crash file did not name the log of the project

vars == <<project, phase, pending, before, created, depth, disk, logs, files,
          crashFile, target, replay, expected>>

Document == 0 .. MaxCommand
Commands == 1 .. MaxCommand
Log == 0 .. MaxProject     \* 0 is no log: an empty redoFileURI

Record == [type : {"magic", "edit", "undo", "save"},
           sequence : 0 .. MaxSequence, command : Document]
Magic == [type |-> "magic", sequence |-> 0, command |-> 0]

Project == [doc : Document, done : Seq(Commands), undone : Seq(Commands),
            log : Log, sequence : 0 .. MaxSequence + 1, loading : BOOLEAN]
Down == [doc |-> 0, done |-> <<>>, undone |-> <<>>, log |-> 0, sequence |-> 0,
         loading |-> FALSE]
Idle == [position |-> 1, last |-> 0, rewritten |-> <<>>]

NewProject(doc, log) == [Down EXCEPT !.doc = doc, !.log = log]
Nothing == [type |-> "none", sequence |-> 0, command |-> 0]

TypeOK ==
  /\ project \in Project
  /\ phase \in {"edit", "apply", "saved", "down", "replay"}
  /\ pending \in Record \cup {Nothing}
  /\ before \in [Commands -> Document]
  /\ created \in Document /\ depth \in Document /\ disk \in Document
  /\ logs \in [1 .. MaxProject -> Seq(Record)]
  /\ files \in 1 .. MaxProject
  /\ crashFile \in Log /\ target \in Log
  /\ replay.position = 1 \/ replay.position \in 1 .. Len(logs[crashFile])
  /\ replay.rewritten \in Seq(Record)
  /\ expected \subseteq Document

Init ==
  /\ project = NewProject(0, 1)
  /\ phase = "edit"
  /\ pending = Nothing
  /\ before = [c \in Commands |-> 0]
  /\ created = 0 /\ depth = 0 /\ disk = 0
  /\ logs = [l \in 1 .. MaxProject |-> <<>>]
  /\ files = 1 /\ crashFile = 1 /\ target = 0
  /\ replay = Idle
  /\ expected = {}

-----------------------------------------------------------------------------
\* Redo::save: the record, after the magic number if it is the first one.
Saved(file, type, sequence, command) ==
  (IF sequence = 0 THEN Append(file, Magic) ELSE file)
  \o <<[type |-> type, sequence |-> sequence, command |-> command]>>

\* Project::writeRedoMessage, silent while a log is loaded and without a log.
Writes(p) == ~ p.loading /\ p.log # 0
WrittenLogs(p, files_, type, command) ==
  IF Writes(p)
  THEN [files_ EXCEPT ![p.log] = Saved(@, type, p.sequence, command)]
  ELSE files_
Written(p) == IF Writes(p) THEN [p EXCEPT !.sequence = @ + 1] ELSE p

\* The effect of a command on the project.
Pushed(p, c) == [p EXCEPT !.doc = c, !.done = Append(@, c), !.undone = <<>>]
Undone(p) ==
  LET c == Last(p.done)
  IN [p EXCEPT !.doc = before[c], !.done = Front(@), !.undone = <<c>> \o @]
Redone(p) ==
  LET c == Head(p.undone)
  IN [p EXCEPT !.doc = c, !.done = Append(@, c), !.undone = Tail(@)]
Applied(p, record) ==
  CASE record.type = "undo" -> Undone(p)
    [] record.type = "edit" ->
         IF p.undone # <<>> /\ Head(p.undone) = record.command
         THEN Redone(p) ELSE Pushed(p, record.command)

-----------------------------------------------------------------------------
\* The reader stops making sense of a log at a second magic number.
Records(log) ==
  IF log = <<>> \/ log[1] # Magic THEN <<>>
  ELSE LET body == Tail(log)
           magics == {i \in 1 .. Len(body) : body[i] = Magic}
       IN SubSeq(body, 1, IF magics = {} THEN Len(body)
                          ELSE (CHOOSE i \in magics : \A j \in magics : i <= j) - 1)

\* Redo::getCountOffset: the index of the last save point.
CountOffset(records) ==
  LET points == {i \in 1 .. Len(records) : records[i].type = "save"}
  IN IF points = {} THEN 0
     ELSE (CHOOSE i \in points : \A j \in points : j <= i) - 1

MutIsReplayed(record, offset, last) ==
  offset < record.sequence /\ (last = 0 \/ last < record.sequence)

IsReplayed(record, offset, last) ==
  offset <= record.sequence /\ (last = 0 \/ last < record.sequence)

\* Handling of a replayed command; an undo without anything done does nothing,
\* and a save point loads the saved file into a project that replaces this one.
Dispatched(p, record) ==
  CASE record.type = "edit" -> Pushed(p, record.command)
    [] record.type = "undo" -> IF p.done = <<>> THEN p ELSE Undone(Written(p))
    [] record.type = "save" -> NewProject(disk, 0)

\* The whole loop on a log, for a project that no one else changes: the project
\* and the sequence of the last record after the first i.
RecordReplayed(records, i, r) ==
  [project |-> IF IsReplayed(records[i], CountOffset(records), r.last)
               THEN Dispatched(r.project, records[i]) ELSE r.project,
   last |-> records[i].sequence]

Replayed(log) ==
  LET records == Records(log)
      after[i \in 0 .. Len(records)] ==
        IF i = 0 THEN [project |-> [NewProject(0, 0) EXCEPT !.loading = TRUE], last |-> 0]
        ELSE RecordReplayed(records, i, after[i - 1])
  IN after[Len(records)].project

-----------------------------------------------------------------------------
\* Persist a command; it is applied in a step of its own, which a crash may
\* forestall.
MutPersist(type, command) ==
  /\ phase = "edit" /\ project.sequence <= MaxSequence
  /\ logs' = IF type = "undo" THEN logs ELSE WrittenLogs(project, logs, type, command)
  /\ project' = Written(project)
  /\ pending' = [type |-> type, sequence |-> project.sequence, command |-> command]
  /\ phase' = "apply"

Persist(type, command) ==
  /\ phase = "edit" /\ project.sequence <= MaxSequence
  /\ logs' = WrittenLogs(project, logs, type, command)
  /\ project' = Written(project)
  /\ pending' = [type |-> type, sequence |-> project.sequence, command |-> command]
  /\ phase' = "apply"

Edit ==
  /\ created < MaxCommand
  /\ created' = created + 1
  /\ before' = [before EXCEPT ![created'] = project.doc]
  /\ Persist("edit", created')
  /\ UNCHANGED <<depth, disk, files, crashFile, target, replay, expected>>

\* A command that was done before the last save can be undone too.
Undo ==
  /\ project.done # <<>>
  /\ Len(project.done) > depth \/ "undoSaved" \in Events
  /\ Persist("undo", 0)
  /\ UNCHANGED <<before, created, depth, disk, files, crashFile, target, replay, expected>>

Redo ==
  /\ project.undone # <<>>
  /\ Persist("edit", Head(project.undone))
  /\ UNCHANGED <<before, created, depth, disk, files, crashFile, target, replay, expected>>

Apply ==
  /\ phase = "apply"
  /\ project' = Applied(project, pending)
  /\ pending' = Nothing
  /\ phase' = "edit"
  /\ UNCHANGED <<before, created, depth, disk, logs, files, crashFile, target, replay,
                 expected>>

\* Saving commits the file first and records the save point after that.
CommitFile ==
  /\ "save" \in Events
  /\ phase = "edit" /\ project.sequence <= MaxSequence
  /\ disk' = project.doc
  /\ depth' = Len(project.done)
  /\ phase' = "saved"
  /\ UNCHANGED <<project, pending, before, created, logs, files, crashFile, target,
                 replay, expected>>

WriteSavePoint ==
  /\ phase = "saved"
  /\ logs' = WrittenLogs(project, logs, "save", 0)
  /\ project' = Written(project)
  /\ phase' = "edit"
  /\ UNCHANGED <<pending, before, created, depth, disk, files, crashFile, target, replay,
                 expected>>

\* Opening a file swaps in a project that has no redo log; creating one gives it
\* a log of its own (setupRedoFilePath) and names it if no log is named yet.
OpenProject ==
  /\ "open" \in Events
  /\ phase = "edit"
  /\ project' = NewProject(disk, 0)
  /\ depth' = 0
  /\ UNCHANGED <<phase, pending, before, created, disk, logs, files, crashFile, target,
                 replay, expected>>

WithNewLog ==
  /\ files < MaxProject
  /\ files' = files + 1
  /\ project' = NewProject(0, files')
  /\ depth' = 0
  /\ crashFile' = IF crashFile = 0 THEN files' ELSE crashFile

CreateProject ==
  /\ "new" \in Events
  /\ phase = "edit"
  /\ WithNewLog
  /\ UNCHANGED <<phase, pending, before, created, disk, logs, target, replay, expected>>

-----------------------------------------------------------------------------
\* A crash may come at any time, between persisting a command and applying it,
\* between a commit and its save point, and during a recovery.
Crash ==
  /\ "crash" \in Events
  /\ phase # "down"
  /\ expected' = IF phase = "replay" THEN expected
                 ELSE IF project.log # crashFile THEN {}
                 ELSE {project.doc} \cup
                      IF phase = "apply" THEN {Applied(project, pending).doc} ELSE {}
  /\ project' = Down
  /\ pending' = Nothing
  /\ depth' = 0
  /\ replay' = Idle
  /\ target' = 0
  /\ phase' = "down"
  /\ UNCHANGED <<before, created, disk, logs, files, crashFile>>

\* The next start of the application creates a project; the user accepts the
\* recovery.
AcceptRecovery ==
  /\ phase = "down" /\ crashFile # 0
  /\ files < MaxProject
  /\ files' = files + 1
  /\ project' = [NewProject(0, files') EXCEPT
                   !.loading = Records(logs[crashFile]) # <<>>]
  /\ target' = files'
  /\ replay' = Idle
  /\ phase' = "replay"
  /\ UNCHANGED <<pending, before, created, depth, disk, logs, crashFile, expected>>

\* One record of the log: it is dispatched, and rewritten with its sequence.
NextPosition == replay.position + 1

ReplayRecord ==
  LET records == Records(logs[crashFile])
      record == records[replay.position]
      accepted == IsReplayed(record, CountOffset(records), replay.last)
  IN /\ phase = "replay" /\ replay.position <= Len(records)
     /\ replay' =
          [position |-> NextPosition, last |-> record.sequence,
           rewritten |-> IF accepted
                         THEN Saved(replay.rewritten, record.type, record.sequence,
                                    record.command)
                         ELSE replay.rewritten]
     /\ project' = IF accepted THEN Dispatched(project, record) ELSE project
     /\ logs' = IF accepted /\ record.type = "undo" /\ project.done # <<>>
                THEN WrittenLogs(project, logs, "undo", 0) ELSE logs
     /\ UNCHANGED <<phase, pending, before, created, depth, disk, files, crashFile,
                    target, expected>>

\* The rewritten log is committed and the crash file deleted; the application
\* goes on with the recovered project.
FinishRecovery ==
  /\ phase = "replay" /\ replay.position > Len(Records(logs[crashFile]))
  /\ project' = [project EXCEPT !.loading = FALSE]
  /\ logs' = IF Rewrites /\ Records(logs[crashFile]) # <<>>
             THEN [logs EXCEPT ![target] = <<Magic>> \o replay.rewritten]
             ELSE logs
  /\ crashFile' = 0
  /\ replay' = Idle
  /\ target' = 0
  /\ phase' = IF "continue" \in Events THEN "edit" ELSE "down"
  /\ UNCHANGED <<pending, before, created, depth, disk, files, expected>>

Next ==
  \/ Edit
  \/ Undo
  \/ Redo
  \/ Apply
  \/ CommitFile
  \/ WriteSavePoint
  \/ OpenProject
  \/ CreateProject
  \/ Crash
  \/ AcceptRecovery
  \/ ReplayRecord
  \/ FinishRecovery

Spec == Init /\ [][Next]_vars

-----------------------------------------------------------------------------
\* A recovery restores the document as it was when the application crashed, or
\* with the command that was being performed then (docs/application.rst:
\* recovery is based on the operations up to just before the crash), if the
\* crash file names the log of the project that was being edited.
RecoveryRestoresDocument ==
  [][FinishRecovery /\ expected # {} => project'.doc \in expected]_vars

\* Whenever no command is being performed, the log of a project that has one
\* replays to the document the user sees: the next crash loses nothing.
LogReproducesDocument ==
  phase \in {"edit", "saved"} /\ project.log # 0 =>
    project.doc = Replayed(logs[project.log]).doc
=============================================================================
