------------------------------ MODULE FileSave ------------------------------
(***************************************************************************)
(* Saving a project, and the two files that closing the model editor       *)
(* writes, through the writer that fills a temporary file and renames it   *)
(* (PosixFileWriter, FileWriterScope, DefaultFileManager::saveProject,     *)
(* DisableModelEditingCommand).  Every call of the operating system may    *)
(* fail, and the program may stop between any two of them.                 *)
(*                                                                         *)
(* A file is told apart by the version it holds and whether it is whole.   *)
(* Each kind of project file, named by its extension, is one path.         *)
(***************************************************************************)
EXTENDS Naturals, FiniteSets

CONSTANTS
  NoFile,        \* a file that does not exist, a link that is not there
  NoPath,        \* the empty URI of a new project
  ProjectPaths,  \* the kinds of project files the user saves
  MaxVersion,    \* bound of the edits
  MaxFaults,     \* bound of the kinds of calls that fail, a crash among them
  ShortWrites    \* whether a write of a model may be short without an error

ASSUME FileAssumption ==
  /\ ProjectPaths \subseteq {"nma", "nmm", "pmm"} /\ MaxFaults \in Nat
  /\ NoPath \notin {"nma", "nmm", "pmm", "model", "backup"}
  /\ NoFile \notin [version : Nat, whole : BOOLEAN] /\ NoFile \notin Nat
  /\ MaxVersion \in Nat /\ ShortWrites \in BOOLEAN

VARIABLES
  files,     \* the files with their final names
  temps,     \* the files with ".tmp" appended
  op,        \* the save in progress: its writer and how far it is
  project,   \* the open project
  model,     \* the model that is edited, and the data to back up
  logged,    \* the version of the last save point in the redo log
  clock,     \* the number of the last edit
  faults     \* history: the calls that failed in this or an earlier session

vars == <<files, temps, op, project, model, logged, clock, faults>>

Paths == ProjectPaths \cup {"model", "backup"}
Versions == 0 .. MaxVersion
Contents == [version : Versions, whole : BOOLEAN]
Steps == {"open", "write", "close", "commit", "drop", "log", "link"}
NoOp == [path |-> NoPath, step |-> "open", error |-> FALSE]
Idle == op = NoOp

TypeOK ==
  /\ files \in [Paths -> Contents \cup {NoFile}]
  /\ temps \in [Paths -> Contents \cup {NoFile}]
  /\ op \in [path : Paths \cup {NoPath}, step : Steps, error : BOOLEAN]
  /\ project \in [version : Versions, dirty : BOOLEAN,
                  counted : Versions,                    \* history: see EditProject
                  path : ProjectPaths \cup {NoPath},
                  origin : ProjectPaths \cup {NoPath},   \* history: its file
                  transient : Contents \cup {NoFile}]
  /\ model \in [version : Versions, before : Versions, editing : BOOLEAN,
                kept : {"file", "memory", "nothing"}]
  /\ logged \in Versions /\ clock \in Versions
  /\ faults \subseteq {"read", "write", "close", "rename", "unlink", "link", "crash"}

Whole(v) == [version |-> v, whole |-> TRUE]
Torn(v) == [version |-> v, whole |-> FALSE]

\* A call of the operating system succeeds, or fails and is remembered.
MayFail(call) == Cardinality(faults \cup {call}) <= MaxFaults
Succeeds(call, ok) == IF ok THEN UNCHANGED faults
                      ELSE MayFail(call) /\ faults' = faults \cup {call}

-----------------------------------------------------------------------------
(* The user.                                                               *)

\* An edit of the camera, a light, an accessory, a model, a bone or a morph makes
\* the project dirty; Project::isDirty never looks at the motions, so an edit of
\* keyframes alone does not.  "counted" is the last edit since the project was
\* opened that isDirty notices.
EditProject ==
  /\ Idle /\ clock < MaxVersion
  /\ clock' = clock + 1
  /\ \E noticed \in BOOLEAN :
       project' = [project EXCEPT !.version = clock + 1, !.dirty = @ \/ noticed,
                                  !.counted = IF noticed THEN clock + 1 ELSE @]
  /\ UNCHANGED <<files, temps, op, model, logged, faults>>

\* The editor keeps what the model's file holds; the model in memory when the file
\* opens but cannot be read; and nothing when it cannot be opened, or neither the
\* model nor its motion can be kept.
OpenEditor ==
  /\ Idle /\ ~model.editing
  /\ \E kept \in {"file", "memory", "nothing"} :
       /\ model' = [model EXCEPT !.editing = TRUE, !.kept = kept, !.before =
                     IF kept = "file" THEN files["model"].version ELSE model.version]
       /\ Succeeds("read", kept = "file")
  /\ UNCHANGED <<files, temps, op, project, logged, clock>>

EditModel ==
  /\ Idle /\ model.editing /\ clock < MaxVersion
  /\ clock' = clock + 1
  /\ model' = [model EXCEPT !.version = clock + 1]
  /\ UNCHANGED <<files, temps, op, project, logged, faults>>

Begin(p) ==
  /\ Idle /\ op' = [NoOp EXCEPT !.path = p]
  /\ UNCHANGED <<files, temps, project, logged, clock, faults>>

SaveProject(p) == Begin(p) /\ UNCHANGED model
CloseEditor == /\ model.editing
               /\ Begin(IF model.kept = "nothing" THEN "model" ELSE "backup")
               /\ model' = [model EXCEPT !.editing = FALSE]

\* Opening a project reads a whole file; a new link to it is made.
LoadProject(p) ==
  /\ Idle /\ files[p] # NoFile /\ files[p].whole
  /\ \E linked \in BOOLEAN :
       /\ project' = [version |-> files[p].version, dirty |-> FALSE, counted |-> 0,
                      path |-> p, origin |-> p,
                      transient |-> IF linked THEN files[p] ELSE NoFile]
       /\ Succeeds("link", linked)
  /\ logged' = files[p].version
  /\ UNCHANGED <<files, temps, op, model, clock>>

-----------------------------------------------------------------------------
(* The writer.                                                             *)

At(step) == op.path # NoPath /\ op.step = step
Goto(step) == op' = [op EXCEPT !.step = step]
Fail(step) == op' = [op EXCEPT !.step = step, !.error = TRUE]

\* What comes after a writer is destroyed: closing the editor writes the data
\* from before the editing first, and shares one error between the two files.
MutAfter == IF op.path = "backup" THEN [NoOp EXCEPT !.path = "model"] ELSE NoOp
After == IF op.path = "backup"
         THEN [NoOp EXCEPT !.path = "model", !.error = op.error]
         ELSE NoOp

\* nanoem refuses to turn an archive into an nmm file, but not into a pmm file.
Refused == op.path = "nmm" /\ project.path = "nma"

MutOpen ==
  /\ At("open")
  /\ files' = [files EXCEPT ![op.path] = Torn(0)]
  /\ temps' = [temps EXCEPT ![op.path] = Torn(0)]
  /\ IF Refused THEN Fail("drop") ELSE Goto("write")
  /\ UNCHANGED <<project, model, logged, clock, faults>>
Open ==
  /\ At("open")
  /\ \/ /\ temps' = [temps EXCEPT ![op.path] = Torn(0)]
        /\ IF Refused THEN Fail("drop") ELSE Goto("write")
     \/ /\ op' = [After EXCEPT !.error = op.path = "backup"]
        /\ UNCHANGED temps
  /\ UNCHANGED <<files, project, model, logged, clock, faults>>

\* The bytes of a project are counted; those of a model are not, and an error
\* of the first file counts against the second one.
Detected(outcome) ==
  outcome = "failed" \/ (outcome = "short" /\ op.path \in ProjectPaths)
Outcomes == IF op.path \in ProjectPaths \/ ShortWrites
            THEN {"whole", "short", "failed"} ELSE {"whole", "failed"}
Version == CASE op.path \in ProjectPaths -> project.version
             [] op.path = "model"        -> model.version
             [] op.path = "backup"       -> model.before

MutWrite ==
  /\ At("write")
  /\ \E outcome \in Outcomes :
       /\ temps' = [temps EXCEPT ![op.path] =
                      [version |-> Version, whole |-> outcome = "whole"]]
       /\ IF Detected(outcome) \/ op.error THEN Fail("drop") ELSE Goto("close")
       /\ Succeeds("write", outcome = "whole")
  /\ project' = IF op.path \in ProjectPaths
                THEN [project EXCEPT !.dirty = FALSE, !.path = op.path]
                ELSE project
  /\ UNCHANGED <<files, model, logged, clock>>
Write ==
  /\ At("write")
  /\ \E outcome \in Outcomes, early \in BOOLEAN :
       LET good == ~Detected(outcome) /\ ~op.error
           stops == early /\ ~good /\ op.path = "nma"  \* before any model
       IN  /\ temps' = [temps EXCEPT ![op.path] =
                          [version |-> Version, whole |-> outcome = "whole"]]
           /\ IF good THEN Goto("close")
              ELSE op' = [op EXCEPT !.step = "drop",
                                    !.error = @ \/ outcome = "failed"]
           /\ project' = IF op.path \notin ProjectPaths THEN project
                         ELSE [project EXCEPT !.dirty = @ /\ stops,
                                              !.path = IF good THEN op.path ELSE @]
           /\ Succeeds("write", outcome = "whole")
  /\ UNCHANGED <<files, model, logged, clock>>

Close ==
  /\ At("close")
  /\ \E ok \in BOOLEAN : /\ IF ok THEN Goto("commit") ELSE Fail("drop")
                         /\ Succeeds("close", ok)
  /\ UNCHANGED <<files, temps, project, model, logged, clock>>

Committed == IF op.path \in ProjectPaths THEN [op EXCEPT !.step = "log"] ELSE After
Commit ==
  /\ At("commit")
  /\ \/ /\ files' = [files EXCEPT ![op.path] = temps[op.path]]
        /\ temps' = [temps EXCEPT ![op.path] = NoFile]
        /\ op' = Committed
        /\ UNCHANGED faults
     \/ /\ Fail("drop") /\ Succeeds("rename", FALSE)
        /\ UNCHANGED <<files, temps>>
  /\ UNCHANGED <<project, model, logged, clock>>

\* rollback, which the writer's destructor repeats when it was not done.
MutDrop ==
  /\ At("drop")
  /\ \E ok \in BOOLEAN :
       /\ temps' = IF ok /\ ~op.error THEN [temps EXCEPT ![op.path] = NoFile] ELSE temps
       /\ Succeeds("unlink", ok)
  /\ op' = After
  /\ UNCHANGED <<files, project, model, logged, clock>>
Drop ==
  /\ At("drop")
  /\ \E ok \in BOOLEAN :
       /\ temps' = IF ok THEN [temps EXCEPT ![op.path] = NoFile] ELSE temps
       /\ Succeeds("unlink", ok)
  /\ op' = After
  /\ UNCHANGED <<files, project, model, logged, clock>>

WriteSavePoint ==
  /\ At("log") /\ logged' = project.version /\ Goto("link")
  /\ project' = [project EXCEPT !.origin = op.path]
  /\ UNCHANGED <<files, temps, model, clock, faults>>

MakeLink ==
  /\ At("link")
  /\ \E ok \in BOOLEAN :
       /\ project' = IF ok THEN [project EXCEPT !.transient = files[op.path]]
                     ELSE project
       /\ Succeeds("link", ok)
  /\ op' = After
  /\ UNCHANGED <<files, temps, model, logged, clock>>

\* The next session starts with a new project and reads the model's file.
Unedited(v) == [version |-> v, before |-> v, editing |-> FALSE, kept |-> "file"]
NewProject == [version |-> 0, dirty |-> FALSE, counted |-> 0,
               path |-> NoPath, origin |-> NoPath, transient |-> NoFile]
Crash ==
  /\ op' = NoOp /\ project' = NewProject /\ logged' = 0
  /\ model' = Unedited(files["model"].version)
  /\ Succeeds("crash", FALSE)
  /\ UNCHANGED <<files, temps, clock>>

-----------------------------------------------------------------------------
Init ==
  /\ files = [p \in Paths |-> IF p = "model" THEN Whole(0) ELSE NoFile]
  /\ temps = [p \in Paths |-> NoFile]
  /\ op = NoOp /\ project = NewProject
  /\ model = Unedited(0)
  /\ logged = 0 /\ clock = 0 /\ faults = {}

Writer == Open \/ Write \/ Close \/ Commit \/ Drop \/ WriteSavePoint \/ MakeLink
User == \/ EditProject \/ OpenEditor \/ EditModel \/ CloseEditor
        \/ \E p \in ProjectPaths : SaveProject(p) \/ LoadProject(p)
Next == User \/ Writer \/ Crash

Spec == Init /\ [][Next]_vars
-----------------------------------------------------------------------------
(* Properties.                                                             *)

\* A file with its final name is replaced as a whole: a failing call or a crash
\* during FileWriterScope leaves the old file (rename in PosixFileWriter::commit).
NoVersion == MaxVersion + 1
Store == [p \in Paths |-> IF files[p] = NoFile THEN NoFile
                          ELSE IF files[p].whole THEN files[p].version ELSE NoVersion]
Files == INSTANCE FileStore WITH store <- Store
FilesAreReplacedWhole == Files!Spec

\* Between saves the project agrees with the last save point in the redo log: the
\* URI names a file that holds it (saveProject sets the URI before it serialises, and
\* sets it back in one of its branches); a project that calls itself clean is in it
\* as far as Project::isDirty looks, which is not at its motions (the serialisers clear
\* the flags, Native.cc:1779, Archive.cc:668, PMM.cc:1801); and
\* the link through which an archive's entries are read (Project::resolveFileURI) is
\* to it, although the name of the link is reused.
SavePointAgrees ==
  Idle =>
    /\ faults \cap {"close", "rename"} = {} /\ project.path # NoPath
         => files[project.path] = Whole(logged)
    /\ faults \cap {"write", "close", "rename"} = {} /\ ~project.dirty
         => project.counted <= logged
    /\ "link" \notin faults /\ project.origin # NoPath
         => project.transient = Whole(logged)

\* No temporary file is left, however the save ended (the destructor of the writer
\* rolls back what was neither committed nor rolled back).
NoTemporaryLeft ==
  Idle /\ faults \cap {"unlink", "crash"} = {} => \A p \in Paths : temps[p] = NoFile

\* What the editor kept of a model is in the backup before the model's file is
\* overwritten (docs/model.rst:23), in whatever way writing the backup fails: a crash
\* in between or a model that was not written the last time loses nothing.  That is
\* what the file held, and what the model was in memory if the file could not be read;
\* an editor that kept nothing when it was opened overwrites the file all the same.
BackedUp == IF model.kept = "file" THEN files["model"] ELSE Whole(model.before)
BackupComesFirst ==
  [][files'["model"] # files["model"] /\ model.kept # "nothing"
       => files["backup"] = BackedUp]_vars
=============================================================================
