--------------------------- MODULE FileSaveProofs ---------------------------
(***************************************************************************)
(* Proofs about FileSave for any kinds of project files, edits and faults: *)
(* its types; that a save leaves no temporary file; that between saves the *)
(* project, its file, the link to its archive and the redo log agree; and, *)
(* when no write of a model is short without an error, that files are      *)
(* replaced whole and that what the editor kept of a model is in the       *)
(* backup before the model's file is overwritten.                          *)
(***************************************************************************)
EXTENDS FileSave, TLAPS

\* What the save in progress knows of itself: only projects come to the log and the
\* link, and a file of the editor is dropped only after an error.
Progress ==
  /\ op.step \in {"log", "link"} => op.path \in ProjectPaths
  /\ op.step \in {"close", "commit"} => op.path # NoPath /\ temps[op.path] # NoFile
  /\ op.step = "drop" /\ op.path \in {"backup", "model"} => op.error
  /\ files["model"] # NoFile

TypeIInv == TypeOK /\ Progress

LEMMA PathFacts ==
  /\ "backup" \in Paths /\ "model" \in Paths /\ NoPath \notin Paths
  /\ "backup" \notin ProjectPaths /\ "model" \notin ProjectPaths
  /\ ProjectPaths \subseteq Paths
BY FileAssumption DEF Paths

LEMMA ContentsFacts ==
  /\ NoFile \notin Contents
  /\ \A v \in Versions, w \in BOOLEAN : [version |-> v, whole |-> w] \in Contents
  /\ 0 \in Versions /\ Torn(0) \in Contents /\ Whole(0) \in Contents
BY FileAssumption DEF Contents, Versions, Torn, Whole

LEMMA TypeInit == Init => TypeIInv
<1> SUFFICES ASSUME Init PROVE TypeIInv
  OBVIOUS
<1> USE PathFacts, ContentsFacts DEF Init
<1>1. files \in [Paths -> Contents \cup {NoFile}] /\ temps \in [Paths -> Contents \cup {NoFile}]
  OBVIOUS
<1>2. op \in [path : Paths \cup {NoPath}, step : Steps, error : BOOLEAN]
  BY DEF NoOp, Steps
<1>3. project \in [version : Versions, dirty : BOOLEAN, counted : Versions,
                   path : ProjectPaths \cup {NoPath},
                   origin : ProjectPaths \cup {NoPath}, transient : Contents \cup {NoFile}]
  BY DEF NewProject
<1>4. model \in [version : Versions, before : Versions, editing : BOOLEAN,
               kept : {"file", "memory", "nothing"}]
  BY DEF Unedited
<1>5. Progress
  BY DEF Progress, NoOp
<1>6. QED BY <1>1, <1>2, <1>3, <1>4, <1>5 DEF TypeIInv, TypeOK

LEMMA FaultsKeepType ==
  ASSUME TypeOK, NEW call \in {"read", "write", "close", "rename", "unlink", "link", "crash"},
         NEW ok, Succeeds(call, ok)
  PROVE  faults' \subseteq {"read", "write", "close", "rename", "unlink", "link", "crash"}
BY DEF TypeOK, Succeeds

\* What comes after a writer is a save that has just begun, or none.
LEMMA AfterFacts ==
  ASSUME TypeOK
  PROVE  /\ After \in [path : Paths \cup {NoPath}, step : Steps, error : BOOLEAN]
         /\ After.step = "open"
BY PathFacts DEF TypeOK, After, NoOp, Steps

\* The two ways in which a writer goes on.
LEMMA GoesOn ==
  ASSUME TypeOK, NEW s \in Steps, Goto(s) \/ Fail(s)
  PROVE  /\ op' \in [path : Paths \cup {NoPath}, step : Steps, error : BOOLEAN]
         /\ op'.path = op.path /\ op'.step = s
         /\ Fail(s) => op'.error
         /\ Goto(s) => op'.error = op.error
<1>1. CASE Goto(s)
  BY <1>1 DEF Goto, Fail, TypeOK
<1>2. CASE Fail(s)
  BY <1>2 DEF Fail, Goto, TypeOK
<1>3. QED BY <1>1, <1>2

LEMMA UserKeepsTypes == TypeIInv /\ User => TypeIInv'
<1> SUFFICES ASSUME TypeIInv, User PROVE TypeIInv'
  OBVIOUS
<1> USE PathFacts, ContentsFacts DEF TypeIInv
<1>1. CASE EditProject
  <2>1. clock + 1 \in Versions
    BY <1>1, FileAssumption DEF EditProject, TypeOK, Versions
  <2>2. PICK noticed \in BOOLEAN :
          project' = [project EXCEPT !.version = clock + 1, !.dirty = @ \/ noticed,
                                     !.counted = IF noticed THEN clock + 1 ELSE @]
    BY <1>1 DEF EditProject
  <2>3. CASE noticed
    BY <1>1, <2>1, <2>2, <2>3 DEF EditProject, TypeOK, Progress
  <2>4. CASE ~noticed
    BY <1>1, <2>1, <2>2, <2>4 DEF EditProject, TypeOK, Progress
  <2>5. QED BY <2>3, <2>4
<1>2. CASE OpenEditor
  <2>1. PICK kept \in {"file", "memory", "nothing"} :
          /\ model' = [model EXCEPT !.editing = TRUE, !.kept = kept, !.before =
                        IF kept = "file" THEN files["model"].version ELSE model.version]
          /\ Succeeds("read", kept = "file")
    BY <1>2 DEF OpenEditor
  <2>2. files["model"].version \in Versions
    BY DEF TypeOK, Progress, Contents
  <2>3. faults' \subseteq {"read", "write", "close", "rename", "unlink", "link", "crash"}
    BY <2>1, FaultsKeepType
  <2>4. QED BY <1>2, <2>1, <2>2, <2>3 DEF OpenEditor, TypeOK, Progress
<1>3. CASE EditModel
  <2>1. clock + 1 \in Versions
    BY <1>3, FileAssumption DEF EditModel, TypeOK, Versions
  <2>2. QED BY <1>3, <2>1 DEF EditModel, TypeOK, Progress
<1>4. ASSUME NEW p \in Paths, Begin(p), model' \in {model, [model EXCEPT !.editing = FALSE]}
      PROVE  TypeIInv'
  BY <1>4 DEF Begin, TypeOK, Progress, NoOp, Steps
<1>5. CASE CloseEditor
  BY <1>4, <1>5 DEF CloseEditor
<1>6. ASSUME NEW p \in ProjectPaths, SaveProject(p) PROVE TypeIInv'
  BY <1>4, <1>6 DEF SaveProject
<1>7. ASSUME NEW p \in ProjectPaths, LoadProject(p) PROVE TypeIInv'
  <2>1. PICK linked \in BOOLEAN :
          /\ project' = [version |-> files[p].version, dirty |-> FALSE, counted |-> 0,
                      path |-> p, origin |-> p,
                         transient |-> IF linked THEN files[p] ELSE NoFile]
          /\ Succeeds("link", linked)
    BY <1>7 DEF LoadProject
  <2>2. files[p] \in Contents /\ files[p].version \in Versions
    BY <1>7 DEF LoadProject, TypeOK, Contents
  <2>3. faults' \subseteq {"read", "write", "close", "rename", "unlink", "link", "crash"}
    BY <2>1, FaultsKeepType
  <2>4. QED BY <1>7, <2>1, <2>2, <2>3 DEF LoadProject, TypeOK, Progress
<1>8. QED BY <1>1, <1>2, <1>3, <1>5, <1>6, <1>7 DEF User

LEMMA WriterKeepsTypes == TypeIInv /\ Writer => TypeIInv'
<1> SUFFICES ASSUME TypeIInv, Writer PROVE TypeIInv'
  OBVIOUS
<1> USE PathFacts, ContentsFacts, AfterFacts DEF TypeIInv
<1>1. CASE Open
  <2>1. CASE temps' = [temps EXCEPT ![op.path] = Torn(0)]
             /\ (IF Refused THEN Fail("drop") ELSE Goto("write"))
    <3>1. op.path \in Paths /\ temps' \in [Paths -> Contents \cup {NoFile}]
      BY <1>1, <2>1 DEF Open, At, TypeOK
    <3>2. op' \in [path : Paths \cup {NoPath}, step : Steps, error : BOOLEAN]
          /\ op'.step \in {"drop", "write"} /\ (op'.step = "drop" => op'.error)
      <4>1. CASE Refused
        BY <2>1, <4>1, GoesOn DEF Steps
      <4>2. CASE ~Refused
        BY <2>1, <4>2, GoesOn DEF Steps
      <4>3. QED BY <4>1, <4>2
    <3>3. QED BY <1>1, <3>1, <3>2 DEF Open, TypeOK, Progress
  <2>2. CASE op' = [After EXCEPT !.error = op.path = "backup"] /\ UNCHANGED temps
    <3>1. op' \in [path : Paths \cup {NoPath}, step : Steps, error : BOOLEAN] /\ op'.step = "open"
      BY <2>2
    <3>2. QED BY <1>1, <2>2, <3>1 DEF Open, TypeOK, Progress
  <2>3. QED BY <1>1, <2>1, <2>2 DEF Open
<1>2. CASE Write
  <2>1. op.path \in Paths /\ op.step = "write"
    BY <1>2 DEF Write, At, TypeOK
  <2>2. PICK outcome \in Outcomes, early \in BOOLEAN :
          LET good == ~Detected(outcome) /\ ~op.error
              stops == early /\ ~good /\ op.path = "nma"
          IN  /\ temps' = [temps EXCEPT ![op.path] =
                             [version |-> Version, whole |-> outcome = "whole"]]
              /\ IF good THEN Goto("close")
                 ELSE op' = [op EXCEPT !.step = "drop",
                                       !.error = @ \/ outcome = "failed"]
              /\ project' = IF op.path \notin ProjectPaths THEN project
                            ELSE [project EXCEPT !.dirty = @ /\ stops,
                                                 !.path = IF good THEN op.path ELSE @]
              /\ Succeeds("write", outcome = "whole")
    BY <1>2 DEF Write
  <2>3. Version \in Versions
    BY <2>1 DEF Version, Paths, TypeOK
  <2>4. temps' \in [Paths -> Contents \cup {NoFile}] /\ temps'[op.path] # NoFile
    <3>1. [version |-> Version, whole |-> outcome = "whole"] \in Contents
      <4>1. PICK w \in BOOLEAN : w = (outcome = "whole")
        OBVIOUS
      <4>2. [version |-> Version, whole |-> w] \in Contents
        BY <2>3
      <4>3. QED BY <4>1, <4>2
    <3>2. temps' = [temps EXCEPT ![op.path] = [version |-> Version, whole |-> outcome = "whole"]]
      BY <2>2
    <3>3. PICK c \in Contents : temps' = [temps EXCEPT ![op.path] = c]
      BY <3>1, <3>2
    <3>4. QED BY <2>1, <3>3 DEF TypeOK
  <2>5. op' \in [path : Paths \cup {NoPath}, step : Steps, error : BOOLEAN]
        /\ op'.path = op.path /\ op'.step \in {"close", "drop"}
        /\ (op'.step = "drop" /\ op.path \notin ProjectPaths => op'.error)
    <3>1. CASE ~Detected(outcome) /\ ~op.error
      BY <2>2, <3>1, GoesOn DEF Steps
    <3>2. CASE ~(~Detected(outcome) /\ ~op.error)
      <4>1. op' = [op EXCEPT !.step = "drop", !.error = op.error \/ outcome = "failed"]
        BY <2>2, <3>2
      <4>2. (op.error \/ outcome = "failed") \in BOOLEAN
        OBVIOUS
      <4>3. op.path \notin ProjectPaths => op.error \/ outcome = "failed"
        BY <3>2 DEF Detected
      <4>4. PICK e \in BOOLEAN : /\ op' = [op EXCEPT !.step = "drop", !.error = e]
                                 /\ op.path \notin ProjectPaths => e
        BY <4>1, <4>2, <4>3
      <4>5. QED BY <4>4 DEF TypeOK, Steps
    <3>3. QED BY <3>1, <3>2
  <2>6. project' \in [version : Versions, dirty : BOOLEAN, counted : Versions,
                      path : ProjectPaths \cup {NoPath},
                      origin : ProjectPaths \cup {NoPath}, transient : Contents \cup {NoFile}]
    BY <2>2 DEF TypeOK
  <2>7. faults' \subseteq {"read", "write", "close", "rename", "unlink", "link", "crash"}
    BY <2>2, FaultsKeepType
  <2>8. UNCHANGED <<files, model, logged, clock>>
    BY <1>2 DEF Write
  <2>9. TypeOK'
    BY <2>4, <2>5, <2>6, <2>7, <2>8 DEF TypeOK
  <2>10. Progress'
    BY <2>1, <2>4, <2>5, <2>8 DEF Progress
  <2>11. QED BY <2>9, <2>10
<1>3. CASE Close
  <2>1. PICK ok \in BOOLEAN : /\ IF ok THEN Goto("commit") ELSE Fail("drop")
                              /\ Succeeds("close", ok)
    BY <1>3 DEF Close
  <2>2. op' \in [path : Paths \cup {NoPath}, step : Steps, error : BOOLEAN]
        /\ op'.path = op.path /\ op'.step \in {"commit", "drop"} /\ (op'.step = "drop" => op'.error)
    <3>1. CASE ok
      BY <2>1, <3>1, GoesOn DEF Steps
    <3>2. CASE ~ok
      BY <2>1, <3>2, GoesOn DEF Steps
    <3>3. QED BY <3>1, <3>2
  <2>3. faults' \subseteq {"read", "write", "close", "rename", "unlink", "link", "crash"}
    BY <2>1, FaultsKeepType
  <2>4. QED BY <1>3, <2>2, <2>3 DEF Close, At, TypeOK, Progress
<1>4. CASE Commit
  <2>1. op.path \in Paths /\ temps[op.path] \in Contents
    BY <1>4 DEF Commit, At, TypeOK, Progress
  <2>2. CASE /\ files' = [files EXCEPT ![op.path] = temps[op.path]]
             /\ temps' = [temps EXCEPT ![op.path] = NoFile]
             /\ op' = Committed
             /\ UNCHANGED faults
    <3>1. /\ files' \in [Paths -> Contents \cup {NoFile}]
          /\ temps' \in [Paths -> Contents \cup {NoFile}]
          /\ files'["model"] # NoFile
      BY <2>1, <2>2 DEF TypeOK, Progress
    <3>2. op' \in [path : Paths \cup {NoPath}, step : Steps, error : BOOLEAN]
          /\ op'.step \in {"log", "open"} /\ (op'.step = "log" => op'.path \in ProjectPaths)
      BY <2>2 DEF Committed, TypeOK, Steps
    <3>3. QED BY <1>4, <2>2, <3>1, <3>2 DEF Commit, TypeOK, Progress
  <2>3. CASE Fail("drop") /\ Succeeds("rename", FALSE) /\ UNCHANGED <<files, temps>>
    <3>1. faults' \subseteq {"read", "write", "close", "rename", "unlink", "link", "crash"}
      BY <2>3, FaultsKeepType
    <3>2. op' \in [path : Paths \cup {NoPath}, step : Steps, error : BOOLEAN]
          /\ op'.step = "drop" /\ op'.error
      BY <2>3 DEF Fail, TypeOK, Steps
    <3>3. QED BY <1>4, <2>3, <3>1, <3>2 DEF Commit, TypeOK, Progress
  <2>4. QED BY <1>4, <2>2, <2>3 DEF Commit
<1>5. CASE Drop
  <2>1. PICK ok \in BOOLEAN :
          /\ temps' = IF ok THEN [temps EXCEPT ![op.path] = NoFile] ELSE temps
          /\ Succeeds("unlink", ok)
    BY <1>5 DEF Drop
  <2>2. faults' \subseteq {"read", "write", "close", "rename", "unlink", "link", "crash"}
    BY <2>1, FaultsKeepType
  <2>3. temps' \in [Paths -> Contents \cup {NoFile}]
    BY <2>1 DEF TypeOK
  <2>4. QED BY <1>5, <2>2, <2>3 DEF Drop, TypeOK, Progress
<1>6. CASE WriteSavePoint
  <2>1. op' = [op EXCEPT !.step = "link"] /\ op.path \in ProjectPaths
    BY <1>6 DEF WriteSavePoint, Goto, At, Progress
  <2>2. op' \in [path : Paths \cup {NoPath}, step : Steps, error : BOOLEAN]
        /\ op'.step = "link" /\ op'.path \in ProjectPaths
    BY <2>1 DEF TypeOK, Steps
  <2>3. QED BY <1>6, <2>1, <2>2 DEF WriteSavePoint, TypeOK, Progress
<1>7. CASE MakeLink
  <2>1. PICK ok \in BOOLEAN :
          /\ project' = IF ok THEN [project EXCEPT !.transient = files[op.path]] ELSE project
          /\ Succeeds("link", ok)
    BY <1>7 DEF MakeLink
  <2>2. op.path \in Paths
    BY <1>7 DEF MakeLink, At, TypeOK
  <2>3. faults' \subseteq {"read", "write", "close", "rename", "unlink", "link", "crash"}
    BY <2>1, FaultsKeepType
  <2>4. QED BY <1>7, <2>1, <2>2, <2>3 DEF MakeLink, TypeOK, Progress
<1>8. QED BY <1>1, <1>2, <1>3, <1>4, <1>5, <1>6, <1>7 DEF Writer

LEMMA TypeNext == TypeIInv /\ [Next]_vars => TypeIInv'
<1> SUFFICES ASSUME TypeIInv, [Next]_vars PROVE TypeIInv'
  OBVIOUS
<1>1. CASE Crash
  <2>1. files["model"].version \in Versions
    BY PathFacts DEF TypeIInv, TypeOK, Progress, Contents
  <2>2. model' \in [version : Versions, before : Versions, editing : BOOLEAN,
               kept : {"file", "memory", "nothing"}]
    BY <1>1, <2>1 DEF Crash, Unedited
  <2>3. project' \in [version : Versions, dirty : BOOLEAN, counted : Versions,
                      path : ProjectPaths \cup {NoPath},
                      origin : ProjectPaths \cup {NoPath}, transient : Contents \cup {NoFile}]
    BY <1>1, ContentsFacts DEF Crash, NewProject
  <2>4. faults' \subseteq {"read", "write", "close", "rename", "unlink", "link", "crash"}
    BY <1>1, FaultsKeepType DEF Crash, TypeIInv
  <2>5. op' = NoOp /\ op' \in [path : Paths \cup {NoPath}, step : Steps, error : BOOLEAN]
    BY <1>1 DEF Crash, NoOp, Steps
  <2>6. QED BY <1>1, <2>2, <2>3, <2>4, <2>5, ContentsFacts
       DEF Crash, TypeIInv, TypeOK, Progress, NoOp
<1>2. CASE UNCHANGED vars
  BY <1>2 DEF vars, TypeIInv, TypeOK, Progress
<1>3. QED BY <1>1, <1>2, UserKeepsTypes, WriterKeepsTypes DEF Next

\* The save in progress, the files, the project and the model are always what the code's
\* types allow, for any number of edits and faults.
THEOREM TypeCorrect == Spec => []TypeOK
<1>1. TypeIInv => TypeOK
  BY DEF TypeIInv
<1>2. QED BY <1>1, TypeInit, TypeNext, PTL DEF Spec

-----------------------------------------------------------------------------
(* The files that have their final names are whole.                        *)

\* What is about to be renamed is whole, and nothing has failed on the way to it.
WholeFiles ==
  /\ \A p \in Paths : files[p] # NoFile => files[p].whole
  /\ op.step \in {"close", "commit"} => temps[op.path].whole /\ ~op.error

WholeIInv == TypeIInv /\ WholeFiles

Replaces == /\ files' = [files EXCEPT ![op.path] = temps[op.path]]
            /\ temps' = [temps EXCEPT ![op.path] = NoFile]
            /\ op' = Committed
            /\ UNCHANGED faults

\* Only a rename changes a file, and only a write and a closed file bring a save near it.
LEMMA OnlyRenamesReplace ==
  ASSUME TypeIInv, [Next]_vars
  PROVE  \/ Commit /\ Replaces
         \/ /\ files' = files
            /\ \/ Write \/ Close
               \/ op'.step \notin {"close", "commit"}
               \/ op' = op /\ temps' = temps
<1> USE AfterFacts DEF TypeIInv
<1>1. CASE User
  <2>1. CASE EditProject \/ OpenEditor \/ EditModel
    BY <2>1 DEF EditProject, OpenEditor, EditModel
  <2>2. CASE CloseEditor
    BY <2>2 DEF CloseEditor, Begin, NoOp
  <2>3. CASE \E p \in ProjectPaths : SaveProject(p)
    BY <2>3 DEF SaveProject, Begin, NoOp
  <2>4. CASE \E p \in ProjectPaths : LoadProject(p)
    BY <2>4 DEF LoadProject
  <2>5. QED BY <1>1, <2>1, <2>2, <2>3, <2>4 DEF User
<1>2. CASE Open
  <2>1. op'.step \in {"drop", "write", "open"}
    <3>1. CASE Goto("write") \/ Fail("drop")
      BY <3>1, GoesOn DEF Steps
    <3>2. CASE op' = [After EXCEPT !.error = op.path = "backup"]
      BY <3>2
    <3>3. QED BY <1>2, <3>1, <3>2 DEF Open
  <2>2. QED BY <1>2, <2>1 DEF Open
<1>3. CASE Write
  BY <1>3 DEF Write
<1>4. CASE Close
  BY <1>4 DEF Close
<1>5. CASE Commit
  <2>1. CASE Replaces
    BY <1>5, <2>1
  <2>2. CASE Fail("drop") /\ UNCHANGED files
    BY <2>2, GoesOn DEF Steps
  <2>3. QED BY <1>5, <2>1, <2>2 DEF Commit, Replaces
<1>6. CASE Drop
  BY <1>6 DEF Drop
<1>7. CASE WriteSavePoint
  BY <1>7, GoesOn DEF WriteSavePoint, Steps
<1>8. CASE MakeLink
  BY <1>8 DEF MakeLink
<1>9. CASE Crash
  BY <1>9 DEF Crash, NoOp
<1>10. CASE UNCHANGED vars
  BY <1>10 DEF vars
<1>11. QED BY <1>1, <1>2, <1>3, <1>4, <1>5, <1>6, <1>7, <1>8, <1>9, <1>10 DEF Next, Writer

\* A write that goes on to the close wrote the whole version, and nothing had failed.
LEMMA WritesWhole ==
  ASSUME TypeIInv, ~ShortWrites, Write
  PROVE  /\ op.path \in Paths /\ op'.path = op.path /\ op'.step \in {"close", "drop"}
         /\ op'.step = "close" =>
              ~op.error /\ ~op'.error /\ temps'[op.path] = [version |-> Version, whole |-> TRUE]
         /\ op'.step = "drop" /\ op.path \notin ProjectPaths => op'.error
<1> USE DEF TypeIInv
<1>1. op.path \in Paths /\ op.step = "write"
  BY DEF Write, At, TypeOK
<1>2. PICK outcome \in Outcomes :
        /\ temps' = [temps EXCEPT ![op.path] = [version |-> Version, whole |-> outcome = "whole"]]
        /\ \/ ~Detected(outcome) /\ ~op.error /\ Goto("close")
           \/ /\ Detected(outcome) \/ op.error
              /\ op' = [op EXCEPT !.step = "drop", !.error = @ \/ outcome = "failed"]
  BY DEF Write
<1>3. temps'[op.path] = [version |-> Version, whole |-> outcome = "whole"]
  BY <1>1, <1>2 DEF TypeOK
<1>4. CASE ~Detected(outcome) /\ ~op.error /\ Goto("close")
  <2>1. outcome = "whole"
    BY <1>4 DEF Outcomes, Detected
  <2>2. QED BY <1>1, <1>3, <1>4, <2>1, GoesOn DEF Steps
<1>5. CASE /\ Detected(outcome) \/ op.error
           /\ op' = [op EXCEPT !.step = "drop", !.error = @ \/ outcome = "failed"]
  <2>1. op.path \notin ProjectPaths => op.error \/ outcome = "failed"
    BY <1>5 DEF Detected
  <2>2. PICK e \in BOOLEAN : /\ op' = [op EXCEPT !.step = "drop", !.error = e]
                             /\ op.path \notin ProjectPaths => e
    BY <1>5, <2>1
  <2>3. QED BY <1>1, <2>2 DEF TypeOK
<1>6. QED BY <1>2, <1>4, <1>5

LEMMA WholeInit == Init => WholeIInv
<1> SUFFICES ASSUME Init PROVE WholeIInv
  OBVIOUS
<1>1. WholeFiles
  BY DEF Init, WholeFiles, Whole, NoOp
<1>2. QED BY <1>1, TypeInit DEF WholeIInv

LEMMA WholeNext == ASSUME ~ShortWrites PROVE WholeIInv /\ [Next]_vars => WholeIInv'
<1> SUFFICES ASSUME WholeIInv, [Next]_vars PROVE WholeFiles'
  BY TypeNext DEF WholeIInv
<1> USE PathFacts, ContentsFacts DEF WholeIInv, TypeIInv
<1>1. CASE Commit /\ Replaces
  <2>1. op.path \in Paths /\ temps[op.path].whole /\ op.step = "commit"
    BY <1>1 DEF Commit, At, TypeOK, WholeFiles
  <2>2. \A p \in Paths : files'[p] # NoFile => files'[p].whole
    BY <1>1, <2>1 DEF Replaces, WholeFiles, TypeOK
  <2>3. op'.step \notin {"close", "commit"}
    BY <1>1, AfterFacts DEF Replaces, Committed, TypeOK
  <2>4. QED BY <2>2, <2>3 DEF WholeFiles
<1>2. CASE Write /\ files' = files
  BY <1>2, WritesWhole DEF WholeFiles
<1>3. CASE Close /\ files' = files
  <2>1. op.step = "close" /\ temps' = temps
    BY <1>3 DEF Close, At
  <2>2. CASE Goto("commit")
    BY <1>3, <2>1, <2>2, GoesOn DEF WholeFiles, Steps
  <2>3. CASE Fail("drop")
    BY <1>3, <2>1, <2>3, GoesOn DEF WholeFiles, Steps
  <2>4. QED BY <1>3, <2>2, <2>3 DEF Close
<1>4. CASE files' = files /\ op'.step \notin {"close", "commit"}
  BY <1>4 DEF WholeFiles
<1>5. CASE files' = files /\ op' = op /\ temps' = temps
  BY <1>5 DEF WholeFiles
<1>6. QED BY <1>1, <1>2, <1>3, <1>4, <1>5, OnlyRenamesReplace

\* A file with its final name changes in one step, from one whole version to another, for any
\* kinds of project files, edits and faults, if a short write of a model is always noticed.
THEOREM FilesReplacedWhole == ASSUME ~ShortWrites PROVE Spec => FilesAreReplacedWhole
<1> USE PathFacts, ContentsFacts DEF WholeIInv, TypeIInv
<1>1. Init => Files!Init
  <2> SUFFICES ASSUME Init PROVE Files!Init
    OBVIOUS
  <2>1. \A p \in Paths : Store[p] \in Versions \cup {NoFile}
    BY DEF Init, Store, Whole
  <2>2. QED BY <2>1 DEF Files!Init, Store
<1>2. WholeIInv /\ [Next]_vars => [Files!Next]_Store
  <2> SUFFICES ASSUME WholeIInv, [Next]_vars PROVE [Files!Next]_Store
    OBVIOUS
  <2>1. CASE files' = files
    BY <2>1 DEF Store
  <2>2. CASE Commit /\ Replaces
    <3>1. op.path \in Paths /\ temps[op.path] \in Contents /\ temps[op.path].whole
      BY <2>2 DEF Commit, At, TypeOK, WholeFiles, Progress
    <3>2. temps[op.path] # NoFile /\ temps[op.path].version \in Versions
      BY <3>1 DEF Contents
    <3>3. Store' = [Store EXCEPT ![op.path] = temps[op.path].version]
      BY <2>2, <3>1, <3>2 DEF Replaces, Store, TypeOK
    <3>4. QED BY <3>1, <3>2, <3>3 DEF Files!Next, Files!Replace
  <2>3. QED BY <2>1, <2>2, OnlyRenamesReplace
<1>3. QED BY <1>1, <1>2, WholeInit, WholeNext, PTL DEF Spec, FilesAreReplacedWhole, Files!Spec

-----------------------------------------------------------------------------
(* The backup.                                                             *)

\* What the editor keeps of the file is what the file holds, and what it keeps at all is what
\* the backup's file holds once its save went without an error.
BackupInProgress ==
  /\ op.path \in {"backup", "model"} => ~model.editing
  /\ op.path = "backup" => model.kept # "nothing"
  /\ (model.editing \/ op.path = "backup") /\ model.kept = "file"
       => model.before = files["model"].version
  /\ op.path = "backup" /\ op.step \in {"close", "commit"}
       => temps["backup"] = Whole(model.before)
  /\ op.path = "model" /\ ~op.error /\ model.kept # "nothing" => files["backup"] = BackedUp

BackupIInv == WholeIInv /\ BackupInProgress

LEMMA BackupInit == Init => BackupIInv
<1> SUFFICES ASSUME Init PROVE BackupInProgress
  BY WholeInit DEF BackupIInv
<1>1. QED BY FileAssumption DEF Init, BackupInProgress, NoOp, Unedited

\* What the user does neither touches a file nor lets the editor and its save overlap.
LEMMA UserKeepsBackup ==
  ASSUME BackupIInv, User
  PROVE  BackupInProgress'
<1> USE PathFacts, FileAssumption DEF BackupIInv, WholeIInv, TypeIInv, BackupInProgress, BackedUp
<1>1. CASE EditProject
  BY <1>1 DEF EditProject
<1>2. CASE OpenEditor
  <2>1. PICK kept \in {"file", "memory", "nothing"} :
          model' = [model EXCEPT !.editing = TRUE, !.kept = kept, !.before =
                     IF kept = "file" THEN files["model"].version ELSE model.version]
    BY <1>2 DEF OpenEditor
  <2>2. op' = op /\ op.path = NoPath /\ UNCHANGED <<files, temps>>
    BY <1>2 DEF OpenEditor, Idle, NoOp
  <2>3. model'.kept = kept /\ (kept = "file" => model'.before = files["model"].version)
    BY <2>1 DEF TypeOK
  <2>4. QED BY <2>2, <2>3
<1>3. CASE EditModel
  BY <1>3 DEF EditModel, TypeOK
<1>4. CASE CloseEditor
  <2>1. /\ model' = [model EXCEPT !.editing = FALSE] /\ model.editing
        /\ UNCHANGED <<files, temps>>
    BY <1>4 DEF CloseEditor, Begin
  <2>2. model'.kept = model.kept /\ model'.before = model.before /\ ~model'.editing
    BY <2>1 DEF TypeOK
  <2>3. CASE model.kept = "nothing"
    <3>1. op' = [NoOp EXCEPT !.path = "model"]
      BY <1>4, <2>3 DEF CloseEditor, Begin
    <3>2. QED BY <2>1, <2>2, <2>3, <3>1 DEF NoOp
  <2>4. CASE model.kept # "nothing"
    <3>1. op' = [NoOp EXCEPT !.path = "backup"]
      BY <1>4, <2>4 DEF CloseEditor, Begin
    <3>2. op'.path = "backup" /\ op'.step = "open"
      BY <3>1 DEF NoOp
    <3>3. QED BY <2>1, <2>2, <2>4, <3>2
  <2>5. QED BY <2>3, <2>4
<1>5. ASSUME NEW p \in ProjectPaths, SaveProject(p) PROVE BackupInProgress'
  BY <1>5 DEF SaveProject, Begin, NoOp, TypeOK
<1>6. ASSUME NEW p \in ProjectPaths, LoadProject(p) PROVE BackupInProgress'
  BY <1>6 DEF LoadProject, Idle, NoOp, Succeeds
<1>7. QED BY <1>1, <1>2, <1>3, <1>4, <1>5, <1>6 DEF User

LEMMA WriterKeepsBackup ==
  ASSUME ~ShortWrites, BackupIInv, Writer
  PROVE  BackupInProgress'
<1> USE PathFacts DEF BackupIInv, WholeIInv, TypeIInv, BackupInProgress, BackedUp
<1>1. CASE Open
  <2>1. UNCHANGED <<files, model, faults>> /\ op.path \in Paths
    BY <1>1 DEF Open, At, TypeOK
  <2>2. CASE Goto("write") \/ Fail("drop")
    <3>1. op'.path = op.path /\ op'.step \in {"write", "drop"} /\ (~op'.error => ~op.error)
      BY <2>2, GoesOn DEF Steps
    <3>2. QED BY <2>1, <3>1
  <2>3. CASE op' = [After EXCEPT !.error = op.path = "backup"]
    <3>1. CASE op.path = "backup"
      BY <2>1, <2>3, <3>1 DEF After, NoOp
    <3>2. CASE op.path # "backup"
      BY <2>1, <2>3, <3>2, FileAssumption DEF After, NoOp
    <3>3. QED BY <3>1, <3>2
  <2>4. QED BY <1>1, <2>2, <2>3 DEF Open
<1>2. CASE Write
  <2>1. UNCHANGED <<files, model>>
    BY <1>2 DEF Write, Succeeds
  <2>2. op.path = "backup" /\ op'.step = "close" => temps'["backup"] = Whole(model.before)
    BY <1>2, WritesWhole DEF Version, Whole
  <2>3. op'.path = op.path /\ op'.step \in {"close", "drop"}
        /\ (op.path \notin ProjectPaths /\ ~op'.error => op'.step = "close")
    BY <1>2, WritesWhole
  <2>4. op.path \notin ProjectPaths /\ op'.step = "close" => ~op.error
    BY <1>2, WritesWhole
  <2>5. QED BY <2>1, <2>2, <2>3, <2>4
<1>3. CASE Close
  <2>1. UNCHANGED <<files, temps, model>>
        /\ op.step = "close"
    BY <1>3 DEF Close, Succeeds, At
  <2>2. op'.path = op.path /\ (~op'.error => ~op.error)
    <3>1. Goto("commit") \/ Fail("drop")
      BY <1>3 DEF Close
    <3>2. QED BY <3>1, GoesOn DEF Steps
  <2>3. QED BY <2>1, <2>2
<1>4. CASE Commit /\ Replaces
  <2>1. op.path \in Paths /\ op.step = "commit" /\ UNCHANGED <<model, faults>>
    BY <1>4 DEF Commit, At, TypeOK, Replaces
  <2>2. CASE op.path = "backup"
    <3>1. op' = [NoOp EXCEPT !.path = "model", !.error = op.error]
      BY <1>4, <2>2 DEF Replaces, Committed, After
    <3>2. files'["model"] = files["model"] /\ files'["backup"] = temps["backup"]
      BY <1>4, <2>2 DEF Replaces, TypeOK
    <3>3. temps["backup"] = Whole(model.before)
      BY <2>1, <2>2
    <3>4. model.kept = "file" => files["model"] = Whole(model.before)
      <4>1. files["model"] \in Contents /\ files["model"].whole
        BY DEF TypeOK, Progress, WholeFiles
      <4>2. QED BY <2>2, <4>1 DEF Contents, Whole
    <3>5. QED BY <2>1, <2>2, <3>1, <3>2, <3>3, <3>4 DEF NoOp
  <2>3. CASE op.path = "model"
    <3>1. op' = NoOp
      BY <1>4, <2>3 DEF Replaces, Committed, After
    <3>2. QED BY <2>1, <2>3, <3>1, FileAssumption DEF NoOp
  <2>4. CASE op.path \in ProjectPaths
    <3>1. op' = [op EXCEPT !.step = "log"]
      BY <1>4, <2>4 DEF Replaces, Committed
    <3>2. files'["model"] = files["model"] /\ op'.path = op.path
      BY <1>4, <2>4, <3>1 DEF Replaces, TypeOK
    <3>3. QED BY <2>1, <2>4, <3>2
  <2>5. QED BY <2>1, <2>2, <2>3, <2>4 DEF Paths
<1>5. CASE Fail("drop") /\ Succeeds("rename", FALSE) /\ UNCHANGED <<files, temps, model>>
  <2>1. op'.path = op.path /\ op'.step = "drop" /\ op'.error
    BY <1>5, GoesOn DEF Steps
  <2>2. QED BY <1>5, <2>1
<1>6. CASE Drop
  <2>1. UNCHANGED <<files, model>>
        /\ op.step = "drop" /\ op' = After
    BY <1>6 DEF Drop, Succeeds, At
  <2>2. CASE op.path = "backup"
    BY <2>1, <2>2 DEF After, NoOp, Progress
  <2>3. CASE op.path # "backup"
    BY <2>1, <2>3, FileAssumption DEF After, NoOp
  <2>4. QED BY <2>2, <2>3
<1>7. CASE WriteSavePoint
  <2>1. op.path \in ProjectPaths /\ op'.path = op.path /\ UNCHANGED <<files, model, faults>>
    BY <1>7, GoesOn DEF WriteSavePoint, At, Steps, Progress
  <2>2. QED BY <2>1
<1>8. CASE MakeLink
  <2>1. op.path \in ProjectPaths /\ UNCHANGED <<files, model>> /\ op' = NoOp
    BY <1>8 DEF MakeLink, At, Progress, Succeeds, After
  <2>2. QED BY <2>1, FileAssumption DEF NoOp
<1>9. \/ ~Commit \/ Replaces
      \/ Fail("drop") /\ Succeeds("rename", FALSE) /\ UNCHANGED <<files, temps, model>>
  BY DEF Commit, Replaces
<1>10. QED BY <1>1, <1>2, <1>3, <1>4, <1>5, <1>6, <1>7, <1>8, <1>9 DEF Writer

LEMMA BackupNext == ASSUME ~ShortWrites PROVE BackupIInv /\ [Next]_vars => BackupIInv'
<1> SUFFICES ASSUME BackupIInv, [Next]_vars PROVE BackupInProgress'
  BY WholeNext DEF BackupIInv
<1>1. CASE Crash
  BY <1>1, FileAssumption DEF Crash, BackupInProgress, NoOp, Unedited
<1>2. CASE UNCHANGED vars
  BY <1>2 DEF vars, BackupInProgress, BackupIInv, BackedUp
<1>3. QED BY <1>1, <1>2, UserKeepsBackup, WriterKeepsBackup DEF Next

\* What the editor kept of a model, be it the file or the model in memory, is in the backup
\* before the model's file is overwritten, whatever fails and however often the editor is
\* opened, if a short write of a model is always noticed.
THEOREM BackupBeforeOverwriting == ASSUME ~ShortWrites PROVE Spec => BackupComesFirst
<1>1. BackupIInv /\ [Next]_vars
        => [files'["model"] # files["model"] /\ model.kept # "nothing"
              => files["backup"] = BackedUp]_vars
  <2> SUFFICES ASSUME BackupIInv, Commit /\ Replaces, files'["model"] # files["model"],
                      model.kept # "nothing"
               PROVE  files["backup"] = BackedUp
    BY OnlyRenamesReplace DEF BackupIInv, WholeIInv
  <2> USE DEF BackupIInv, WholeIInv, TypeIInv
  <2>1. op.path = "model"
    BY DEF Replaces, TypeOK
  <2>2. ~op.error
    BY DEF Commit, At, WholeFiles
  <2>3. QED BY <2>1, <2>2 DEF BackupInProgress
<1>2. QED BY <1>1, BackupInit, BackupNext, PTL DEF Spec, BackupComesFirst

-----------------------------------------------------------------------------
(* Temporary files.                                                        *)

\* Only the file of the save in progress has a temporary one, and only from the open to the
\* rename or the unlink.
OneTemporary ==
  faults \cap {"unlink", "crash"} = {} =>
    \A p \in Paths : temps[p] # NoFile
      => p = op.path /\ op.step \in {"write", "close", "commit", "drop"}

LEMMA TemporaryInit == Init => OneTemporary
BY PathFacts DEF Init, OneTemporary

LEMMA FaultsGrow ==
  ASSUME TypeIInv, [Next]_vars
  PROVE  faults \subseteq faults'
BY DEF Next, User, Writer, EditProject, OpenEditor, EditModel, CloseEditor, SaveProject,
       LoadProject, Begin, Open, Write, Close, Commit, Drop, WriteSavePoint, MakeLink, Crash,
       Succeeds, vars

LEMMA TemporaryNext ==
  ASSUME TypeIInv, [Next]_vars, OneTemporary
  PROVE  OneTemporary'
<1> SUFFICES ASSUME faults' \cap {"unlink", "crash"} = {}
             PROVE  \A p \in Paths : temps'[p] # NoFile
                      => p = op'.path /\ op'.step \in {"write", "close", "commit", "drop"}
  BY DEF OneTemporary
<1> USE PathFacts DEF TypeIInv
<1>1. \A p \in Paths : temps[p] # NoFile
        => p = op.path /\ op.step \in {"write", "close", "commit", "drop"}
  BY FaultsGrow DEF OneTemporary
<1>2. CASE UNCHANGED <<temps, op>>
  BY <1>1, <1>2
<1>3. CASE temps' = temps /\ op.step \in {"open", "log", "link"}
  BY <1>1, <1>3
<1>4. CASE Open
  <2>1. CASE /\ temps' = [temps EXCEPT ![op.path] = Torn(0)]
             /\ (IF Refused THEN Fail("drop") ELSE Goto("write"))
    <3>1. op'.path = op.path /\ op'.step \in {"drop", "write"}
      BY <2>1, GoesOn DEF Steps
    <3>2. op.step = "open"
      BY <1>4 DEF Open, At
    <3>3. QED BY <1>1, <2>1, <3>1, <3>2 DEF TypeOK
  <2>2. QED BY <1>3, <1>4, <2>1 DEF Open, At
<1>5. CASE Write
  <2>1. op.path \in Paths /\ op.step = "write"
    BY <1>5 DEF Write, At, TypeOK
  <2>2. PICK outcome \in Outcomes :
          /\ temps' = [temps EXCEPT ![op.path] = [version |-> Version, whole |-> outcome = "whole"]]
          /\ \/ Goto("close")
             \/ op' = [op EXCEPT !.step = "drop", !.error = op.error \/ outcome = "failed"]
    BY <1>5 DEF Write
  <2>3. op'.path = op.path /\ op'.step \in {"close", "drop"}
    BY <2>2 DEF Goto, TypeOK
  <2>4. \A p \in Paths : p # op.path => temps'[p] = temps[p]
    BY <2>1, <2>2 DEF TypeOK
  <2>5. QED BY <1>1, <2>1, <2>3, <2>4
<1>6. CASE Close
  <2>1. temps' = temps /\ op.step = "close" /\ op'.path = op.path /\ op'.step \in {"commit", "drop"}
    BY <1>6, GoesOn DEF Close, At, Steps
  <2>2. QED BY <1>1, <2>1
<1>7. CASE Commit
  <2>1. op.path \in Paths /\ op.step = "commit"
    BY <1>7 DEF Commit, At, TypeOK
  <2>2. CASE temps' = [temps EXCEPT ![op.path] = NoFile]
    BY <1>1, <2>1, <2>2 DEF TypeOK
  <2>3. CASE temps' = temps /\ Fail("drop")
    BY <1>1, <2>1, <2>3, GoesOn DEF Steps
  <2>4. QED BY <1>7, <2>2, <2>3 DEF Commit
<1>8. CASE Drop
  <2>1. temps' = [temps EXCEPT ![op.path] = NoFile]
    BY <1>8 DEF Drop, Succeeds
  <2>2. QED BY <1>1, <1>8, <2>1 DEF Drop, At, TypeOK
<1>9. CASE WriteSavePoint \/ MakeLink
  BY <1>3, <1>9 DEF WriteSavePoint, MakeLink, At
<1>10. CASE User
  <2>1. temps' = temps
    BY <1>10 DEF User, EditProject, OpenEditor, EditModel, CloseEditor, SaveProject, Begin,
                 LoadProject
  <2>2. Idle
    BY <1>10 DEF User, EditProject, OpenEditor, EditModel, CloseEditor, SaveProject, Begin,
                 LoadProject
  <2>3. QED BY <1>3, <2>1, <2>2 DEF Idle, NoOp
<1>11. CASE Crash
  BY <1>11 DEF Crash, Succeeds
<1>12. CASE UNCHANGED vars
  BY <1>2, <1>12 DEF vars
<1>13. QED BY <1>4, <1>5, <1>6, <1>7, <1>8, <1>9, <1>10, <1>11, <1>12 DEF Next, Writer

\* However a save ends and whatever fails in it, it leaves no temporary file, unless the file
\* cannot be removed or the program stops: the writer's destructor rolls back what its owner
\* neither committed nor rolled back.
THEOREM NoTemporaryFileStays == Spec => []NoTemporaryLeft
<1>1. TypeIInv /\ OneTemporary => NoTemporaryLeft
  BY DEF OneTemporary, NoTemporaryLeft, Idle, NoOp
<1>2. Init => TypeIInv /\ OneTemporary
  BY TypeInit, TemporaryInit
<1>3. TypeIInv /\ OneTemporary /\ [Next]_vars => (TypeIInv /\ OneTemporary)'
  BY TypeNext, TemporaryNext
<1>4. QED BY <1>1, <1>2, <1>3, PTL DEF Spec

-----------------------------------------------------------------------------
(* The project, its file, its link and the save point in the redo log.     *)

\* A project is saved and its save point is not yet in the log.
BeforeSavePoint == op.path \in ProjectPaths /\ op.step \in {"close", "commit", "log"}

\* What a project's save has brought about so far.
ProjectInProgress ==
  /\ op.path \in ProjectPaths /\ op.step \in {"open", "write"} => ~op.error
  /\ op.path \in ProjectPaths /\ op.step \in {"close", "commit"}
       => project.path = op.path /\ temps[op.path] = Whole(project.version)
  /\ op.step = "log" => project.path = op.path /\ files[op.path] = Whole(project.version)
  /\ op.step = "link" => files[op.path] = Whole(logged)

\* What SavePointAgrees says between saves holds until a save has changed the project, and
\* again from its save point on.
SavePointHolds ==
  /\ faults \cap {"close", "rename"} = {} /\ ~BeforeSavePoint /\ project.path # NoPath
       => files[project.path] = Whole(logged)
  /\ faults \cap {"write", "close", "rename"} = {} /\ ~BeforeSavePoint /\ ~project.dirty
       => project.counted <= logged
  /\ "link" \notin faults /\ op.step # "link" /\ project.origin # NoPath
       => project.transient = Whole(logged)

\* What isDirty noticed last is an edit of this project.
CountedInv == project.counted <= project.version /\ project.counted <= clock

SaveIInv == TypeIInv /\ CountedInv /\ ProjectInProgress /\ SavePointHolds
SaveParts == ProjectInProgress /\ SavePointHolds

LEMMA CountedNext ==
  ASSUME TypeIInv, CountedInv, [Next]_vars
  PROVE  CountedInv'
<1> USE DEF CountedInv, TypeIInv
<1>0. project.counted \in Nat /\ project.version \in Nat /\ clock \in Nat
  BY FileAssumption DEF TypeOK, Versions
<1>1. CASE EditProject
  <2>1. PICK noticed \in BOOLEAN :
          project' = [project EXCEPT !.version = clock + 1, !.dirty = @ \/ noticed,
                                     !.counted = IF noticed THEN clock + 1 ELSE @]
    BY <1>1 DEF EditProject
  <2>2. /\ project'.version = clock + 1 /\ clock' = clock + 1
        /\ project'.counted \in {project.counted, clock + 1}
    BY <1>1, <2>1 DEF EditProject, TypeOK
  <2>3. QED BY <1>0, <2>2
<1>2. CASE \/ OpenEditor \/ CloseEditor \/ Open \/ Close \/ Commit \/ Drop
           \/ \E p \in ProjectPaths : SaveProject(p)
  BY <1>2 DEF OpenEditor, CloseEditor, Open, Close, Commit, Drop, SaveProject, Begin
<1>3. CASE EditModel
  BY <1>0, <1>3 DEF EditModel
<1>4. CASE \E p \in ProjectPaths : LoadProject(p)
  <2>1. PICK p \in ProjectPaths : LoadProject(p)
    BY <1>4
  <2>2. project'.counted = 0 /\ project'.version = files[p].version /\ clock' = clock
    BY <2>1 DEF LoadProject
  <2>3. files[p].version \in Nat
    BY <2>1, PathFacts, FileAssumption DEF LoadProject, TypeOK, Contents, Versions
  <2>4. QED BY <1>0, <2>2, <2>3
<1>5. CASE Write \/ WriteSavePoint \/ MakeLink
  <2>1. /\ project'.counted = project.counted /\ project'.version = project.version
        /\ clock' = clock
    BY <1>5 DEF Write, WriteSavePoint, MakeLink, TypeOK
  <2>2. QED BY <2>1
<1>6. CASE Crash
  BY <1>0, <1>6 DEF Crash, NewProject
<1>7. CASE UNCHANGED vars
  BY <1>7 DEF vars
<1>8. QED BY <1>1, <1>2, <1>3, <1>4, <1>5, <1>6, <1>7 DEF Next, User, Writer

LEMMA SaveInit == Init => SaveIInv
<1> SUFFICES ASSUME Init PROVE SaveParts /\ CountedInv
  BY TypeInit DEF SaveIInv, SaveParts
<1>1. op.path \notin Paths /\ op.step = "open"
  BY PathFacts DEF Init, NoOp
<1>2. /\ project.path = NoPath /\ project.origin = NoPath
      /\ project.counted = 0 /\ project.version = 0 /\ logged = 0 /\ clock = 0
  BY DEF Init, NewProject
<1>3. SaveParts
  BY <1>1, <1>2, PathFacts
     DEF SaveParts, ProjectInProgress, SavePointHolds, BeforeSavePoint
<1>4. QED BY <1>2, <1>3 DEF CountedInv

\* A step that leaves the project, the log and the files alone, and goes to a step before the
\* write or to the drop.
LEMMA QuietSteps ==
  ASSUME SaveIInv, faults \subseteq faults',
         UNCHANGED <<files, project, logged>>,
         op'.path \in ProjectPaths /\ op'.step \in {"open", "write"} => ~op'.error,
         op'.step \in {"open", "write", "drop"},
         op.step # "link" \/ "link" \in faults', 
         ~BeforeSavePoint \/ faults' \cap {"close", "rename"} # {}
  PROVE  SaveParts'
BY DEF SaveIInv, SaveParts, ProjectInProgress, SavePointHolds, BeforeSavePoint

LEMMA UserKeepsSave ==
  ASSUME SaveIInv, User
  PROVE  SaveParts'
<1> USE PathFacts DEF SaveIInv, TypeIInv
<1>0. faults \subseteq faults'
  BY FaultsGrow DEF Next
<1>1. CASE EditProject
  <2>1. op = NoOp /\ op' = op /\ UNCHANGED <<files, logged, faults>>
    BY <1>1 DEF EditProject, Idle
  <2>2. PICK noticed \in BOOLEAN :
          project' = [project EXCEPT !.version = clock + 1, !.dirty = @ \/ noticed,
                                     !.counted = IF noticed THEN clock + 1 ELSE @]
    BY <1>1 DEF EditProject
  <2>3. project'.path = project.path /\ project'.origin = project.origin
        /\ project'.transient = project.transient
    BY <2>2 DEF TypeOK
  <2>4. ~project'.dirty => ~project.dirty /\ project'.counted = project.counted
    BY <2>2 DEF TypeOK
  <2>5. QED BY <2>1, <2>3, <2>4
     DEF SaveParts, ProjectInProgress, SavePointHolds, BeforeSavePoint, NoOp
<1>2. CASE OpenEditor \/ EditModel
  <2>1. op = NoOp /\ op' = op /\ UNCHANGED <<files, project, logged>>
    BY <1>2 DEF OpenEditor, EditModel, Idle
  <2>2. QED BY <1>0, <2>1, QuietSteps DEF BeforeSavePoint, NoOp
<1>3. ASSUME NEW p \in Paths, Begin(p) PROVE SaveParts'
  <2>1. op = NoOp /\ op' = [NoOp EXCEPT !.path = p] /\ UNCHANGED <<files, project, logged>>
    BY <1>3 DEF Begin, Idle
  <2>2. op'.step = "open" /\ ~op'.error /\ op.step = "open" /\ ~BeforeSavePoint
    BY <2>1 DEF NoOp, BeforeSavePoint
  <2>3. QED BY <1>0, <2>1, <2>2, QuietSteps
<1>4. ASSUME NEW p \in ProjectPaths, LoadProject(p) PROVE SaveParts'
  <2>1. PICK linked \in BOOLEAN :
          /\ project' = [version |-> files[p].version, dirty |-> FALSE, counted |-> 0,
                      path |-> p, origin |-> p,
                         transient |-> IF linked THEN files[p] ELSE NoFile]
          /\ Succeeds("link", linked)
    BY <1>4 DEF LoadProject
  <2>2. op = NoOp /\ op' = op /\ files' = files /\ logged' = files[p].version
    BY <1>4 DEF LoadProject, Idle
  <2>3. files[p] \in Contents /\ files[p].whole
    BY <1>4 DEF LoadProject, TypeOK
  <2>4. files[p] = Whole(logged')
    BY <2>2, <2>3 DEF Contents, Whole
  <2>5. "link" \notin faults' => project'.transient = Whole(logged')
    BY <2>1, <2>4 DEF Succeeds
  <2>6. project'.path = p /\ project'.origin = p /\ project'.counted <= logged'
    <3>1. files[p].version \in Nat
      BY <2>3, FileAssumption DEF Contents, Versions
    <3>2. project'.path = p /\ project'.origin = p /\ project'.counted = 0
      BY <2>1
    <3>3. QED BY <2>2, <3>1, <3>2
  <2>7. QED BY <2>2, <2>4, <2>5, <2>6
     DEF SaveParts, ProjectInProgress, SavePointHolds, BeforeSavePoint, NoOp
<1>5. QED BY <1>1, <1>2, <1>3, <1>4 DEF User, SaveProject, CloseEditor

LEMMA WriteKeepsSave ==
  ASSUME SaveIInv, Write
  PROVE  SaveParts'
<1> USE PathFacts DEF SaveIInv, TypeIInv
<1>0. faults \subseteq faults'
  BY FaultsGrow DEF Next, Writer
<1>1. op.path \in Paths /\ op.step = "write" /\ UNCHANGED <<files, logged>>
  BY DEF Write, At, TypeOK
<1>2. PICK outcome \in Outcomes, early \in BOOLEAN :
        LET good == ~Detected(outcome) /\ ~op.error
            stops == early /\ ~good /\ op.path = "nma"
        IN  /\ temps' = [temps EXCEPT ![op.path] =
                           [version |-> Version, whole |-> outcome = "whole"]]
            /\ IF good THEN Goto("close")
               ELSE op' = [op EXCEPT !.step = "drop",
                                     !.error = @ \/ outcome = "failed"]
            /\ project' = IF op.path \notin ProjectPaths THEN project
                          ELSE [project EXCEPT !.dirty = @ /\ stops,
                                               !.path = IF good THEN op.path ELSE @]
            /\ Succeeds("write", outcome = "whole")
  BY DEF Write
<1>3. op'.path = op.path /\ op'.step \in {"close", "drop"}
  BY <1>2 DEF Goto, TypeOK
<1>4. CASE op.path \notin ProjectPaths
  <2>1. project' = project
    BY <1>2, <1>4
  <2>2. QED BY <1>0, <1>1, <1>3, <1>4, <2>1
     DEF SaveParts, ProjectInProgress, SavePointHolds, BeforeSavePoint, Paths
<1>5. CASE op.path \in ProjectPaths /\ ~Detected(outcome)
  <2>1. ~op.error /\ outcome = "whole"
    BY <1>1, <1>5 DEF Outcomes, Detected, ProjectInProgress
  <2>2. op'.step = "close"
    BY <1>2, <1>5, <2>1 DEF Goto, TypeOK
  <2>3. PICK d \in BOOLEAN : project' = [project EXCEPT !.dirty = d, !.path = op.path]
    BY <1>2, <1>5, <2>1
  <2>4. project'.path = op.path /\ project'.version = project.version
        /\ project'.origin = project.origin /\ project'.transient = project.transient
    BY <2>3 DEF TypeOK
  <2>5. temps'[op.path] = Whole(project'.version)
    BY <1>1, <1>2, <1>5, <2>1, <2>4 DEF TypeOK, Version, Whole
  <2>6. QED BY <1>0, <1>1, <1>3, <1>5, <2>2, <2>4, <2>5
     DEF SaveParts, ProjectInProgress, SavePointHolds, BeforeSavePoint
<1>6. CASE op.path \in ProjectPaths /\ Detected(outcome)
  <2>1. outcome # "whole"
    BY <1>6 DEF Detected
  <2>2. "write" \in faults'
    BY <1>2, <2>1 DEF Succeeds
  <2>3. op'.step = "drop"
    BY <1>2, <1>6 DEF TypeOK
  <2>4. PICK d \in BOOLEAN : project' = [project EXCEPT !.dirty = d, !.path = project.path]
    BY <1>2, <1>6 DEF TypeOK
  <2>5. project'.path = project.path /\ project'.version = project.version
        /\ project'.origin = project.origin /\ project'.transient = project.transient
    BY <2>4 DEF TypeOK
  <2>6. QED BY <1>0, <1>1, <1>3, <1>6, <2>2, <2>3, <2>5
     DEF SaveParts, ProjectInProgress, SavePointHolds, BeforeSavePoint
<1>7. QED BY <1>4, <1>5, <1>6

LEMMA WriterKeepsSave ==
  ASSUME SaveIInv, Writer
  PROVE  SaveParts'
<1> USE PathFacts DEF SaveIInv, TypeIInv
<1>0. faults \subseteq faults'
  BY FaultsGrow DEF Next
<1>1. CASE Open
  <2>1. op.step = "open" /\ ~BeforeSavePoint /\ UNCHANGED <<files, project, logged, faults>>
    BY <1>1 DEF Open, At, BeforeSavePoint
  <2>2. CASE Goto("write") /\ ~Refused
    <3>1. op'.path = op.path /\ op'.step = "write" /\ op'.error = op.error
      BY <2>2, GoesOn DEF Steps, Goto, TypeOK
    <3>2. op'.path \in ProjectPaths => ~op'.error
      BY <2>1, <3>1 DEF ProjectInProgress
    <3>3. QED BY <1>0, <2>1, <3>1, <3>2, QuietSteps
  <2>3. CASE Fail("drop")
    <3>1. op'.step = "drop"
      BY <2>3, GoesOn DEF Steps
    <3>2. QED BY <1>0, <2>1, <3>1, QuietSteps
  <2>4. CASE op' = [After EXCEPT !.error = op.path = "backup"]
    <3>1. op'.step = "open" /\ op'.path \notin ProjectPaths
      BY <2>4 DEF After, NoOp
    <3>2. QED BY <1>0, <2>1, <3>1, QuietSteps
  <2>5. QED BY <1>1, <2>2, <2>3, <2>4 DEF Open
<1>2. CASE Write
  BY <1>2, WriteKeepsSave
<1>3. CASE Close
  <2>1. op.step = "close" /\ UNCHANGED <<files, temps, project, logged>>
    BY <1>3 DEF Close, At
  <2>2. CASE Goto("commit")
    <3>1. op'.path = op.path /\ op'.step = "commit"
      BY <2>2, GoesOn DEF Steps
    <3>2. QED BY <1>0, <2>1, <3>1
       DEF SaveParts, ProjectInProgress, SavePointHolds, BeforeSavePoint
  <2>3. CASE Fail("drop") /\ "close" \in faults'
    <3>1. op'.step = "drop"
      BY <2>3, GoesOn DEF Steps
    <3>2. QED BY <1>0, <2>1, <2>3, <3>1, QuietSteps
  <2>4. QED BY <1>3, <2>2, <2>3 DEF Close, Succeeds
<1>4. CASE Commit
  <2>1. op.path \in Paths /\ op.step = "commit" /\ UNCHANGED <<project, logged>>
    BY <1>4 DEF Commit, At, TypeOK
  <2>2. CASE Replaces /\ op.path \in ProjectPaths
    <3>1. op'.path = op.path /\ op'.step = "log"
      BY <2>2 DEF Replaces, Committed, TypeOK
    <3>2. files'[op.path] = Whole(project.version)
      BY <2>1, <2>2 DEF Replaces, TypeOK, ProjectInProgress
    <3>3. project.path = op.path
      BY <2>1, <2>2 DEF ProjectInProgress
    <3>4. QED BY <1>0, <2>1, <2>2, <3>1, <3>2, <3>3
       DEF SaveParts, ProjectInProgress, SavePointHolds, BeforeSavePoint
  <2>3. CASE Replaces /\ op.path \notin ProjectPaths
    <3>1. op'.path \notin ProjectPaths /\ op'.step = "open"
      BY <2>3 DEF Replaces, Committed, After, NoOp
    <3>2. \A p \in ProjectPaths : files'[p] = files[p]
      BY <2>1, <2>3 DEF Replaces, TypeOK
    <3>3. project.path \in ProjectPaths \cup {NoPath}
      BY DEF TypeOK
    <3>4. QED BY <1>0, <2>1, <2>3, <3>1, <3>2, <3>3
       DEF SaveParts, ProjectInProgress, SavePointHolds, BeforeSavePoint
  <2>4. CASE Fail("drop") /\ Succeeds("rename", FALSE) /\ UNCHANGED files
    <3>1. op'.step = "drop" /\ "rename" \in faults'
      BY <2>4, GoesOn DEF Steps, Succeeds
    <3>2. QED BY <1>0, <2>1, <2>4, <3>1, QuietSteps
  <2>5. QED BY <1>4, <2>2, <2>3, <2>4 DEF Commit, Replaces
<1>5. CASE Drop
  <2>1. op'.step = "open" /\ op'.path \notin ProjectPaths /\ UNCHANGED <<files, project, logged>>
        /\ op.step = "drop" /\ ~BeforeSavePoint
    BY <1>5 DEF Drop, At, After, NoOp, BeforeSavePoint
  <2>2. QED BY <1>0, <2>1, QuietSteps
<1>6. CASE WriteSavePoint
  <2>1. op.step = "log" /\ op.path \in ProjectPaths /\ UNCHANGED <<files, faults>>
        /\ logged' = project.version
    BY <1>6 DEF WriteSavePoint, At, Progress
  <2>2. op'.path = op.path /\ op'.step = "link"
    BY <1>6, GoesOn DEF WriteSavePoint, Steps
  <2>3. project'.path = project.path /\ project'.version = project.version
        /\ project'.origin = op.path /\ project'.counted <= project.version
    BY <1>6 DEF WriteSavePoint, TypeOK, CountedInv
  <2>4. QED BY <2>1, <2>2, <2>3
     DEF SaveParts, ProjectInProgress, SavePointHolds, BeforeSavePoint
<1>7. CASE MakeLink
  <2>1. op.step = "link" /\ op.path \in ProjectPaths /\ UNCHANGED <<files, logged>>
    BY <1>7 DEF MakeLink, At, Progress
  <2>2. op' = NoOp
    BY <1>7, <2>1 DEF MakeLink, After
  <2>3. PICK ok \in BOOLEAN :
          /\ project' = IF ok THEN [project EXCEPT !.transient = files[op.path]] ELSE project
          /\ Succeeds("link", ok)
    BY <1>7 DEF MakeLink
  <2>4. project'.path = project.path /\ project'.version = project.version
        /\ project'.origin = project.origin /\ project'.dirty = project.dirty
        /\ project'.counted = project.counted
    BY <2>3 DEF TypeOK
  <2>5. "link" \notin faults' => project'.transient = Whole(logged)
    BY <2>1, <2>3 DEF TypeOK, Succeeds, ProjectInProgress
  <2>6. QED BY <1>0, <2>1, <2>2, <2>4, <2>5
     DEF SaveParts, ProjectInProgress, SavePointHolds, BeforeSavePoint, NoOp
<1>8. QED BY <1>1, <1>2, <1>3, <1>4, <1>5, <1>6, <1>7 DEF Writer

LEMMA SaveNext == SaveIInv /\ [Next]_vars => SaveIInv'
<1> SUFFICES ASSUME SaveIInv, [Next]_vars PROVE SaveParts'
  BY TypeNext, CountedNext DEF SaveIInv, SaveParts
<1>1. CASE Crash
  <2>1. op' = NoOp /\ project' = NewProject /\ logged' = 0
    BY <1>1 DEF Crash
  <2>2. QED BY <2>1, PathFacts DEF SaveParts, ProjectInProgress, SavePointHolds,
          BeforeSavePoint, NoOp, NewProject
<1>2. CASE UNCHANGED vars
  BY <1>2 DEF vars, SaveIInv, SaveParts, ProjectInProgress, SavePointHolds,
              BeforeSavePoint
<1>3. QED BY <1>1, <1>2, UserKeepsSave, WriterKeepsSave DEF Next

\* Between saves the project, its file, the link to it and the last save point in the redo log
\* agree, whatever is edited, saved and loaded and whatever calls fail, a short write of a
\* model among them.
THEOREM SavePointsAgree == Spec => []SavePointAgrees
<1>1. SaveIInv => SavePointAgrees
  BY PathFacts DEF SaveIInv, SavePointHolds, BeforeSavePoint, SavePointAgrees, Idle, NoOp
<1>2. QED BY <1>1, SaveInit, SaveNext, PTL DEF Spec
=============================================================================
