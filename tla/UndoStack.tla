------------------------------ MODULE UndoStack ------------------------------
(***************************************************************************)
(* One undo stack of dependencies/undo/undo.c together with the document   *)
(* its commands edit.  The callbacks of a command are those that           *)
(* emapp/src/command/BaseUndoCommand.cc installs: on_redo takes the        *)
(* document to the state the command stands for, on_undo takes it back to  *)
(* the state in which the command was created.                             *)
(*                                                                         *)
(* The document is a version number: 0 for the document as it was opened,  *)
(* n for the one that command n makes.  A callback that finds the document *)
(* in a state it was not recorded against leaves it Torn.                  *)
(***************************************************************************)
EXTENDS UndoStackOps

CONSTANTS SoftLimit,       \* limit given to undoStackCreateWithSoftLimit
          PersistResults   \* what on_persist_redo/undo may answer

\* Commands are numbered in the order they are created.
ASSUME CommandAssumption == Command \subseteq Nat \ {0}

ASSUME SoftLimitAssumption == SoftLimit \in 1 .. HardLimit
ASSUME PersistAssumption == PersistResults \in SUBSET BOOLEAN

VARIABLES stack,      \* the undo_stack_t
          document,   \* version of the document the commands edit
          before,     \* version each command was created against
          created,    \* number of commands created so far
          destroyed,  \* commands whose on_destroy has run
          clean,      \* version at creation or at the last clear
          loop        \* progress of undoStackSetOffset

vars == <<stack, document, before, created, destroyed, clean, loop>>

Torn == -1
Version == {Torn, 0} \cup Command
Idle == [dir |-> "none", i |-> 0, value |-> 0]
Loop == [dir : {"none", "redo", "undo"}, i : 0 .. HardLimit + 1, value : 0 .. HardLimit]

TypeOK ==
  /\ stack \in Stack
  /\ document \in Version
  /\ before \in [Command -> Version]
  /\ created \in {0} \cup Command
  /\ destroyed \in SUBSET Command
  /\ clean \in Version
  /\ loop \in Loop

Init ==
  /\ stack = CreateWithSoftLimit(SoftLimit)
  /\ document = 0
  /\ before = [c \in Command |-> 0]
  /\ created = 0
  /\ destroyed = {}
  /\ clean = 0
  /\ loop = Idle

-----------------------------------------------------------------------------
\* The effect of the callbacks on the document.
AfterRedo(c) == IF document = before[c] THEN c ELSE Torn
AfterUndo(c) == IF document = c THEN before[c] ELSE Torn

\* A command is created against the current document and pushed at once.
\* A push that is refused, by the limit or by the persistence callback,
\* neither stores nor destroys the command.
PushCommand(c, persisted) ==
  /\ loop = Idle
  /\ c = created + 1
  /\ created' = c
  /\ IF CanPush(stack) /\ persisted
     THEN /\ stack' = Pushed(stack, c)
          /\ document' = c
          /\ before' = [before EXCEPT ![c] = document]
          /\ destroyed' = destroyed \cup DestroyedByPush(stack)
     ELSE /\ before' = [before EXCEPT ![c] = document]
          /\ UNCHANGED <<stack, document, destroyed>>
  /\ UNCHANGED <<clean, loop>>

\* undoStackUndo: the cursor moves even if the callback refuses.
UndoOne(persisted) ==
  /\ CanUndo(stack)
  /\ Reachable(stack, stack.current_index - 1)
  /\ stack' = Undone(stack)
  /\ document' = IF persisted THEN AfterUndo(CommandToUndo(stack)) ELSE document
  /\ UNCHANGED <<before, created, destroyed, clean>>

RedoOne(persisted) ==
  /\ CanRedo(stack)
  /\ Reachable(stack, stack.current_index)
  /\ stack' = Redone(stack)
  /\ document' = IF persisted THEN AfterRedo(CommandToRedo(stack)) ELSE document
  /\ UNCHANGED <<before, created, destroyed, clean>>

Undo(persisted) == loop = Idle /\ UndoOne(persisted) /\ UNCHANGED loop
Redo(persisted) == loop = Idle /\ RedoOne(persisted) /\ UNCHANGED loop

Clear ==
  /\ loop = Idle
  /\ stack' = Cleared(stack)
  /\ destroyed' = destroyed \cup Stored(stack)
  /\ clean' = document
  /\ UNCHANGED <<document, before, created, loop>>

\* undoStackSetOffset: a loop of redos or of undos, one step per iteration.
SetOffset(value) ==
  /\ loop = Idle
  /\ value # stack.current_index
  /\ loop' = [dir |-> IF value > stack.current_index THEN "redo" ELSE "undo",
              i |-> stack.current_index, value |-> value]
  /\ UNCHANGED <<stack, document, before, created, destroyed, clean>>

RedoInLoop(persisted) ==
  /\ loop.dir = "redo"
  /\ loop.i <= loop.value
  /\ RedoOne(persisted)
  /\ loop' = [loop EXCEPT !.i = loop.i + 1]

UndoInLoop(persisted) ==
  /\ loop.dir = "undo"
  /\ loop.i > loop.value
  /\ UndoOne(persisted)
  /\ loop' = [loop EXCEPT !.i = loop.i - 1]

LoopDone ==
  /\ \/ loop.dir = "redo" /\ ~ (loop.i <= loop.value /\ CanRedo(stack))
     \/ loop.dir = "undo" /\ ~ (loop.i > loop.value /\ CanUndo(stack))
  /\ loop' = Idle
  /\ UNCHANGED <<stack, document, before, created, destroyed, clean>>

Next ==
  \/ \E c \in Command, ok \in PersistResults : PushCommand(c, ok)
  \/ \E ok \in PersistResults : Undo(ok)
  \/ \E ok \in PersistResults : Redo(ok)
  \/ Clear
  \/ \E value \in 0 .. SoftLimit : SetOffset(value)
  \/ \E ok \in PersistResults : RedoInLoop(ok)
  \/ \E ok \in PersistResults : UndoInLoop(ok)
  \/ LoopDone

Spec == Init /\ [][Next]_vars

-----------------------------------------------------------------------------
\* Version of the document before the oldest stored command.
Oldest == IF stack.num_commands = 0 THEN clean ELSE before[stack.commands[0]]

\* undo.c dereferences commands[current_index - 1] and commands[current_index]
\* without a null check: every slot below the count holds a command that has
\* not been destroyed, and no command is stored (and later destroyed) twice.
SlotsAreLive ==
  \A i \in Slots : i < stack.num_commands =>
    /\ stack.commands[i] \in Command
    /\ stack.commands[i] \notin destroyed
    /\ \A j \in Slots : j < i => stack.commands[j] # stack.commands[i]

\* The cursor and the document agree: the document is what the last command
\* below the cursor made of it, so no undo or redo ever meets a document it
\* was not recorded against, across truncation, eviction and offset changes.
DocumentAtCursor ==
  document = IF stack.current_index = 0 THEN Oldest
             ELSE stack.commands[stack.current_index - 1]

\* Every command that was created is owned by the stack or destroyed.
NoLeak == \A c \in Command : c <= created => c \in Stored(stack) \cup destroyed

\* The inductive invariant behind the properties above.  Fits: the counts are
\* in order.  Filled and Ordered: the stored commands exist, are alive and were
\* created in the order of their slots.  Chained: each one was recorded
\* against the version its predecessor makes.
Fits(s) ==
  /\ s.current_index <= s.num_commands
  /\ s.num_commands <= s.soft_limit
  /\ s.soft_limit >= 1

Shape ==
  /\ Fits(stack)
  /\ stack.soft_limit = SoftLimit
  /\ stack.saved_index = 0
  /\ stack.is_dirty <=> stack.current_index # 0
  /\ loop.dir # "none" => loop.i = stack.current_index /\ loop.value <= SoftLimit

Filled ==
  \A i \in Slots : i < stack.num_commands =>
    /\ stack.commands[i] \in Command
    /\ stack.commands[i] <= created
    /\ stack.commands[i] \notin destroyed

Ordered ==
  \A i, j \in Slots : i < j /\ j < stack.num_commands =>
    stack.commands[i] < stack.commands[j]

Chained ==
  \A i \in Slots : 0 < i /\ i < stack.num_commands =>
    before[stack.commands[i]] = stack.commands[i - 1]

DestroyedExisted == \A c \in destroyed : c <= created

IInv == TypeOK /\ Shape /\ Filled /\ Ordered /\ DestroyedExisted

VersionsGrow ==
  /\ clean <= created
  /\ \A i \in Slots : i < stack.num_commands =>
       /\ clean < stack.commands[i]
       /\ before[stack.commands[i]] < stack.commands[i]

DocumentIInv == IInv /\ Chained /\ VersionsGrow /\ DocumentAtCursor

\* As long as the oldest stored command starts from the clean document, the
\* dirty flag is exact: it is set iff the document differs from the clean one.
DirtyIsExact == Oldest = clean => (stack.is_dirty <=> document # clean)

\* The stack implements an edit history: push, undo, redo, clear and every
\* iteration of an offset change are its steps, and truncation, eviction and
\* the reuse of slots are invisible.
History == INSTANCE EditHistory WITH
  Edit <- Command,
  Limit <- SoftLimit,
  history <- [n \in 1 .. stack.num_commands |-> stack.commands[n - 1]],
  cursor <- stack.current_index,
  origin <- Oldest,
  version <- document

ImplementsEditHistory == History!Spec
=============================================================================
