---------------------------- MODULE UndoStackOps ----------------------------
(***************************************************************************)
(* The data structure of dependencies/undo/undo.c: an array of command     *)
(* pointers with the number of stored commands, the cursor between what    *)
(* is done and what can be redone, the index of the saved state and the    *)
(* soft limit at which the oldest command is dropped.  The operators are   *)
(* functions of a stack record, so that every module that owns stacks (the *)
(* library alone, or a project with one stack per model) shares them.      *)
(***************************************************************************)
EXTENDS Integers

CONSTANTS Command,     \* command objects, never NULL
          NULL,        \* an empty slot of the array
          HardLimit    \* UNDO_STACK_MAX_NUM

ASSUME NullAssumption == NULL \notin Command
ASSUME HardLimitAssumption == HardLimit \in Nat \ {0}

Slots == 0 .. HardLimit - 1

\* Every value the C structure can take.
Stack == [commands : [Slots -> Command \cup {NULL}],
          num_commands : 0 .. HardLimit,
          current_index : 0 .. HardLimit,
          saved_index : 0 .. HardLimit,
          is_dirty : BOOLEAN,
          soft_limit : 0 .. HardLimit]

CreateWithSoftLimit(limit) ==
  [commands |-> [i \in Slots |-> NULL],
   num_commands |-> 0, current_index |-> 0, saved_index |-> 0,
   is_dirty |-> FALSE, soft_limit |-> limit]

\* can_undo and can_redo are the default handlers, which always allow it.
CanPush(s) == s.current_index <= s.soft_limit
CanUndo(s) == s.current_index > 0
CanRedo(s) == s.current_index < s.num_commands

\* undoStackGetPtr gives the array only for an index below both counts.
Reachable(s, index) == index < s.num_commands /\ index < s.soft_limit

CommandToUndo(s) == s.commands[s.current_index - 1]
CommandToRedo(s) == s.commands[s.current_index]

MutUpdateDirty(s) == [s EXCEPT !.is_dirty = s.current_index # s.num_commands]

UpdateDirty(s) == [s EXCEPT !.is_dirty = s.current_index # s.saved_index]

-----------------------------------------------------------------------------
\* The three ways a pushed command finds its slot.
MutTruncates(s) == FALSE
Truncates(s) == s.current_index < s.num_commands
Evicts(s) == ~ Truncates(s) /\ s.current_index = s.soft_limit

MutTruncated(s, c) ==
  [s EXCEPT !.commands[s.current_index] = c,
            !.current_index = s.current_index + 1]

Truncated(s, c) ==
  [s EXCEPT !.commands =
              [i \in Slots |-> IF i = s.current_index THEN c
                               ELSE IF i > s.current_index /\ i < s.num_commands
                                    THEN NULL
                                    ELSE s.commands[i]],
            !.current_index = s.current_index + 1,
            !.num_commands = s.current_index + 1]

MutShifted(s, c) == [s EXCEPT !.commands[s.current_index - 1] = c]

Shifted(s, c) ==
  [s EXCEPT !.commands =
              [i \in Slots |-> IF i = s.current_index - 1 THEN c
                               ELSE IF i < s.current_index - 1
                                    THEN s.commands[i + 1]
                                    ELSE s.commands[i]]]

Appended(s, c) ==
  [s EXCEPT !.commands[s.current_index] = c,
            !.current_index = s.current_index + 1,
            !.num_commands = s.num_commands + 1]

\* undoStackPushCommand once the command has been persisted and redone.
Pushed(s, c) ==
  UpdateDirty(IF Truncates(s) THEN Truncated(s, c)
              ELSE IF Evicts(s) THEN Shifted(s, c)
              ELSE Appended(s, c))

\* The commands that push destroys to make room.
MutDestroyedByPush(s) ==
  IF Truncates(s)
  THEN {s.commands[i] : i \in {j \in Slots : s.current_index <= j /\ j < s.num_commands}}
  ELSE {}

DestroyedByPush(s) ==
  IF Truncates(s)
  THEN {s.commands[i] : i \in {j \in Slots : s.current_index <= j /\ j < s.num_commands}}
  ELSE IF Evicts(s) THEN {s.commands[0]} ELSE {}

Undone(s) == UpdateDirty([s EXCEPT !.current_index = s.current_index - 1])
Redone(s) == UpdateDirty([s EXCEPT !.current_index = s.current_index + 1])

Cleared(s) ==
  [s EXCEPT !.commands = [i \in Slots |-> IF i < s.num_commands THEN NULL
                                          ELSE s.commands[i]],
            !.num_commands = 0, !.current_index = 0, !.saved_index = 0,
            !.is_dirty = FALSE]

\* The commands the stack owns.
Stored(s) == {s.commands[i] : i \in {j \in Slots : j < s.num_commands}}
=============================================================================
