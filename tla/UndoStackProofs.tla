--------------------------- MODULE UndoStackProofs ---------------------------
(***************************************************************************)
(* Proofs about UndoStack for every limit and every number of commands:    *)
(* it is sound, leaks nothing, and implements the edit history.            *)
(* The inductive invariant IInv says which slots are filled, in which      *)
(* order, and that each stored command was recorded against the version    *)
(* its predecessor makes.                                                  *)
(***************************************************************************)
EXTENDS UndoStack, SequenceTheorems, TLAPS

-----------------------------------------------------------------------------
(* What each way of filling a slot does to the fields of a stack.          *)

LEMMA DirtyFields ==
  ASSUME NEW s \in Stack, NEW t, t = UpdateDirty(s)
  PROVE  /\ t \in Stack
         /\ t.commands = s.commands
         /\ t.num_commands = s.num_commands
         /\ t.current_index = s.current_index
         /\ t.saved_index = s.saved_index
         /\ t.soft_limit = s.soft_limit
         /\ t.is_dirty = (s.current_index # s.saved_index)
BY DEF UpdateDirty, Stack

LEMMA TruncatedFields ==
  ASSUME NEW s \in Stack, NEW c \in Command, Fits(s), Truncates(s),
         NEW t, t = Truncated(s, c)
  PROVE  /\ t \in Stack
         /\ t.commands = [i \in Slots |-> IF i = s.current_index THEN c
                               ELSE IF i > s.current_index /\ i < s.num_commands
                                    THEN NULL
                                    ELSE s.commands[i]]
         /\ t.current_index = s.current_index + 1
         /\ t.num_commands = s.current_index + 1
         /\ t.saved_index = s.saved_index
         /\ t.soft_limit = s.soft_limit
<1> DEFINE cs == [i \in Slots |-> IF i = s.current_index THEN c
                               ELSE IF i > s.current_index /\ i < s.num_commands
                                    THEN NULL
                                    ELSE s.commands[i]]
<1>1. cs \in [Slots -> Command \cup {NULL}]
  BY DEF Stack
<1>2. s.current_index + 1 \in 0 .. HardLimit
  BY HardLimitAssumption DEF Stack, Truncates
<1> HIDE DEF cs
<1>3. Truncated(s, c) = [s EXCEPT !.commands = cs,
                                  !.current_index = s.current_index + 1,
                                  !.num_commands = s.current_index + 1]
  BY DEF Truncated, cs
<1>4. QED BY <1>1, <1>2, <1>3 DEF Stack, cs

LEMMA ShiftedFields ==
  ASSUME NEW s \in Stack, NEW c \in Command, Fits(s), Evicts(s),
         NEW t, t = Shifted(s, c)
  PROVE  /\ t \in Stack
         /\ t.commands = [i \in Slots |-> IF i = s.current_index - 1 THEN c
                               ELSE IF i < s.current_index - 1
                                    THEN s.commands[i + 1]
                                    ELSE s.commands[i]]
         /\ t.current_index = s.current_index
         /\ t.num_commands = s.current_index
         /\ t.saved_index = s.saved_index
         /\ t.soft_limit = s.soft_limit
<1> DEFINE cs == [i \in Slots |-> IF i = s.current_index - 1 THEN c
                               ELSE IF i < s.current_index - 1
                                    THEN s.commands[i + 1]
                                    ELSE s.commands[i]]
<1>1. cs \in [Slots -> Command \cup {NULL}]
  BY HardLimitAssumption DEF Stack, Slots, Evicts, Truncates, Fits
<1> HIDE DEF cs
<1>2. Shifted(s, c) = [s EXCEPT !.commands = cs]
  BY DEF Shifted, cs
<1>3. QED BY <1>1, <1>2 DEF Stack, cs, Evicts, Truncates, Fits

LEMMA AppendedFields ==
  ASSUME NEW s \in Stack, NEW c \in Command, Fits(s), ~ Truncates(s), ~ Evicts(s),
         NEW t, t = Appended(s, c)
  PROVE  /\ t \in Stack
         /\ t.commands = [i \in Slots |-> IF i = s.current_index THEN c
                                          ELSE s.commands[i]]
         /\ t.current_index = s.current_index + 1
         /\ t.num_commands = s.current_index + 1
         /\ t.saved_index = s.saved_index
         /\ t.soft_limit = s.soft_limit
<1> DEFINE cs == [i \in Slots |-> IF i = s.current_index THEN c
                                  ELSE s.commands[i]]
<1>1. cs \in [Slots -> Command \cup {NULL}]
  BY DEF Stack
<1>2. /\ s.num_commands = s.current_index
      /\ s.current_index + 1 \in 0 .. HardLimit
  BY HardLimitAssumption DEF Stack, Slots, Evicts, Truncates, Fits
<1>3. [s.commands EXCEPT ![s.current_index] = c] = cs
  BY DEF Stack
<1> HIDE DEF cs
<1>4. Appended(s, c) = [s EXCEPT !.commands = cs,
                                 !.current_index = s.current_index + 1,
                                 !.num_commands = s.num_commands + 1]
  BY <1>3 DEF Appended, Stack
<1>5. QED BY <1>1, <1>2, <1>4 DEF Stack, cs

\* The slots after a push, whichever way it went: the commands below the
\* cursor (without the oldest if it was evicted), then the new one.
LEMMA PushedFields ==
  ASSUME NEW s \in Stack, NEW c \in Command, Fits(s),
         NEW t, t = Pushed(s, c),
         NEW n, n = IF Evicts(s) THEN s.current_index - 1 ELSE s.current_index
  PROVE  /\ t \in Stack
         /\ Fits(t)
         /\ n \in Slots
         /\ t.current_index = n + 1
         /\ t.num_commands = n + 1
         /\ t.saved_index = s.saved_index
         /\ t.soft_limit = s.soft_limit
         /\ t.is_dirty = (n + 1 # s.saved_index)
         /\ t.commands[n] = c
         /\ \A i \in Slots : i < n =>
              t.commands[i] = s.commands[IF Evicts(s) THEN i + 1 ELSE i]
<1>1. CASE Truncates(s)
  <2>1. PICK u : u = Truncated(s, c)
    OBVIOUS
  <2>2. t = UpdateDirty(u)
    BY <1>1, <2>1 DEF Pushed
  <2>3. /\ u \in Stack
        /\ u.commands = [i \in Slots |-> IF i = s.current_index THEN c
                               ELSE IF i > s.current_index /\ i < s.num_commands
                                    THEN NULL
                                    ELSE s.commands[i]]
        /\ u.saved_index = s.saved_index
        /\ u.soft_limit = s.soft_limit
        /\ u.current_index = n + 1
        /\ u.num_commands = n + 1
    <3>1. s.current_index \in Int
      BY HardLimitAssumption DEF Stack
    <3>2. /\ u \in Stack
          /\ u.saved_index = s.saved_index
          /\ u.soft_limit = s.soft_limit
          /\ u.current_index = s.current_index + 1
          /\ u.num_commands = s.current_index + 1
      BY <1>1, <2>1, TruncatedFields
    <3>3. u.commands = [i \in Slots |-> IF i = s.current_index THEN c
                               ELSE IF i > s.current_index /\ i < s.num_commands
                                    THEN NULL
                                    ELSE s.commands[i]]
      BY <1>1, <2>1, TruncatedFields
    <3>4. QED BY <1>1, <3>1, <3>2, <3>3 DEF Truncates, Evicts
  <2>4. n \in Slots /\ n + 1 <= s.soft_limit
    BY <1>1, HardLimitAssumption DEF Fits, Truncates, Evicts, Stack, Slots
  <2>5. s.current_index \in Int /\ s.num_commands \in Int
    BY HardLimitAssumption DEF Stack
  <2>6. /\ u.commands[n] = c
        /\ \A i \in Slots : i < n =>
             u.commands[i] = s.commands[IF Evicts(s) THEN i + 1 ELSE i]
    BY <1>1, <2>3, <2>4, <2>5, HardLimitAssumption DEF Truncates, Evicts, Slots
  <2>7. /\ t \in Stack
        /\ t.commands = u.commands
        /\ t.num_commands = u.num_commands
        /\ t.current_index = u.current_index
        /\ t.saved_index = u.saved_index
        /\ t.soft_limit = u.soft_limit
        /\ t.is_dirty = (u.current_index # u.saved_index)
    BY <2>2, <2>3, DirtyFields
  <2>8. n \in Int /\ n >= 0
    BY <2>4, HardLimitAssumption DEF Slots
  <2>9. Fits(t)
    BY <2>3, <2>4, <2>7, <2>8 DEF Fits
  <2>10. QED BY <2>3, <2>4, <2>6, <2>7, <2>9
<1>2. CASE Evicts(s)
  <2>1. PICK u : u = Shifted(s, c)
    OBVIOUS
  <2>2. t = UpdateDirty(u)
    BY <1>2, <2>1 DEF Pushed, Evicts
  <2>3. /\ u \in Stack
        /\ u.commands = [i \in Slots |-> IF i = s.current_index - 1 THEN c
                               ELSE IF i < s.current_index - 1
                                    THEN s.commands[i + 1]
                                    ELSE s.commands[i]]
        /\ u.saved_index = s.saved_index
        /\ u.soft_limit = s.soft_limit
        /\ u.current_index = n + 1
        /\ u.num_commands = n + 1
    <3>1. s.current_index \in Int
      BY HardLimitAssumption DEF Stack
    <3>2. /\ u \in Stack
          /\ u.saved_index = s.saved_index
          /\ u.soft_limit = s.soft_limit
          /\ u.current_index = s.current_index
          /\ u.num_commands = s.current_index
      BY <1>2, <2>1, ShiftedFields
    <3>3. u.commands = [i \in Slots |-> IF i = s.current_index - 1 THEN c
                               ELSE IF i < s.current_index - 1
                                    THEN s.commands[i + 1]
                                    ELSE s.commands[i]]
      BY <1>2, <2>1, ShiftedFields
    <3>4. QED BY <1>2, <3>1, <3>2, <3>3
  <2>4. n \in Slots /\ n + 1 <= s.soft_limit
    BY <1>2, HardLimitAssumption DEF Fits, Truncates, Evicts, Stack, Slots
  <2>5. s.current_index \in Int /\ s.num_commands \in Int
    BY HardLimitAssumption DEF Stack
  <2>6. /\ u.commands[n] = c
        /\ \A i \in Slots : i < n =>
             u.commands[i] = s.commands[IF Evicts(s) THEN i + 1 ELSE i]
    BY <1>2, <2>3, <2>4, <2>5, HardLimitAssumption DEF Truncates, Evicts, Slots
  <2>7. /\ t \in Stack
        /\ t.commands = u.commands
        /\ t.num_commands = u.num_commands
        /\ t.current_index = u.current_index
        /\ t.saved_index = u.saved_index
        /\ t.soft_limit = u.soft_limit
        /\ t.is_dirty = (u.current_index # u.saved_index)
    BY <2>2, <2>3, DirtyFields
  <2>8. n \in Int /\ n >= 0
    BY <2>4, HardLimitAssumption DEF Slots
  <2>9. Fits(t)
    BY <2>3, <2>4, <2>7, <2>8 DEF Fits
  <2>10. QED BY <2>3, <2>4, <2>6, <2>7, <2>9
<1>3. CASE ~ Truncates(s) /\ ~ Evicts(s)
  <2>1. PICK u : u = Appended(s, c)
    OBVIOUS
  <2>2. t = UpdateDirty(u)
    BY <1>3, <2>1 DEF Pushed
  <2>3. /\ u \in Stack
        /\ u.commands = [i \in Slots |-> IF i = s.current_index THEN c
                               ELSE s.commands[i]]
        /\ u.saved_index = s.saved_index
        /\ u.soft_limit = s.soft_limit
        /\ u.current_index = n + 1
        /\ u.num_commands = n + 1
    <3>1. s.current_index \in Int
      BY HardLimitAssumption DEF Stack
    <3>2. /\ u \in Stack
          /\ u.saved_index = s.saved_index
          /\ u.soft_limit = s.soft_limit
          /\ u.current_index = s.current_index + 1
          /\ u.num_commands = s.current_index + 1
      BY <1>3, <2>1, AppendedFields
    <3>3. u.commands = [i \in Slots |-> IF i = s.current_index THEN c
                               ELSE s.commands[i]]
      BY <1>3, <2>1, AppendedFields
    <3>4. QED BY <1>3, <3>1, <3>2, <3>3
  <2>4. n \in Slots /\ n + 1 <= s.soft_limit
    BY <1>3, HardLimitAssumption DEF Fits, Truncates, Evicts, Stack, Slots
  <2>5. s.current_index \in Int /\ s.num_commands \in Int
    BY HardLimitAssumption DEF Stack
  <2>6. /\ u.commands[n] = c
        /\ \A i \in Slots : i < n =>
             u.commands[i] = s.commands[IF Evicts(s) THEN i + 1 ELSE i]
    BY <1>3, <2>3, <2>4, <2>5, HardLimitAssumption DEF Truncates, Evicts, Slots
  <2>7. /\ t \in Stack
        /\ t.commands = u.commands
        /\ t.num_commands = u.num_commands
        /\ t.current_index = u.current_index
        /\ t.saved_index = u.saved_index
        /\ t.soft_limit = u.soft_limit
        /\ t.is_dirty = (u.current_index # u.saved_index)
    BY <2>2, <2>3, DirtyFields
  <2>8. n \in Int /\ n >= 0
    BY <2>4, HardLimitAssumption DEF Slots
  <2>9. Fits(t)
    BY <2>3, <2>4, <2>7, <2>8 DEF Fits
  <2>10. QED BY <2>3, <2>4, <2>6, <2>7, <2>9
<1>4. QED BY <1>1, <1>2, <1>3

-----------------------------------------------------------------------------
LEMMA InitIInv == Init => IInv
<1> SUFFICES ASSUME Init PROVE IInv
  OBVIOUS
<1> USE HardLimitAssumption, SoftLimitAssumption
<1>1. stack \in Stack
  BY DEF Init, CreateWithSoftLimit, Stack, Slots
<1>2. loop \in Loop
  BY DEF Init, Idle, Loop
<1>3. TypeOK
  BY <1>1, <1>2 DEF TypeOK, Init, Version
<1>4. /\ stack.num_commands = 0
      /\ stack.current_index = 0
      /\ stack.saved_index = 0
      /\ stack.is_dirty = FALSE
      /\ stack.soft_limit = SoftLimit
      /\ loop.dir = "none"
  BY DEF Init, CreateWithSoftLimit, Idle
<1>5. Shape
  <2>1. SoftLimit \in Int /\ SoftLimit >= 1
    BY HardLimitAssumption
  <2>2. Fits(stack)
    BY ONLY <1>4, <2>1 DEF Fits
  <2>3. QED BY <1>4, <2>2 DEF Shape
<1>6. Filled /\ Ordered
  BY <1>4 DEF Filled, Ordered, Slots
<1>7. DestroyedExisted
  BY DEF DestroyedExisted, Init
<1>8. QED BY <1>3, <1>5, <1>6, <1>7 DEF IInv

LEMMA NumbersAreIntegers ==
  ASSUME TypeOK
  PROVE  /\ stack.current_index \in Int
         /\ stack.num_commands \in Int
         /\ stack.soft_limit \in Int
         /\ created \in Nat
         /\ \A c \in Command : c \in Nat /\ c > 0
         /\ Version \subseteq Int
BY HardLimitAssumption, CommandAssumption DEF TypeOK, Stack, Version, Torn

\* A push that is carried out keeps the commands below the cursor, in order
\* and without the oldest if that one is evicted, and stores the new one last.
LEMMA PushKeeps ==
  ASSUME IInv, NEW c \in Command, stack' = Pushed(stack, c)
  PROVE  \E n \in Slots :
           /\ n = (IF Evicts(stack) THEN stack.current_index - 1 ELSE stack.current_index)
           /\ stack' \in Stack
           /\ Fits(stack')
           /\ stack'.current_index = n + 1
           /\ stack'.num_commands = n + 1
           /\ stack'.saved_index = stack.saved_index
           /\ stack'.soft_limit = stack.soft_limit
           /\ stack'.is_dirty = (n + 1 # stack.saved_index)
           /\ stack'.commands[n] = c
           /\ n \in Nat
           /\ n <= stack.current_index
           /\ stack.current_index <= stack.num_commands
           /\ stack.current_index \in Int
           /\ stack.num_commands \in Int
           /\ \A i \in Slots : i < n =>
                \E k \in Slots :
                  /\ k < stack.current_index
                  /\ k < stack.num_commands
                  /\ k = (IF Evicts(stack) THEN i + 1 ELSE i)
                  /\ stack'.commands[i] = stack.commands[k]
                  /\ stack.commands[k] \notin DestroyedByPush(stack)
<1> USE HardLimitAssumption, SoftLimitAssumption DEF IInv
<1>2. stack \in Stack /\ Fits(stack)
  BY DEF TypeOK, Shape
<1>3. PICK n : n = IF Evicts(stack) THEN stack.current_index - 1 ELSE stack.current_index
  OBVIOUS
<1>4. /\ stack' \in Stack
      /\ Fits(stack')
      /\ n \in Slots
      /\ stack'.current_index = n + 1
      /\ stack'.num_commands = n + 1
      /\ stack'.saved_index = stack.saved_index
      /\ stack'.soft_limit = stack.soft_limit
      /\ stack'.is_dirty = (n + 1 # stack.saved_index)
      /\ stack'.commands[n] = c
      /\ \A i \in Slots : i < n =>
           stack'.commands[i] = stack.commands[IF Evicts(stack) THEN i + 1 ELSE i]
  BY <1>2, <1>3, PushedFields
<1>5. /\ n \in Nat
      /\ n <= stack.current_index
      /\ stack.current_index <= stack.num_commands
      /\ stack.num_commands <= HardLimit
      /\ stack.current_index \in Int
      /\ stack.num_commands \in Int
  BY <1>2, <1>3, <1>4 DEF Fits, Stack, Slots
<1>6. ASSUME NEW i \in Slots, i < n
      PROVE  \E k \in Slots : /\ k < stack.current_index
                            /\ k < stack.num_commands
                              /\ k = (IF Evicts(stack) THEN i + 1 ELSE i)
                              /\ stack'.commands[i] = stack.commands[k]
                              /\ stack.commands[k] \notin DestroyedByPush(stack)
  <2>1. PICK k : k = IF Evicts(stack) THEN i + 1 ELSE i
    OBVIOUS
  <2>2. /\ k \in Slots
        /\ k < stack.current_index
        /\ k < stack.num_commands
    BY <1>3, <1>5, <1>6, <2>1 DEF Slots
  <2>3. stack.commands[k] \notin DestroyedByPush(stack)
    <3>1. CASE Truncates(stack)
      <4>1. \A j \in Slots : stack.current_index <= j /\ j < stack.num_commands
              => stack.commands[k] < stack.commands[j]
        <5> SUFFICES ASSUME NEW j \in Slots, stack.current_index <= j,
                            j < stack.num_commands
                     PROVE  stack.commands[k] < stack.commands[j]
          OBVIOUS
        <5>1. k < j
          BY <2>2, <1>5 DEF Slots
        <5>2. QED BY <2>2, <5>1 DEF Ordered
      <4>2. \A j \in Slots : stack.current_index <= j /\ j < stack.num_commands
              => stack.commands[k] # stack.commands[j]
        BY <4>1, <2>2, NumbersAreIntegers DEF Filled
      <4>3. QED BY <3>1, <4>2 DEF DestroyedByPush
    <3>2. CASE Evicts(stack)
      <4>1. 0 \in Slots /\ 0 < k
        BY <2>1, <3>2 DEF Slots
      <4>2. stack.commands[0] < stack.commands[k]
        BY <4>1, <2>2 DEF Ordered
      <4>3. stack.commands[0] # stack.commands[k]
        BY <4>1, <4>2, <2>2, NumbersAreIntegers DEF Filled
      <4>4. QED BY <3>2, <4>3 DEF DestroyedByPush, Evicts
    <3>3. CASE ~ Truncates(stack) /\ ~ Evicts(stack)
      BY <3>3 DEF DestroyedByPush
    <3>4. QED BY <3>1, <3>2, <3>3
  <2>4. QED BY <1>4, <1>6, <2>1, <2>2, <2>3
<1>7. QED BY <1>3, <1>4, <1>5, <1>6

\* A push, carried out or refused.
LEMMA PushIInv ==
  ASSUME IInv, NEW c \in Command, NEW ok \in PersistResults, PushCommand(c, ok)
  PROVE  IInv'
<1> USE HardLimitAssumption, SoftLimitAssumption DEF IInv
<1>1. CASE CanPush(stack) /\ ok
  <2>1. /\ stack' = Pushed(stack, c)
        /\ created' = c
        /\ c = created + 1
        /\ document' = c
        /\ before' = [before EXCEPT ![c] = document]
        /\ destroyed' = destroyed \cup DestroyedByPush(stack)
        /\ clean' = clean
        /\ loop' = loop
        /\ loop = Idle
    BY <1>1 DEF PushCommand
  <2>2. PICK n \in Slots :
          /\ n = (IF Evicts(stack) THEN stack.current_index - 1 ELSE stack.current_index)
          /\ stack' \in Stack
          /\ Fits(stack')
          /\ stack'.current_index = n + 1
          /\ stack'.num_commands = n + 1
          /\ stack'.saved_index = stack.saved_index
          /\ stack'.soft_limit = stack.soft_limit
          /\ stack'.is_dirty = (n + 1 # stack.saved_index)
          /\ stack'.commands[n] = c
          /\ n \in Nat
          /\ n <= stack.current_index
          /\ stack.current_index <= stack.num_commands
          /\ stack.current_index \in Int
          /\ stack.num_commands \in Int
          /\ \A i \in Slots : i < n =>
               \E k \in Slots :
                 /\ k < stack.current_index
                 /\ k < stack.num_commands
                 /\ k = (IF Evicts(stack) THEN i + 1 ELSE i)
                 /\ stack'.commands[i] = stack.commands[k]
                 /\ stack.commands[k] \notin DestroyedByPush(stack)
    BY <2>1, PushKeeps
  <2>7. \A d \in DestroyedByPush(stack) : d \in Command /\ d <= created
    <3>1. CASE Truncates(stack)
      BY <3>1 DEF DestroyedByPush, Filled
    <3>2. CASE Evicts(stack)
      <4>1. 0 \in Slots /\ 0 < stack.num_commands
        BY <3>2, <2>2, NumbersAreIntegers DEF Slots, Evicts, Shape, Fits
      <4>2. QED BY <3>2, <4>1 DEF DestroyedByPush, Filled, Evicts
    <3>3. CASE ~ Truncates(stack) /\ ~ Evicts(stack)
      BY <3>3 DEF DestroyedByPush
    <3>4. QED BY <3>1, <3>2, <3>3
  <2>8. TypeOK'
    BY <2>1, <2>2, <2>7 DEF TypeOK, Version
  <2>9. Shape'
    BY <2>1, <2>2 DEF Shape, Idle
  <2>10. created \in Nat /\ c \in Nat /\ \A d \in Command : d \in Nat
    BY NumbersAreIntegers
  <2>11. DestroyedExisted'
    BY <2>1, <2>7, <2>10 DEF DestroyedExisted, TypeOK
  <2>12. c \notin destroyed'
    BY <2>1, <2>7, <2>10 DEF DestroyedExisted, TypeOK
  <2>13. Filled'
    <3> SUFFICES ASSUME NEW i \in Slots, i < n + 1
                 PROVE  /\ stack'.commands[i] \in Command
                        /\ stack'.commands[i] <= created'
                        /\ stack'.commands[i] \notin destroyed'
      BY <2>2 DEF Filled
    <3>1. CASE i = n
      BY <3>1, <2>1, <2>2, <2>10, <2>12
    <3>2. CASE i < n
      <4>1. PICK k \in Slots : /\ k < stack.num_commands
                               /\ stack'.commands[i] = stack.commands[k]
                               /\ stack.commands[k] \notin DestroyedByPush(stack)
        BY <2>2, <3>2
      <4>2. /\ stack.commands[k] \in Command
            /\ stack.commands[k] <= created
            /\ stack.commands[k] \notin destroyed
        BY <4>1 DEF Filled
      <4>3. stack.commands[k] \in Nat /\ created' = created + 1
        BY <4>2, <2>1, <2>10
      <4>4. stack.commands[k] <= created'
        BY ONLY <4>2, <4>3, <2>10
      <4>5. stack.commands[k] \notin destroyed'
        BY <4>1, <4>2, <2>1
      <4>6. QED BY <4>1, <4>2, <4>4, <4>5
    <3>3. QED BY <3>1, <3>2, <2>2 DEF Slots
  <2>14. Ordered'
    <3> SUFFICES ASSUME NEW i \in Slots, NEW j \in Slots, i < j, j < n + 1
                 PROVE  stack'.commands[i] < stack'.commands[j]
      BY <2>2 DEF Ordered
    <3>1. i < n
      BY <2>2 DEF Slots
    <3>2. PICK k \in Slots : /\ k < stack.num_commands
                             /\ k = (IF Evicts(stack) THEN i + 1 ELSE i)
                             /\ stack'.commands[i] = stack.commands[k]
      BY <2>2, <3>1
    <3>3. CASE j = n
      <4>1. stack.commands[k] \in Command /\ stack.commands[k] <= created
        BY <3>2 DEF Filled
      <4>2. stack.commands[k] \in Nat /\ c = created + 1
        BY <4>1, <2>1, <2>10
      <4>3. stack.commands[k] < c
        BY ONLY <4>1, <4>2, <2>10
      <4>4. QED BY <3>2, <3>3, <2>2, <4>3
    <3>4. CASE j < n
      <4>1. PICK l \in Slots : /\ l < stack.num_commands
                               /\ l = (IF Evicts(stack) THEN j + 1 ELSE j)
                               /\ stack'.commands[j] = stack.commands[l]
        BY <2>2, <3>4
      <4>2. k < l
        BY <3>2, <4>1 DEF Slots
      <4>3. QED BY <3>2, <4>1, <4>2 DEF Ordered
    <3>5. QED BY <3>3, <3>4, <2>2 DEF Slots
  <2>15. QED BY <2>8, <2>9, <2>11, <2>13, <2>14
<1>2. CASE ~ (CanPush(stack) /\ ok)
  <2>1. /\ UNCHANGED <<stack, destroyed, document, clean, loop>>
        /\ created' = c
        /\ c = created + 1
        /\ before' = [before EXCEPT ![c] = document]
    BY <1>2 DEF PushCommand
  <2>2. created \in Nat /\ c \in Nat /\ \A d \in Command : d \in Nat
    BY NumbersAreIntegers
  <2>3. TypeOK'
    BY <2>1 DEF TypeOK
  <2>4. Shape' /\ Ordered'
    BY <2>1 DEF Shape, Ordered
  <2>5. Filled'
    <3> SUFFICES ASSUME NEW i \in Slots, i < stack.num_commands
                 PROVE  /\ stack.commands[i] \in Command
                        /\ stack.commands[i] <= created'
                        /\ stack.commands[i] \notin destroyed
      BY <2>1 DEF Filled
    <3>1. /\ stack.commands[i] \in Command
          /\ stack.commands[i] <= created
          /\ stack.commands[i] \notin destroyed
      BY DEF Filled
    <3>2. created' = created + 1
      BY <2>1
    <3>3. stack.commands[i] \in Nat
      BY <3>1, <2>2
    <3>4. stack.commands[i] <= created'
      BY ONLY <3>1, <3>2, <3>3, <2>2
    <3>5. QED BY <3>1, <3>4
  <2>6. DestroyedExisted'
    BY <2>1, <2>2 DEF DestroyedExisted, TypeOK
  <2>7. QED BY <2>3, <2>4, <2>5, <2>6
<1>3. QED BY <1>1, <1>2

\* Moving the cursor changes nothing but the cursor and the dirty flag.
LEMMA CursorFields ==
  ASSUME NEW s \in Stack, NEW m \in 0 .. HardLimit, NEW t,
         t = UpdateDirty([s EXCEPT !.current_index = m])
  PROVE  /\ t \in Stack
         /\ t.commands = s.commands
         /\ t.num_commands = s.num_commands
         /\ t.current_index = m
         /\ t.saved_index = s.saved_index
         /\ t.soft_limit = s.soft_limit
         /\ t.is_dirty = (m # s.saved_index)
<1>1. PICK u : u = [s EXCEPT !.current_index = m]
  OBVIOUS
<1>2. /\ u \in Stack
      /\ u.commands = s.commands
      /\ u.num_commands = s.num_commands
      /\ u.current_index = m
      /\ u.saved_index = s.saved_index
      /\ u.soft_limit = s.soft_limit
  BY <1>1 DEF Stack
<1>3. QED BY <1>1, <1>2, DirtyFields

\* An undo or a redo, inside the loop of undoStackSetOffset or alone.
LEMMA MoveIInv ==
  ASSUME IInv, NEW m \in 0 .. stack.num_commands,
         stack' = UpdateDirty([stack EXCEPT !.current_index = m]),
         document' \in Version,
         UNCHANGED <<before, created, destroyed, clean>>,
         loop' \in Loop,
         loop'.dir # "none" => loop'.i = m /\ loop'.value <= SoftLimit
  PROVE  IInv'
<1> USE HardLimitAssumption, SoftLimitAssumption DEF IInv
<1>1. stack \in Stack /\ m \in 0 .. HardLimit
  BY DEF TypeOK, Stack
<1>2. /\ stack' \in Stack
      /\ stack'.commands = stack.commands
      /\ stack'.num_commands = stack.num_commands
      /\ stack'.current_index = m
      /\ stack'.saved_index = stack.saved_index
      /\ stack'.soft_limit = stack.soft_limit
      /\ stack'.is_dirty = (m # stack.saved_index)
  BY <1>1, CursorFields
<1>3. TypeOK'
  BY <1>2 DEF TypeOK
<1>4. Fits(stack')
  <2>1. m <= stack.num_commands
    BY <1>1 DEF Stack
  <2>2. QED BY <1>2, <2>1 DEF Shape, Fits
<1>5. Shape'
  BY <1>2, <1>4 DEF Shape
<1>6. Filled' /\ Ordered' /\ DestroyedExisted'
  BY <1>2 DEF Filled, Ordered, DestroyedExisted
<1>7. QED BY <1>3, <1>5, <1>6

\* What the callbacks leave is a version, torn or not.
LEMMA CallbackVersions ==
  ASSUME IInv
  PROVE  /\ CanUndo(stack) => AfterUndo(CommandToUndo(stack)) \in Version
         /\ CanRedo(stack) => AfterRedo(CommandToRedo(stack)) \in Version
<1> USE HardLimitAssumption DEF IInv
<1>1. ASSUME CanUndo(stack) PROVE CommandToUndo(stack) \in Command
  <2>1. /\ stack.current_index - 1 \in Slots
        /\ stack.current_index - 1 < stack.num_commands
    BY <1>1 DEF CanUndo, TypeOK, Stack, Slots, Shape, Fits
  <2>2. QED BY <2>1 DEF CommandToUndo, Filled
<1>2. ASSUME CanRedo(stack) PROVE CommandToRedo(stack) \in Command
  <2>1. stack.current_index \in Slots /\ stack.current_index < stack.num_commands
    BY <1>2 DEF CanRedo, TypeOK, Stack, Slots
  <2>2. QED BY <2>1 DEF CommandToRedo, Filled
<1>3. QED BY <1>1, <1>2 DEF AfterUndo, AfterRedo, Version, TypeOK

LEMMA UndoIInv ==
  ASSUME IInv, NEW ok \in PersistResults, UndoOne(ok),
         loop' \in Loop,
         loop'.dir # "none" => /\ loop'.i = stack.current_index - 1
                               /\ loop'.value <= SoftLimit
  PROVE  IInv'
<1>1. PICK m : m = stack.current_index - 1
  OBVIOUS
<1>2. m \in 0 .. stack.num_commands
  BY <1>1, HardLimitAssumption DEF UndoOne, CanUndo, IInv, TypeOK, Stack, Shape, Fits
<1>3. document' \in Version
  BY CallbackVersions DEF UndoOne, IInv, TypeOK
<1>4. QED BY <1>1, <1>2, <1>3, MoveIInv DEF UndoOne, Undone

LEMMA RedoIInv ==
  ASSUME IInv, NEW ok \in PersistResults, RedoOne(ok),
         loop' \in Loop,
         loop'.dir # "none" => /\ loop'.i = stack.current_index + 1
                               /\ loop'.value <= SoftLimit
  PROVE  IInv'
<1>1. PICK m : m = stack.current_index + 1
  OBVIOUS
<1>2. m \in 0 .. stack.num_commands
  BY <1>1, HardLimitAssumption DEF RedoOne, CanRedo, IInv, TypeOK, Stack, Shape, Fits
<1>3. document' \in Version
  BY CallbackVersions DEF RedoOne, IInv, TypeOK
<1>4. QED BY <1>1, <1>2, <1>3, MoveIInv DEF RedoOne, Redone

LEMMA ClearIInv ==
  ASSUME IInv, Clear
  PROVE  IInv'
<1> USE HardLimitAssumption, SoftLimitAssumption DEF IInv
<1>1. /\ stack' \in Stack
      /\ stack'.num_commands = 0
      /\ stack'.current_index = 0
      /\ stack'.saved_index = 0
      /\ stack'.is_dirty = FALSE
      /\ stack'.soft_limit = stack.soft_limit
  <2>1. stack \in Stack
    BY DEF TypeOK
  <2>2. PICK cs : cs = [i \in Slots |-> IF i < stack.num_commands THEN NULL
                                         ELSE stack.commands[i]]
    OBVIOUS
  <2>3. cs \in [Slots -> Command \cup {NULL}]
    BY <2>1, <2>2 DEF Stack
  <2>4. stack' = [stack EXCEPT !.commands = cs, !.num_commands = 0,
                    !.current_index = 0, !.saved_index = 0, !.is_dirty = FALSE]
    BY <2>2 DEF Clear, Cleared
  <2>5. 0 \in 0 .. HardLimit /\ FALSE \in BOOLEAN
    OBVIOUS
  <2>6. stack' = [commands |-> cs, num_commands |-> 0, current_index |-> 0,
                  saved_index |-> 0, is_dirty |-> FALSE,
                  soft_limit |-> stack.soft_limit]
    BY ONLY <2>1, <2>4 DEF Stack
  <2>7. stack.soft_limit \in 0 .. HardLimit
    BY <2>1 DEF Stack
  <2>8. QED BY ONLY <2>3, <2>5, <2>6, <2>7 DEF Stack
<1>2. /\ UNCHANGED <<document, before, created, loop>>
      /\ destroyed' = destroyed \cup Stored(stack)
      /\ clean' = document
      /\ loop = Idle
  BY DEF Clear
<1>3. \A d \in Stored(stack) : d \in Command /\ d <= created
  BY DEF Stored, Filled
<1>4. TypeOK'
  BY <1>1, <1>2, <1>3 DEF TypeOK
<1>5. Shape'
  <2>1. Fits(stack')
    BY <1>1 DEF Shape, Fits
  <2>2. QED BY <1>1, <1>2, <2>1 DEF Shape, Idle
<1>6. Filled' /\ Ordered'
  BY <1>1 DEF Filled, Ordered, Slots
<1>7. DestroyedExisted'
  BY <1>2, <1>3 DEF DestroyedExisted
<1>8. QED BY <1>4, <1>5, <1>6, <1>7

LEMMA NextIInv == IInv /\ [Next]_vars => IInv'
<1> SUFFICES ASSUME IInv, [Next]_vars PROVE IInv'
  OBVIOUS
<1> USE HardLimitAssumption, SoftLimitAssumption
<1>1. ASSUME NEW c \in Command, NEW ok \in PersistResults, PushCommand(c, ok)
      PROVE  IInv'
  BY <1>1, PushIInv
<1>2. ASSUME NEW ok \in PersistResults, Undo(ok) PROVE IInv'
  <2>1. loop' = Idle /\ UndoOne(ok)
    BY <1>2 DEF Undo
  <2>2. Idle \in Loop /\ Idle.dir = "none"
    BY DEF Idle, Loop
  <2>3. QED BY <2>1, <2>2, UndoIInv
<1>3. ASSUME NEW ok \in PersistResults, Redo(ok) PROVE IInv'
  <2>1. loop' = Idle /\ RedoOne(ok)
    BY <1>3 DEF Redo
  <2>2. Idle \in Loop /\ Idle.dir = "none"
    BY DEF Idle, Loop
  <2>3. QED BY <2>1, <2>2, RedoIInv
<1>4. CASE Clear
  BY <1>4, ClearIInv
<1>5. ASSUME NEW value \in 0 .. SoftLimit, SetOffset(value) PROVE IInv'
  <2>1. PICK dir \in {"redo", "undo"} :
          loop' = [dir |-> dir, i |-> stack.current_index, value |-> value]
    BY <1>5 DEF SetOffset
  <2>2. UNCHANGED <<stack, document, before, created, destroyed, clean>>
    BY <1>5 DEF SetOffset
  <2>3. loop' \in Loop /\ loop'.i = stack.current_index /\ loop'.value = value
    BY <2>1 DEF Loop, IInv, TypeOK, Stack
  <2>4. TypeOK'
    BY <2>2, <2>3 DEF IInv, TypeOK
  <2>5. Shape'
    BY <2>2, <2>3 DEF IInv, Shape
  <2>6. QED BY <2>2, <2>4, <2>5 DEF IInv, Filled, Ordered, DestroyedExisted
<1>6. ASSUME NEW ok \in PersistResults, RedoInLoop(ok) PROVE IInv'
  <2>1. /\ RedoOne(ok)
        /\ loop' = [loop EXCEPT !.i = loop.i + 1]
        /\ loop \in Loop
        /\ loop.i <= loop.value
        /\ loop.dir # "none"
    BY <1>6 DEF RedoInLoop, IInv, TypeOK
  <2>2. /\ loop' \in Loop
        /\ loop'.i = stack.current_index + 1
        /\ loop'.value <= SoftLimit
    BY <2>1 DEF Loop, IInv, Shape
  <2>3. QED BY <2>1, <2>2, RedoIInv
<1>7. ASSUME NEW ok \in PersistResults, UndoInLoop(ok) PROVE IInv'
  <2>1. /\ UndoOne(ok)
        /\ loop' = [loop EXCEPT !.i = loop.i - 1]
        /\ loop \in Loop
        /\ loop.i > loop.value
        /\ loop.dir # "none"
    BY <1>7 DEF UndoInLoop, IInv, TypeOK
  <2>2. /\ loop' \in Loop
        /\ loop'.i = stack.current_index - 1
        /\ loop'.value <= SoftLimit
    BY <2>1 DEF Loop, IInv, Shape
  <2>3. QED BY <2>1, <2>2, UndoIInv
<1>8. CASE LoopDone
  <2>1. loop' = Idle /\ UNCHANGED <<stack, document, before, created, destroyed, clean>>
    BY <1>8 DEF LoopDone
  <2>2. Idle \in Loop /\ Idle.dir = "none"
    BY DEF Idle, Loop
  <2>3. QED
    BY <2>1, <2>2 DEF IInv, TypeOK, Shape, Filled, Ordered, DestroyedExisted
<1>9. CASE UNCHANGED vars
  BY <1>9 DEF vars, IInv, TypeOK, Shape, Filled, Ordered, DestroyedExisted
<1>10. QED BY <1>1, <1>2, <1>3, <1>4, <1>5, <1>6, <1>7, <1>8, <1>9 DEF Next

\* Every reachable state has the type the C structure allows.
THEOREM TypeCorrect == Spec => []TypeOK
<1>1. IInv => TypeOK
  BY DEF IInv
<1>2. QED BY <1>1, InitIInv, NextIInv, PTL DEF Spec

\* No reachable stack holds an empty slot below its count, a destroyed
\* command or one command twice, whatever the persistence callbacks answer.
THEOREM SlotsAlwaysLive == Spec => []SlotsAreLive
<1>1. ASSUME IInv PROVE SlotsAreLive
  <2> SUFFICES ASSUME NEW i \in Slots, i < stack.num_commands
               PROVE  /\ stack.commands[i] \in Command
                      /\ stack.commands[i] \notin destroyed
                      /\ \A j \in Slots : j < i => stack.commands[j] # stack.commands[i]
    BY DEF SlotsAreLive
  <2>1. stack.commands[i] \in Command /\ stack.commands[i] \notin destroyed
    BY <1>1 DEF IInv, Filled
  <2>2. ASSUME NEW j \in Slots, j < i PROVE stack.commands[j] # stack.commands[i]
    <3>1. stack.commands[j] < stack.commands[i]
      BY <1>1, <2>2 DEF IInv, Ordered
    <3>2. stack.commands[i] \in Nat
      BY <1>1, <2>1, NumbersAreIntegers DEF IInv
    <3>3. QED BY <3>1, <3>2
  <2>3. QED BY <2>1, <2>2
<1>2. QED BY <1>1, InitIInv, NextIInv, PTL DEF Spec

-----------------------------------------------------------------------------
(* The document, when the persistence callbacks always answer 1, as those  *)
(* of BaseUndoCommand do.                                                  *)

LEMMA PersistAlways ==
  ASSUME PersistResults = {TRUE}, NEW ok \in PersistResults
  PROVE  ok = TRUE
OBVIOUS

LEMMA InitDocument == Init => DocumentIInv
<1> SUFFICES ASSUME Init PROVE DocumentIInv
  OBVIOUS
<1>1. IInv
  BY InitIInv
<1>2. /\ stack.num_commands = 0
      /\ stack.current_index = 0
      /\ document = 0
      /\ clean = 0
      /\ created = 0
  BY DEF Init, CreateWithSoftLimit
<1>3. Chained /\ VersionsGrow /\ DocumentAtCursor
  BY <1>2, HardLimitAssumption DEF Chained, VersionsGrow, DocumentAtCursor, Oldest, Slots
<1>4. QED BY <1>1, <1>3 DEF DocumentIInv

\* The document is a version that existed before the next command.
LEMMA DocumentExisted ==
  ASSUME DocumentIInv
  PROVE  document \in Int /\ document <= created /\ clean \in Int
<1>1. /\ IInv /\ TypeOK
      /\ document \in Int /\ clean \in Int /\ created \in Int
  BY NumbersAreIntegers DEF DocumentIInv, IInv, TypeOK
<1>2. CASE stack.current_index # 0
  <2>1. /\ stack.current_index - 1 \in Slots
        /\ stack.current_index - 1 < stack.num_commands
    BY <1>1, <1>2, HardLimitAssumption DEF IInv, TypeOK, Stack, Slots, Shape, Fits
  <2>2. QED BY <1>1, <1>2, <2>1 DEF DocumentIInv, DocumentAtCursor, IInv, Filled
<1>3. CASE stack.current_index = 0
  <2>1. document = Oldest
    BY <1>3 DEF DocumentIInv, DocumentAtCursor
  <2>2. CASE stack.num_commands = 0
    BY <1>1, <2>1, <2>2 DEF DocumentIInv, VersionsGrow, Oldest
  <2>3. CASE stack.num_commands # 0
    <3>1. 0 \in Slots /\ 0 < stack.num_commands
      BY <1>1, <2>3, HardLimitAssumption DEF TypeOK, Stack, Slots
    <3>2. /\ stack.commands[0] \in Command
          /\ stack.commands[0] <= created
          /\ before[stack.commands[0]] < stack.commands[0]
      BY <1>1, <3>1 DEF DocumentIInv, IInv, Filled, VersionsGrow
    <3>3. document = before[stack.commands[0]]
      BY <2>1, <2>3 DEF Oldest
    <3>4. stack.commands[0] \in Int
      BY <1>1, <3>2, NumbersAreIntegers
    <3>5. QED BY ONLY <1>1, <3>2, <3>3, <3>4
  <2>4. QED BY <2>2, <2>3
<1>4. QED BY <1>1, <1>2, <1>3

LEMMA PushDocument ==
  ASSUME DocumentIInv, PersistResults = {TRUE},
         NEW c \in Command, NEW ok \in PersistResults, PushCommand(c, ok)
  PROVE  DocumentIInv'
<1> USE HardLimitAssumption DEF DocumentIInv
<1>1. IInv'
  BY PushIInv
<1>2. CanPush(stack) /\ ok
  BY HardLimitAssumption DEF CanPush, IInv, TypeOK, Stack, Shape, Fits
<1>3. /\ stack' = Pushed(stack, c)
      /\ created' = c
      /\ c = created + 1
      /\ document' = c
      /\ before' = [before EXCEPT ![c] = document]
      /\ clean' = clean
  BY <1>2 DEF PushCommand
<1>4. PICK n \in Slots :
        /\ n = (IF Evicts(stack) THEN stack.current_index - 1 ELSE stack.current_index)
        /\ stack'.current_index = n + 1
        /\ stack'.num_commands = n + 1
        /\ stack'.commands[n] = c
        /\ n \in Nat
        /\ stack.current_index \in Int
        /\ stack.num_commands \in Int
        /\ \A i \in Slots : i < n =>
             \E k \in Slots :
               /\ k < stack.current_index
               /\ k < stack.num_commands
               /\ k = (IF Evicts(stack) THEN i + 1 ELSE i)
               /\ stack'.commands[i] = stack.commands[k]
  BY <1>3, PushKeeps
<1>5. /\ created \in Nat /\ c \in Nat /\ \A d \in Command : d \in Nat
      /\ document \in Int /\ document <= created /\ clean \in Int
      /\ before' \in [Command -> Version]
      /\ before \in [Command -> Version]
  BY <1>1, NumbersAreIntegers, DocumentExisted DEF IInv, TypeOK
<1>6. ASSUME NEW k \in Slots, k < stack.num_commands
      PROVE  /\ stack.commands[k] \in Command
             /\ stack.commands[k] # c
             /\ before'[stack.commands[k]] = before[stack.commands[k]]
  <2>1. stack.commands[k] \in Command /\ stack.commands[k] <= created
    BY <1>6 DEF IInv, Filled
  <2>2. stack.commands[k] \in Nat /\ c = created + 1
    BY <2>1, <1>3, <1>5
  <2>3. stack.commands[k] # c
    BY ONLY <2>1, <2>2, <1>5
  <2>4. QED BY <2>1, <2>3, <1>3, <1>5
<1>7. before'[c] = document
  BY <1>3, <1>5
<1>8. Chained'
  <2> SUFFICES ASSUME NEW i \in Slots, 0 < i, i < n + 1
               PROVE  before'[stack'.commands[i]] = stack'.commands[i - 1]
    BY <1>4 DEF Chained
  <2>1. i - 1 \in Slots /\ i - 1 < n
    BY <1>4 DEF Slots
  <2>2. PICK l \in Slots : /\ l < stack.current_index
                           /\ l < stack.num_commands
                           /\ l = (IF Evicts(stack) THEN i - 1 + 1 ELSE i - 1)
                           /\ stack'.commands[i - 1] = stack.commands[l]
    BY <1>4, <2>1
  <2>3. CASE i = n
    <3>1. l = stack.current_index - 1 /\ stack.current_index # 0
      BY <1>4, <2>2, <2>3 DEF Slots
    <3>2. document = stack.commands[l]
      BY <3>1 DEF DocumentAtCursor
    <3>3. QED BY <1>4, <1>7, <2>2, <2>3, <3>2
  <2>4. CASE i < n
    <3>1. PICK k \in Slots : /\ k < stack.num_commands
                             /\ k = (IF Evicts(stack) THEN i + 1 ELSE i)
                             /\ stack'.commands[i] = stack.commands[k]
      BY <1>4, <2>4
    <3>2. l = k - 1 /\ 0 < k
      BY <2>2, <3>1 DEF Slots
    <3>3. before[stack.commands[k]] = stack.commands[l]
      BY <3>1, <3>2 DEF Chained
    <3>4. QED BY <1>6, <2>2, <3>1, <3>3
  <2>5. QED BY <1>4, <2>3, <2>4 DEF Slots
<1>9. VersionsGrow'
  <2>1. clean' <= created'
    <3>1. clean <= created
      BY DEF VersionsGrow
    <3>2. QED BY <1>3, <1>5, <3>1
  <2>2. ASSUME NEW i \in Slots, i < n + 1
        PROVE  /\ clean < stack'.commands[i]
               /\ before'[stack'.commands[i]] < stack'.commands[i]
    <3>1. CASE i = n
      <4>1. clean <= created
        BY DEF VersionsGrow
      <4>2. clean < c /\ document < c
        BY ONLY <4>1, <1>3, <1>5
      <4>3. QED BY <1>4, <1>7, <3>1, <4>2
    <3>2. CASE i < n
      <4>1. PICK k \in Slots : /\ k < stack.num_commands
                               /\ stack'.commands[i] = stack.commands[k]
        BY <1>4, <3>2
      <4>2. /\ clean < stack.commands[k]
            /\ before[stack.commands[k]] < stack.commands[k]
        BY <4>1 DEF VersionsGrow
      <4>3. QED BY <1>6, <4>1, <4>2
    <3>3. QED BY <1>4, <2>2, <3>1, <3>2 DEF Slots
  <2>3. QED BY <1>3, <1>4, <2>1, <2>2 DEF VersionsGrow
<1>10. DocumentAtCursor'
  <2>1. stack'.current_index # 0 /\ stack'.current_index - 1 = n
    BY <1>4
  <2>2. QED BY <1>3, <1>4, <2>1 DEF DocumentAtCursor
<1>11. QED BY <1>1, <1>8, <1>9, <1>10

LEMMA UndoDocument ==
  ASSUME DocumentIInv, IInv', UndoOne(TRUE)
  PROVE  DocumentIInv'
<1> USE HardLimitAssumption DEF DocumentIInv
<1>1. stack \in Stack /\ stack.current_index - 1 \in 0 .. HardLimit
  BY DEF UndoOne, CanUndo, IInv, TypeOK, Stack
<1>2. /\ stack'.commands = stack.commands
      /\ stack'.num_commands = stack.num_commands
      /\ stack'.current_index = stack.current_index - 1
  BY <1>1, CursorFields DEF UndoOne, Undone
<1>3. UNCHANGED <<before, created, clean>>
  BY DEF UndoOne
<1>4. Chained' /\ VersionsGrow'
  BY <1>2, <1>3 DEF Chained, VersionsGrow
<1>5. Oldest' = Oldest
  BY <1>2, <1>3 DEF Oldest
<1>6. PICK k : k = stack.current_index - 1
  OBVIOUS
<1>7. k \in Slots /\ k < stack.num_commands
  BY <1>1, <1>6 DEF IInv, Shape, Fits, UndoOne, CanUndo, Stack, Slots
<1>8. document' = before[stack.commands[k]]
  <2>1. document = stack.commands[k]
    BY <1>1, <1>6 DEF DocumentAtCursor, UndoOne, CanUndo, Stack
  <2>2. QED BY <1>6, <2>1 DEF UndoOne, AfterUndo, CommandToUndo
<1>9. DocumentAtCursor'
  <2>1. CASE k = 0
    BY <1>2, <1>5, <1>6, <1>7, <1>8, <2>1 DEF DocumentAtCursor, Oldest
  <2>2. CASE k # 0
    <3>1. before[stack.commands[k]] = stack.commands[k - 1]
      BY <1>7, <2>2 DEF Chained, Slots
    <3>2. QED BY <1>2, <1>6, <1>8, <2>2, <3>1 DEF DocumentAtCursor
  <2>3. QED BY <2>1, <2>2
<1>10. QED BY <1>4, <1>9

LEMMA RedoDocument ==
  ASSUME DocumentIInv, IInv', RedoOne(TRUE)
  PROVE  DocumentIInv'
<1> USE HardLimitAssumption DEF DocumentIInv
<1>1. stack \in Stack /\ stack.current_index + 1 \in 0 .. HardLimit
  BY DEF RedoOne, CanRedo, IInv, TypeOK, Stack
<1>2. /\ stack'.commands = stack.commands
      /\ stack'.num_commands = stack.num_commands
      /\ stack'.current_index = stack.current_index + 1
  BY <1>1, CursorFields DEF RedoOne, Redone
<1>3. UNCHANGED <<before, created, clean>>
  BY DEF RedoOne
<1>4. Chained' /\ VersionsGrow'
  BY <1>2, <1>3 DEF Chained, VersionsGrow
<1>5. PICK k : k = stack.current_index
  OBVIOUS
<1>6. k \in Slots /\ k < stack.num_commands
  BY <1>1, <1>5 DEF RedoOne, CanRedo, Stack, Slots
<1>7. document = before[stack.commands[k]]
  <2>1. CASE k = 0
    BY <1>5, <1>6, <2>1 DEF DocumentAtCursor, Oldest
  <2>2. CASE k # 0
    <3>1. before[stack.commands[k]] = stack.commands[k - 1]
      BY <1>6, <2>2 DEF Chained, Slots
    <3>2. QED BY <1>5, <2>2, <3>1 DEF DocumentAtCursor
  <2>3. QED BY <2>1, <2>2
<1>8. document' = stack.commands[k]
  BY <1>5, <1>7 DEF RedoOne, AfterRedo, CommandToRedo
<1>9. DocumentAtCursor'
  <2>1. stack'.current_index # 0 /\ stack'.current_index - 1 = k
    BY <1>1, <1>2, <1>5 DEF Stack
  <2>2. QED BY <1>2, <1>8, <2>1 DEF DocumentAtCursor
<1>10. QED BY <1>4, <1>9

LEMMA ClearDocument ==
  ASSUME DocumentIInv, IInv', Clear
  PROVE  DocumentIInv'
<1> USE DEF DocumentIInv
<1>1. /\ UNCHANGED <<document, before, created>>
      /\ clean' = document
  BY DEF Clear
<1>2. stack'.num_commands = 0 /\ stack'.current_index = 0
  BY DEF Clear, Cleared, IInv, TypeOK, Stack
<1>3. Chained' /\ VersionsGrow'
  BY <1>1, <1>2, DocumentExisted, HardLimitAssumption DEF Chained, VersionsGrow, Slots
<1>4. DocumentAtCursor'
  BY <1>1, <1>2 DEF DocumentAtCursor, Oldest
<1>5. QED BY <1>3, <1>4

LEMMA NextDocument ==
  ASSUME PersistResults = {TRUE}
  PROVE  DocumentIInv /\ [Next]_vars => DocumentIInv'
<1> SUFFICES ASSUME DocumentIInv, [Next]_vars PROVE DocumentIInv'
  OBVIOUS
<1>1. IInv'
  BY NextIInv DEF DocumentIInv
<1>2. ASSUME NEW c \in Command, NEW ok \in PersistResults, PushCommand(c, ok)
      PROVE  DocumentIInv'
  BY <1>2, PushDocument
<1>3. ASSUME NEW ok \in PersistResults, Undo(ok) \/ UndoInLoop(ok)
      PROVE  DocumentIInv'
  <2>1. UndoOne(TRUE)
    BY <1>3, PersistAlways DEF Undo, UndoInLoop
  <2>2. QED BY <1>1, <2>1, UndoDocument
<1>4. ASSUME NEW ok \in PersistResults, Redo(ok) \/ RedoInLoop(ok)
      PROVE  DocumentIInv'
  <2>1. RedoOne(TRUE)
    BY <1>4, PersistAlways DEF Redo, RedoInLoop
  <2>2. QED BY <1>1, <2>1, RedoDocument
<1>5. CASE Clear
  BY <1>1, <1>5, ClearDocument
<1>6. CASE (\E value \in 0 .. SoftLimit : SetOffset(value)) \/ LoopDone \/ UNCHANGED vars
  <2>1. UNCHANGED <<stack, document, before, created, destroyed, clean>>
    BY <1>6 DEF SetOffset, LoopDone, vars
  <2>2. QED
    BY <1>1, <2>1 DEF DocumentIInv, Chained, VersionsGrow, DocumentAtCursor, Oldest
<1>7. QED BY <1>2, <1>3, <1>4, <1>5, <1>6 DEF Next

\* The document always is what the last command below the cursor made of it:
\* no undo or redo is applied to a document it was not recorded against.
THEOREM DocumentFollowsCursor ==
  ASSUME PersistResults = {TRUE}
  PROVE  Spec => []DocumentAtCursor
<1>1. DocumentIInv => DocumentAtCursor
  BY DEF DocumentIInv
<1>2. DocumentIInv /\ [Next]_vars => DocumentIInv'
  BY NextDocument
<1>3. QED BY <1>1, <1>2, InitDocument, PTL DEF Spec

\* The dirty flag tells whether the document differs from the clean one, as
\* long as no eviction has dropped the command that started from it.
THEOREM DirtyFlagExact ==
  ASSUME PersistResults = {TRUE}
  PROVE  Spec => []DirtyIsExact
<1>1. ASSUME DocumentIInv PROVE DirtyIsExact
  <2>1. CASE stack.current_index = 0
    BY <1>1, <2>1 DEF DocumentIInv, DocumentAtCursor, DirtyIsExact, IInv, Shape
  <2>2. CASE stack.current_index # 0
    <3>1. /\ stack.current_index - 1 \in Slots
          /\ stack.current_index - 1 < stack.num_commands
      BY <1>1, <2>2, HardLimitAssumption
      DEF DocumentIInv, IInv, TypeOK, Stack, Slots, Shape, Fits
    <3>2. clean < document
      BY <1>1, <2>2, <3>1 DEF DocumentIInv, VersionsGrow, DocumentAtCursor
    <3>3. clean # document
      BY <1>1, <3>2, DocumentExisted
    <3>4. QED BY <1>1, <2>2, <3>3 DEF DocumentIInv, IInv, Shape, DirtyIsExact
  <2>3. QED BY <2>1, <2>2
<1>2. DocumentIInv /\ [Next]_vars => DocumentIInv'
  BY NextDocument
<1>3. QED BY <1>1, <1>2, InitDocument, PTL DEF Spec

-----------------------------------------------------------------------------
(* The commands the stack owns.                                             *)

\* A push loses no command: those that were stored are stored or destroyed.
LEMMA PushLosesNone ==
  ASSUME IInv, NEW c \in Command, stack' = Pushed(stack, c)
  PROVE  Stored(stack) \cup {c} \subseteq Stored(stack') \cup DestroyedByPush(stack)
<1> USE HardLimitAssumption DEF IInv
<1>1. PICK n \in Slots :
        /\ n = (IF Evicts(stack) THEN stack.current_index - 1 ELSE stack.current_index)
        /\ stack'.num_commands = n + 1
        /\ stack'.commands[n] = c
        /\ n \in Nat
        /\ stack.current_index <= stack.num_commands
        /\ stack.current_index \in Int
        /\ stack.num_commands \in Int
        /\ \A i \in Slots : i < n =>
             \E k \in Slots :
               /\ k = (IF Evicts(stack) THEN i + 1 ELSE i)
               /\ stack'.commands[i] = stack.commands[k]
  BY PushKeeps
<1>2. c \in Stored(stack')
  BY <1>1 DEF Stored
<1>3. ASSUME NEW k \in Slots, k < stack.num_commands
      PROVE  stack.commands[k] \in Stored(stack') \cup DestroyedByPush(stack)
  <2>1. CASE Truncates(stack)
    <3>1. ~ Evicts(stack) /\ n = stack.current_index
      BY <1>1, <2>1 DEF Evicts
    <3>2. CASE k < n
      <4>1. stack'.commands[k] = stack.commands[k]
        BY <1>1, <3>1, <3>2
      <4>2. k < stack'.num_commands
        BY <1>1, <3>2 DEF Slots
      <4>3. QED BY <4>1, <4>2 DEF Stored
    <3>3. CASE n <= k
      BY <1>3, <2>1, <3>1, <3>3 DEF DestroyedByPush
    <3>4. QED BY <1>1, <3>2, <3>3 DEF Slots
  <2>2. CASE Evicts(stack)
    <3>1. stack.num_commands = n + 1
      BY <1>1, <2>2 DEF Evicts, Truncates
    <3>2. CASE k = 0
      BY <2>2, <3>2 DEF DestroyedByPush, Evicts
    <3>3. CASE k # 0
      <4>1. k - 1 \in Slots /\ k - 1 < n
        BY <1>1, <1>3, <3>1, <3>3 DEF Slots
      <4>2. stack'.commands[k - 1] = stack.commands[k]
        BY <1>1, <2>2, <4>1 DEF Slots
      <4>3. k - 1 < stack'.num_commands
        BY <1>1, <4>1 DEF Slots
      <4>4. QED BY <4>1, <4>2, <4>3 DEF Stored
    <3>4. QED BY <3>2, <3>3
  <2>3. CASE ~ Truncates(stack) /\ ~ Evicts(stack)
    <3>1. k < n
      BY <1>1, <1>3, <2>3 DEF Truncates
    <3>2. stack'.commands[k] = stack.commands[k]
      BY <1>1, <2>3, <3>1
    <3>3. k < stack'.num_commands
      BY <1>1, <3>1 DEF Slots
    <3>4. QED BY <3>2, <3>3 DEF Stored
  <2>4. QED BY <2>1, <2>2, <2>3
<1>4. QED BY <1>2, <1>3 DEF Stored

\* Every command that was created is stored or destroyed, if no persistence
\* callback refuses: undoing, evicting, truncating and clearing leak none.
THEOREM NothingLeaks ==
  ASSUME PersistResults = {TRUE}
  PROVE  Spec => []NoLeak
<1>1. Init => NoLeak
  BY CommandAssumption DEF Init, NoLeak
<1>2. ASSUME IInv, NoLeak, [Next]_vars PROVE NoLeak'
  <2>1. ASSUME NEW c \in Command, NEW ok \in PersistResults, PushCommand(c, ok) PROVE NoLeak'
    <3>1. CanPush(stack) /\ ok
      BY <1>2, HardLimitAssumption DEF CanPush, IInv, TypeOK, Stack, Shape, Fits
    <3>2. /\ stack' = Pushed(stack, c)
          /\ created' = c /\ c = created + 1
          /\ destroyed' = destroyed \cup DestroyedByPush(stack)
      BY <2>1, <3>1 DEF PushCommand
    <3>3. Stored(stack) \cup {c} \subseteq Stored(stack') \cup DestroyedByPush(stack)
      BY <1>2, <3>2, PushLosesNone
    <3>4. created \in Nat /\ \A d \in Command : d \in Nat
      BY <1>2, NumbersAreIntegers DEF IInv
    <3>5. \A d \in Command : d <= created' => d = c \/ d <= created
      BY <3>2, <3>4
    <3>6. QED BY <1>2, <3>2, <3>3, <3>5 DEF NoLeak
  <2>2. ASSUME NEW ok \in PersistResults, UndoOne(ok) \/ RedoOne(ok) PROVE NoLeak'
    <3>1. stack \in Stack /\ UNCHANGED <<created, destroyed>>
      BY <1>2, <2>2 DEF IInv, TypeOK, UndoOne, RedoOne
    <3>2. stack'.commands = stack.commands /\ stack'.num_commands = stack.num_commands
      BY <2>2, <3>1 DEF UndoOne, RedoOne, Undone, Redone, UpdateDirty, Stack
    <3>3. QED BY <1>2, <3>1, <3>2 DEF NoLeak, Stored
  <2>3. CASE Clear
    BY <1>2, <2>3 DEF Clear, NoLeak
  <2>4. CASE (\E value \in 0 .. SoftLimit : SetOffset(value)) \/ LoopDone \/ UNCHANGED vars
    BY <1>2, <2>4 DEF SetOffset, LoopDone, vars, NoLeak
  <2>5. QED BY <1>2, <2>1, <2>2, <2>3, <2>4 DEF Next, Undo, Redo, UndoInLoop, RedoInLoop
<1>3. QED BY <1>1, <1>2, InitIInv, NextIInv, PTL DEF Spec

-----------------------------------------------------------------------------
(* The stack refines the edit history.                                      *)

\* The history as the abstract specification sees it.
Edits(s) == [n \in 1 .. s.num_commands |-> s.commands[n - 1]]

LEMMA EditsSequence ==
  ASSUME NEW s \in Stack, \A i \in Slots : i < s.num_commands => s.commands[i] \in Command
  PROVE  /\ Edits(s) \in Seq(Command)
         /\ Len(Edits(s)) = s.num_commands
         /\ \A n \in 1 .. s.num_commands : /\ n - 1 \in Slots /\ n - 1 < s.num_commands
                                           /\ Edits(s)[n] = s.commands[n - 1]
<1>1. s.num_commands \in Nat /\ s.num_commands <= HardLimit
  BY HardLimitAssumption DEF Stack
<1>2. \A n \in 1 .. s.num_commands : n - 1 \in Slots /\ n - 1 < s.num_commands
  BY <1>1, HardLimitAssumption DEF Slots
<1>3. Edits(s) \in [1 .. s.num_commands -> Command]
  BY <1>2 DEF Edits
<1>4. Edits(s) \in Seq(Command)
  BY <1>1, <1>3, SeqDef
<1>5. DOMAIN Edits(s) = 1 .. s.num_commands
  BY DEF Edits
<1>6. Len(Edits(s)) = s.num_commands
  BY <1>1, <1>4, <1>5, LenProperties
<1>7. QED BY <1>2, <1>4, <1>6 DEF Edits

LEMMA InitHistory == Init => History!Init
<1> SUFFICES ASSUME Init PROVE History!Init
  OBVIOUS
<1>1. stack.num_commands = 0 /\ stack.current_index = 0 /\ document = 0 /\ clean = 0
  BY DEF Init, CreateWithSoftLimit
<1>2. Edits(stack) = <<>>
  BY <1>1 DEF Edits
<1>3. QED BY <1>1, <1>2 DEF History!Init, Oldest, Edits

\* A push is a new edit: what could be redone is forgotten, and when the limit
\* is reached the oldest edit becomes the origin.
LEMMA PushIsNewEdit ==
  ASSUME DocumentIInv, PersistResults = {TRUE},
         NEW c \in Command, NEW ok \in PersistResults, PushCommand(c, ok)
  PROVE  History!NewEdit(c)
<1> USE HardLimitAssumption DEF DocumentIInv
<1>1. DocumentIInv'
  BY PushDocument
<1>2. CanPush(stack) /\ ok
  BY DEF CanPush, IInv, TypeOK, Stack, Shape, Fits
<1>3. /\ stack' = Pushed(stack, c)
      /\ c = created + 1
      /\ document' = c
      /\ before' = [before EXCEPT ![c] = document]
      /\ clean' = clean
  BY <1>2 DEF PushCommand
<1>4. PICK n \in Slots :
        /\ n = (IF Evicts(stack) THEN stack.current_index - 1 ELSE stack.current_index)
        /\ stack' \in Stack
        /\ Fits(stack')
        /\ stack'.current_index = n + 1
        /\ stack'.num_commands = n + 1
        /\ stack'.soft_limit = stack.soft_limit
        /\ stack'.commands[n] = c
        /\ n \in Nat
        /\ stack.current_index <= stack.num_commands
        /\ stack.current_index \in Int
        /\ stack.num_commands \in Int
        /\ \A i \in Slots : i < n =>
             \E k \in Slots :
               /\ k < stack.current_index
               /\ k < stack.num_commands
               /\ k = (IF Evicts(stack) THEN i + 1 ELSE i)
               /\ stack'.commands[i] = stack.commands[k]
  BY <1>3, PushKeeps
<1> DEFINE before_ == Edits(stack)
           after   == Edits(stack')
           cursor  == stack.current_index
           undone  == SubSeq(before_, 1, cursor)
           kept    == Append(undone, c)
<1>5. /\ stack \in Stack /\ stack.soft_limit = SoftLimit
      /\ \A i \in Slots : i < stack.num_commands => /\ stack.commands[i] \in Command
                                                    /\ stack.commands[i] <= created
      /\ \A i \in Slots : i < stack'.num_commands => stack'.commands[i] \in Command
      /\ before \in [Command -> Version]
  BY <1>1 DEF IInv, TypeOK, Shape, Filled
<1>6. /\ before_ \in Seq(Command) /\ Len(before_) = stack.num_commands
      /\ \A m \in 1 .. stack.num_commands : /\ m - 1 \in Slots /\ m - 1 < stack.num_commands
                                            /\ before_[m] = stack.commands[m - 1]
  BY <1>5, EditsSequence
<1>7. /\ after \in Seq(Command) /\ Len(after) = n + 1
      /\ \A m \in 1 .. n + 1 : m - 1 \in Slots /\ after[m] = stack'.commands[m - 1]
  BY <1>4, <1>5, EditsSequence
<1>8. created \in Nat /\ c \in Nat /\ \A d \in Command : d \in Nat
  BY NumbersAreIntegers DEF IInv
<1> HIDE DEF before_, after, undone, kept
<1>9. \A m \in 1 .. Len(before_) : before_[m] # c
  BY <1>3, <1>5, <1>6, <1>8
<1>10. cursor \in Nat /\ cursor <= Len(before_)
  BY <1>4, <1>5, <1>6 DEF Stack
<1>11. /\ undone \in Seq(Command) /\ Len(undone) = cursor
       /\ \A m \in 1 .. cursor : undone[m] = before_[m]
  <2>1. \A m \in 1 .. cursor : before_[m] \in Command
    BY <1>6, <1>10, ElementOfSeq
  <2>2. QED BY <2>1, <1>10, SubSeqProperties DEF undone
<1>12. /\ kept \in Seq(Command) /\ Len(kept) = cursor + 1
       /\ \A m \in 1 .. cursor : kept[m] = before_[m]
       /\ kept[cursor + 1] = c
  BY <1>10, <1>11, AppendProperties DEF kept
<1>13. /\ kept # <<>>
       /\ n + 1 <= SoftLimit
       /\ before'[c] = document
       /\ \A k \in Slots : k < stack.num_commands => before'[stack.commands[k]] = before[stack.commands[k]]
  <2>1. kept # <<>>
    BY <1>10, <1>12, EmptySeq
  <2>2. n + 1 <= SoftLimit
    BY <1>4, <1>5 DEF Fits
  <2>3. \A k \in Slots : k < stack.num_commands => stack.commands[k] # c
    BY <1>3, <1>5, <1>8
  <2>4. QED BY <2>1, <2>2, <2>3, <1>3, <1>5
<1>14. Oldest' = before'[stack'.commands[0]]
  BY <1>4 DEF Oldest
<1>15. CASE ~ Evicts(stack)
  <2>1. n = cursor /\ Len(kept) <= SoftLimit
    BY <1>4, <1>12, <1>13, <1>15
  <2>2. \A m \in 1 .. n + 1 : after[m] = kept[m]
    <3> SUFFICES ASSUME NEW m \in 1 .. n + 1 PROVE after[m] = kept[m]
      OBVIOUS
    <3>1. CASE m = n + 1
      BY <1>4, <1>7, <1>12, <2>1, <3>1
    <3>2. CASE m # n + 1
      <4>1. m \in 1 .. n /\ m \in 1 .. cursor /\ m - 1 \in Slots /\ m - 1 < n
        BY <1>4, <1>7, <2>1, <3>2
      <4>2. stack'.commands[m - 1] = stack.commands[m - 1]
        BY <1>4, <1>15, <4>1
      <4>3. before_[m] = stack.commands[m - 1]
        BY <1>6, <1>10, <4>1
      <4>4. QED BY <1>7, <1>12, <4>1, <4>2, <4>3
    <3>3. QED BY <3>1, <3>2
  <2>3. after = kept
    BY <1>7, <1>12, <2>1, <2>2, SeqEqual
  <2>4. Oldest' = Oldest
    <3>1. CASE cursor = 0
      <4>1. before'[stack'.commands[0]] = document
        BY <1>4, <1>13, <2>1, <3>1
      <4>2. QED BY <1>14, <3>1, <4>1 DEF DocumentAtCursor
    <3>2. CASE cursor # 0
      <4>1. 0 \in Slots /\ 0 < n
        BY <1>4, <2>1, <3>2 DEF Slots
      <4>2. stack'.commands[0] = stack.commands[0] /\ 0 < stack.num_commands
        BY <1>4, <1>15, <4>1
      <4>3. QED BY <1>13, <1>14, <4>1, <4>2 DEF Oldest
    <3>3. QED BY <3>1, <3>2
  <2>5. cursor' = Len(after)
    BY <1>4, <1>7
  <2>6. QED
    BY <1>3, <1>9, <2>1, <2>3, <2>4, <2>5
    DEF History!NewEdit, kept, undone, after, before_, Edits
<1>16. CASE Evicts(stack)
  <2>1. n + 1 = cursor /\ cursor = stack.num_commands /\ cursor = SoftLimit /\ ~ (Len(kept) <= SoftLimit)
    BY <1>4, <1>5, <1>12, <1>16 DEF Evicts, Truncates
  <2>2. Tail(kept) \in Seq(Command) /\ Len(Tail(kept)) = n + 1
        /\ \A m \in 1 .. n + 1 : Tail(kept)[m] = kept[m + 1]
    <3>1. Tail(kept) \in Seq(Command) /\ Len(Tail(kept)) = Len(kept) - 1
          /\ \A m \in 1 .. Len(Tail(kept)) : Tail(kept)[m] = kept[m + 1]
      BY <1>12, <1>13, HeadTailProperties
    <3>2. Len(kept) - 1 = n + 1
      BY <1>4, <1>12, <2>1
    <3>3. QED BY <3>1, <3>2
  <2>3. \A m \in 1 .. n + 1 : after[m] = Tail(kept)[m]
    <3> SUFFICES ASSUME NEW m \in 1 .. n + 1 PROVE after[m] = Tail(kept)[m]
      OBVIOUS
    <3>1. CASE m = n + 1
      BY <1>4, <1>7, <1>12, <2>1, <2>2, <3>1
    <3>2. CASE m # n + 1
      <4>1. m \in 1 .. n /\ m + 1 \in 1 .. cursor /\ m - 1 \in Slots /\ m - 1 < n
        BY <1>4, <1>7, <2>1, <3>2
      <4>2. stack'.commands[m - 1] = stack.commands[m]
        <5>1. m - 1 + 1 = m
          BY <4>1
        <5>2. QED BY <1>4, <1>16, <4>1, <5>1
      <4>3. before_[m + 1] = stack.commands[m]
        <5>1. m + 1 - 1 = m
          BY <4>1
        <5>2. QED BY <1>6, <2>1, <4>1, <5>1
      <4>4. QED BY <1>7, <1>12, <2>2, <4>1, <4>2, <4>3
    <3>3. QED BY <3>1, <3>2
  <2>4. after = Tail(kept)
    BY <1>4, <1>7, <2>2, <2>3, SeqEqual
  <2>5. Head(kept) = stack.commands[0] /\ 0 \in Slots /\ 0 < stack.num_commands
    <3>1. 1 \in 1 .. cursor
      BY <1>4, <2>1
    <3>2. kept[1] = before_[1] /\ before_[1] = stack.commands[1 - 1] /\ 1 - 1 \in Slots
      BY <1>6, <1>12, <2>1, <3>1
    <3>3. Head(kept) = kept[1]
      BY <1>12, <1>13
    <3>4. 1 - 1 = 0 /\ 0 < stack.num_commands
      BY <1>4, <2>1
    <3>5. QED BY <3>2, <3>3, <3>4
  <2>6. Oldest' = Head(kept)
    <3>1. CASE n = 0
      <4>1. document = stack.commands[0]
        BY <2>1, <3>1 DEF DocumentAtCursor
      <4>2. QED BY <1>4, <1>13, <1>14, <2>5, <3>1, <4>1
    <3>2. CASE n # 0
      <4>1. stack'.commands[0] = stack.commands[1] /\ 1 \in Slots /\ 1 < stack.num_commands
        <5>1. 0 < n
          BY <1>4, <3>2
        <5>2. QED BY <1>4, <1>16, <2>5, <5>1
      <4>2. before[stack.commands[1]] = stack.commands[0]
        BY <4>1 DEF Chained
      <4>3. QED BY <1>13, <1>14, <2>5, <4>1, <4>2
    <3>3. QED BY <3>1, <3>2
  <2>7. cursor' = Len(after)
    BY <1>4, <1>7
  <2>8. QED
    BY <1>3, <1>9, <2>1, <2>4, <2>6, <2>7
    DEF History!NewEdit, kept, undone, after, before_, Edits
<1>17. QED BY <1>15, <1>16

LEMMA UndoIsUndo ==
  ASSUME DocumentIInv, UndoOne(TRUE), DocumentIInv'
  PROVE  History!Undo
<1> USE HardLimitAssumption DEF DocumentIInv
<1>1. stack \in Stack /\ stack.current_index - 1 \in 0 .. HardLimit
  BY DEF UndoOne, CanUndo, IInv, TypeOK, Stack
<1>2. /\ stack'.commands = stack.commands
      /\ stack'.num_commands = stack.num_commands
      /\ stack'.current_index = stack.current_index - 1
  BY <1>1, CursorFields DEF UndoOne, Undone
<1>3. stack.current_index > 0 /\ UNCHANGED <<before, clean>>
  BY DEF UndoOne, CanUndo
<1>4. Oldest' = Oldest /\ Edits(stack)' = Edits(stack)
  BY <1>2, <1>3 DEF Oldest, Edits
<1>5. document' = IF stack.current_index - 1 = 0 THEN Oldest ELSE Edits(stack)[stack.current_index - 1]
  <2>1. CASE stack.current_index - 1 = 0
    BY <1>2, <1>4, <2>1 DEF DocumentAtCursor
  <2>2. CASE stack.current_index - 1 # 0
    <3>1. stack.current_index - 1 \in 1 .. stack.num_commands
      BY <1>1, <2>2 DEF IInv, Shape, Fits, Stack
    <3>2. document' = stack.commands[stack.current_index - 1 - 1]
      BY <1>2, <2>2 DEF DocumentAtCursor
    <3>3. QED BY <2>2, <3>1, <3>2 DEF Edits
  <2>3. QED BY <2>1, <2>2
<1>6. QED BY <1>2, <1>3, <1>4, <1>5 DEF History!Undo, History!VersionAt, Edits

LEMMA RedoIsRedo ==
  ASSUME DocumentIInv, RedoOne(TRUE), DocumentIInv'
  PROVE  History!Redo
<1> USE HardLimitAssumption DEF DocumentIInv
<1>1. stack \in Stack /\ stack.current_index + 1 \in 0 .. HardLimit
  BY DEF RedoOne, CanRedo, IInv, TypeOK, Stack
<1>2. /\ stack'.commands = stack.commands
      /\ stack'.num_commands = stack.num_commands
      /\ stack'.current_index = stack.current_index + 1
  BY <1>1, CursorFields DEF RedoOne, Redone
<1>3. stack.current_index < stack.num_commands /\ UNCHANGED <<before, clean>>
  BY DEF RedoOne, CanRedo
<1>4. Oldest' = Oldest /\ Edits(stack)' = Edits(stack)
  BY <1>2, <1>3 DEF Oldest, Edits
<1>5. PICK k : k = stack.current_index + 1
  OBVIOUS
<1>6. k # 0 /\ k \in 1 .. stack.num_commands
  BY <1>1, <1>3, <1>5 DEF Stack
<1>7. document' = Edits(stack)[k]
  <2>1. document' = stack.commands[k - 1]
    BY <1>2, <1>5, <1>6 DEF DocumentAtCursor
  <2>2. QED BY <1>6, <2>1 DEF Edits
<1>8. Len(Edits(stack)) = stack.num_commands
  BY <1>1, EditsSequence DEF IInv, Filled
<1>9. QED BY <1>2, <1>3, <1>4, <1>5, <1>6, <1>7, <1>8 DEF History!Redo, History!VersionAt, Edits

LEMMA ClearIsForget ==
  ASSUME DocumentIInv, Clear
  PROVE  History!Forget
<1>1. /\ stack'.num_commands = 0 /\ stack'.current_index = 0
      /\ document' = document /\ clean' = document
  BY DEF Clear, Cleared, DocumentIInv, IInv, TypeOK, Stack
<1>2. Oldest' = document
  BY <1>1 DEF Oldest
<1>3. Edits(stack)' = <<>>
  BY <1>1 DEF Edits
<1>4. QED BY <1>1, <1>2, <1>3 DEF History!Forget, Edits

LEMMA NextIsHistory ==
  ASSUME PersistResults = {TRUE}, DocumentIInv, [Next]_vars
  PROVE  [History!Next]_History!vars
<1>1. DocumentIInv'
  BY NextDocument
<1>2. ASSUME NEW c \in Command, NEW ok \in PersistResults, PushCommand(c, ok)
      PROVE  History!Next
  BY <1>2, PushIsNewEdit DEF History!Next
<1>3. ASSUME NEW ok \in PersistResults, Undo(ok) \/ UndoInLoop(ok) PROVE History!Next
  <2>1. UndoOne(TRUE)
    BY <1>3, PersistAlways DEF Undo, UndoInLoop
  <2>2. QED BY <1>1, <2>1, UndoIsUndo DEF History!Next
<1>4. ASSUME NEW ok \in PersistResults, Redo(ok) \/ RedoInLoop(ok) PROVE History!Next
  <2>1. RedoOne(TRUE)
    BY <1>4, PersistAlways DEF Redo, RedoInLoop
  <2>2. QED BY <1>1, <2>1, RedoIsRedo DEF History!Next
<1>5. CASE Clear
  BY <1>5, ClearIsForget DEF History!Next
<1>6. CASE (\E value \in 0 .. SoftLimit : SetOffset(value)) \/ LoopDone \/ UNCHANGED vars
  <2>1. UNCHANGED <<stack, document, before, clean>>
    BY <1>6 DEF SetOffset, LoopDone, vars
  <2>2. QED BY <2>1 DEF History!vars, Oldest
<1>7. QED BY <1>2, <1>3, <1>4, <1>5, <1>6 DEF Next

\* The stack implements the edit history that undo promises the user.
THEOREM ImplementsHistory ==
  ASSUME PersistResults = {TRUE}
  PROVE  Spec => ImplementsEditHistory
<1>1. DocumentIInv /\ [Next]_vars => DocumentIInv'
  BY NextDocument
<1>2. DocumentIInv /\ [Next]_vars => [History!Next]_History!vars
  BY NextIsHistory
<1>3. QED
  BY <1>1, <1>2, InitDocument, InitHistory, PTL DEF Spec, ImplementsEditHistory, History!Spec
=============================================================================
