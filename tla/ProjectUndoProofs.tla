-------------------------- MODULE ProjectUndoProofs --------------------------
(***************************************************************************)
(* Proofs about ProjectUndo for any models, frames and limits: playback    *)
(* keeps the history; the keyframes are those of the last edit below the   *)
(* cursor; undo reverts the newest operation; a seek takes back the        *)
(* transform that was not registered.  Moving a stack to an offset is a    *)
(* loop over its commands, so the lemmas about it are proved by induction  *)
(* on its steps, in the form that a set of naturals has a least element.   *)
(*                                                                         *)
(* The last part is about BatchUndo, the lists of motion snapshots that    *)
(* such a stack holds as one command: for any motions and operations, a    *)
(* list is redone to what the operation made, and undone to what was       *)
(* before if it edits no motion twice.                                     *)
(***************************************************************************)
EXTENDS ProjectUndo, BatchUndo, WellFoundedInduction, FiniteSetTheorems, TLAPS

\* While playing no model is active unless the user chose one, and where another
\* model will be active again there is no transform left to take back: playback
\* started with a seek to its own frame, every tick is a seek, and so is the
\* choice of a model, which also ends what undo is expected to revert.
PlaybackIInv ==
  /\ chosen \in BOOLEAN
  /\ playing => /\ (~chosen => active = Project)
                /\ (active # saved => ~Pending(frame))
                /\ (active # Project => latest = NULL)

-----------------------------------------------------------------------------
(* What taking a transform back does.                                      *)

LEMMA TakeBackSettles ==
  ASSUME NEW f, NEW scene, TakeBack(f, scene), frame' = f
  PROVE  ~Pending(frame)'
BY DEF TakeBack, Pending

LEMMA TakeBackKeeps ==
  ASSUME NEW f, NEW scene, TakeBack(f, scene), scene \notin Model \/ ~Pending(f)
  PROVE  UNCHANGED <<stacks, motion>>
BY DEF TakeBack

\* Bringing back the model that was active before playback.
LEMMA SetActiveModelKeeps ==
  ASSUME PlaybackIInv, playing, NEW scene, SetActiveModel(scene), scene = saved
  PROVE  UNCHANGED <<stacks, motion>>
<1>1. CASE scene = active
  BY <1>1 DEF SetActiveModel
<1>2. CASE scene # active
  <2>1. TakeBack(frame, scene) /\ ~Pending(frame)
    BY <1>2 DEF SetActiveModel, PlaybackIInv
  <2>2. QED BY <2>1, TakeBackKeeps
<1>3. QED BY <1>1, <1>2

-----------------------------------------------------------------------------
\* What the user does only while nothing plays.
Editing ==
  \/ \E kind \in Kinds : Operate(kind)
  \/ MoveCamera
  \/ MoveSelectedKeyframes
  \/ UserUndo
  \/ UserRedo
  \/ \E f \in Frame : Seek(f)

LEMMA EditingKeepsStill ==
  ASSUME Editing
  PROVE  ~playing /\ ~playing' /\ chosen' = chosen
BY DEF Editing, Operate, MoveCamera, MoveSelectedKeyframes, UserUndo, UserRedo, Seek, Push

LEMMA PlaybackInit == Init => PlaybackIInv
BY DEF Init, PlaybackIInv

LEMMA PlaybackNext ==
  ASSUME PlaybackIInv, [Next]_vars, playing \in BOOLEAN
  PROVE  PlaybackIInv'
<1>1. CASE Editing
  BY <1>1, EditingKeepsStill DEF PlaybackIInv
<1>2. CASE Play
  <2>1. active' = Project /\ frame' = frame /\ saved' = active /\ chosen' = chosen
    BY <1>2 DEF Play, SetActiveModel
  <2>2. ASSUME active # Project PROVE ~Pending(frame)'
    <3>1. TakeBack(frame, Project)
      BY <1>2, <2>2 DEF Play, SetActiveModel
    <3>2. QED BY <2>1, <3>1, TakeBackSettles
  <2>3. QED BY <2>1, <2>2 DEF PlaybackIInv
<1>3. ASSUME NEW f \in Frame, Tick(f) PROVE PlaybackIInv'
  <2>1. playing /\ UNCHANGED <<active, saved, chosen, latest>>
    BY <1>3 DEF Tick
  <2>2. ~Pending(frame)'
    BY <1>3, TakeBackSettles DEF Tick, InternalSeek
  <2>3. QED BY <2>1, <2>2 DEF PlaybackIInv
<1>4. ASSUME NEW scene \in Scene, SwitchModel(scene) PROVE PlaybackIInv'
  <2>1. TakeBack(frame, scene) /\ frame' = frame
    BY <1>4 DEF SwitchModel, SetActiveModel
  <2>2. ~Pending(frame)'
    BY <2>1, TakeBackSettles
  <2>3. chosen' = playing /\ playing' = playing /\ latest' = NULL
    BY <1>4 DEF SwitchModel
  <2>4. QED BY <2>2, <2>3 DEF PlaybackIInv
<1>5. CASE Pause
  BY <1>5 DEF Pause, PlaybackIInv
<1>6. CASE Stop
  BY <1>6 DEF Stop, PlaybackIInv
<1>7. CASE UNCHANGED vars
  BY <1>7 DEF vars, PlaybackIInv, Pending
<1>8. QED BY <1>1, <1>2, <1>3, <1>4, <1>5, <1>6, <1>7 DEF Next, Editing

\* Playback moves nothing of its own.
LEMMA PlaybackStep ==
  ASSUME PlaybackIInv, playing \/ playing',
         Play \/ (\E f \in Frame : Tick(f) /\ active = Project) \/ Pause \/ Stop
  PROVE  UNCHANGED <<stacks, motion>>
<1>1. CASE Play
  <2>1. CASE Project = active
    BY <1>1, <2>1 DEF Play, SetActiveModel
  <2>2. CASE Project # active
    <3>1. TakeBack(frame, Project)
      BY <1>1, <2>2 DEF Play, SetActiveModel
    <3>2. QED BY <3>1, TakeBackKeeps, ProjectAssumption
  <2>3. QED BY <2>1, <2>2
<1>2. ASSUME NEW f \in Frame, Tick(f), active = Project PROVE UNCHANGED <<stacks, motion>>
  <2>1. TakeBack(f, active) /\ active \notin Model
    BY <1>2, ProjectAssumption DEF Tick, InternalSeek
  <2>2. QED BY <2>1, TakeBackKeeps
<1>3. CASE Pause
  BY <1>3, SetActiveModelKeeps DEF Pause
<1>4. CASE Stop
  <2>1. playing
    BY <1>4 DEF Stop
  <2>2. CASE saved = NULL
    BY <1>4, <2>2 DEF Stop
  <2>3. CASE saved # NULL
    BY <1>4, <2>1, <2>3, SetActiveModelKeeps DEF Stop
  <2>4. QED BY <2>2, <2>3
<1>5. QED BY <1>1, <1>2, <1>3, <1>4

-----------------------------------------------------------------------------
(***************************************************************************)
(* Induction over the steps of undoStackSetOffset: there is a least step   *)
(* at which something fails.                                               *)
(***************************************************************************)

\* A set of naturals that is not empty has a least element.
LEMMA LeastElement ==
  ASSUME NEW T, T \subseteq Nat, T # {}
  PROVE  \E n \in T : \A m \in T : n <= m
<1> DEFINE R == OpToRel(<, Nat)
<1>1. IsWellFoundedOn(R, Nat)
  BY NatLessThanWellFounded
<1>2. \A x, y \in Nat : <<y, x>> \in R <=> y < x
  BY DEF OpToRel
<1> HIDE DEF R
<1>3. PICK x \in T : \A y \in T : ~ (<<y, x>> \in R)
  BY WFMin, <1>1
<1>4. ASSUME NEW m \in T PROVE x <= m
  <2>1. x \in Nat /\ m \in Nat
    OBVIOUS
  <2>2. ~ (m < x)
    BY <1>2, <1>3, <2>1
  <2>3. QED BY <2>1, <2>2
<1>5. QED BY <1>4

\* What holds of 0, and of k + 1 when it holds of k, holds up to n.
LEMMA UpTo ==
  ASSUME NEW n \in Nat, NEW S, 0 \in S,
         \A k \in 0 .. n - 1 : k \in S => k + 1 \in S
  PROVE  0 .. n \subseteq S
<1> SUFFICES ASSUME NEW j \in 0 .. n, j \notin S PROVE FALSE
  OBVIOUS
<1> DEFINE T == {k \in 0 .. n : k \notin S}
<1>1. T \subseteq Nat /\ T # {}
  OBVIOUS
<1>2. PICK m \in T : \A k \in T : m <= k
  <2> HIDE DEF T
  <2>1. QED BY <1>1, LeastElement
<1>3. m \in 1 .. n /\ m - 1 \in 0 .. n - 1
  BY DEF T
<1>4. m - 1 \notin T
  BY <1>2, <1>3
<1>5. m - 1 \in S
  BY <1>3, <1>4
<1>6. QED BY <1>3, <1>5

\* The functions that Rewound and Replayed take the last value of exist.
LEMMA RewindingExists ==
  ASSUME NEW w, NEW n \in Nat
  PROVE  \E f : f = [k \in 0 .. n |-> IF k = 0 THEN w ELSE UndoStep(f[k - 1])]
<1> DEFINE Fun(m) == \E f : f = [k \in 0 .. m |-> IF k = 0 THEN w ELSE UndoStep(f[k - 1])]
           S == {m \in 0 .. n : Fun(m)}
<1>1. 0 \in S
  <2>1. [k \in 0 .. 0 |-> w] = [k \in 0 .. 0 |-> IF k = 0 THEN w
                                 ELSE UndoStep([j \in 0 .. 0 |-> w][k - 1])]
    OBVIOUS
  <2>2. Fun(0)
    BY <2>1
  <2>3. QED BY <2>2
<1>2. ASSUME NEW m \in 0 .. n - 1, m \in S PROVE m + 1 \in S
  <2>1. PICK f : f = [k \in 0 .. m |-> IF k = 0 THEN w ELSE UndoStep(f[k - 1])]
    BY <1>2
  <2> DEFINE g == [k \in 0 .. m + 1 |-> IF k = m + 1 THEN UndoStep(f[m]) ELSE f[k]]
  <2>2. ASSUME NEW k \in 0 .. m + 1
        PROVE  g[k] = IF k = 0 THEN w ELSE UndoStep(g[k - 1])
    <3>1. CASE k = m + 1
      <4>1. k # 0 /\ k - 1 = m /\ m \in 0 .. m + 1 /\ m # m + 1
        BY <3>1
      <4>2. g[k] = UndoStep(f[m]) /\ g[m] = f[m]
        BY <3>1, <4>1
      <4>3. QED BY <4>1, <4>2
    <3>2. CASE k \in 1 .. m
      <4>1. k # 0 /\ k \in 0 .. m /\ k - 1 \in 0 .. m /\ k # m + 1 /\ k - 1 # m + 1
            /\ k - 1 \in 0 .. m + 1
        BY <3>2
      <4>2. g[k] = f[k] /\ g[k - 1] = f[k - 1] /\ f[k] = UndoStep(f[k - 1])
        BY <2>1, <4>1
      <4>3. QED BY <4>1, <4>2
    <3>3. CASE k = 0
      <4>1. k \in 0 .. m /\ k # m + 1
        BY <3>3
      <4>2. g[k] = f[k] /\ f[k] = w
        BY <2>1, <3>3, <4>1
      <4>3. QED BY <3>3, <4>2
    <3>4. QED BY <3>1, <3>2, <3>3
  <2>3. g = [k \in 0 .. m + 1 |-> IF k = 0 THEN w ELSE UndoStep(g[k - 1])]
    BY <2>2
  <2>4. Fun(m + 1)
    <3> HIDE DEF g
    <3>1. QED BY <2>3
  <2>5. QED BY <2>4
<1>3. 0 .. n \subseteq S
  <2> HIDE DEF S
  <2>1. QED BY <1>1, <1>2, UpTo
<1>4. QED BY <1>3

LEMMA ReplayingExists ==
  ASSUME NEW w, NEW n \in Nat
  PROVE  \E f : f = [k \in 0 .. n |-> IF k = 0 THEN w ELSE RedoStep(f[k - 1])]
<1> DEFINE Fun(m) == \E f : f = [k \in 0 .. m |-> IF k = 0 THEN w ELSE RedoStep(f[k - 1])]
           S == {m \in 0 .. n : Fun(m)}
<1>1. 0 \in S
  <2>1. [k \in 0 .. 0 |-> w] = [k \in 0 .. 0 |-> IF k = 0 THEN w
                                 ELSE RedoStep([j \in 0 .. 0 |-> w][k - 1])]
    OBVIOUS
  <2>2. Fun(0)
    BY <2>1
  <2>3. QED BY <2>2
<1>2. ASSUME NEW m \in 0 .. n - 1, m \in S PROVE m + 1 \in S
  <2>1. PICK f : f = [k \in 0 .. m |-> IF k = 0 THEN w ELSE RedoStep(f[k - 1])]
    BY <1>2
  <2> DEFINE g == [k \in 0 .. m + 1 |-> IF k = m + 1 THEN RedoStep(f[m]) ELSE f[k]]
  <2>2. ASSUME NEW k \in 0 .. m + 1
        PROVE  g[k] = IF k = 0 THEN w ELSE RedoStep(g[k - 1])
    <3>1. CASE k = m + 1
      <4>1. k # 0 /\ k - 1 = m /\ m \in 0 .. m + 1 /\ m # m + 1
        BY <3>1
      <4>2. g[k] = RedoStep(f[m]) /\ g[m] = f[m]
        BY <3>1, <4>1
      <4>3. QED BY <4>1, <4>2
    <3>2. CASE k \in 1 .. m
      <4>1. k # 0 /\ k \in 0 .. m /\ k - 1 \in 0 .. m /\ k # m + 1 /\ k - 1 # m + 1
            /\ k - 1 \in 0 .. m + 1
        BY <3>2
      <4>2. g[k] = f[k] /\ g[k - 1] = f[k - 1] /\ f[k] = RedoStep(f[k - 1])
        BY <2>1, <4>1
      <4>3. QED BY <4>1, <4>2
    <3>3. CASE k = 0
      <4>1. k \in 0 .. m /\ k # m + 1
        BY <3>3
      <4>2. g[k] = f[k] /\ f[k] = w
        BY <2>1, <3>3, <4>1
      <4>3. QED BY <3>3, <4>2
    <3>4. QED BY <3>1, <3>2, <3>3
  <2>3. g = [k \in 0 .. m + 1 |-> IF k = 0 THEN w ELSE RedoStep(g[k - 1])]
    BY <2>2
  <2>4. Fun(m + 1)
    <3> HIDE DEF g
    <3>1. QED BY <2>3
  <2>5. QED BY <2>4
<1>3. 0 .. n \subseteq S
  <2> HIDE DEF S
  <2>1. QED BY <1>1, <1>2, UpTo
<1>4. QED BY <1>3

\* Induction over the steps of a rewind and of a replay: <<k, x>> \in S says
\* what holds of the state x after k steps.
LEMMA RewoundBySteps ==
  ASSUME NEW w, NEW n \in Nat, NEW S, <<0, w>> \in S,
         ASSUME NEW k \in 0 .. n - 1, NEW x, <<k, x>> \in S
         PROVE  <<k + 1, UndoStep(x)>> \in S
  PROVE  <<n, Rewound(w, n)>> \in S
<1> DEFINE at == CHOOSE f : f = [k \in 0 .. n |-> IF k = 0 THEN w ELSE UndoStep(f[k - 1])]
           K == {k \in 0 .. n : <<k, at[k]>> \in S}
<1>1. at = [k \in 0 .. n |-> IF k = 0 THEN w ELSE UndoStep(at[k - 1])]
  BY RewindingExists
<1>2. Rewound(w, n) = at[n]
  BY DEF Rewound
<1> HIDE DEF at
<1>3. 0 \in K
  BY <1>1
<1>4. ASSUME NEW k \in 0 .. n - 1, k \in K PROVE k + 1 \in K
  <2>1. k + 1 \in 0 .. n /\ k + 1 # 0 /\ (k + 1) - 1 = k
    OBVIOUS
  <2>2. at[k + 1] = UndoStep(at[k])
    BY <1>1, <2>1
  <2>3. QED BY <1>4, <2>1, <2>2
<1>5. 0 .. n \subseteq K
  <2> HIDE DEF K
  <2>1. QED BY <1>3, <1>4, UpTo
<1>6. QED BY <1>2, <1>5

LEMMA ReplayedBySteps ==
  ASSUME NEW w, NEW n \in Nat, NEW S, <<0, w>> \in S,
         ASSUME NEW k \in 0 .. n - 1, NEW x, <<k, x>> \in S
         PROVE  <<k + 1, RedoStep(x)>> \in S
  PROVE  <<n, Replayed(w, n)>> \in S
<1> DEFINE at == CHOOSE f : f = [k \in 0 .. n |-> IF k = 0 THEN w ELSE RedoStep(f[k - 1])]
           K == {k \in 0 .. n : <<k, at[k]>> \in S}
<1>1. at = [k \in 0 .. n |-> IF k = 0 THEN w ELSE RedoStep(at[k - 1])]
  BY ReplayingExists
<1>2. Replayed(w, n) = at[n]
  BY DEF Replayed
<1> HIDE DEF at
<1>3. 0 \in K
  BY <1>1
<1>4. ASSUME NEW k \in 0 .. n - 1, k \in K PROVE k + 1 \in K
  <2>1. k + 1 \in 0 .. n /\ k + 1 # 0 /\ (k + 1) - 1 = k
    OBVIOUS
  <2>2. at[k + 1] = RedoStep(at[k])
    BY <1>1, <2>1
  <2>3. QED BY <1>4, <2>1, <2>2
<1>5. 0 .. n \subseteq K
  <2> HIDE DEF K
  <2>1. QED BY <1>3, <1>4, UpTo
<1>6. QED BY <1>2, <1>5

-----------------------------------------------------------------------------
(***************************************************************************)
(* The history of a scene: the version that its keyframes have at each     *)
(* position of the cursor.                                                 *)
(***************************************************************************)

State == [stack : Stack, motion : [Scene -> Version]]
Versions == [0 .. HardLimit -> Version \ {Torn}]

EditOf(c, scene) == info[c].scene = scene /\ info[c].kind # "transform"

\* v gives the version at each position of the cursor in a stack whose commands
\* edit the scene one after the other.
Follows(v, scene, stack) ==
  \A k \in Slots : k < stack.num_commands =>
    LET c == stack.commands[k]
    IN IF EditOf(c, scene) THEN v[k] = info[c].last /\ v[k + 1] = c
                           ELSE v[k + 1] = v[k]

\* A stack within its limits whose commands were created for it.
Bounded(stack) ==
  /\ stack \in Stack
  /\ stack.soft_limit = SoftLimit
  /\ stack.current_index <= stack.num_commands
  /\ stack.num_commands <= SoftLimit

Owned(stack, scene) ==
  \A k \in Slots : k < stack.num_commands =>
    /\ stack.commands[k] \in Command
    /\ stack.commands[k] <= created
    /\ info[stack.commands[k]].stack = scene

\* No command of the stack of `scene` edits s.
Apart(s, scene) ==
  \A c \in Command : c <= created /\ info[c].stack = scene => info[c].scene # s

\* Another state that differs from w by the cursor of the stack of `scene` and
\* by what moving it did to the keyframes.
StackMoved(w, x, scene) ==
  /\ x \in State
  /\ x.stack.commands = w.stack.commands
  /\ x.stack.num_commands = w.stack.num_commands
  /\ x.stack.soft_limit = w.stack.soft_limit
  /\ \A s \in Scene : Apart(s, scene) => x.motion[s] = w.motion[s]
  /\ OwnStackOnly(scene) =>
       \A v \in Versions :
         Follows(v, scene, w.stack) /\ w.motion[scene] = v[w.stack.current_index]
           => x.motion[scene] = v[x.stack.current_index]

\* One step of the cursor.
LEMMA UndoneFields ==
  ASSUME NEW s \in Stack, s.current_index > 0
  PROVE  /\ Undone(s) \in Stack
         /\ Undone(s).current_index = s.current_index - 1
         /\ Undone(s).commands = s.commands
         /\ Undone(s).num_commands = s.num_commands
         /\ Undone(s).soft_limit = s.soft_limit
<1>1. s.current_index - 1 \in 0 .. HardLimit
  BY HardLimitAssumption DEF Stack
<1> DEFINE n == s.current_index - 1
<1>2. n \in 0 .. HardLimit
  BY <1>1
<1>3. Undone(s) = UpdateDirty([s EXCEPT !.current_index = n])
  BY DEF Undone
<1> HIDE DEF n
<1>4. /\ Undone(s) \in Stack
      /\ Undone(s).current_index = n
      /\ Undone(s).commands = s.commands
      /\ Undone(s).num_commands = s.num_commands
      /\ Undone(s).soft_limit = s.soft_limit
  BY <1>2, <1>3 DEF UpdateDirty, Stack
<1>5. QED BY <1>4 DEF n

LEMMA RedoneFields ==
  ASSUME NEW s \in Stack, s.current_index < HardLimit
  PROVE  /\ Redone(s) \in Stack
         /\ Redone(s).current_index = s.current_index + 1
         /\ Redone(s).commands = s.commands
         /\ Redone(s).num_commands = s.num_commands
         /\ Redone(s).soft_limit = s.soft_limit
<1>1. s.current_index + 1 \in 0 .. HardLimit
  BY HardLimitAssumption DEF Stack
<1> DEFINE n == s.current_index + 1
<1>2. n \in 0 .. HardLimit
  BY <1>1
<1>3. Redone(s) = UpdateDirty([s EXCEPT !.current_index = n])
  BY DEF Redone
<1> HIDE DEF n
<1>4. /\ Redone(s) \in Stack
      /\ Redone(s).current_index = n
      /\ Redone(s).commands = s.commands
      /\ Redone(s).num_commands = s.num_commands
      /\ Redone(s).soft_limit = s.soft_limit
  BY <1>2, <1>3 DEF UpdateDirty, Stack
<1>5. QED BY <1>4 DEF n

\* What undoing or redoing one command does to the keyframes.
LEMMA MotionUndone ==
  ASSUME NEW ms \in [Scene -> Version], NEW c \in Command, info[c] \in Info
  PROVE  /\ MotionAfterUndo(ms, c) \in [Scene -> Version]
         /\ \A s \in Scene : ~EditOf(c, s) => MotionAfterUndo(ms, c)[s] = ms[s]
         /\ \A s \in Scene : EditOf(c, s) /\ ms[s] = c
              => MotionAfterUndo(ms, c)[s] = info[c].last
         /\ info[c].kind = "transform" => MotionAfterUndo(ms, c) = ms
BY DEF MotionAfterUndo, EditOf, Info, Version, Kinds

LEMMA MotionRedone ==
  ASSUME NEW ms \in [Scene -> Version], NEW c \in Command, info[c] \in Info
  PROVE  /\ MotionAfterRedo(ms, c) \in [Scene -> Version]
         /\ \A s \in Scene : ~EditOf(c, s) => MotionAfterRedo(ms, c)[s] = ms[s]
         /\ \A s \in Scene : EditOf(c, s) /\ ms[s] = info[c].last
              => MotionAfterRedo(ms, c)[s] = c
BY DEF MotionAfterRedo, EditOf, Info, Version, Kinds

-----------------------------------------------------------------------------
LEMMA MovedRefl ==
  ASSUME NEW w \in State, NEW scene \in Scene
  PROVE  StackMoved(w, w, scene)
BY DEF StackMoved

LEMMA MovedTrans ==
  ASSUME NEW w, NEW x, NEW y, NEW scene \in Scene, StackMoved(w, x, scene), StackMoved(x, y, scene)
  PROVE  StackMoved(w, y, scene)
<1>1. ASSUME NEW v, Follows(v, scene, w.stack) PROVE Follows(v, scene, x.stack)
  BY <1>1 DEF StackMoved, Follows
<1>2. QED BY <1>1 DEF StackMoved

LEMMA MovedKeeps ==
  ASSUME NEW w, NEW x, NEW scene, StackMoved(w, x, scene), Owned(w.stack, scene)
  PROVE  Owned(x.stack, scene)
BY DEF StackMoved, Owned

LEMMA StepBack ==
  ASSUME info \in [Command -> Info], NEW w \in State, NEW scene \in Scene,
         Owned(w.stack, scene),
         w.stack.current_index > 0, w.stack.current_index <= w.stack.num_commands
  PROVE  /\ StackMoved(w, UndoStep(w), scene)
         /\ UndoStep(w).stack.current_index = w.stack.current_index - 1
<1> DEFINE k == w.stack.current_index - 1
           c == CommandToUndo(w.stack)
<1>1. w.stack \in Stack /\ w.motion \in [Scene -> Version]
  BY DEF State
<1>2. k \in Slots /\ k < w.stack.num_commands /\ k + 1 = w.stack.current_index
  BY <1>1, HardLimitAssumption DEF Stack, Slots
<1>3. c = w.stack.commands[k]
  BY DEF CommandToUndo
<1>4. c \in Command /\ c <= created /\ info[c].stack = scene
  BY <1>2, <1>3 DEF Owned
<1>5. info[c] \in Info
  BY <1>4
<1> HIDE DEF c
<1> DEFINE st == Undone(w.stack)
           mo == MotionAfterUndo(w.motion, c)
<1>6. UndoStep(w).stack = st /\ UndoStep(w).motion = mo
      /\ UndoStep(w) = [stack |-> st, motion |-> mo]
  BY DEF UndoStep, c
<1>7. /\ st \in Stack /\ st.current_index = k
      /\ st.commands = w.stack.commands
      /\ st.num_commands = w.stack.num_commands
      /\ st.soft_limit = w.stack.soft_limit
  BY <1>1, UndoneFields
<1>8. /\ mo \in [Scene -> Version]
      /\ \A s \in Scene : ~EditOf(c, s) => mo[s] = w.motion[s]
      /\ \A s \in Scene : EditOf(c, s) /\ w.motion[s] = c => mo[s] = info[c].last
  BY <1>1, <1>4, <1>5, MotionUndone
<1> HIDE DEF st, mo
<1>9. ASSUME NEW s \in Scene, Apart(s, scene)
      PROVE  mo[s] = w.motion[s]
  <2>1. ~EditOf(c, s)
    BY <1>4, <1>9 DEF EditOf, Apart
  <2>2. QED BY <1>8, <2>1
<1>10. ASSUME NEW v \in Versions, Follows(v, scene, w.stack),
              w.motion[scene] = v[w.stack.current_index]
       PROVE  mo[scene] = v[k]
  <2>1. w.motion[scene] = v[k + 1]
    BY <1>2, <1>10
  <2>2. CASE EditOf(c, scene)
    <3>1. v[k] = info[c].last /\ v[k + 1] = c
      BY <1>2, <1>3, <1>10, <2>2 DEF Follows
    <3>2. QED BY <1>8, <2>1, <2>2, <3>1
  <2>3. CASE ~EditOf(c, scene)
    <3>1. v[k + 1] = v[k]
      BY <1>2, <1>3, <1>10, <2>3 DEF Follows
    <3>2. QED BY <1>8, <2>1, <2>3, <3>1
  <2>4. QED BY <2>2, <2>3
<1>11. UndoStep(w) \in State
  BY <1>6, <1>7, <1>8 DEF State
<1> HIDE DEF k
<1>12. StackMoved(w, UndoStep(w), scene)
  BY <1>6, <1>7, <1>9, <1>10, <1>11 DEF StackMoved
<1>13. QED BY <1>6, <1>7, <1>12 DEF k

LEMMA StepForth ==
  ASSUME info \in [Command -> Info], NEW w \in State, NEW scene \in Scene,
         Owned(w.stack, scene), w.stack.current_index < w.stack.num_commands
  PROVE  /\ StackMoved(w, RedoStep(w), scene)
         /\ RedoStep(w).stack.current_index = w.stack.current_index + 1
<1> DEFINE k == w.stack.current_index
           c == CommandToRedo(w.stack)
<1>1. w.stack \in Stack /\ w.motion \in [Scene -> Version]
  BY DEF State
<1>2. k \in Slots /\ k < w.stack.num_commands /\ w.stack.current_index < HardLimit
  BY <1>1, HardLimitAssumption DEF Stack, Slots
<1>3. c = w.stack.commands[k]
  BY DEF CommandToRedo
<1>4. c \in Command /\ c <= created /\ info[c].stack = scene
  BY <1>2, <1>3 DEF Owned
<1>5. info[c] \in Info
  BY <1>4
<1> HIDE DEF c
<1> DEFINE st == Redone(w.stack)
           mo == MotionAfterRedo(w.motion, c)
<1>6. RedoStep(w).stack = st /\ RedoStep(w).motion = mo
      /\ RedoStep(w) = [stack |-> st, motion |-> mo]
  BY DEF RedoStep, c
<1>7. /\ st \in Stack /\ st.current_index = k + 1
      /\ st.commands = w.stack.commands
      /\ st.num_commands = w.stack.num_commands
      /\ st.soft_limit = w.stack.soft_limit
  BY <1>1, <1>2, RedoneFields
<1>8. /\ mo \in [Scene -> Version]
      /\ \A s \in Scene : ~EditOf(c, s) => mo[s] = w.motion[s]
      /\ \A s \in Scene : EditOf(c, s) /\ w.motion[s] = info[c].last => mo[s] = c
  BY <1>1, <1>4, <1>5, MotionRedone
<1> HIDE DEF st, mo
<1>9. ASSUME NEW s \in Scene, Apart(s, scene)
      PROVE  mo[s] = w.motion[s]
  <2>1. ~EditOf(c, s)
    BY <1>4, <1>9 DEF EditOf, Apart
  <2>2. QED BY <1>8, <2>1
<1>10. ASSUME NEW v \in Versions, Follows(v, scene, w.stack),
              w.motion[scene] = v[w.stack.current_index]
       PROVE  mo[scene] = v[k + 1]
  <2>1. w.motion[scene] = v[k]
    BY <1>10
  <2>2. CASE EditOf(c, scene)
    <3>1. v[k] = info[c].last /\ v[k + 1] = c
      BY <1>2, <1>3, <1>10, <2>2 DEF Follows
    <3>2. QED BY <1>8, <2>1, <2>2, <3>1
  <2>3. CASE ~EditOf(c, scene)
    <3>1. v[k + 1] = v[k]
      BY <1>2, <1>3, <1>10, <2>3 DEF Follows
    <3>2. QED BY <1>8, <2>1, <2>3, <3>1
  <2>4. QED BY <2>2, <2>3
<1>11. RedoStep(w) \in State
  BY <1>6, <1>7, <1>8 DEF State
<1>12. StackMoved(w, RedoStep(w), scene)
  BY <1>6, <1>7, <1>9, <1>10, <1>11 DEF StackMoved
<1>13. QED BY <1>6, <1>7, <1>12

\* Rewinding and replaying n commands moves the cursor by n.
LEMMA RewoundMoves ==
  ASSUME info \in [Command -> Info], NEW w \in State, NEW scene \in Scene,
         Owned(w.stack, scene), w.stack.current_index <= w.stack.num_commands,
         NEW n \in 0 .. w.stack.current_index
  PROVE  /\ StackMoved(w, Rewound(w, n), scene)
         /\ Rewound(w, n).stack.current_index = w.stack.current_index - n
<1> DEFINE S == {p \in Nat \X State :
                   /\ StackMoved(w, p[2], scene)
                   /\ p[2].stack.current_index = w.stack.current_index - p[1]}
<1>1. w.stack.current_index \in Nat /\ w.stack.num_commands \in Nat /\ n \in Nat
  BY HardLimitAssumption DEF State, Stack
<1>2. <<0, w>> \in S
  BY <1>1, MovedRefl
<1>3. ASSUME NEW k \in 0 .. n - 1, NEW x, <<k, x>> \in S
      PROVE  <<k + 1, UndoStep(x)>> \in S
  <2>1. /\ x \in State /\ StackMoved(w, x, scene)
        /\ x.stack.current_index = w.stack.current_index - k
    BY <1>3
  <2>2. x.stack.num_commands = w.stack.num_commands /\ Owned(x.stack, scene)
    <3>1. x.stack.num_commands = w.stack.num_commands
      BY <2>1 DEF StackMoved
    <3>2. Owned(x.stack, scene)
      BY <2>1, MovedKeeps
    <3>3. QED BY <3>1, <3>2
  <2>3. x.stack.current_index > 0 /\ x.stack.current_index <= x.stack.num_commands
    BY <1>1, <2>1, <2>2
  <2>4. /\ StackMoved(x, UndoStep(x), scene)
        /\ UndoStep(x).stack.current_index = x.stack.current_index - 1
    BY <2>1, <2>2, <2>3, StepBack
  <2>5. StackMoved(w, UndoStep(x), scene)
    BY <2>1, <2>4, MovedTrans
  <2>6. UndoStep(x) \in State
    BY <2>4 DEF StackMoved
  <2>7. UndoStep(x).stack.current_index = w.stack.current_index - (k + 1)
    BY <1>1, <2>1, <2>4
  <2>8. QED BY <2>5, <2>6, <2>7
<1>4. <<n, Rewound(w, n)>> \in S
  <2> HIDE DEF S
  <2>1. QED BY <1>1, <1>2, <1>3, RewoundBySteps
<1>5. QED BY <1>4

LEMMA ReplayedMoves ==
  ASSUME info \in [Command -> Info], NEW w \in State, NEW scene \in Scene,
         Owned(w.stack, scene), w.stack.current_index <= w.stack.num_commands,
         NEW n \in 0 .. w.stack.num_commands - w.stack.current_index
  PROVE  /\ StackMoved(w, Replayed(w, n), scene)
         /\ Replayed(w, n).stack.current_index = w.stack.current_index + n
<1> DEFINE S == {p \in Nat \X State :
                   /\ StackMoved(w, p[2], scene)
                   /\ p[2].stack.current_index = w.stack.current_index + p[1]}
<1>1. w.stack.current_index \in Nat /\ w.stack.num_commands \in Nat /\ n \in Nat
  BY HardLimitAssumption DEF State, Stack
<1>2. <<0, w>> \in S
  BY <1>1, MovedRefl
<1>3. ASSUME NEW k \in 0 .. n - 1, NEW x, <<k, x>> \in S
      PROVE  <<k + 1, RedoStep(x)>> \in S
  <2>1. /\ x \in State /\ StackMoved(w, x, scene)
        /\ x.stack.current_index = w.stack.current_index + k
    BY <1>3
  <2>2. x.stack.num_commands = w.stack.num_commands /\ Owned(x.stack, scene)
    <3>1. x.stack.num_commands = w.stack.num_commands
      BY <2>1 DEF StackMoved
    <3>2. Owned(x.stack, scene)
      BY <2>1, MovedKeeps
    <3>3. QED BY <3>1, <3>2
  <2>3. x.stack.current_index < x.stack.num_commands
    BY <1>1, <2>1, <2>2
  <2>4. /\ StackMoved(x, RedoStep(x), scene)
        /\ RedoStep(x).stack.current_index = x.stack.current_index + 1
    BY <2>1, <2>2, <2>3, StepForth
  <2>5. StackMoved(w, RedoStep(x), scene)
    BY <2>1, <2>4, MovedTrans
  <2>6. RedoStep(x) \in State
    BY <2>4 DEF StackMoved
  <2>7. RedoStep(x).stack.current_index = w.stack.current_index + (k + 1)
    BY <1>1, <2>1, <2>4
  <2>8. QED BY <2>5, <2>6, <2>7
<1>4. <<n, Replayed(w, n)>> \in S
  <2> HIDE DEF S
  <2>1. QED BY <1>1, <1>2, <1>3, ReplayedBySteps
<1>5. QED BY <1>4

\* Wherever the cursor is sent, it stays between the first and the last command.
LEMMA OffsetMoves ==
  ASSUME info \in [Command -> Info], NEW w \in State, NEW scene \in Scene,
         Owned(w.stack, scene), w.stack.current_index <= w.stack.num_commands,
         NEW value \in Nat
  PROVE  /\ StackMoved(w, OffsetSet(w, value), scene)
         /\ OffsetSet(w, value).stack.current_index <= w.stack.num_commands
         /\ value <= w.stack.current_index => OffsetSet(w, value).stack.current_index = value
<1> DEFINE cursor == w.stack.current_index
           all == w.stack.num_commands
<1>1. cursor \in Nat /\ all \in Nat /\ cursor <= all
  BY HardLimitAssumption DEF State, Stack
<1>2. CASE value < cursor
  <2> DEFINE n == cursor - value
  <2>1. n \in 0 .. cursor /\ cursor - n = value /\ value <= all
    BY <1>1, <1>2
  <2>2. OffsetSet(w, value) = Rewound(w, n)
    BY <1>2 DEF OffsetSet
  <2> HIDE DEF n
  <2>3. StackMoved(w, Rewound(w, n), scene) /\ Rewound(w, n).stack.current_index = cursor - n
    BY <2>1, RewoundMoves
  <2>4. QED BY <2>1, <2>2, <2>3
<1>3. CASE value > cursor
  <2> DEFINE n == IF value - cursor + 1 < all - cursor THEN value - cursor + 1 ELSE all - cursor
  <2>1. n \in 0 .. all - cursor /\ cursor + n <= all
    BY <1>1, <1>3
  <2>2. OffsetSet(w, value) = Replayed(w, n)
    BY <1>1, <1>3 DEF OffsetSet
  <2> HIDE DEF n
  <2>3. StackMoved(w, Replayed(w, n), scene) /\ Replayed(w, n).stack.current_index = cursor + n
    BY <2>1, ReplayedMoves
  <2>4. QED BY <1>1, <1>3, <2>1, <2>2, <2>3
<1>4. CASE value = cursor
  <2>1. OffsetSet(w, value) = w
    BY <1>1, <1>4 DEF OffsetSet
  <2>2. QED BY <1>1, <1>4, <2>1, MovedRefl
<1>5. QED BY <1>1, <1>2, <1>3, <1>4

-----------------------------------------------------------------------------
(***************************************************************************)
(* The stacks and the keyframes of the scenes along a behaviour.           *)
(***************************************************************************)

\* Every scene whose edits are all on its own stack has a history.
Histories ==
  \A s \in Scene : OwnStackOnly(s) =>
    \E v \in Versions : /\ Follows(v, s, stacks[s])
                        /\ motion[s] = v[stacks[s].current_index]

StacksSound ==
  /\ stacks \in [Scene -> Stack]
  /\ motion \in [Scene -> Version]
  /\ info \in [Command -> Info]
  /\ created \in {0} \cup Command
  /\ \A s \in Scene : Bounded(stacks[s]) /\ Owned(stacks[s], s)

Core == StacksSound /\ Histories

LEMMA CoreInit == Init => Core
<1> SUFFICES ASSUME Init PROVE Core
  OBVIOUS
<1>1. SoftLimit \in Nat /\ SoftLimit > 0 /\ SoftLimit <= HardLimit /\ HardLimit \in Nat
  BY SoftLimitAssumption, HardLimitAssumption
<1> DEFINE s0 == CreateWithSoftLimit(SoftLimit)
<1>2. /\ s0 \in Stack /\ s0.soft_limit = SoftLimit
      /\ s0.current_index = 0 /\ s0.num_commands = 0
  BY <1>1 DEF CreateWithSoftLimit, Stack
<1>3. \A s \in Scene : stacks[s] = s0
  BY DEF Init
<1>4. stacks \in [Scene -> Stack]
  <2> HIDE DEF s0
  <2>1. stacks = [s \in Scene |-> s0]
    BY DEF Init, s0
  <2>2. QED BY <1>2, <2>1
<1> HIDE DEF s0
<1>5. \A s \in Scene : Bounded(stacks[s])
  BY <1>1, <1>2, <1>3 DEF Bounded
<1>6. \A s \in Scene : Owned(stacks[s], s)
  <2>1. ASSUME NEW k \in Slots, k < 0 PROVE FALSE
    BY <2>1, <1>1 DEF Slots
  <2>2. QED BY <1>2, <1>3, <2>1 DEF Owned
<1>7. motion \in [Scene -> Version] /\ \A s \in Scene : motion[s] = 0
  BY DEF Init, Version
<1>8. info \in [Command -> Info]
  BY FrameAssumption DEF Init, Info, Scene, Kinds, Version
<1>9. Histories
  <2> SUFFICES ASSUME NEW s \in Scene
               PROVE  \E v \in Versions : /\ Follows(v, s, stacks[s])
                                          /\ motion[s] = v[stacks[s].current_index]
    BY DEF Histories
  <2> DEFINE v == [j \in 0 .. HardLimit |-> 0]
  <2>1. v \in Versions
    BY DEF Versions, Version, Torn
  <2>2. Follows(v, s, stacks[s])
    <3>1. ASSUME NEW k \in Slots, k < 0 PROVE FALSE
      BY <3>1, <1>1 DEF Slots
    <3>2. stacks[s].num_commands = 0
      BY <1>2, <1>3
    <3> HIDE DEF v
    <3>3. QED BY <3>1, <3>2 DEF Follows
  <2>3. motion[s] = v[stacks[s].current_index]
    <3>1. stacks[s].current_index = 0 /\ 0 \in 0 .. HardLimit
      BY <1>1, <1>2, <1>3
    <3>2. QED BY <1>7, <3>1
  <2>4. QED BY <2>1, <2>2, <2>3
<1>10. created \in {0} \cup Command
  BY DEF Init
<1>11. QED BY <1>4, <1>5, <1>6, <1>7, <1>8, <1>9, <1>10 DEF Core, StacksSound

\* Moving the cursor of one stack.
LEMMA CoreMoved ==
  ASSUME Core, NEW a \in Scene, NEW w, w = [stack |-> stacks[a], motion |-> motion],
         NEW x, StackMoved(w, x, a), x.stack.current_index <= w.stack.num_commands,
         stacks' = [stacks EXCEPT ![a] = x.stack], motion' = x.motion,
         UNCHANGED <<info, created>>
  PROVE  Core'
<1>1. w.stack = stacks[a] /\ w.motion = motion
  OBVIOUS
<1>2. x.stack \in Stack /\ x.motion \in [Scene -> Version]
  BY DEF StackMoved, State
<1>3. /\ stacks' \in [Scene -> Stack]
      /\ stacks'[a] = x.stack
      /\ \A s \in Scene : s # a => stacks'[s] = stacks[s]
  BY <1>2 DEF Core, StacksSound
<1>4. ASSUME NEW s \in Scene PROVE Bounded(stacks'[s]) /\ Owned(stacks[s], s)'
  <2>1. Bounded(stacks[s]) /\ Owned(stacks[s], s)
    BY DEF Core, StacksSound
  <2>2. CASE s = a
    <3>1. Bounded(x.stack)
      BY <1>1, <1>2, <2>1, <2>2 DEF Bounded, StackMoved
    <3>2. Owned(x.stack, s)
      BY <1>1, <2>1, <2>2, MovedKeeps
    <3>3. QED BY <1>3, <2>2, <3>1, <3>2 DEF Owned
  <2>3. CASE s # a
    BY <1>3, <2>1, <2>3 DEF Owned
  <2>4. QED BY <2>2, <2>3
<1>5. ASSUME NEW s \in Scene, OwnStackOnly(s)'
      PROVE  \E v \in Versions : /\ Follows(v, s, stacks[s])'
                                 /\ motion'[s] = v[stacks'[s].current_index]
  <2>1. OwnStackOnly(s)
    BY <1>5 DEF OwnStackOnly
  <2>2. PICK v \in Versions : /\ Follows(v, s, stacks[s])
                              /\ motion[s] = v[stacks[s].current_index]
    BY <2>1 DEF Core, Histories
  <2>3. CASE s = a
    <3>1. motion'[s] = v[stacks'[s].current_index]
      BY <1>1, <1>3, <2>1, <2>2, <2>3 DEF StackMoved
    <3>2. Follows(v, s, stacks'[s])
      BY <1>1, <1>3, <2>2, <2>3 DEF StackMoved, Follows
    <3>3. Follows(v, s, stacks[s])'
      BY <3>2 DEF Follows, EditOf
    <3>4. QED BY <3>1, <3>3
  <2>4. CASE s # a
    <3>1. Apart(s, a)
      BY <2>1, <2>4 DEF Apart, OwnStackOnly
    <3>2. motion'[s] = motion[s] /\ stacks'[s] = stacks[s]
      BY <1>1, <1>3, <2>4, <3>1 DEF StackMoved
    <3>3. Follows(v, s, stacks[s])'
      BY <2>2, <3>2 DEF Follows, EditOf
    <3>4. QED BY <2>2, <3>2, <3>3
  <2>5. QED BY <2>3, <2>4
<1>6. Histories'
  BY <1>5 DEF Histories
<1>7. QED BY <1>2, <1>3, <1>4, <1>6 DEF Core, StacksSound, Bounded

LEMMA CoreSame ==
  ASSUME Core, UNCHANGED <<stacks, motion, info, created>>
  PROVE  Core'
BY DEF Core, StacksSound, Histories, Bounded, Owned, OwnStackOnly, Follows, EditOf

-----------------------------------------------------------------------------
(***************************************************************************)
(* A pushed command.                                                       *)
(***************************************************************************)

\* Whatever way the command finds its slot, it is the last one and the cursor
\* is behind it; d is 1 if the oldest command was dropped and 0 if not.
PushedBy(s, t, c, d) ==
  /\ t \in Stack
  /\ t.soft_limit = s.soft_limit
  /\ t.num_commands = t.current_index
  /\ t.current_index = s.current_index + 1 - d
  /\ t.current_index <= SoftLimit
  /\ s.current_index - d \in Slots
  /\ t.commands[s.current_index - d] = c
  /\ \A i \in Slots : i < s.current_index - d =>
       i + d \in Slots /\ i + d < s.num_commands /\ t.commands[i] = s.commands[i + d]
  /\ d = 1 => s.current_index = SoftLimit

LEMMA PushedFields ==
  ASSUME NEW s, Bounded(s), NEW c \in Command
  PROVE  \E d \in {0, 1} : PushedBy(s, Pushed(s, c), c, d)
<1>1. /\ s \in Stack /\ s.commands \in [Slots -> Command \cup {NULL}]
      /\ s.current_index \in Nat /\ s.num_commands \in Nat
      /\ s.current_index <= s.num_commands /\ s.num_commands <= SoftLimit
      /\ SoftLimit \in Nat /\ SoftLimit > 0 /\ SoftLimit <= HardLimit /\ HardLimit \in Nat
      /\ s.soft_limit = SoftLimit
  BY SoftLimitAssumption, HardLimitAssumption DEF Bounded, Stack
<1> DEFINE k == s.current_index
<1>2. CASE Truncates(s)
  <2>1. k < s.num_commands
    BY <1>2 DEF Truncates
  <2> DEFINE m == [i \in Slots |-> IF i = k THEN c
                                   ELSE IF i > k /\ i < s.num_commands THEN NULL
                                        ELSE s.commands[i]]
             t == [s EXCEPT !.commands = m, !.current_index = k + 1, !.num_commands = k + 1]
  <2>2. Pushed(s, c) = UpdateDirty(t)
    BY <1>2 DEF Pushed, Truncated
  <2>3. m \in [Slots -> Command \cup {NULL}]
    BY <1>1
  <2>4. k \in Slots /\ m[k] = c /\ \A i \in Slots : i < k => m[i] = s.commands[i]
    BY <1>1, <2>1 DEF Slots
  <2>5. k + 1 \in 0 .. HardLimit /\ k + 1 <= SoftLimit
    BY <1>1, <2>1
  <2> HIDE DEF m
  <2>6. /\ Pushed(s, c) \in Stack /\ Pushed(s, c).soft_limit = s.soft_limit
        /\ Pushed(s, c).current_index = k + 1 /\ Pushed(s, c).num_commands = k + 1
        /\ Pushed(s, c).commands = m
    BY <1>1, <2>2, <2>3, <2>5 DEF UpdateDirty, Stack
  <2>7. PushedBy(s, Pushed(s, c), c, 0)
    <3>1. \A i \in Slots : i < k - 0 =>
            i + 0 \in Slots /\ i + 0 < s.num_commands /\ m[i] = s.commands[i + 0]
      BY <1>1, <2>1, <2>4 DEF Slots
    <3>2. k - 0 = k /\ k + 1 - 0 = k + 1
      BY <1>1
    <3>3. QED BY <2>4, <2>5, <2>6, <3>1, <3>2 DEF PushedBy
  <2>8. QED BY <2>7
<1>3. CASE ~Truncates(s) /\ Evicts(s)
  <2>1. k = s.num_commands /\ k = SoftLimit
    BY <1>1, <1>3 DEF Truncates, Evicts
  <2> DEFINE m == [i \in Slots |-> IF i = k - 1 THEN c
                                   ELSE IF i < k - 1 THEN s.commands[i + 1]
                                        ELSE s.commands[i]]
             t == [s EXCEPT !.commands = m]
  <2>2. Pushed(s, c) = UpdateDirty(t)
    BY <1>3 DEF Pushed, Shifted
  <2>3. m \in [Slots -> Command \cup {NULL}]
    <3>1. ASSUME NEW i \in Slots, i < k - 1 PROVE i + 1 \in Slots
      BY <1>1, <2>1, <3>1 DEF Slots
    <3>2. QED BY <1>1, <3>1
  <2>4. k - 1 \in Slots /\ m[k - 1] = c /\ \A i \in Slots : i < k - 1 => m[i] = s.commands[i + 1]
    BY <1>1, <2>1 DEF Slots
  <2> HIDE DEF m
  <2>6. /\ Pushed(s, c) \in Stack /\ Pushed(s, c).soft_limit = s.soft_limit
        /\ Pushed(s, c).current_index = k /\ Pushed(s, c).num_commands = k
        /\ Pushed(s, c).commands = m
    BY <1>1, <2>1, <2>2, <2>3 DEF UpdateDirty, Stack
  <2>7. PushedBy(s, Pushed(s, c), c, 1)
    <3>1. \A i \in Slots : i < k - 1 =>
            i + 1 \in Slots /\ i + 1 < s.num_commands /\ m[i] = s.commands[i + 1]
      BY <1>1, <2>1, <2>4 DEF Slots
    <3>2. k = k + 1 - 1
      BY <1>1
    <3>3. QED BY <1>1, <2>1, <2>4, <2>6, <3>1, <3>2 DEF PushedBy
  <2>8. QED BY <2>7
<1>4. CASE ~Truncates(s) /\ ~Evicts(s)
  <2>1. k = s.num_commands /\ k < SoftLimit
    BY <1>1, <1>4 DEF Truncates, Evicts
  <2> DEFINE m == [i \in Slots |-> IF i = k THEN c ELSE s.commands[i]]
             t == [s EXCEPT !.commands = m, !.current_index = k + 1,
                            !.num_commands = s.num_commands + 1]
  <2>2. Pushed(s, c) = UpdateDirty(t)
    <3>1. Pushed(s, c) = UpdateDirty(Appended(s, c))
      BY <1>4 DEF Pushed
    <3>2. [s.commands EXCEPT ![s.current_index] = c] = m
      BY <1>1
    <3> HIDE DEF m
    <3>3. Appended(s, c) = t
      BY <1>1, <3>2 DEF Appended, Stack
    <3>4. QED BY <3>1, <3>3
  <2>3. m \in [Slots -> Command \cup {NULL}]
    BY <1>1
  <2>4. k \in Slots /\ m[k] = c /\ \A i \in Slots : i < k => m[i] = s.commands[i]
    BY <1>1, <2>1 DEF Slots
  <2>5. k + 1 \in 0 .. HardLimit /\ k + 1 <= SoftLimit /\ s.num_commands + 1 = k + 1
    BY <1>1, <2>1
  <2> HIDE DEF m
  <2>6. /\ Pushed(s, c) \in Stack /\ Pushed(s, c).soft_limit = s.soft_limit
        /\ Pushed(s, c).current_index = k + 1 /\ Pushed(s, c).num_commands = k + 1
        /\ Pushed(s, c).commands = m
    BY <1>1, <2>2, <2>3, <2>5 DEF UpdateDirty, Stack
  <2>7. PushedBy(s, Pushed(s, c), c, 0)
    <3>1. \A i \in Slots : i < k - 0 =>
            i + 0 \in Slots /\ i + 0 < s.num_commands /\ m[i] = s.commands[i + 0]
      BY <1>1, <2>1, <2>4 DEF Slots
    <3>2. k - 0 = k /\ k + 1 - 0 = k + 1
      BY <1>1
    <3>3. QED BY <2>4, <2>5, <2>6, <3>1, <3>2 DEF PushedBy
  <2>8. QED BY <2>7
<1>5. QED BY <1>2, <1>3, <1>4

-----------------------------------------------------------------------------
\* What a push leaves of the commands that were created before.
LEMMA PushKeepsOlder ==
  ASSUME Core, NEW i \in Info, Push(i)
  PROVE  /\ created' \in Command /\ created' = created + 1 /\ created \in Nat
         /\ info' \in [Command -> Info] /\ info'[created'] = i
         /\ \A c \in Command : c <= created => info'[c] = info[c] /\ c <= created'
         /\ \A s \in Scene : OwnStackOnly(s)' => OwnStackOnly(s)
<1>1. created \in Nat /\ Command \subseteq Nat /\ info \in [Command -> Info]
  BY CommandAssumption DEF Core, StacksSound
<1>2. PICK c \in Command : /\ c = created + 1 /\ created' = c
                           /\ info' = [info EXCEPT ![c] = i]
  BY DEF Push
<1>3. info' \in [Command -> Info] /\ info'[created'] = i
  BY <1>1, <1>2
<1>4. ASSUME NEW b \in Command, b <= created PROVE info'[b] = info[b] /\ b <= created'
  <2>1. b \in Nat /\ b # c /\ b <= c
    BY <1>1, <1>2, <1>4
  <2>2. QED BY <1>1, <1>2, <2>1
<1>5. ASSUME NEW s \in Scene, OwnStackOnly(s)' PROVE OwnStackOnly(s)
  BY <1>4, <1>5 DEF OwnStackOnly
<1>6. QED BY <1>1, <1>2, <1>3, <1>4, <1>5

\* A push extends the history of the scene whose stack it is.
LEMMA PushExtends ==
  ASSUME Core, NEW i \in Info, Push(i), i.last = motion[i.scene],
         NEW s \in Scene, s = i.stack, OwnStackOnly(s)'
  PROVE  \E v \in Versions : /\ Follows(v, s, stacks[s])'
                             /\ motion'[s] = v[stacks'[s].current_index]
<1> DEFINE c == created'
           st == stacks[s]
           t == stacks'[s]
           k == st.current_index
           edit == i.scene = s /\ i.kind # "transform"
           Edited(e) == info'[e].scene = s /\ info'[e].kind # "transform"
<1>1. /\ created' \in Command /\ created' = created + 1 /\ created \in Nat
      /\ info'[created'] = i
      /\ \A b \in Command : b <= created => info'[b] = info[b] /\ b # created'
      /\ OwnStackOnly(s)
  <2>1. \A b \in Command : b <= created /\ created \in Nat => b # created + 1
    BY CommandAssumption
  <2>2. QED BY <2>1, PushKeepsOlder
<1>2. Bounded(st) /\ Owned(st, s) /\ motion \in [Scene -> Version]
  BY DEF Core, StacksSound
<1>3. t = Pushed(st, c)
  BY DEF Core, StacksSound, Push
<1>4. PICK d \in {0, 1} : PushedBy(st, t, c, d)
  BY <1>1, <1>2, <1>3, PushedFields
<1>5. PICK v \in Versions : Follows(v, s, st) /\ motion[s] = v[k]
  BY <1>1 DEF Core, Histories
<1>6. motion'[s] = IF edit THEN c ELSE v[k]
  BY <1>1, <1>2, <1>5 DEF Push
<1>7. k \in Nat /\ d \in Nat /\ k <= HardLimit /\ HardLimit \in Nat /\ k - d \in Slots
      /\ k - d >= 0
  BY <1>2, <1>4, HardLimitAssumption DEF Bounded, Stack, PushedBy, Slots
<1>8. /\ t.num_commands = k + 1 - d /\ t.current_index = k + 1 - d
      /\ t.commands[k - d] = c
      /\ \A j \in Slots : j < k - d =>
           j + d \in Slots /\ j + d < st.num_commands /\ t.commands[j] = st.commands[j + d]
  BY <1>4 DEF PushedBy
<1> HIDE DEF t, st, c, edit
<1> DEFINE u == [j \in 0 .. HardLimit |-> IF j <= k - d THEN v[j + d]
                                          ELSE IF edit THEN c ELSE v[k]]
<1>9. u \in Versions
  <2>1. ASSUME NEW j \in 0 .. HardLimit, j <= k - d PROVE v[j + d] \in Version \ {Torn}
    <3>1. j + d \in 0 .. HardLimit
      BY <1>7, <2>1
    <3>2. QED BY <3>1 DEF Versions
  <2>2. c \in Version \ {Torn}
    BY <1>1, CommandAssumption DEF Version, Torn, c
  <2>3. v[k] \in Version \ {Torn}
    BY <1>7 DEF Versions
  <2>4. QED BY <2>1, <2>2, <2>3 DEF Versions
<1>10. u[k + 1 - d] = IF edit THEN c ELSE v[k]
  <2>1. k + 1 - d \in 0 .. HardLimit /\ ~(k + 1 - d <= k - d)
    BY <1>7 DEF Slots
  <2>2. QED BY <2>1
<1>11. u[k - d] = v[k]
  <2>1. k - d \in 0 .. HardLimit /\ k - d <= k - d /\ (k - d) + d = k
    BY <1>7 DEF Slots
  <2>2. QED BY <2>1
<1>12. ASSUME NEW j \in Slots, j < k - d
       PROVE  u[j] = v[j + d] /\ u[j + 1] = v[j + d + 1]
  <2>1. j \in 0 .. HardLimit /\ j + 1 \in 0 .. HardLimit /\ j <= k - d /\ j + 1 <= k - d
        /\ (j + 1) + d = j + d + 1
    BY <1>7, <1>12 DEF Slots
  <2>2. QED BY <2>1
<1> HIDE DEF u
<1>13. ASSUME NEW j \in Slots, j < t.num_commands
       PROVE  LET e == t.commands[j]
              IN IF Edited(e) THEN u[j] = info'[e].last /\ u[j + 1] = e
                                  ELSE u[j + 1] = u[j]
  <2> DEFINE e == t.commands[j]
  <2>1. CASE j < k - d
    <3>1. j + d \in Slots /\ j + d < st.num_commands /\ e = st.commands[j + d]
      BY <1>8, <2>1
    <3>2. e \in Command /\ e <= created
      BY <1>2, <3>1 DEF Owned
    <3>3. info'[e] = info[e] /\ (Edited(e) <=> EditOf(e, s))
      BY <1>1, <3>2 DEF EditOf
    <3>4. IF EditOf(e, s) THEN v[j + d] = info[e].last /\ v[j + d + 1] = e
                          ELSE v[j + d + 1] = v[j + d]
      BY <1>5, <3>1 DEF Follows
    <3> HIDE DEF e
    <3>5. u[j] = v[j + d] /\ u[j + 1] = v[j + d + 1]
      BY <1>12, <2>1
    <3>6. IF Edited(e) THEN u[j] = info'[e].last /\ u[j + 1] = e ELSE u[j + 1] = u[j]
      BY <3>3, <3>4, <3>5
    <3>7. QED BY <3>6 DEF e
  <2>2. CASE j = k - d
    <3>1. e = c /\ j + 1 = k + 1 - d
      BY <1>7, <1>8, <2>2
    <3>2. info'[c] = i /\ (Edited(c) <=> edit)
      BY <1>1 DEF EditOf, c, edit
    <3>3. edit => i.last = v[k]
      BY <1>5 DEF edit
    <3>4. u[j] = v[k] /\ u[j + 1] = IF edit THEN c ELSE v[k]
      BY <1>10, <1>11, <2>2, <3>1
    <3> HIDE DEF e
    <3>5. IF Edited(e) THEN u[j] = info'[e].last /\ u[j + 1] = e ELSE u[j + 1] = u[j]
      BY <3>1, <3>2, <3>3, <3>4
    <3>6. QED BY <3>5 DEF e
  <2>3. j < k - d \/ j = k - d
    BY <1>7, <1>8, <1>13 DEF Slots
  <2>4. QED BY <2>1, <2>2, <2>3
<1>14. PICK x : x = u
  OBVIOUS
<1>15. Follows(x, s, stacks[s])'
  BY <1>13, <1>14 DEF Follows, EditOf, t
<1>16. motion'[s] = x[stacks'[s].current_index]
  BY <1>6, <1>8, <1>10, <1>14 DEF t
<1>17. QED BY <1>9, <1>14, <1>15, <1>16

LEMMA CorePushed ==
  ASSUME Core, NEW i \in Info, Push(i), i.last = motion[i.scene]
  PROVE  Core'
<1>1. /\ created' \in Command /\ created' = created + 1 /\ created \in Nat
      /\ info' \in [Command -> Info] /\ info'[created'] = i
      /\ \A c \in Command : c <= created => info'[c] = info[c] /\ c <= created'
      /\ \A s \in Scene : OwnStackOnly(s)' => OwnStackOnly(s)
  BY PushKeepsOlder
<1>2. i.stack \in Scene /\ i.scene \in Scene
  BY DEF Info
<1>3. stacks' = [stacks EXCEPT ![i.stack] = Pushed(@, created')]
  BY DEF Push
<1>4. Bounded(stacks[i.stack]) /\ stacks \in [Scene -> Stack] /\ motion \in [Scene -> Version]
  BY <1>2 DEF Core, StacksSound
<1>5. PICK d \in {0, 1} : PushedBy(stacks[i.stack], Pushed(stacks[i.stack], created'), created', d)
  BY <1>1, <1>4, PushedFields
<1>6. stacks' \in [Scene -> Stack]
      /\ stacks'[i.stack] = Pushed(stacks[i.stack], created')
      /\ \A s \in Scene : s # i.stack => stacks'[s] = stacks[s]
  BY <1>2, <1>3, <1>4, <1>5 DEF PushedBy
<1>7. motion' \in [Scene -> Version]
  BY <1>1, <1>2, <1>4 DEF Push, Version
<1>8. ASSUME NEW s \in Scene PROVE Bounded(stacks'[s]) /\ Owned(stacks[s], s)'
  <2>1. Bounded(stacks[s]) /\ Owned(stacks[s], s)
    BY DEF Core, StacksSound
  <2>2. CASE s = i.stack
    <3> DEFINE st == stacks[s]
               t == stacks'[s]
    <3>1. PushedBy(st, t, created', d)
      BY <1>5, <1>6, <2>2
    <3> HIDE DEF st, t
    <3>2. Bounded(t)
      BY <2>1, <3>1 DEF Bounded, PushedBy, st, Stack
    <3>3. ASSUME NEW j \in Slots, j < t.num_commands
          PROVE  /\ t.commands[j] \in Command
                 /\ t.commands[j] <= created'
                 /\ info'[t.commands[j]].stack = s
      <4>1. st.current_index \in Nat /\ j \in Nat
        BY <2>1, HardLimitAssumption DEF Bounded, Stack, st, Slots
      <4>2. CASE j < st.current_index - d
        <5>1. j + d \in Slots /\ j + d < st.num_commands /\ t.commands[j] = st.commands[j + d]
          BY <3>1, <4>2 DEF PushedBy
        <5>2. /\ st.commands[j + d] \in Command /\ st.commands[j + d] <= created
              /\ info[st.commands[j + d]].stack = s
          BY <2>1, <5>1 DEF Owned, st
        <5>3. QED BY <1>1, <5>1, <5>2
      <4>3. CASE j = st.current_index - d
        BY <1>1, <2>2, <3>1, <4>3 DEF PushedBy
      <4>4. j < st.current_index - d \/ j = st.current_index - d
        BY <3>1, <3>3, <4>1 DEF PushedBy
      <4>5. QED BY <4>2, <4>3, <4>4
    <3>4. QED BY <3>2, <3>3 DEF Owned, t
  <2>3. CASE s # i.stack
    <3>1. stacks'[s] = stacks[s]
      BY <1>6, <2>3
    <3>2. ASSUME NEW k \in Slots, k < stacks[s].num_commands, NEW e, e = stacks[s].commands[k]
          PROVE  e \in Command /\ e <= created' /\ info'[e].stack = s
      BY <1>1, <2>1, <3>2 DEF Owned
    <3>3. QED BY <2>1, <3>1, <3>2 DEF Owned
  <2>4. QED BY <2>2, <2>3
<1>9. ASSUME NEW s \in Scene, OwnStackOnly(s)'
      PROVE  \E v \in Versions : /\ Follows(v, s, stacks[s])'
                                 /\ motion'[s] = v[stacks'[s].current_index]
  <2>1. CASE s = i.stack
    BY <1>9, <2>1, PushExtends
  <2>2. CASE s # i.stack
    <3>1. i.scene # s
      <4>1. created' \in Nat
        BY <1>1
      <4>2. QED BY <1>1, <1>9, <2>2, <4>1 DEF OwnStackOnly
    <3>2. motion'[s] = motion[s] /\ stacks'[s] = stacks[s]
      BY <1>4, <1>6, <2>2, <3>1 DEF Push
    <3>3. PICK v \in Versions : Follows(v, s, stacks[s]) /\ motion[s] = v[stacks[s].current_index]
      BY <1>1, <1>9 DEF Core, Histories
    <3>4. ASSUME NEW k \in Slots, k < stacks[s].num_commands
          PROVE  LET e == stacks[s].commands[k]
                 IN info'[e] = info[e]
      BY <1>1, <1>9, <3>4 DEF Core, StacksSound, Owned
    <3>5. Follows(v, s, stacks[s])'
      BY <3>2, <3>3, <3>4 DEF Follows, EditOf
    <3>6. QED BY <3>2, <3>3, <3>5
  <2>3. QED BY <2>1, <2>2
<1>10. Histories'
  BY <1>9 DEF Histories
<1>11. QED BY <1>1, <1>6, <1>7, <1>8, <1>10 DEF Core, StacksSound

-----------------------------------------------------------------------------
(***************************************************************************)
(* The inductive invariant.                                                *)
(***************************************************************************)

Place == [frame : {NoFrame} \cup Frame, offset : 0 .. HardLimit]

SmallTypes ==
  /\ active \in Scene /\ frame \in Frame /\ performed \in Place
  /\ playing \in BOOLEAN /\ saved \in Scene \cup {NULL}
  /\ performer \in Scene /\ latest \in Command \cup {NULL}

\* The active model is put aside exactly while playing.
SavedIInv == IF playing THEN saved \in Scene ELSE saved = NULL

\* A transform, and whatever is on the stack of a model, is on the stack of the
\* scene that it edits.
CommandsOwn ==
  \A c \in Command :
    info[c].kind = "transform" \/ info[c].stack \in Model => info[c].stack = info[c].scene

\* The operation that undo is expected to revert is the one below the cursor of
\* the scene that is active, or will be again after playing.
NewestOnTop ==
  latest # NULL =>
    LET s == stacks[IF playing THEN saved ELSE active]
    IN s.current_index > 0 /\ CommandToUndo(s) = latest

\* Without snapshots the transform whose place is remembered is the command
\* below the cursor of the scene that it transformed.
TransformOnTop ==
  NoSnapshot /\ performed # Unset =>
    LET s == stacks[performer]
    IN /\ s.current_index > 0
       /\ info[CommandToUndo(s)].kind = "transform"
       /\ \/ performed.offset = s.current_index - 1
          \/ performed.offset = s.current_index /\ s.current_index = SoftLimit

IInv ==
  /\ SmallTypes /\ Core /\ PlaybackIInv /\ SavedIInv
  /\ CommandsOwn /\ NewestOnTop /\ TransformOnTop

LEMMA PlaceTypes ==
  ASSUME Core, performed \in Place
  PROVE  /\ Unset \in Place
         /\ \A i \in Info : PerformedAfterUndo(i) \in Place
         /\ \A i \in Info, s \in Scene : PerformedAfterRedo(i, stacks[s].current_index) \in Place
         /\ performed.offset \in Nat
<1>1. HardLimit \in Nat
  BY HardLimitAssumption
<1>2. Unset \in Place
  BY <1>1 DEF Unset, Place
<1>3. \A s \in Scene : stacks[s].current_index \in 0 .. HardLimit
  BY DEF Core, StacksSound, Stack
<1>4. \A i \in Info : PerformedAfterUndo(i) \in Place
  BY <1>2 DEF PerformedAfterUndo
<1>5. \A i \in Info, s \in Scene : PerformedAfterRedo(i, stacks[s].current_index) \in Place
  BY <1>2, <1>3 DEF PerformedAfterRedo, Info, Place, Kinds
<1>6. QED BY <1>1, <1>2, <1>4, <1>5 DEF Place

-----------------------------------------------------------------------------
(* Taking a transform back.                                                *)

LEMMA TakeBackEffect ==
  ASSUME Core, performed \in Place, NEW f \in Frame, NEW scene \in Scene,
         TakeBack(f, scene), UNCHANGED <<info, created>>
  PROVE  /\ Core'
         /\ performed' \in Place
         /\ \/ performed # Unset /\ performed' = Unset
            \/ UNCHANGED <<stacks, motion, performed>>
         /\ ~Pending(f) => UNCHANGED <<stacks, motion, performed>>
         /\ \A s \in Scene :
              /\ s # scene => stacks'[s] = stacks[s]
              /\ Apart(s, scene) => motion'[s] = motion[s]
<1>1. performed' \in Place
  BY PlaceTypes DEF TakeBack
<1>2. CASE Pending(f) /\ scene \in Model
  <2> DEFINE w == [stack |-> stacks[scene], motion |-> motion]
             x == OffsetSet(w, performed.offset)
  <2>1. w \in State /\ w.stack = stacks[scene] /\ w.motion = motion
    BY DEF Core, StacksSound, State
  <2>2. /\ Owned(w.stack, scene) /\ w.stack.current_index <= w.stack.num_commands
        /\ info \in [Command -> Info]
    BY <2>1 DEF Core, StacksSound, Bounded
  <2>3. performed.offset \in Nat
    BY PlaceTypes
  <2>4. stacks' = [stacks EXCEPT ![scene] = x.stack] /\ motion' = x.motion
    BY <1>2 DEF TakeBack
  <2>5. PICK z : z = w
    OBVIOUS
  <2>6. PICK y : y = OffsetSet(z, performed.offset)
    OBVIOUS
  <2>7. /\ z \in State /\ Owned(z.stack, scene)
        /\ z.stack.current_index <= z.stack.num_commands
        /\ z = [stack |-> stacks[scene], motion |-> motion]
    BY <2>1, <2>2, <2>5
  <2>8. stacks' = [stacks EXCEPT ![scene] = y.stack] /\ motion' = y.motion
    BY <2>4, <2>5, <2>6
  <2> HIDE DEF w, x
  <2>9. StackMoved(z, y, scene) /\ y.stack.current_index <= z.stack.num_commands
    BY <2>2, <2>3, <2>6, <2>7, OffsetMoves
  <2>10. Core'
    BY <2>7, <2>8, <2>9, CoreMoved
  <2>11. performed # Unset /\ performed' = Unset
    BY <1>2 DEF TakeBack, Pending
  <2>12. \A s \in Scene : s # scene => stacks'[s] = stacks[s]
    BY <2>8 DEF Core, StacksSound
  <2>13. \A s \in Scene : Apart(s, scene) => motion'[s] = motion[s]
    BY <2>7, <2>8, <2>9 DEF StackMoved
  <2>14. QED BY <1>1, <1>2, <2>10, <2>11, <2>12, <2>13
<1>3. CASE ~(Pending(f) /\ scene \in Model)
  <2>1. UNCHANGED <<stacks, motion>>
    BY <1>3 DEF TakeBack
  <2>2. Core'
    BY <2>1, CoreSame
  <2>3. QED BY <1>1, <2>1, <2>2 DEF TakeBack, Pending
<1>4. QED BY <1>2, <1>3

LEMMA SetActiveModelEffect ==
  ASSUME Core, performed \in Place, frame \in Frame, NEW scene \in Scene,
         SetActiveModel(scene), UNCHANGED <<info, created>>
  PROVE  /\ Core'
         /\ performed' \in Place
         /\ performed' = Unset \/ UNCHANGED <<stacks, motion, performed>>
         /\ active' = scene
<1>1. CASE scene = active
  <2>1. UNCHANGED <<stacks, motion, performed>>
    BY <1>1 DEF SetActiveModel
  <2>2. QED BY <2>1, CoreSame DEF SetActiveModel
<1>2. CASE scene # active
  <2>1. TakeBack(frame, scene)
    BY <1>2 DEF SetActiveModel
  <2>2. QED BY <2>1, TakeBackEffect DEF SetActiveModel
<1>3. QED BY <1>1, <1>2

\* Taking back, or not, keeps the transform below the cursor.
LEMMA TransformStays ==
  ASSUME CommandsOwn, TransformOnTop, UNCHANGED <<info, created, performer>>,
         performed' = Unset \/ UNCHANGED <<stacks, motion, performed>>
  PROVE  CommandsOwn' /\ TransformOnTop'
<1>1. CommandsOwn'
  BY DEF CommandsOwn
<1>2. CASE performed' = Unset
  BY <1>1, <1>2 DEF TransformOnTop, Unset
<1>3. CASE UNCHANGED <<stacks, motion, performed>>
  <2>1. TransformOnTop'
    BY <1>3 DEF TransformOnTop, NoSnapshot, Unset, CommandToUndo
  <2>2. QED BY <1>1, <2>1
<1>4. QED BY <1>2, <1>3

-----------------------------------------------------------------------------
(***************************************************************************)
(* The operations.                                                         *)
(***************************************************************************)

LEMMA PushStep ==
  ASSUME Core, performed \in Place, performer \in Scene, CommandsOwn,
         NEW i \in Info, Push(i), i.last = motion[i.scene],
         i.kind = "transform" \/ i.stack \in Model => i.stack = i.scene
  PROVE  /\ Core' /\ performed' \in Place /\ performer' \in Scene
         /\ CommandsOwn' /\ TransformOnTop'
         /\ stacks'[i.stack].current_index > 0
         /\ CommandToUndo(stacks'[i.stack]) = created'
<1>1. Core'
  BY CorePushed
<1>2. /\ created' \in Command /\ created' = created + 1 /\ created \in Nat
      /\ info' \in [Command -> Info] /\ info'[created'] = i
  BY PushKeepsOlder
<1>3. performed' \in Place /\ performer' \in Scene
  BY PlaceTypes DEF Push, PerformerAfter, Info
<1>4. CommandsOwn'
  <2>1. PICK c : c = created'
    OBVIOUS
  <2>2. info' = [info EXCEPT ![c] = i]
    BY <2>1 DEF Push
  <2>3. \A b \in Command : info'[b] = IF b = c THEN i ELSE info[b]
    BY <2>2 DEF Core, StacksSound
  <2>4. QED BY <2>3 DEF CommandsOwn
<1> DEFINE s == stacks[i.stack]
           t == stacks'[i.stack]
           k == s.current_index
<1>5. i.stack \in Scene /\ Bounded(s)
  BY DEF Info, Core, StacksSound
<1>6. t = Pushed(s, created')
  BY <1>5 DEF Core, StacksSound, Push
<1>7. PICK d \in {0, 1} : PushedBy(s, t, created', d)
  BY <1>2, <1>5, <1>6, PushedFields
<1>8. /\ t.current_index = k + 1 - d /\ t.commands[k - d] = created'
      /\ k - d \in Slots /\ (d = 1 => k = SoftLimit)
  BY <1>7 DEF PushedBy
<1>9. k \in Nat /\ SoftLimit \in Nat
  BY <1>5, HardLimitAssumption, SoftLimitAssumption DEF Bounded, Stack
<1>10. t.current_index - 1 = k - d /\ t.current_index > 0
  BY <1>8, <1>9 DEF Slots
<1>11. CommandToUndo(t) = created'
  BY <1>8, <1>10 DEF CommandToUndo
<1>12. TransformOnTop'
  <2>1. CASE i.kind = "transform"
    <3>1. performed' = [frame |-> i.frame, offset |-> k] /\ performer' = i.stack
      BY <2>1 DEF Push, PerformedAfterRedo, PerformerAfter
    <3>2. performed'.offset = k
      BY <3>1
    <3>3. \/ performed'.offset = t.current_index - 1
          \/ performed'.offset = t.current_index /\ t.current_index = SoftLimit
      <4>1. CASE d = 0 BY <1>8, <1>9, <3>2, <4>1
      <4>2. CASE d = 1 BY <1>8, <1>9, <3>2, <4>2
      <4>3. QED BY <4>1, <4>2
    <3>4. info'[created'].kind = "transform"
      BY <1>2, <2>1
    <3>5. t = stacks'[performer']
      BY <3>1
    <3> HIDE DEF t
    <3>6. QED BY <1>10, <1>11, <3>3, <3>4, <3>5 DEF TransformOnTop, CommandToUndo
  <2>2. CASE i.kind = "keyframe"
    <3>1. performed' = Unset
      BY <2>2 DEF Push, PerformedAfterRedo
    <3>2. QED BY <3>1 DEF TransformOnTop, Unset
  <2>3. CASE i.kind = "snapshot"
    <3>1. ~NoSnapshot'
      BY <1>2, <2>3 DEF NoSnapshot
    <3>2. QED BY <3>1 DEF TransformOnTop
  <2>4. QED BY <2>1, <2>2, <2>3 DEF Info, Kinds
<1>13. QED BY <1>1, <1>3, <1>4, <1>10, <1>11, <1>12

\* The three ways to push.
LEMMA NewInfoTypes ==
  ASSUME Core, frame \in Frame, NEW stack \in Scene, NEW scene \in Scene,
         NEW kind \in Kinds
  PROVE  /\ NewInfo(stack, scene, kind) \in Info
         /\ NewInfo(stack, scene, kind).last = motion[NewInfo(stack, scene, kind).scene]
         /\ NewInfo(stack, scene, kind).kind = kind
         /\ NewInfo(stack, scene, kind).stack = stack
         /\ NewInfo(stack, scene, kind).scene = scene
BY DEF NewInfo, Info, Core, StacksSound

LEMMA OperationStep ==
  ASSUME IInv, (\E kind \in Kinds : Operate(kind)) \/ MoveCamera \/ MoveSelectedKeyframes
  PROVE  IInv'
<1>1. Core /\ SmallTypes /\ CommandsOwn /\ PlaybackIInv /\ SavedIInv
  BY DEF IInv
<1>2. /\ active \in Scene /\ Project \in Scene /\ frame \in Frame
      /\ performed \in Place /\ performer \in Scene
  BY <1>1 DEF SmallTypes, Scene
<1>3. ~playing /\ UNCHANGED <<active, frame, playing, saved, chosen>>
  BY DEF Operate, MoveCamera, MoveSelectedKeyframes, Push
<1>4. \E stack, scene \in Scene, kind \in Kinds :
        /\ Push(NewInfo(stack, scene, kind))
        /\ (kind = "transform" \/ stack \in Model => stack = scene)
        /\ latest' = NULL \/ (latest' = created' /\ stack = active)
  <2>1. CASE \E kind \in Kinds : Operate(kind)
    <3>1. PICK kind \in Kinds : Operate(kind)
      BY <2>1
    <3>2. Push(NewInfo(active, active, kind)) /\ latest' = created'
      BY <3>1 DEF Operate
    <3>3. QED BY <1>2, <3>2
  <2>2. CASE MoveCamera
    <3>1. Push(NewInfo(Project, Project, "transform")) /\ latest' = NULL
      BY <2>2 DEF MoveCamera
    <3>2. "transform" \in Kinds
      BY DEF Kinds
    <3>3. QED BY <1>2, <3>1, <3>2
  <2>3. CASE MoveSelectedKeyframes
    <3>1. Push(NewInfo(Project, active, "snapshot")) /\ latest' = NULL
      BY <2>3 DEF MoveSelectedKeyframes
    <3>2. "snapshot" \in Kinds
      BY DEF Kinds
    <3>3. QED BY <1>2, <3>1, <3>2, ProjectAssumption
  <2>4. QED BY <2>1, <2>2, <2>3
<1>5. PICK stack, scene \in Scene, kind \in Kinds :
        /\ Push(NewInfo(stack, scene, kind))
        /\ (kind = "transform" \/ stack \in Model => stack = scene)
        /\ latest' = NULL \/ (latest' = created' /\ stack = active)
  BY <1>4
<1>6. PICK i : i = NewInfo(stack, scene, kind)
  OBVIOUS
<1>7. /\ i \in Info /\ i.last = motion[i.scene] /\ i.kind = kind /\ i.stack = stack
      /\ i.scene = scene /\ Push(i)
  BY <1>1, <1>2, <1>5, <1>6, NewInfoTypes
<1>8. /\ Core' /\ performed' \in Place /\ performer' \in Scene
      /\ CommandsOwn' /\ TransformOnTop'
      /\ stacks'[stack].current_index > 0
      /\ CommandToUndo(stacks'[stack]) = created'
  BY <1>1, <1>2, <1>5, <1>7, PushStep
<1>9. created' \in Command
  BY <1>1, <1>7, PushKeepsOlder
<1>10. SmallTypes'
  BY <1>1, <1>3, <1>5, <1>8, <1>9 DEF SmallTypes
<1>11. NewestOnTop'
  BY <1>3, <1>5, <1>8 DEF NewestOnTop, CommandToUndo
<1>12. PlaybackIInv' /\ SavedIInv'
  BY <1>1, <1>3 DEF PlaybackIInv, SavedIInv
<1>13. QED BY <1>8, <1>10, <1>11, <1>12 DEF IInv

\* The command that undo reverts, and the one that redo performs.
LEMMA NextCommands ==
  ASSUME Core, active \in Scene
  PROVE  /\ CanUndo(stacks[active]) =>
              LET c == CommandToUndo(stacks[active])
              IN c \in Command /\ c <= created /\ info[c].stack = active
         /\ CanRedo(stacks[active]) =>
              LET c == CommandToRedo(stacks[active])
              IN c \in Command /\ c <= created /\ info[c].stack = active
<1> DEFINE s == stacks[active]
           k == s.current_index
<1>1. Bounded(s) /\ Owned(s, active)
  BY DEF Core, StacksSound
<1>2. k \in Nat /\ s.num_commands \in Nat /\ s.num_commands <= HardLimit /\ k <= s.num_commands
      /\ HardLimit \in Nat
  BY <1>1, HardLimitAssumption DEF Bounded, Stack
<1>3. k > 0 => k - 1 \in Slots /\ k - 1 < s.num_commands
  BY <1>2 DEF Slots
<1>4. k < s.num_commands => k \in Slots
  BY <1>2 DEF Slots
<1>5. QED BY <1>1, <1>3, <1>4 DEF CanUndo, CanRedo, CommandToUndo, CommandToRedo, Owned

-----------------------------------------------------------------------------
LEMMA UserUndoStep ==
  ASSUME IInv, UserUndo
  PROVE  IInv'
<1>1. /\ Core /\ SmallTypes /\ CommandsOwn /\ PlaybackIInv /\ SavedIInv
      /\ active \in Scene /\ performed \in Place /\ frame \in Frame
  BY DEF IInv, SmallTypes
<1>2. PICK c : c = CommandToUndo(stacks[active])
  OBVIOUS
<1>3. c \in Command /\ c <= created /\ info[c].stack = active /\ info[c] \in Info
  BY <1>1, <1>2, NextCommands DEF UserUndo, Core, StacksSound
<1>4. PICK w : w = [stack |-> stacks[active], motion |-> motion]
  OBVIOUS
<1>5. PICK x : x = UndoStep(w)
  OBVIOUS
<1>6. w \in State /\ w.stack = stacks[active] /\ w.motion = motion
  BY <1>1, <1>4 DEF State, Core, StacksSound
<1>7. /\ Bounded(w.stack) /\ Owned(w.stack, active) /\ info \in [Command -> Info]
      /\ w.stack.current_index > 0
  BY <1>1, <1>6 DEF Core, StacksSound, UserUndo, CanUndo
<1>8. w.stack.current_index <= w.stack.num_commands
      /\ w.stack.current_index \in Nat /\ w.stack.num_commands \in Nat
  BY <1>7, HardLimitAssumption DEF Bounded, Stack
<1>9. StackMoved(w, x, active) /\ x.stack.current_index = w.stack.current_index - 1
  BY <1>1, <1>5, <1>6, <1>7, <1>8, StepBack
<1>10. x.stack = Undone(stacks[active]) /\ x.motion = MotionAfterUndo(motion, c)
  BY <1>2, <1>5, <1>6 DEF UndoStep
<1>11. stacks' = [stacks EXCEPT ![active] = x.stack] /\ motion' = x.motion
       /\ UNCHANGED <<info, created>>
  BY <1>2, <1>10 DEF UserUndo
<1>12. Core'
  <2>1. x.stack.current_index <= w.stack.num_commands
    BY <1>8, <1>9
  <2>2. QED BY <1>1, <1>4, <1>9, <1>11, <2>1, CoreMoved
<1>13. /\ performed' = PerformedAfterUndo(info[c]) /\ frame' = FrameAfter(info[c])
       /\ latest' = NULL /\ ~playing
       /\ UNCHANGED <<active, playing, saved, chosen, performer>>
  BY <1>2 DEF UserUndo
<1>14. SmallTypes'
  <2>1. performed' \in Place
    BY <1>1, <1>3, <1>13, PlaceTypes
  <2>2. frame' \in Frame
    BY <1>1, <1>3, <1>13 DEF FrameAfter, Info
  <2>3. QED BY <1>1, <1>13, <2>1, <2>2 DEF SmallTypes
<1>15. CommandsOwn' /\ TransformOnTop'
  <2>1. CASE info[c].kind = "snapshot"
    <3>1. ~NoSnapshot'
      BY <1>3, <1>11, <2>1 DEF NoSnapshot
    <3>2. QED BY <1>1, <1>11, <3>1 DEF TransformOnTop, CommandsOwn
  <2>2. CASE info[c].kind # "snapshot"
    <3>1. performed' = Unset
      BY <1>13, <2>2 DEF PerformedAfterUndo
    <3>2. QED BY <1>1, <1>11, <3>1 DEF TransformOnTop, CommandsOwn, Unset
  <2>3. QED BY <2>1, <2>2
<1>16. NewestOnTop' /\ PlaybackIInv' /\ SavedIInv'
  BY <1>1, <1>13 DEF NewestOnTop, PlaybackIInv, SavedIInv
<1>17. QED BY <1>12, <1>14, <1>15, <1>16 DEF IInv

LEMMA UserRedoStep ==
  ASSUME IInv, UserRedo
  PROVE  IInv'
<1>1. /\ Core /\ SmallTypes /\ CommandsOwn /\ PlaybackIInv /\ SavedIInv
      /\ active \in Scene /\ performed \in Place /\ frame \in Frame
  BY DEF IInv, SmallTypes
<1>2. PICK c : c = CommandToRedo(stacks[active])
  OBVIOUS
<1>3. c \in Command /\ c <= created /\ info[c].stack = active /\ info[c] \in Info
  BY <1>1, <1>2, NextCommands DEF UserRedo, Core, StacksSound
<1>4. PICK w : w = [stack |-> stacks[active], motion |-> motion]
  OBVIOUS
<1>5. PICK x : x = RedoStep(w)
  OBVIOUS
<1>6. w \in State /\ w.stack = stacks[active] /\ w.motion = motion
  BY <1>1, <1>4 DEF State, Core, StacksSound
<1>7. /\ Bounded(w.stack) /\ Owned(w.stack, active) /\ info \in [Command -> Info]
      /\ w.stack.current_index < w.stack.num_commands
  BY <1>1, <1>6 DEF Core, StacksSound, UserRedo, CanRedo
<1>8. w.stack.current_index \in Nat /\ w.stack.num_commands \in Nat
  BY <1>7, HardLimitAssumption DEF Bounded, Stack
<1>9. StackMoved(w, x, active) /\ x.stack.current_index = w.stack.current_index + 1
  BY <1>1, <1>5, <1>6, <1>7, StepForth
<1>10. x.stack = Redone(stacks[active]) /\ x.motion = MotionAfterRedo(motion, c)
  BY <1>2, <1>5, <1>6 DEF RedoStep
<1>11. stacks' = [stacks EXCEPT ![active] = x.stack] /\ motion' = x.motion
       /\ UNCHANGED <<info, created>>
  BY <1>2, <1>10 DEF UserRedo
<1>12. Core'
  <2>1. x.stack.current_index <= w.stack.num_commands
    BY <1>7, <1>8, <1>9
  <2>2. QED BY <1>1, <1>4, <1>9, <1>11, <2>1, CoreMoved
<1>13. /\ performed' = PerformedAfterRedo(info[c], stacks[active].current_index)
       /\ frame' = FrameAfter(info[c]) /\ performer' = PerformerAfter(info[c])
       /\ latest' = NULL /\ ~playing
       /\ UNCHANGED <<active, playing, saved, chosen>>
  BY <1>2 DEF UserRedo
<1>14. SmallTypes'
  <2>1. performed' \in Place
    BY <1>1, <1>3, <1>13, PlaceTypes
  <2>2. frame' \in Frame
    BY <1>1, <1>3, <1>13 DEF FrameAfter, Info
  <2>3. performer' \in Scene
    BY <1>1, <1>3, <1>13 DEF PerformerAfter, Info, SmallTypes
  <2>4. QED BY <1>1, <1>13, <2>1, <2>2, <2>3 DEF SmallTypes
<1>15. CommandsOwn'
  BY <1>1, <1>11 DEF CommandsOwn
<1>16. TransformOnTop'
  <2>1. CASE info[c].kind = "snapshot"
    <3>1. ~NoSnapshot'
      BY <1>3, <1>11, <2>1 DEF NoSnapshot
    <3>2. QED BY <3>1 DEF TransformOnTop
  <2>2. CASE info[c].kind = "keyframe"
    <3>1. performed' = Unset
      BY <1>13, <2>2 DEF PerformedAfterRedo
    <3>2. QED BY <3>1 DEF TransformOnTop, Unset
  <2>3. CASE info[c].kind = "transform"
    <3> DEFINE k == stacks[active].current_index
               t == stacks'[active]
    <3>1. performer' = active /\ performed'.offset = k
      BY <1>1, <1>3, <1>13, <2>3 DEF CommandsOwn, PerformedAfterRedo, PerformerAfter
    <3>2. t = x.stack
      BY <1>1, <1>9, <1>11 DEF Core, StacksSound
    <3>3. t.current_index = k + 1 /\ t.commands = stacks[active].commands
      BY <1>6, <1>9, <3>2 DEF StackMoved
    <3>4. k \in Nat /\ (k + 1) - 1 = k
      BY <1>6, <1>8
    <3>5. CommandToUndo(t) = c
      BY <1>2, <3>3, <3>4 DEF CommandToUndo, CommandToRedo
    <3>6. t.current_index > 0 /\ performed'.offset = t.current_index - 1
      BY <3>1, <3>3, <3>4
    <3>7. info'[c].kind = "transform" /\ t = stacks'[performer']
      BY <1>11, <2>3, <3>1
    <3> HIDE DEF t, k
    <3>8. QED BY <3>5, <3>6, <3>7 DEF TransformOnTop, CommandToUndo
  <2>4. QED BY <1>3, <2>1, <2>2, <2>3 DEF Info, Kinds
<1>17. NewestOnTop' /\ PlaybackIInv' /\ SavedIInv'
  BY <1>1, <1>13 DEF NewestOnTop, PlaybackIInv, SavedIInv
<1>18. QED BY <1>12, <1>14, <1>15, <1>16, <1>17 DEF IInv

-----------------------------------------------------------------------------
(* Seeking, switching, playing.                                            *)

\* Steps that take a transform back, or nothing.
LEMMA TakingBackStep ==
  ASSUME IInv, Core', performed' \in Place, frame' \in Frame, active' \in Scene,
         playing' \in BOOLEAN, saved' \in Scene \cup {NULL},
         performed' = Unset \/ UNCHANGED <<stacks, motion, performed>>,
         UNCHANGED <<info, created, performer>>,
         latest' = NULL \/ (latest' = latest /\ NewestOnTop'),
         PlaybackIInv', SavedIInv'
  PROVE  IInv'
<1>1. CommandsOwn' /\ TransformOnTop'
  BY TransformStays DEF IInv
<1>2. SmallTypes'
  BY DEF IInv, SmallTypes
<1>3. NewestOnTop'
  BY DEF NewestOnTop
<1>4. QED BY <1>1, <1>2, <1>3 DEF IInv

LEMMA SeekStep ==
  ASSUME IInv, NEW f \in Frame, Seek(f), PlaybackIInv'
  PROVE  IInv'
<1>1. /\ Core /\ SmallTypes /\ performed \in Place /\ active \in Scene
      /\ NewestOnTop /\ SavedIInv
  BY DEF IInv, SmallTypes
<1>2. TakeBack(f, active) /\ frame' = f /\ ~playing
      /\ UNCHANGED <<info, created, active, playing, saved, performer>>
      /\ latest' = IF Pending(f) THEN NULL ELSE latest
  BY DEF Seek, InternalSeek
<1>3. /\ Core' /\ performed' \in Place
      /\ performed' = Unset \/ UNCHANGED <<stacks, motion, performed>>
      /\ ~Pending(f) => UNCHANGED <<stacks, motion, performed>>
  BY <1>1, <1>2, TakeBackEffect
<1>4. latest' = NULL \/ (latest' = latest /\ NewestOnTop')
  <2>1. CASE Pending(f) BY <1>2, <2>1
  <2>2. CASE ~Pending(f)
    BY <1>1, <1>2, <1>3, <2>2 DEF NewestOnTop, CommandToUndo
  <2>3. QED BY <2>1, <2>2
<1>5. SavedIInv'
  BY <1>1, <1>2 DEF SavedIInv
<1>6. QED BY <1>1, <1>2, <1>3, <1>4, <1>5, TakingBackStep DEF SmallTypes

LEMMA SwitchModelStep ==
  ASSUME IInv, NEW scene \in Scene, SwitchModel(scene), PlaybackIInv'
  PROVE  IInv'
<1>1. /\ Core /\ SmallTypes /\ performed \in Place /\ frame \in Frame /\ SavedIInv
  BY DEF IInv, SmallTypes
<1>2. SetActiveModel(scene) /\ latest' = NULL
      /\ UNCHANGED <<info, created, frame, playing, saved, performer>>
  BY DEF SwitchModel
<1>3. /\ Core' /\ performed' \in Place
      /\ performed' = Unset \/ UNCHANGED <<stacks, motion, performed>>
      /\ active' = scene
  BY <1>1, <1>2, SetActiveModelEffect
<1>4. SavedIInv'
  BY <1>1, <1>2 DEF SavedIInv
<1>5. QED BY <1>1, <1>2, <1>3, <1>4, TakingBackStep DEF SmallTypes

\* Where no stack moves the newest operation stays on top.
LEMMA NewestStays ==
  ASSUME NewestOnTop, UNCHANGED <<stacks, latest>>,
         (IF playing' THEN saved' ELSE active') = IF playing THEN saved ELSE active
  PROVE  NewestOnTop'
<1>1. PICK s : s = IF playing THEN saved ELSE active
  OBVIOUS
<1>2. s = IF playing' THEN saved' ELSE active'
  BY <1>1
<1>3. latest # NULL => stacks[s].current_index > 0 /\ CommandToUndo(stacks[s]) = latest
  BY <1>1 DEF NewestOnTop
<1>4. latest' # NULL => stacks'[s].current_index > 0 /\ CommandToUndo(stacks'[s]) = latest'
  BY <1>3
<1>5. QED BY <1>2, <1>4 DEF NewestOnTop, CommandToUndo

LEMMA PlaybackOps ==
  ASSUME IInv, Play \/ (\E f \in Frame : Tick(f)) \/ Pause \/ Stop, PlaybackIInv',
         UNCHANGED <<stacks, motion>> \/ ((\E f \in Frame : Tick(f)) /\ active # Project)
  PROVE  IInv'
<1>1. /\ Core /\ SmallTypes /\ performed \in Place /\ frame \in Frame /\ SavedIInv
      /\ active \in Scene /\ NewestOnTop /\ PlaybackIInv /\ saved \in Scene \cup {NULL}
      /\ Project \in Scene /\ playing \in BOOLEAN
  BY DEF IInv, SmallTypes, Scene
<1>2. UNCHANGED <<info, created, performer, latest>>
  BY DEF Play, Tick, Pause, Stop
<1>3. NULL \notin Scene
  BY ProjectAssumption DEF Scene
<1>4. CASE Play /\ UNCHANGED <<stacks, motion>>
  <2>1. SetActiveModel(Project) /\ ~playing /\ playing' = TRUE /\ saved' = active
        /\ frame' = frame
    BY <1>4 DEF Play
  <2>2. /\ Core' /\ performed' \in Place
        /\ performed' = Unset \/ UNCHANGED <<stacks, motion, performed>>
        /\ active' = Project
    BY <1>1, <1>2, <2>1, SetActiveModelEffect
  <2>3. NewestOnTop' /\ SavedIInv'
    BY <1>1, <1>2, <1>4, <2>1, NewestStays DEF SavedIInv
  <2>4. QED BY <1>1, <1>2, <2>1, <2>2, <2>3, TakingBackStep
<1>5. ASSUME NEW f \in Frame, Tick(f) PROVE IInv'
  <2>1. TakeBack(f, active) /\ frame' = f /\ playing /\ UNCHANGED <<active, playing, saved>>
    BY <1>5 DEF Tick, InternalSeek
  <2>2. /\ Core' /\ performed' \in Place
        /\ performed' = Unset \/ UNCHANGED <<stacks, motion, performed>>
    BY <1>1, <1>2, <2>1, TakeBackEffect
  <2>3. latest' = NULL \/ (latest' = latest /\ NewestOnTop')
    <3>1. CASE active # Project
      BY <1>1, <1>2, <2>1, <3>1 DEF PlaybackIInv
    <3>2. CASE UNCHANGED <<stacks, motion>>
      BY <1>1, <1>2, <2>1, <3>2, NewestStays
    <3>3. QED BY <3>1, <3>2
  <2>4. SavedIInv'
    BY <1>1, <2>1 DEF SavedIInv
  <2>5. QED BY <1>1, <1>2, <2>1, <2>2, <2>3, <2>4, TakingBackStep
<1>6. CASE Pause /\ UNCHANGED <<stacks, motion>>
  <2>1. SetActiveModel(saved) /\ playing /\ playing' = FALSE /\ saved' = NULL
        /\ frame' = frame /\ saved \in Scene
    BY <1>1, <1>6 DEF Pause, SavedIInv
  <2>2. /\ Core' /\ performed' \in Place
        /\ performed' = Unset \/ UNCHANGED <<stacks, motion, performed>>
        /\ active' = saved
    BY <1>1, <1>2, <2>1, SetActiveModelEffect
  <2>3. NewestOnTop' /\ SavedIInv'
    BY <1>1, <1>2, <1>6, <2>1, <2>2, NewestStays DEF SavedIInv
  <2>4. QED BY <1>1, <1>2, <2>1, <2>2, <2>3, TakingBackStep
<1>7. CASE Stop /\ saved # NULL /\ UNCHANGED <<stacks, motion>>
  <2>1. SetActiveModel(saved) /\ playing' = FALSE /\ saved' = NULL
        /\ frame' = 0 /\ saved \in Scene /\ playing
    BY <1>1, <1>7 DEF Stop, SavedIInv
  <2>2. /\ Core' /\ performed' \in Place
        /\ performed' = Unset \/ UNCHANGED <<stacks, motion, performed>>
        /\ active' = saved
    BY <1>1, <1>2, <2>1, SetActiveModelEffect
  <2>3. NewestOnTop' /\ SavedIInv'
    BY <1>1, <1>2, <1>7, <2>1, <2>2, NewestStays DEF SavedIInv
  <2>4. 0 \in Frame
    BY FrameAssumption
  <2>5. QED BY <1>1, <1>2, <2>1, <2>2, <2>3, <2>4, TakingBackStep
<1>8. CASE Stop /\ saved = NULL
  <2>1. UNCHANGED <<active, stacks, motion, performed>> /\ playing' = FALSE /\ saved' = NULL
        /\ frame' = 0 /\ ~playing
    BY <1>1, <1>3, <1>8 DEF Stop, SavedIInv
  <2>2. Core'
    BY <1>1, <1>2, <2>1, CoreSame
  <2>3. NewestOnTop' /\ SavedIInv'
    BY <1>1, <1>2, <2>1, NewestStays DEF SavedIInv
  <2>4. 0 \in Frame
    BY FrameAssumption
  <2>5. QED BY <1>1, <1>2, <2>1, <2>2, <2>3, <2>4, TakingBackStep
<1>9. Play \/ Pause \/ (Stop /\ saved # NULL) => ~ \E f \in Frame : Tick(f)
  <2>1. ASSUME NEW f \in Frame, Tick(f) PROVE playing /\ playing' /\ saved' = saved
    BY <2>1 DEF Tick
  <2>2. Pause \/ Stop => ~playing'
    BY DEF Pause, Stop
  <2>3. Play => ~playing
    BY DEF Play
  <2>4. QED BY <2>1, <2>2, <2>3
<1>10. QED BY <1>4, <1>5, <1>6, <1>7, <1>8, <1>9

LEMMA IInvInit == Init => IInv
<1> SUFFICES ASSUME Init PROVE IInv
  OBVIOUS
<1>1. Core /\ PlaybackIInv
  BY CoreInit, PlaybackInit
<1>2. SmallTypes
  <2>1. performed \in Place
    BY HardLimitAssumption DEF Init, Unset, Place
  <2>2. QED BY <2>1, FrameAssumption DEF Init, SmallTypes, Scene
<1>3. SavedIInv /\ CommandsOwn /\ NewestOnTop /\ TransformOnTop
  BY DEF Init, SavedIInv, CommandsOwn, NewestOnTop, TransformOnTop
<1>4. QED BY <1>1, <1>2, <1>3 DEF IInv

LEMMA IInvNext == IInv /\ [Next]_vars => IInv'
<1> SUFFICES ASSUME IInv, [Next]_vars PROVE IInv'
  OBVIOUS
<1>1. PlaybackIInv'
  BY PlaybackNext DEF IInv, SmallTypes
<1>2. CASE (\E kind \in Kinds : Operate(kind)) \/ MoveCamera \/ MoveSelectedKeyframes
  BY <1>2, OperationStep
<1>3. CASE UserUndo
  BY <1>3, UserUndoStep
<1>4. CASE UserRedo
  BY <1>4, UserRedoStep
<1>5. CASE \E f \in Frame : Seek(f)
  BY <1>1, <1>5, SeekStep
<1>6. CASE \E scene \in Scene : SwitchModel(scene)
  BY <1>1, <1>6, SwitchModelStep
<1>7. CASE Play \/ (\E f \in Frame : Tick(f)) \/ Pause \/ Stop
  <2>1. CASE playing \/ playing'
    <3>1. UNCHANGED <<stacks, motion>> \/ ((\E f \in Frame : Tick(f)) /\ active # Project)
      <4>1. CASE (\E f \in Frame : Tick(f)) /\ active # Project
        BY <4>1
      <4>2. CASE Play \/ (\E f \in Frame : Tick(f) /\ active = Project) \/ Pause \/ Stop
        BY <2>1, <4>2, PlaybackStep DEF IInv
      <4>3. QED BY <1>7, <4>1, <4>2
    <3>2. QED BY <1>1, <1>7, <3>1, PlaybackOps
  <2>2. CASE ~(playing \/ playing')
    <3>1. Stop
      BY <1>7, <2>2 DEF Play, Tick, Pause
    <3>2. saved = NULL
      BY <2>2 DEF IInv, SavedIInv
    <3>3. UNCHANGED <<stacks, motion>>
      BY <3>1, <3>2 DEF Stop
    <3>4. QED BY <1>1, <1>7, <3>3, PlaybackOps
  <2>3. QED BY <2>1, <2>2
<1>8. CASE UNCHANGED vars
  <2>1. Core'
    BY <1>8, CoreSame DEF IInv, vars
  <2>2. CommandsOwn' /\ TransformOnTop'
    BY <1>8, TransformStays DEF IInv, vars
  <2>3. NewestOnTop'
    BY <1>8, NewestStays DEF IInv, vars
  <2>4. SmallTypes' /\ SavedIInv'
    BY <1>8 DEF IInv, SmallTypes, SavedIInv, vars
  <2>5. QED BY <1>1, <2>1, <2>2, <2>3, <2>4 DEF IInv
<1>9. QED BY <1>2, <1>3, <1>4, <1>5, <1>6, <1>7, <1>8 DEF Next

-----------------------------------------------------------------------------
(***************************************************************************)
(* What follows.                                                           *)
(***************************************************************************)

LEMMA Invariant == Spec => []IInv
<1>1. QED BY IInvInit, IInvNext, PTL DEF Spec

\* What is taken back is on one stack.
LEMMA TakingBackMovesOne ==
  ASSUME IInv, NEW f \in Frame, NEW scene \in Scene, TakeBack(f, scene),
         UNCHANGED <<info, created>>, NEW s \in Scene
  PROVE  \/ stacks'[s] = stacks[s] /\ motion'[s] = motion[s]
         \/ s = scene /\ performed # Unset /\ performed' = Unset
<1>1. Core /\ performed \in Place /\ CommandsOwn
  BY DEF IInv, SmallTypes
<1>2. /\ \/ performed # Unset /\ performed' = Unset
         \/ UNCHANGED <<stacks, motion, performed>>
      /\ s # scene => stacks'[s] = stacks[s]
      /\ Apart(s, scene) => motion'[s] = motion[s]
  BY <1>1, TakeBackEffect
<1>3. CASE scene \notin Model
  <2>1. UNCHANGED <<stacks, motion>>
    BY <1>3, TakeBackKeeps
  <2>2. QED BY <2>1
<1>4. CASE scene \in Model /\ s # scene
  <2>1. Apart(s, scene)
    BY <1>1, <1>4 DEF Apart, CommandsOwn
  <2>2. QED BY <1>2, <1>4, <2>1
<1>5. CASE s = scene
  BY <1>2, <1>5
<1>6. QED BY <1>3, <1>4, <1>5

LEMMA PlaybackMovesOne ==
  ASSUME IInv, [Next]_vars, playing \/ playing', NEW s \in Scene
  PROVE  \/ stacks'[s] = stacks[s] /\ motion'[s] = motion[s]
         \/ chosen' /\ s = active' /\ performed # Unset /\ performed' = Unset
<1>1. PlaybackIInv /\ active \in Scene /\ frame \in Frame
  BY DEF IInv, SmallTypes
<1>2. CASE Editing
  BY <1>2, EditingKeepsStill
<1>3. CASE Play \/ (\E f \in Frame : Tick(f) /\ active = Project) \/ Pause \/ Stop
  <2>1. UNCHANGED <<stacks, motion>>
    BY <1>1, <1>3, PlaybackStep
  <2>2. QED BY <2>1
<1>4. ASSUME NEW f \in Frame, Tick(f), active # Project
      PROVE  \/ stacks'[s] = stacks[s] /\ motion'[s] = motion[s]
             \/ chosen' /\ s = active' /\ performed # Unset /\ performed' = Unset
  <2>1. /\ TakeBack(f, active) /\ playing
        /\ UNCHANGED <<info, created, active, chosen>>
    BY <1>4 DEF Tick, InternalSeek
  <2>2. chosen'
    BY <1>1, <1>4, <2>1 DEF PlaybackIInv
  <2>3. \/ stacks'[s] = stacks[s] /\ motion'[s] = motion[s]
        \/ s = active /\ performed # Unset /\ performed' = Unset
    BY <1>1, <2>1, TakingBackMovesOne
  <2>4. QED BY <2>1, <2>2, <2>3
<1>5. ASSUME NEW scene \in Scene, SwitchModel(scene)
      PROVE  \/ stacks'[s] = stacks[s] /\ motion'[s] = motion[s]
             \/ chosen' /\ s = active' /\ performed # Unset /\ performed' = Unset
  <2>1. /\ TakeBack(frame, scene) /\ active' = scene
        /\ chosen' = playing /\ UNCHANGED <<info, created, playing>>
    BY <1>5 DEF SwitchModel, SetActiveModel
  <2>2. chosen'
    BY <2>1
  <2>3. \/ stacks'[s] = stacks[s] /\ motion'[s] = motion[s]
        \/ s = scene /\ performed # Unset /\ performed' = Unset
    BY <1>1, <2>1, TakingBackMovesOne
  <2>4. QED BY <2>1, <2>2, <2>3
<1>6. CASE UNCHANGED vars
  BY <1>6 DEF vars
<1>7. QED BY <1>2, <1>3, <1>4, <1>5, <1>6 DEF Next, Editing

\* Starting, pausing and stopping move no undo stack and no keyframe, and a tick only
\* the stack of a model that the user chose while playing, where it takes back the
\* transform that was not registered, for any models, frames and limits.
THEOREM PlaybackAlwaysKeepsHistory == Spec => PlaybackKeepsHistory
<1> DEFINE A ==
      playing \/ playing' =>
        \A scene \in Scene :
          \/ stacks'[scene] = stacks[scene] /\ motion'[scene] = motion[scene]
          \/ /\ chosen' /\ scene = active'
             /\ performed # Unset /\ performed' = Unset
<1>1. IInv /\ [Next]_vars => [A]_vars
  BY PlaybackMovesOne
<1>2. QED BY <1>1, Invariant, PTL DEF PlaybackKeepsHistory, Spec

\* The last edit below the cursor gives the version at the cursor: the commands
\* behind it edit nothing.
LEMMA HistoryGivesLastEdit ==
  ASSUME Core, NEW scene \in Scene, NEW v \in Versions,
         Follows(v, scene, stacks[scene]), Edits(scene) # {}
  PROVE  LastEdit(scene) = v[stacks[scene].current_index]
<1> DEFINE s == stacks[scene]
           cursor == s.current_index
           last == CHOOSE k \in Edits(scene) : \A j \in Edits(scene) : j <= k
           c == s.commands[last]
<1>1. /\ cursor \in Nat /\ cursor <= HardLimit /\ HardLimit \in Nat
      /\ s.num_commands \in Nat /\ cursor <= s.num_commands
  BY HardLimitAssumption DEF Core, StacksSound, Bounded, Stack
<1>2. /\ Edits(scene) \subseteq 0 .. HardLimit
      /\ \A k \in Slots : k \in Edits(scene) <=> k < cursor /\ EditOf(s.commands[k], scene)
      /\ \A k \in Edits(scene) : k \in Slots /\ k < cursor
  BY <1>1 DEF Edits, Slots, EditOf
<1> HIDE DEF s, c, cursor
<1>3. last \in Edits(scene) /\ \A j \in Edits(scene) : j <= last
  <2> DEFINE T == {HardLimit - k : k \in Edits(scene)}
  <2>1. T \subseteq Nat /\ T # {}
    BY <1>1, <1>2
  <2>2. PICK n \in T : \A m \in T : n <= m
    <3> HIDE DEF T
    <3>1. QED BY <2>1, LeastElement
  <2>3. PICK k \in Edits(scene) : n = HardLimit - k
    OBVIOUS
  <2>4. ASSUME NEW j \in Edits(scene) PROVE j <= k
    <3>1. HardLimit - j \in T
      OBVIOUS
    <3>2. HardLimit - k <= HardLimit - j
      BY <2>2, <2>3, <3>1
    <3>3. j \in Nat /\ k \in Nat
      BY <1>2
    <3>4. QED BY <1>1, <3>2, <3>3
  <2>5. \E k1 \in Edits(scene) : \A j \in Edits(scene) : j <= k1
    BY <2>4
  <2>6. QED BY <2>5
<1> HIDE DEF last
<1>4. last \in Slots /\ last \in Nat /\ last < cursor /\ EditOf(s.commands[last], scene)
  BY <1>2, <1>3 DEF Slots
<1>5. \A k \in Slots : k < cursor =>
        IF EditOf(s.commands[k], scene) THEN v[k + 1] = s.commands[k] ELSE v[k + 1] = v[k]
  BY <1>1 DEF Follows, s, Slots
<1>6. v[last + 1] = c
  BY <1>4, <1>5 DEF c
<1> DEFINE S == {i \in Nat : last + 1 + i <= cursor => v[last + 1 + i] = c}
           n == cursor - (last + 1)
<1>7. n \in Nat /\ last + 1 + n = cursor
  BY <1>1, <1>4
<1>8. 0 \in S
  BY <1>4, <1>6
<1>9. ASSUME NEW i \in 0 .. n - 1, i \in S PROVE i + 1 \in S
  <2> SUFFICES ASSUME last + 1 + (i + 1) <= cursor PROVE v[last + 1 + (i + 1)] = c
    BY <1>7
  <2> DEFINE k == last + 1 + i
  <2>1. k \in Slots /\ k < cursor /\ k > last /\ k \in Nat
    BY <1>1, <1>4, <1>7 DEF Slots
  <2>2. k \notin Edits(scene)
    BY <1>3, <1>4, <2>1
  <2>3. v[k + 1] = v[k]
    BY <1>2, <1>5, <2>1, <2>2
  <2>4. v[k] = c
    BY <1>4, <1>7, <1>9, <2>1
  <2>5. k + 1 = last + 1 + (i + 1)
    BY <1>4, <1>7
  <2> HIDE DEF k
  <2>6. QED BY <2>3, <2>4, <2>5
<1>10. n \in S
  <2> HIDE DEF S, n
  <2>1. QED BY <1>7, <1>8, <1>9, UpTo
<1>11. v[cursor] = c
  BY <1>1, <1>7, <1>10
<1>12. QED BY <1>11 DEF LastEdit, c, last, s, cursor

\* The keyframes of a scene whose edits are all on its own stack are those that
\* the last edit below the cursor made, for any models, frames and limits.
THEOREM MotionAlwaysAtCursor == Spec => []MotionAtCursor
<1>1. IInv => MotionAtCursor
  <2> SUFFICES ASSUME IInv, NEW scene \in Scene, OwnStackOnly(scene)
               PROVE  /\ motion[scene] # Torn
                      /\ Edits(scene) # {} => motion[scene] = LastEdit(scene)
    BY DEF MotionAtCursor
  <2>1. Core
    BY DEF IInv
  <2>2. PICK v \in Versions : /\ Follows(v, scene, stacks[scene])
                              /\ motion[scene] = v[stacks[scene].current_index]
    BY <2>1 DEF Core, Histories
  <2>3. stacks[scene].current_index \in 0 .. HardLimit
    BY <2>1 DEF Core, StacksSound, Stack
  <2>4. motion[scene] # Torn
    BY <2>2, <2>3 DEF Versions
  <2>5. QED BY <2>1, <2>2, <2>4, HistoryGivesLastEdit
<1>2. QED BY <1>1, Invariant, PTL

\* Every variable keeps its type; the cursor of every stack stays within it.
THEOREM TypesHold == Spec => []TypeOK
<1>1. IInv => TypeOK
  BY DEF IInv, SmallTypes, PlaybackIInv, Core, StacksSound, TypeOK, Place
<1>2. QED BY <1>1, Invariant, PTL

\* Undo reverts the operation that the user performed last.
THEOREM UndoAlwaysRevertsLatest == Spec => UndoRevertsLatest
<1>1. IInv => [UserUndo /\ latest # NULL => CommandToUndo(stacks[active]) = latest]_vars
  BY DEF IInv, NewestOnTop, UserUndo
<1>2. QED BY <1>1, Invariant, PTL DEF UndoRevertsLatest

\* Without snapshots a seek takes back the transform that was not registered and
\* nothing else.
LEMMA SeekGoesBack ==
  ASSUME IInv, NEW f \in Frame, Seek(f), performer = active, NoSnapshot
  PROVE  /\ UNCHANGED motion
         /\ Pending(f) /\ active \in Model =>
              LET s == stacks[active]
              IN /\ info[CommandToUndo(s)].kind = "transform"
                 /\ stacks'[active].current_index = performed.offset
                 /\ s.current_index < SoftLimit => performed.offset = s.current_index - 1
<1>1. /\ Core /\ active \in Scene /\ performed \in Place /\ TransformOnTop
      /\ TakeBack(f, active) /\ info \in [Command -> Info]
  BY DEF IInv, SmallTypes, Core, StacksSound, Seek, InternalSeek
<1>2. CASE ~(Pending(f) /\ active \in Model)
  BY <1>1, <1>2 DEF TakeBack
<1>3. CASE Pending(f) /\ active \in Model
  <2> DEFINE s == stacks[active]
             off == performed.offset
  <2>1. /\ s.current_index > 0 /\ info[CommandToUndo(s)].kind = "transform"
        /\ off = s.current_index - 1 \/ (off = s.current_index /\ s.current_index = SoftLimit)
    BY <1>1, <1>3 DEF TransformOnTop, Pending
  <2>2. /\ Bounded(s) /\ Owned(s, active)
        /\ s.current_index \in Nat /\ s.num_commands \in Nat /\ SoftLimit \in Nat
        /\ s.current_index <= s.num_commands
    BY <1>1, HardLimitAssumption, SoftLimitAssumption DEF Core, StacksSound, Bounded, Stack
  <2>3. off \in Nat /\ off <= s.current_index
        /\ (s.current_index < SoftLimit => off = s.current_index - 1)
    BY <2>1, <2>2
  <2>4. PICK w : w = [stack |-> s, motion |-> motion]
    OBVIOUS
  <2>5. w \in State /\ w.stack = s /\ w.motion = motion
    BY <1>1, <2>4 DEF Core, StacksSound, State
  <2>6. PICK x : x = OffsetSet(w, off)
    OBVIOUS
  <2>7. stacks' = [stacks EXCEPT ![active] = x.stack] /\ motion' = x.motion
    BY <1>1, <1>3, <2>4, <2>6 DEF TakeBack
  <2>8. StackMoved(w, x, active) /\ x.stack.current_index = off
    BY <1>1, <2>2, <2>3, <2>5, <2>6, OffsetMoves
  <2>9. stacks'[active].current_index = off
    BY <1>1, <2>7, <2>8 DEF Core, StacksSound
  <2>10. x.motion = motion
    <3>1. CASE off = s.current_index
      BY <2>2, <2>5, <2>6, <3>1 DEF OffsetSet
    <3>2. CASE off = s.current_index - 1
      <4>1. off < s.current_index /\ s.current_index - off = 1
        BY <2>2, <3>2
      <4>2. x = Rewound(w, 1)
        BY <2>5, <2>6, <4>1 DEF OffsetSet
      <4> DEFINE S == {<<0, w>>, <<1, UndoStep(w)>>}
      <4>3. <<1, Rewound(w, 1)>> \in S
        <5>1. <<0, w>> \in S
          OBVIOUS
        <5>2. ASSUME NEW k \in 0 .. 1 - 1, NEW y, <<k, y>> \in S
              PROVE  <<k + 1, UndoStep(y)>> \in S
          BY <5>2
        <5> HIDE DEF S
        <5>3. QED BY <5>1, <5>2, RewoundBySteps
      <4>4. x = UndoStep(w)
        BY <4>2, <4>3
      <4>5. CommandToUndo(s) \in Command
        BY <1>1, <2>1, NextCommands DEF CanUndo
      <4>6. UndoStep(w).motion = MotionAfterUndo(motion, CommandToUndo(s))
        BY <2>5 DEF UndoStep
      <4>7. MotionAfterUndo(motion, CommandToUndo(s)) = motion
        BY <1>1, <2>1, <4>5, MotionUndone DEF Core, StacksSound
      <4>8. QED BY <4>4, <4>6, <4>7
    <3>3. QED BY <2>1, <3>1, <3>2
  <2>11. QED BY <2>1, <2>3, <2>7, <2>9, <2>10
<1>4. QED BY <1>2, <1>3

THEOREM SeekAlwaysTakesTransformBack == Spec => SeekTakesTransformBack
<1> DEFINE A ==
      \A f \in Frame :
        Seek(f) /\ performer = active /\ NoSnapshot
          => /\ UNCHANGED motion
             /\ Pending(f) /\ active \in Model =>
                  LET s == stacks[active]
                  IN /\ info[CommandToUndo(s)].kind = "transform"
                     /\ stacks'[active].current_index = performed.offset
                     /\ s.current_index < SoftLimit => performed.offset = s.current_index - 1
<1>1. IInv => [A]_vars
  BY SeekGoesBack
<1>2. QED BY <1>1, Invariant, PTL DEF SeekTakesTransformBack

-----------------------------------------------------------------------------
(* The lists of snapshots that a stack of the project holds.               *)

\* A list of edits of motions.
EditList(list) == Len(list) \in Nat /\ \A i \in 1 .. Len(list) : list[i].target \in Motion

\* The first k snapshots have been loaded: a motion that none of them is of has what it
\* had, and every other has what the last snapshot of it loads.
LoadedUpTo(c, contents, list, versions, k) ==
  /\ c \in Contents
  /\ \A m \in Motion : (\A i \in 1 .. k : list[i].target # m) => c[m] = contents[m]
  /\ \A i \in 1 .. k : (\A j \in i + 1 .. k : list[j].target # list[i].target)
                         => c[list[i].target] = versions[i]

LEMMA LoadOne ==
  ASSUME NEW c, NEW contents, NEW list, NEW versions, NEW k \in Nat,
         LoadedUpTo(c, contents, list, versions, k),
         list[k + 1].target \in Motion, versions[k + 1] \in MotionVersion
  PROVE  LoadedUpTo(Loaded(c, list[k + 1].target, versions[k + 1]), contents, list, versions, k + 1)
<1> DEFINE t == list[k + 1].target
           v == versions[k + 1]
           d == Loaded(c, t, v)
<1>1. c \in Contents /\ t \in Motion /\ v \in MotionVersion /\ k + 1 \in 1 .. k + 1
  BY DEF LoadedUpTo
<1>2. d = [c EXCEPT ![t] = v]
  BY DEF Loaded
<1>3. d \in Contents /\ d[t] = v /\ \A m \in Motion : m # t => d[m] = c[m]
  <2> HIDE DEF t, v, d
  <2>1. QED BY <1>1, <1>2 DEF Contents
<1>4. ASSUME NEW m \in Motion, \A i \in 1 .. k + 1 : list[i].target # m
      PROVE  d[m] = contents[m]
  <2>1. m # t /\ \A i \in 1 .. k : list[i].target # m
    BY <1>1, <1>4
  <2> HIDE DEF t, v, d
  <2>2. QED BY <1>3, <2>1 DEF LoadedUpTo
<1>5. ASSUME NEW i \in 1 .. k + 1, \A j \in i + 1 .. k + 1 : list[j].target # list[i].target
      PROVE  d[list[i].target] = versions[i]
  <2>1. CASE i = k + 1
    BY <1>3, <2>1
  <2>2. CASE i \in 1 .. k
    <3>1. k + 1 \in i + 1 .. k + 1 /\ \A j \in i + 1 .. k : j \in i + 1 .. k + 1
      BY <2>2
    <3>2. t # list[i].target /\ \A j \in i + 1 .. k : list[j].target # list[i].target
      BY <1>5, <3>1
    <3>3. c[list[i].target] = versions[i]
      BY <2>2, <3>2 DEF LoadedUpTo
    <3>4. list[i].target \in Motion \/ list[i].target \notin Motion
      OBVIOUS
    <3>5. d[list[i].target] = c[list[i].target]
      <4> HIDE DEF v, d
      <4>1. QED BY <1>2, <3>2 DEF t
    <3>6. QED BY <3>3, <3>5
  <2>3. QED BY <2>1, <2>2
<1>6. QED BY <1>3, <1>4, <1>5 DEF LoadedUpTo

\* f holds what is left after each of the first n snapshots.
Runs(f, contents, list, versions, n) ==
  f = [i \in 0 .. n |-> IF i = 0 THEN contents
                        ELSE Loaded(f[i - 1], list[i].target, versions[i])]

\* The function that RunFromFront takes the last value of exists.
LEMMA RunExists ==
  ASSUME NEW contents, NEW list, NEW versions, NEW n \in Nat
  PROVE  \E f : Runs(f, contents, list, versions, n)
<1> DEFINE Step(i, c) == Loaded(c, list[i].target, versions[i])
<1> HIDE DEF Step
<1> DEFINE Fun(m) == \E f : f = [i \in 0 .. m |-> IF i = 0 THEN contents ELSE Step(i, f[i - 1])]
           S == {m \in 0 .. n : Fun(m)}
<1>1. 0 \in S
  <2>1. [i \in 0 .. 0 |-> contents]
          = [i \in 0 .. 0 |-> IF i = 0 THEN contents
                              ELSE Step(i, [j \in 0 .. 0 |-> contents][i - 1])]
    OBVIOUS
  <2>2. Fun(0)
    BY <2>1
  <2>3. QED BY <2>2
<1>2. ASSUME NEW m \in 0 .. n - 1, m \in S PROVE m + 1 \in S
  <2>1. PICK f : f = [i \in 0 .. m |-> IF i = 0 THEN contents ELSE Step(i, f[i - 1])]
    BY <1>2
  <2> DEFINE g == [i \in 0 .. m + 1 |-> IF i = m + 1 THEN Step(i, f[m]) ELSE f[i]]
  <2>2. ASSUME NEW k \in 0 .. m + 1
        PROVE  g[k] = IF k = 0 THEN contents ELSE Step(k, g[k - 1])
    <3>1. CASE k = m + 1
      <4>1. k # 0 /\ k - 1 = m /\ m \in 0 .. m + 1 /\ m # m + 1
        BY <3>1
      <4>2. g[k] = Step(k, f[m]) /\ g[m] = f[m]
        BY <3>1, <4>1
      <4>3. QED BY <4>1, <4>2
    <3>2. CASE k \in 1 .. m
      <4>1. k # 0 /\ k \in 0 .. m /\ k - 1 \in 0 .. m /\ k # m + 1 /\ k - 1 # m + 1
            /\ k - 1 \in 0 .. m + 1
        BY <3>2
      <4>2. g[k] = f[k] /\ g[k - 1] = f[k - 1] /\ f[k] = Step(k, f[k - 1])
        BY <2>1, <4>1
      <4>3. QED BY <4>1, <4>2
    <3>3. CASE k = 0
      <4>1. k \in 0 .. m /\ k # m + 1
        BY <3>3
      <4>2. g[k] = f[k] /\ f[k] = contents
        BY <2>1, <3>3, <4>1
      <4>3. QED BY <3>3, <4>2
    <3>4. QED BY <3>1, <3>2, <3>3
  <2>3. g = [i \in 0 .. m + 1 |-> IF i = 0 THEN contents ELSE Step(i, g[i - 1])]
    BY <2>2
  <2>4. Fun(m + 1)
    <3> HIDE DEF g
    <3>1. QED BY <2>3
  <2>5. QED BY <2>4
<1>3. 0 .. n \subseteq S
  <2> HIDE DEF S
  <2>1. QED BY <1>1, <1>2, UpTo
<1>4. Fun(n)
  BY <1>3
<1>5. QED BY <1>4 DEF Step, Runs

\* The whole list, run from its front, by induction over its snapshots.
LEMMA RunLoads ==
  ASSUME NEW contents \in Contents, NEW list, EditList(list), NEW versions,
         \A i \in 1 .. Len(list) : versions[i] \in MotionVersion
  PROVE  LoadedUpTo(RunFromFront(contents, list, versions), contents, list, versions, Len(list))
<1> DEFINE n == Len(list)
           at == CHOOSE f : f = [i \in 0 .. n |-> IF i = 0 THEN contents
                                      ELSE Loaded(f[i - 1], list[i].target, versions[i])]
           P == {k \in 0 .. n : LoadedUpTo(at[k], contents, list, versions, k)}
<1>1. n \in Nat
  BY DEF EditList
<1>2. at = [i \in 0 .. n |-> IF i = 0 THEN contents
                             ELSE Loaded(at[i - 1], list[i].target, versions[i])]
  <2>1. \E f : Runs(f, contents, list, versions, n)
    BY <1>1, RunExists
  <2>2. Runs(CHOOSE f : Runs(f, contents, list, versions, n), contents, list, versions, n)
    BY <2>1
  <2>3. QED BY <2>2 DEF Runs
<1>3. RunFromFront(contents, list, versions) = at[n]
  BY DEF RunFromFront
<1> HIDE DEF at
<1>4. 0 \in P
  <2>1. at[0] = contents /\ 0 \in 0 .. n
    BY <1>1, <1>2
  <2>2. QED BY <2>1 DEF LoadedUpTo
<1>5. ASSUME NEW k \in 0 .. n - 1, k \in P PROVE k + 1 \in P
  <2>1. k \in Nat /\ k + 1 \in 0 .. n /\ k + 1 \in 1 .. n /\ k + 1 # 0 /\ (k + 1) - 1 = k
    BY <1>1
  <2>2. at[k + 1] = Loaded(at[k], list[k + 1].target, versions[k + 1])
    BY <1>2, <2>1
  <2>3. list[k + 1].target \in Motion /\ versions[k + 1] \in MotionVersion
    BY <2>1 DEF EditList
  <2>4. LoadedUpTo(at[k + 1], contents, list, versions, k + 1)
    BY <1>5, <2>1, <2>2, <2>3, LoadOne
  <2>5. QED BY <2>1, <2>4
<1>6. 0 .. n \subseteq P
  <2> HIDE DEF P
  <2>1. QED BY <1>1, <1>4, <1>5, UpTo
<1>7. QED BY <1>1, <1>3, <1>6

-----------------------------------------------------------------------------
LEMMA GreatestElement ==
  ASSUME NEW n \in Nat, NEW T, T \subseteq 1 .. n, T # {}
  PROVE  \E i \in T : \A j \in T : j <= i
<1> DEFINE R == {n - t : t \in T}
<1>1. R \subseteq Nat /\ R # {}
  <2>1. \A t \in T : t \in 1 .. n /\ n - t \in Nat
    OBVIOUS
  <2>2. R \subseteq Nat
    BY <2>1
  <2>3. PICK t \in T : TRUE
    OBVIOUS
  <2>4. n - t \in R
    BY <2>3
  <2>5. QED BY <2>2, <2>4
<1>2. PICK r \in R : \A q \in R : r <= q
  <2> HIDE DEF R
  <2>1. QED BY <1>1, LeastElement
<1>3. PICK i \in T : r = n - i
  BY <1>2
<1>4. ASSUME NEW j \in T PROVE j <= i
  <2>1. r <= n - j
    BY <1>2
  <2>2. i \in 1 .. n /\ j \in 1 .. n
    OBVIOUS
  <2>3. QED BY <1>3, <2>1, <2>2
<1>5. QED BY <1>4

Untouched(list, m) == \A i \in 1 .. Len(list) : list[i].target # m
LastOfMotion(list, i) == \A j \in i + 1 .. Len(list) : list[j].target # list[i].target
EachOnce(list) ==
  \A i, j \in 1 .. Len(list) : list[i].target = list[j].target => i = j

\* A motion is in no snapshot of a list, or in a last one.
LEMMA SomeLast ==
  ASSUME NEW list, EditList(list), NEW m, ~Untouched(list, m)
  PROVE  \E i \in 1 .. Len(list) : list[i].target = m /\ LastOfMotion(list, i)
<1> DEFINE n == Len(list)
           T == {i \in 1 .. n : list[i].target = m}
<1>1. n \in Nat /\ T \subseteq 1 .. n /\ T # {}
  BY DEF EditList, Untouched
<1>2. PICK i \in T : \A j \in T : j <= i
  <2> HIDE DEF T
  <2>1. QED BY <1>1, GreatestElement
<1>3. ASSUME NEW j \in i + 1 .. n PROVE list[j].target # m
  <2>1. j \in 1 .. n /\ ~ (j <= i)
    BY <1>1, <1>2
  <2>2. QED BY <1>2, <2>1
<1>4. QED BY <1>2, <1>3 DEF LastOfMotion

\* What a list runs to is known from its last snapshots.
RunsTo(d, contents, list, versions) ==
  /\ \A m \in Motion : Untouched(list, m) => d[m] = contents[m]
  /\ \A i \in 1 .. Len(list) : LastOfMotion(list, i) => d[list[i].target] = versions[i]

LEMMA RunTo ==
  ASSUME NEW contents, NEW list, EditList(list), NEW versions, NEW c, NEW d \in Contents,
         LoadedUpTo(c, contents, list, versions, Len(list)), RunsTo(d, contents, list, versions)
  PROVE  c = d
<1>1. c \in Contents
  BY DEF LoadedUpTo
<1>2. ASSUME NEW m \in Motion PROVE c[m] = d[m]
  <2>1. CASE Untouched(list, m)
    BY <2>1 DEF LoadedUpTo, RunsTo, Untouched
  <2>2. CASE ~Untouched(list, m)
    <3>1. PICK i \in 1 .. Len(list) : list[i].target = m /\ LastOfMotion(list, i)
      BY <2>2, SomeLast
    <3>2. c[m] = versions[i]
      BY <3>1 DEF LoadedUpTo, LastOfMotion
    <3>3. d[m] = versions[i]
      BY <3>1 DEF RunsTo
    <3>4. QED BY <3>2, <3>3
  <2>3. QED BY <2>1, <2>2
<1>3. QED BY <1>1, <1>2 DEF Contents

-----------------------------------------------------------------------------
\* The version of a motion after the first n edits.
LEMMA VersionFacts ==
  ASSUME BatchTypeOK, NEW targets, NEW n \in Nat, NEW m \in Motion, version + n <= MaxVersion
  PROVE  /\ VersionAfter(targets, n, m) \in MotionVersion
         /\ (\A i \in 1 .. n : targets[i] # m) => VersionAfter(targets, n, m) = motions[m]
         /\ \A i \in 1 .. n : (targets[i] = m /\ \A j \in i + 1 .. n : targets[j] # m)
                                => VersionAfter(targets, n, m) = version + i
<1> DEFINE edits == {i \in 1 .. n : targets[i] = m}
           newest == CHOOSE i \in edits : \A j \in edits : j <= i
<1>1. VersionAfter(targets, n, m) = IF edits = {} THEN motions[m] ELSE version + newest
  BY DEF VersionAfter
<1>2. motions[m] \in MotionVersion /\ version \in Nat /\ MaxVersion \in Nat
  BY MaxVersionAssumption DEF BatchTypeOK, Contents, MotionVersion
<1>3. CASE edits = {}
  BY <1>1, <1>2, <1>3
<1>4. CASE edits # {}
  <2>1. edits \subseteq 1 .. n
    OBVIOUS
  <2>2. \E i \in edits : \A j \in edits : j <= i
    <3> HIDE DEF edits
    <3>1. QED BY <1>4, <2>1, GreatestElement
  <2>3. newest \in edits /\ \A j \in edits : j <= newest
    <3> HIDE DEF edits
    <3>1. QED BY <2>2
  <2>4. VersionAfter(targets, n, m) = version + newest /\ newest \in 1 .. n
    BY <1>1, <1>4, <2>1, <2>3
  <2> HIDE DEF newest
  <2>5. version + newest \in MotionVersion
    BY <1>2, <2>4 DEF MotionVersion
  <2>6. ASSUME NEW i \in 1 .. n, targets[i] = m, \A j \in i + 1 .. n : targets[j] # m
        PROVE  newest = i
    <3>1. i <= newest /\ targets[newest] = m
      BY <2>3, <2>6
    <3>2. newest \notin i + 1 .. n
      BY <2>6, <3>1
    <3>3. QED BY <2>4, <3>1, <3>2
  <2>7. ~ \A i \in 1 .. n : targets[i] # m
    BY <1>4
  <2>8. QED BY <2>4, <2>5, <2>6, <2>7
<1>5. QED BY <1>3, <1>4

\* What the last operation did is known from its list: it leaves the motions that it does
\* not edit alone, brings the others to what the last snapshot of each redoes, and, if
\* it edits no motion twice, its snapshots undo to what was before.
ListIInv ==
  /\ BatchTypeOK
  /\ \A m \in Motion : Untouched(batch, m) => after[m] = before[m] /\ motions[m] = before[m]
  /\ \A i \in 1 .. Len(batch) :
       LastOfMotion(batch, i) => after[batch[i].target] = batch[i].first
  /\ EachOnce(batch) => \A i \in 1 .. Len(batch) : before[batch[i].target] = batch[i].last
  /\ state = "done" => motions = after
  /\ state = "undone" /\ EachOnce(batch) => motions = before

-----------------------------------------------------------------------------
(* The invariant of a list, through every operation.                       *)

LEMMA ListInit == BatchInit => ListIInv
<1> SUFFICES ASSUME BatchInit PROVE ListIInv
  OBVIOUS
<1>1. batch = <<>> /\ Len(batch) = 0 /\ state = "none" /\ motions = [m \in Motion |-> 0]
      /\ before = motions /\ after = motions /\ version = 0
  BY DEF BatchInit
<1>2. batch \in Seq(Snapshot)
  BY <1>1
<1>3. motions \in Contents /\ version \in MotionVersion
  BY <1>1, MaxVersionAssumption DEF Contents, MotionVersion
<1>4. QED BY <1>1, <1>2, <1>3 DEF ListIInv, BatchTypeOK

\* A finite set of motions, put in some order.
LEMMA InSomeOrder ==
  ASSUME NEW S \in SUBSET Motion
  PROVE  SetToSeq(S) \in Seq(Motion)
<1> DEFINE n == Cardinality(S)
           F == {f \in [1 .. n -> S] : IsInjective(f)}
<1>1. n \in Nat /\ ExistsBijection(1 .. n, S)
  BY MotionAssumption, FS_Subset, FS_CardinalityType
<1>2. PICK g : g \in Bijection(1 .. n, S)
  BY <1>1 DEF ExistsBijection
<1>3. g \in F
  BY <1>2 DEF Bijection, Injection, IsInjective
<1>4. SetToSeq(S) \in [1 .. n -> S]
  <2>1. \E f \in [1 .. n -> S] : IsInjective(f)
    BY <1>3
  <2>2. QED BY <2>1 DEF SetToSeq
<1>5. SetToSeq(S) \in [1 .. n -> Motion]
  BY <1>4
<1>6. QED BY <1>1, <1>5

\* The snapshots of edits of the given motions.
LEMMA SnapshotFacts ==
  ASSUME BatchTypeOK, NEW targets \in Seq(Motion), version + Len(targets) <= MaxVersion
  PROVE  /\ Snapshots(targets) \in Seq(Snapshot) /\ Len(Snapshots(targets)) = Len(targets)
         /\ \A i \in 1 .. Len(targets) :
              /\ targets[i] \in Motion /\ Snapshots(targets)[i].target = targets[i]
              /\ Snapshots(targets)[i].first = version + i
              /\ Snapshots(targets)[i].last = VersionAfter(targets, i - 1, targets[i])
<1> DEFINE n == Len(targets)
           s == Snapshots(targets)
<1>1. n \in Nat /\ \A i \in 1 .. n : targets[i] \in Motion
  OBVIOUS
<1>2. s = [i \in 1 .. n |-> [target |-> targets[i], first |-> version + i,
                             last |-> VersionAfter(targets, i - 1, targets[i])]]
  BY DEF Snapshots
<1>3. ASSUME NEW i \in 1 .. n
      PROVE  version + i \in MotionVersion /\ VersionAfter(targets, i - 1, targets[i]) \in MotionVersion
  <2>1. i - 1 \in Nat /\ version \in Nat /\ MaxVersion \in Nat
    BY <1>1, MaxVersionAssumption DEF BatchTypeOK, MotionVersion
  <2>2. version + (i - 1) <= MaxVersion /\ version + i \in MotionVersion
    BY <1>1, <2>1 DEF MotionVersion
  <2>3. QED BY <1>1, <2>1, <2>2, VersionFacts
<1>4. \A i \in 1 .. n : s[i] \in Snapshot /\ s[i].target = targets[i] /\ s[i].first = version + i
                        /\ s[i].last = VersionAfter(targets, i - 1, targets[i])
  BY <1>1, <1>2, <1>3 DEF Snapshot
<1>5. s \in [1 .. n -> Snapshot]
  <2>1. s = [i \in 1 .. n |-> s[i]]
    BY <1>2
  <2> HIDE DEF s
  <2>2. QED BY <1>4, <2>1
<1>6. s \in Seq(Snapshot) /\ Len(s) = n
  <2> HIDE DEF s
  <2>1. QED BY <1>1, <1>5
<1>7. QED BY <1>1, <1>4, <1>6

LEMMA SnapshotsEdit ==
  ASSUME NEW list \in Seq(Snapshot)
  PROVE  /\ EditList(list) /\ Len(list) \in Nat
         /\ \A i \in 1 .. Len(list) : list[i].first \in MotionVersion /\ list[i].last \in MotionVersion
                                      /\ list[i].target \in Motion
<1>1. Len(list) \in Nat /\ \A i \in 1 .. Len(list) : list[i] \in Snapshot
  OBVIOUS
<1>2. QED BY <1>1 DEF EditList, Snapshot

LEMMA RedoLoads ==
  ASSUME NEW contents \in Contents, NEW list \in Seq(Snapshot), NEW d \in Contents,
         \A m \in Motion : Untouched(list, m) => d[m] = contents[m],
         \A i \in 1 .. Len(list) : LastOfMotion(list, i) => d[list[i].target] = list[i].first
  PROVE  RedoAll(contents, list) = d
<1> DEFINE versions == [i \in 1 .. Len(list) |-> list[i].first]
<1>1. EditList(list)
      /\ \A i \in 1 .. Len(list) : versions[i] = list[i].first /\ versions[i] \in MotionVersion
  BY SnapshotsEdit
<1>2. RedoAll(contents, list) = RunFromFront(contents, list, versions)
  BY DEF RedoAll
<1> HIDE DEF versions
<1>3. LoadedUpTo(RedoAll(contents, list), contents, list, versions, Len(list))
  BY <1>1, <1>2, RunLoads
<1>4. RunsTo(d, contents, list, versions)
  BY <1>1 DEF RunsTo
<1>5. QED BY <1>1, <1>3, <1>4, RunTo

LEMMA UndoLoads ==
  ASSUME NEW contents \in Contents, NEW list \in Seq(Snapshot)
  PROVE  /\ UndoAll(contents, list) \in Contents
         /\ \A m \in Motion : Untouched(list, m) => UndoAll(contents, list)[m] = contents[m]
         /\ \A d \in Contents :
              /\ \A m \in Motion : Untouched(list, m) => d[m] = contents[m]
              /\ \A i \in 1 .. Len(list) : d[list[i].target] = list[i].last
              => UndoAll(contents, list) = d
<1> DEFINE versions == [i \in 1 .. Len(list) |-> list[i].last]
<1>1. EditList(list)
      /\ \A i \in 1 .. Len(list) : versions[i] = list[i].last /\ versions[i] \in MotionVersion
  BY SnapshotsEdit
<1>2. UndoAll(contents, list) = RunFromFront(contents, list, versions)
  BY DEF UndoAll
<1> HIDE DEF versions
<1>3. LoadedUpTo(UndoAll(contents, list), contents, list, versions, Len(list))
  BY <1>1, <1>2, RunLoads
<1>4. ASSUME NEW d \in Contents, \A m \in Motion : Untouched(list, m) => d[m] = contents[m],
             \A i \in 1 .. Len(list) : d[list[i].target] = list[i].last
      PROVE  UndoAll(contents, list) = d
  <2>1. RunsTo(d, contents, list, versions)
    BY <1>1, <1>4 DEF RunsTo
  <2>2. QED BY <1>1, <1>3, <1>4, <2>1, RunTo
<1>5. UndoAll(contents, list) \in Contents
      /\ \A m \in Motion : Untouched(list, m) => UndoAll(contents, list)[m] = contents[m]
  BY <1>3 DEF LoadedUpTo, Untouched
<1>6. QED BY <1>4, <1>5

-----------------------------------------------------------------------------
LEMMA PerformIInv ==
  ASSUME ListIInv, NEW targets \in Seq(Motion), Perform(targets)
  PROVE  ListIInv'
<1> DEFINE n == Len(targets)
<1>1. PICK list, d : list = Snapshots(targets) /\ d = [m \in Motion |-> VersionAfter(targets, n, m)]
  OBVIOUS
<1>2. /\ BatchTypeOK /\ version + n <= MaxVersion /\ version' = version + n /\ batch' = list
      /\ before' = motions /\ motions' = RedoAll(motions, list) /\ after' = d /\ state' = "done"
  BY <1>1 DEF ListIInv, Perform
<1>3. n \in Nat /\ motions \in Contents /\ version' \in MotionVersion
  BY <1>2, MaxVersionAssumption DEF BatchTypeOK, MotionVersion
<1>4. /\ list \in Seq(Snapshot) /\ Len(list) = n
      /\ \A i \in 1 .. n : /\ targets[i] \in Motion /\ list[i].target = targets[i]
                           /\ list[i].first = version + i
                           /\ list[i].last = VersionAfter(targets, i - 1, targets[i])
  BY <1>1, <1>2, SnapshotFacts
<1>5. \A m \in Motion :
        /\ VersionAfter(targets, n, m) \in MotionVersion
        /\ (\A i \in 1 .. n : targets[i] # m) => VersionAfter(targets, n, m) = motions[m]
        /\ \A i \in 1 .. n : (targets[i] = m /\ \A j \in i + 1 .. n : targets[j] # m)
                               => VersionAfter(targets, n, m) = version + i
  BY <1>2, <1>3, VersionFacts
<1>6. d \in Contents
  BY <1>1, <1>5 DEF Contents
<1>7. \A m \in Motion : Untouched(list, m) => d[m] = motions[m]
  BY <1>1, <1>4, <1>5 DEF Untouched
<1>8. ASSUME NEW i \in 1 .. n, LastOfMotion(list, i) PROVE d[list[i].target] = list[i].first
  <2>1. \A j \in i + 1 .. n : j \in 1 .. n
    BY <1>3
  <2>2. \A j \in i + 1 .. n : targets[j] # targets[i]
    BY <1>4, <1>8, <2>1 DEF LastOfMotion
  <2>3. VersionAfter(targets, n, targets[i]) = version + i
    BY <1>4, <1>5, <2>2
  <2>4. QED BY <1>1, <1>4, <2>3
<1>9. motions' = d
  BY <1>2, <1>3, <1>4, <1>6, <1>7, <1>8, RedoLoads
<1>10. ASSUME EachOnce(list), NEW i \in 1 .. n PROVE motions[list[i].target] = list[i].last
  <2>1. i - 1 \in Nat /\ version + (i - 1) <= MaxVersion /\ targets[i] \in Motion
    <3>1. version \in Nat /\ MaxVersion \in Nat
      BY <1>2, MaxVersionAssumption DEF BatchTypeOK, MotionVersion
    <3>2. QED BY <1>2, <1>3, <1>4, <3>1
  <2>2. \A j \in 1 .. i - 1 : j \in 1 .. n /\ j # i
    BY <1>3
  <2>3. \A j \in 1 .. i - 1 : targets[j] # targets[i]
    BY <1>4, <1>10, <2>2 DEF EachOnce
  <2>4. VersionAfter(targets, i - 1, targets[i]) = motions[targets[i]]
    BY <1>2, <2>1, <2>3, VersionFacts
  <2>5. QED BY <1>4, <2>4
<1>11. BatchTypeOK'
  BY <1>2, <1>3, <1>4, <1>6, <1>9 DEF BatchTypeOK
<1>12. \A m \in Motion : Untouched(list, m) => after'[m] = before'[m] /\ motions'[m] = before'[m]
  BY <1>2, <1>7, <1>9
<1>13. \A i \in 1 .. Len(list) : LastOfMotion(list, i) => after'[list[i].target] = list[i].first
  BY <1>2, <1>4, <1>8
<1>14. EachOnce(list) => \A i \in 1 .. Len(list) : before'[list[i].target] = list[i].last
  BY <1>2, <1>4, <1>10
<1>15. QED BY <1>2, <1>9, <1>11, <1>12, <1>13, <1>14 DEF ListIInv

LEMMA UndoListIInv ==
  ASSUME ListIInv, Undo
  PROVE  ListIInv'
<1>1. /\ BatchTypeOK /\ motions \in Contents /\ batch \in Seq(Snapshot) /\ before \in Contents
      /\ motions' = UndoAll(motions, batch) /\ state' = "undone"
      /\ UNCHANGED <<version, batch, before, after>>
  BY DEF ListIInv, BatchTypeOK, Undo
<1>2. PICK list : list = batch
  OBVIOUS
<1>3. /\ motions' \in Contents
      /\ \A m \in Motion : Untouched(list, m) => motions'[m] = motions[m]
  BY <1>1, <1>2, UndoLoads
<1>4. ASSUME EachOnce(list) PROVE motions' = before
  <2>1. \A m \in Motion : Untouched(list, m) => before[m] = motions[m]
    BY <1>2 DEF ListIInv
  <2>2. \A i \in 1 .. Len(list) : before[list[i].target] = list[i].last
    BY <1>2, <1>4 DEF ListIInv
  <2>3. QED BY <1>1, <1>2, <2>1, <2>2, UndoLoads
<1>5. BatchTypeOK'
  BY <1>1, <1>3 DEF BatchTypeOK
<1>6. list = batch'
  BY <1>1, <1>2
<1>7. \A m \in Motion : Untouched(list, m) => after'[m] = before'[m] /\ motions'[m] = before'[m]
  BY <1>1, <1>2, <1>3 DEF ListIInv
<1>8. \A i \in 1 .. Len(list) : LastOfMotion(list, i) => after'[list[i].target] = list[i].first
  BY <1>1, <1>2 DEF ListIInv
<1>9. EachOnce(list) => \A i \in 1 .. Len(list) : before'[list[i].target] = list[i].last
  BY <1>1, <1>2 DEF ListIInv
<1>10. QED BY <1>1, <1>4, <1>5, <1>6, <1>7, <1>8, <1>9 DEF ListIInv

LEMMA RedoListIInv ==
  ASSUME ListIInv, Redo
  PROVE  ListIInv'
<1>1. /\ BatchTypeOK /\ motions \in Contents /\ batch \in Seq(Snapshot) /\ after \in Contents
      /\ motions' = RedoAll(motions, batch) /\ state' = "done"
      /\ UNCHANGED <<version, batch, before, after>>
  BY DEF ListIInv, BatchTypeOK, Redo
<1>2. PICK list : list = batch
  OBVIOUS
<1>3. \A m \in Motion : Untouched(list, m) => after[m] = motions[m] /\ after[m] = before[m]
  BY <1>2 DEF ListIInv
<1>4. \A i \in 1 .. Len(list) : LastOfMotion(list, i) => after[list[i].target] = list[i].first
  BY <1>2 DEF ListIInv
<1>5. motions' = after
  BY <1>1, <1>2, <1>3, <1>4, RedoLoads
<1>6. BatchTypeOK' /\ list = batch'
  BY <1>1, <1>2, <1>5 DEF BatchTypeOK
<1>7. EachOnce(list) => \A i \in 1 .. Len(list) : before'[list[i].target] = list[i].last
  BY <1>1, <1>2 DEF ListIInv
<1>8. \A m \in Motion : Untouched(list, m) => after'[m] = before'[m] /\ motions'[m] = before'[m]
  BY <1>1, <1>3, <1>5
<1>9. \A i \in 1 .. Len(list) : LastOfMotion(list, i) => after'[list[i].target] = list[i].first
  BY <1>1, <1>4
<1>10. QED BY <1>1, <1>5, <1>6, <1>7, <1>8, <1>9 DEF ListIInv

LEMMA MovedInOrder ==
  ASSUME NEW S \in SUBSET Motion
  PROVE  Moved(S) \in Seq(Motion)
<1>1. SetToSeq(S \ {ModelMotion}) \in Seq(Motion) /\ ModelMotion \in Motion
  BY InSomeOrder, MotionAssumption
<1>2. QED BY <1>1 DEF Moved

LEMMA ListNext == ListIInv /\ [BatchNext]_batchVars => ListIInv'
<1> SUFFICES ASSUME ListIInv, [BatchNext]_batchVars PROVE ListIInv'
  OBVIOUS
<1>1. CASE MoveAllSelectedKeyframes
  <2>1. PICK S \in SUBSET Motion : Perform(Moved(S))
    BY <1>1 DEF MoveAllSelectedKeyframes
  <2>2. QED BY <2>1, MovedInOrder, PerformIInv
<1>2. CASE ScaleAllMotionKeyframesIn
  <2>1. PICK S \in SUBSET Motion : \/ Perform(<<ModelMotion>> \o Moved(S))
                                   \/ Perform(Append(Moved(S), ModelMotion))
                                   \/ Perform(Append(Moved(S), ModelMotion) \o Moved(S))
    BY <1>2 DEF ScaleAllMotionKeyframesIn
  <2>2. Moved(S) \in Seq(Motion) /\ ModelMotion \in Motion
    BY MovedInOrder, MotionAssumption
  <2>3. /\ <<ModelMotion>> \o Moved(S) \in Seq(Motion)
        /\ Append(Moved(S), ModelMotion) \in Seq(Motion)
        /\ Append(Moved(S), ModelMotion) \o Moved(S) \in Seq(Motion)
    BY <2>2
  <2>4. QED BY <2>1, <2>3, PerformIInv
<1>3. CASE EditEachOnce
  <2>1. PICK S \in SUBSET Motion : Perform(SetToSeq(S))
    BY <1>3 DEF EditEachOnce
  <2>2. QED BY <2>1, InSomeOrder, PerformIInv
<1>4. CASE UNCHANGED batchVars
  BY <1>4 DEF batchVars, ListIInv, BatchTypeOK
<1>5. QED BY <1>1, <1>2, <1>3, <1>4, UndoListIInv, RedoListIInv DEF BatchNext

\* For any motions, versions and operations, redoing a list of snapshots brings back what the
\* operation made, and undoing it what was before, if the list edits no motion twice
\* (BatchUndoCommandListCommand::undo and ::redo, which both run from its front).
THEOREM ListAlwaysRestores == BatchSpec => []ListRestoresOperation
<1>1. ListIInv => ListRestoresOperation
  <2>1. SUFFICES ASSUME ListIInv PROVE ListRestoresOperation
    OBVIOUS
  <2>2. IsInjective([i \in 1 .. Len(batch) |-> batch[i].target]) => EachOnce(batch)
    BY DEF IsInjective, EachOnce
  <2>3. QED BY <2>1, <2>2 DEF ListIInv, ListRestoresOperation
<1>2. QED BY <1>1, ListInit, ListNext, PTL DEF BatchSpec
=============================================================================
