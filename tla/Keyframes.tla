----------------------------- MODULE Keyframes -----------------------------
(***************************************************************************)
(* The keyframes of one bone and the commands that edit them.  A motion    *)
(* owns keyframe objects through an array and finds them by frame through  *)
(* a track; the selection points at the same objects, and a command that   *)
(* removes or inserts a frame of the timeline holds the objects it took    *)
(* out until it is undone or destroyed.  Commands live on the undo stack   *)
(* of the model.  Keyframes are objects with an address, freed memory      *)
(* keeps its contents until the allocator gives it out again.              *)
(***************************************************************************)
EXTENDS Integers, Sequences, FiniteSets, SequencesExt

CONSTANTS Key,       \* addresses of keyframe objects
          None,      \* no keyframe, no frame
          Pose,      \* translations and orientations of the bone
          Rest,      \* the default pose
          Loaded,    \* the tracks a motion is loaded with, poses by frame
          MaxFrame,  \* bound on the frames of the timeline
          Limit,     \* the soft limit of the undo stack
          MaxEdit    \* bound on the number of commands

Frame == 0 .. MaxFrame

ASSUME KeyAssumption == IsFiniteSet(Key) /\ None \notin Key /\ None \notin Nat
ASSUME PoseAssumption == Rest \in Pose /\ None \notin [pose : Pose, curve : Nat]
ASSUME BoundsAssumption ==
  /\ MaxFrame \in Nat /\ Limit \in Nat \ {0} /\ MaxEdit \in Nat
  /\ \A track \in Loaded : DOMAIN track \subseteq Frame /\ \A f \in DOMAIN track : track[f] \in Pose

VARIABLES motion,   \* the objects, the array, the track and the selection
          history,  \* the commands on the undo stack
          cursor,   \* how many of them are done
          edits,    \* (bound) how many were registered
          exact     \* (auxiliary) no command was registered that cannot be undone

vars == <<motion, history, cursor, edits, exact>>

(* Curves are numbered: 0 is linear, 1 the automatic one, and splitting c  *)
(* gives 2c before and 2c + 1 after the new keyframe.                      *)
State == [pose : Pose, curve : Nat]
Default == [pose |-> Rest, curve |-> 0]

Motion == [live : SUBSET Key, keyframes : SUBSET Key,
           track : [Frame -> Key \cup {None}],
           frame : [Key -> Frame], state : [Key -> State],
           selection : SUBSET Key]

Entry == [frame : Frame, updated : BOOLEAN, selected : BOOLEAN,
          first : State, second : State, over : Frame \cup {None},
          curve : [first : Nat, second : Nat]]

Occupied(m) == {f \in Frame : m.track[f] # None}
Content(m) == [f \in Frame |-> IF m.track[f] = None THEN None ELSE m.state[m.track[f]]]

-----------------------------------------------------------------------------
(* The mutable motion.                                                     *)

Withdraw(m, keys) ==
  LET found == keys \cap m.keyframes
  IN  [m EXCEPT !.keyframes = @ \ found,
                !.track = [f \in Frame |-> IF \E k \in found : m.frame[k] = f
                                           THEN None ELSE m.track[f]]]

Free(m, keys) == [m EXCEPT !.live = @ \ keys]

(* Adds each keyframe of the domain of place to the frame it is mapped to. *)
(* One whose frame is taken is refused, and freed with its reference.      *)
Put(m, place) ==
  LET At(f) == {k \in DOMAIN place : place[k] = f}
      free  == {f \in Frame : m.track[f] = None /\ At(f) # {}}
      taken == [f \in free |-> CHOOSE k \in At(f) : TRUE]
      added == {taken[f] : f \in free}
  IN  [m EXCEPT !.keyframes = @ \cup added,
                !.live = @ \ (DOMAIN place \ added),
                !.track = [f \in Frame |-> IF f \in free THEN taken[f] ELSE m.track[f]],
                !.frame = [k \in Key |-> IF k \in added THEN place[k] ELSE m.frame[k]]]

-----------------------------------------------------------------------------
(* BaseBoneKeyframeCommand: the loops over the keyframes of a command.     *)

(* Keyframes at frame 0, and those that existed, are only updated: all the *)
(* entries of a command that update are of one frame, and the last wins.   *)
Updates(entries) == {i \in DOMAIN entries : entries[i].updated}
Restore(m, entries, state) ==
  LET last == CHOOSE i \in Updates(entries) : \A j \in Updates(entries) : j <= i
      key  == m.track[entries[last].frame]
  IN  IF Updates(entries) = {} \/ key = None THEN m
      ELSE [m EXCEPT !.state[key] = state[last]]

FirstOf(entries) == [i \in DOMAIN entries |-> entries[i].first]
SecondOf(entries) == [i \in DOMAIN entries |-> entries[i].second]

Repeats(entries, i) == \E j \in 1 .. i - 1 : entries[j].frame = entries[i].frame

(* The entries that make a keyframe, and those of them whose frame is free. *)
Creates(entries) == DOMAIN entries \ Updates(entries)
Fits(m, entries) ==
  {i \in Creates(entries) : m.track[entries[i].frame] = None /\ ~Repeats(entries, i)}

(* New keyframes get addresses.  One that is refused is selected before it *)
(* is freed, and its address is lost: the next one may get it.             *)
Added(m, entries, new, lost) ==
  LET keys  == {new[i] : i \in DOMAIN new}
      Of(k) == entries[CHOOSE i \in DOMAIN new : new[i] = k]
      r     == Restore(m, entries, FirstOf(entries))
      alloc == [r EXCEPT
                  !.live = @ \cup keys,
                  !.selection = @ \cup {k \in keys : Of(k).selected} \cup lost,
                  !.state = [k \in Key |-> IF k \in keys THEN Of(k).first ELSE @[k]]]
  IN  Put(alloc, [k \in keys |-> Of(k).frame])

Add(m, entries) ==
  LET unused  == Key \ m.live
      refused == {i \in Creates(entries) \ Fits(m, entries) : entries[i].selected}
      news    == {g \in [Fits(m, entries) -> unused] : IsInjective(g)}
      losts   == {s \in SUBSET unused : /\ Cardinality(s) <= Cardinality(refused)
                                       /\ s = {} <=> refused = {}}
  IN  UNION {{Added(m, entries, new, lost) : new \in news} : lost \in losts}

MutDeselect(m, keys) == m
Deselect(m, keys) == [m EXCEPT !.selection = @ \ keys]

(* The loop ends at the first keyframe that is not found. *)
TakeOut(m, entries) ==
  LET Missing(i) == ~entries[i].updated /\ (m.track[entries[i].frame] = None \/ Repeats(entries, i))
      done == {i \in DOMAIN entries : \A j \in 1 .. i : ~Missing(j)}
      some == SubSeq(entries, 1, Cardinality(done))
      keys == {m.track[entries[i].frame] : i \in done \ Updates(entries)}
  IN  Free(Withdraw(Deselect(Restore(m, some, SecondOf(some)), keys), keys), keys)

(* The curve of the keyframe before is the one that is split. *)
Override(m, entry, curve) ==
  IF entry.over = None \/ entry.over \notin Occupied(m) THEN m
  ELSE [m EXCEPT !.state[m.track[entry.over]].curve = curve]


-----------------------------------------------------------------------------
(* BaseShiftingAllKeyframesCommand: all keyframes from a frame on move by  *)
(* one.  They are taken out of the motion first and then put back.         *)

MutShift(m, place) == Put(m, place)
Shift(m, place) == Put(Withdraw(m, DOMAIN place), place)

(* The keyframes that were at the frame come back. *)
MutShiftBackward(m, c) ==
  LET late == {k \in m.keyframes : m.frame[k] >= c.frame}
  IN  [motion |-> Put(Shift(m, [k \in late |-> m.frame[k] + 1]), [k \in c.held |-> c.frame]),
       held |-> c.held]
ShiftBackward(m, c) ==
  LET late == {k \in m.keyframes : m.frame[k] >= c.frame}
  IN  IF c.frame = 0 THEN [motion |-> m, held |-> c.held]
      ELSE [motion |-> Put(Shift(m, [k \in late |-> m.frame[k] + 1]), [k \in c.held |-> c.frame]),
            held |-> {}]

(* Those at the frame are held; the selection is not told. *)
ShiftForward(m, c) ==
  LET late == {k \in m.keyframes : m.frame[k] > c.frame}
      here == {k \in m.keyframes : m.frame[k] = c.frame}
  IN  [motion |-> Shift(Withdraw(m, here), [k \in late |-> m.frame[k] - 1]),
       held |-> c.held \cup here]

(* There is a frame to move to: the bound on the timeline. *)
Room(m, c) == \A k \in m.keyframes : m.frame[k] >= c.frame => m.frame[k] < MaxFrame

-----------------------------------------------------------------------------
(* Commands, and what redoing and undoing them does.                       *)

Kind == {"add", "remove", "insertFrame", "removeFrame"}
Command == [kind : Kind, entries : Seq(Entry), frame : Frame, held : SUBSET Key,
            before : [Frame -> State \cup {None}],
            after : [Frame -> State \cup {None}]]

Alone(m) == [motion |-> m, held |-> {}]

Redone(m, c) ==
  CASE c.kind = "add"    -> {Alone(Override(a, c.entries[1], c.entries[1].curve.first)) : a \in Add(m, c.entries)}
    [] c.kind = "remove" -> {Alone(TakeOut(m, c.entries))}
    [] c.kind = "insertFrame" -> IF Room(m, c) THEN {ShiftBackward(m, c)} ELSE {}
    [] c.kind = "removeFrame" -> {ShiftForward(m, c)}

MutUndone(m, c) ==
  CASE c.kind = "add"    -> {Alone(TakeOut(m, c.entries))}
    [] c.kind = "remove" -> {Alone(a) : a \in Add(m, c.entries)}
    [] c.kind = "insertFrame" -> {ShiftForward(m, c)}
    [] c.kind = "removeFrame" -> IF Room(m, c) THEN {ShiftBackward(m, c)} ELSE {}
Undone(m, c) ==
  CASE c.kind = "add"    -> {Alone(Override(TakeOut(m, c.entries), c.entries[1], c.entries[1].curve.second))}
    [] c.kind = "remove" -> {Alone(a) : a \in Add(m, c.entries)}
    [] c.kind = "insertFrame" -> {ShiftForward(m, c)}
    [] c.kind = "removeFrame" -> IF Room(m, c) THEN {ShiftBackward(m, c)} ELSE {}

NewCommand(kind, entries, frame) ==
  [kind |-> kind, entries |-> entries, frame |-> frame, held |-> {},
   before |-> Content(motion), after |-> Content(motion)]

(* AddBoneKeyframeCommand::toKeyframe: the pose of the bone is registered. *)
(* The curve of the keyframe before is split where its movement goes on.   *)
AddEntry(f, pose, adjust) ==
  LET before == {g \in Occupied(motion) : g < f}
      after  == {g \in Occupied(motion) : g > f}
      exists == f \in Occupied(motion)
      over   == IF exists \/ before = {} THEN None
                ELSE CHOOSE g \in before : \A h \in before : h <= g
      curve  == IF over = None THEN 0 ELSE Content(motion)[over].curve
      splits == over # None /\ adjust /\ curve # 0 /\ after # {}
  IN  [frame |-> f, updated |-> exists \/ f = 0, selected |-> ~exists,
       first |-> [pose |-> pose, curve |-> IF splits THEN 2 * curve + 1 ELSE 0],
       second |-> IF exists THEN Content(motion)[f] ELSE Default,
       over |-> over,
       curve |-> [first |-> IF splits THEN 2 * curve
                            ELSE IF over # None /\ adjust /\ curve = 0 THEN 1 ELSE curve,
                  second |-> curve]]

(* RemoveBoneKeyframeCommand::toKeyframeList *)
RemoveEntry(k) ==
  [frame |-> motion.frame[k], updated |-> motion.frame[k] = 0,
   selected |-> k \in motion.selection,
   first |-> motion.state[k], second |-> Default,
   over |-> None, curve |-> [first |-> 0, second |-> 0]]

-----------------------------------------------------------------------------
(* The undo stack of the model.                                            *)

Held(commands) == UNION {commands[i].held : i \in DOMAIN commands}

(* undoStackPushCommand destroys what can no longer be undone or redone. *)
Kept == IF cursor = Limit THEN Tail(history) ELSE SubSeq(history, 1, cursor)
Dropped ==
  IF cursor = Limit THEN <<Head(history)>> ELSE SubSeq(history, cursor + 1, Len(history))

Push(m, c, undoable) ==
  /\ edits < MaxEdit
  /\ \E r \in Redone(m, c) :
       /\ motion' = Free(r.motion, Held(Dropped))
       /\ history' = Append(Kept, [c EXCEPT !.held = r.held, !.after = Content(r.motion)])
  /\ cursor' = Len(Kept) + 1
  /\ edits' = edits + 1
  /\ exact' = (exact /\ undoable)

Undo ==
  /\ cursor > 0
  /\ \E r \in Undone(motion, history[cursor]) :
       /\ motion' = r.motion
       /\ history' = [history EXCEPT ![cursor].held = r.held]
  /\ cursor' = cursor - 1
  /\ UNCHANGED <<edits, exact>>

Redo ==
  /\ cursor < Len(history)
  /\ \E r \in Redone(motion, history[cursor + 1]) :
       /\ motion' = r.motion
       /\ history' = [history EXCEPT ![cursor + 1].held = r.held]
  /\ cursor' = cursor + 1
  /\ UNCHANGED <<edits, exact>>

-----------------------------------------------------------------------------
(* What the user does.                                                     *)

RegisterAddKeyframe ==
  \E f \in Frame, pose \in Pose, adjust \in BOOLEAN :
    Push(motion, NewCommand("add", <<AddEntry(f, pose, adjust)>>, f), TRUE)

RegisterRemoveKeyframe ==
  \E f \in Occupied(motion) :
    Push(motion, NewCommand("remove", <<RemoveEntry(motion.track[f])>>, f), TRUE)

(* The selection is a set of pointers, iterated in any order.  It may hold *)
(* keyframes that are no longer in the motion.                             *)
RegisterRemoveAllSelectedKeyframes ==
  \E keys \in SetToSeqs(motion.selection) :
    Push([motion EXCEPT !.selection = {}],
         NewCommand("remove", [i \in DOMAIN keys |-> RemoveEntry(keys[i])], 0),
         motion.selection \subseteq motion.keyframes)

RegisterInsertEmptyTimelineFrame ==
  \E f \in Frame \ {0} : Push(motion, NewCommand("insertFrame", <<>>, f), TRUE)

(* Undoing does nothing at frame 0. *)
RegisterRemoveTimelineFrame ==
  \E f \in Frame : Push(motion, NewCommand("removeFrame", <<>>, f), f # 0)

Select(keys) ==
  /\ motion' = [motion EXCEPT !.selection = keys]
  /\ UNCHANGED <<history, cursor, edits, exact>>

(* The row of a keyframe in the timeline selects that frame and the next. *)
SelectKeyframe ==
  \E f \in Frame :
    Select(motion.selection
           \cup {motion.track[g] : g \in {f, f + 1} \cap Occupied(motion)})
SelectAllRowKeyframes == Select(motion.selection \cup {motion.track[f] : f \in Occupied(motion)})
ClearSelectAllKeyframes == Select({})

Next ==
  \/ RegisterAddKeyframe \/ RegisterRemoveKeyframe
  \/ RegisterRemoveAllSelectedKeyframes
  \/ RegisterInsertEmptyTimelineFrame \/ RegisterRemoveTimelineFrame
  \/ Undo \/ Redo
  \/ SelectKeyframe \/ SelectAllRowKeyframes \/ ClearSelectAllKeyframes

(* A motion is loaded with objects for its track, and nothing selected. *)
Init ==
  /\ \E track \in Loaded : \E at \in [DOMAIN track -> Key] :
       /\ \A f, g \in DOMAIN track : at[f] = at[g] => f = g
       /\ LET keys == {at[f] : f \in DOMAIN track}
              Of(k) == CHOOSE f \in DOMAIN track : at[f] = k
          IN  motion = [live |-> keys, keyframes |-> keys,
                        track |-> [f \in Frame |-> IF f \in DOMAIN track THEN at[f] ELSE None],
                        frame |-> [k \in Key |-> IF k \in keys THEN Of(k) ELSE 0],
                        state |-> [k \in Key |-> IF k \in keys THEN [pose |-> track[Of(k)], curve |-> 0]
                                                 ELSE Default],
                        selection |-> {}]
  /\ history = <<>> /\ cursor = 0 /\ edits = 0 /\ exact = TRUE

Spec == Init /\ [][Next]_vars

-----------------------------------------------------------------------------
TypeOK ==
  /\ motion \in Motion
  /\ history \in Seq(Command) /\ Len(history) <= Limit
  /\ cursor \in 0 .. Len(history)
  /\ edits \in 0 .. MaxEdit /\ exact \in BOOLEAN

(* The array, the track and the frame numbers of the keyframes agree:      *)
(* whatever is added, removed, shifted and undone, each keyframe of the    *)
(* motion is found at its own frame, and nothing else is found.            *)
TrackMatchesArray ==
  /\ \A f \in Occupied(motion) :
       motion.track[f] \in motion.keyframes /\ motion.frame[motion.track[f]] = f
  /\ \A k \in motion.keyframes : motion.track[motion.frame[k]] = k

(* A keyframe that exists is owned by the motion or by one command that    *)
(* took it out, and by no other: none is lost, and destroying the motion   *)
(* and the commands frees each once.                                       *)
OwnedOnce ==
  /\ motion.live = motion.keyframes \cup Held(history)
  /\ motion.keyframes \cap Held(history) = {}
  /\ \A i, j \in DOMAIN history : i # j => history[i].held \cap history[j].held = {}

(* Undo and redo walk the motion through the tracks it had, poses and      *)
(* split curves included.  Two commands cannot be undone: removing frame 0 *)
(* of the timeline, and removing a selection that still holds keyframes    *)
(* that are gone.                                                          *)
UndoRestoresTrack ==
  exact =>
    /\ cursor > 0 => Content(motion) = history[cursor].after
    /\ cursor < Len(history) => Content(motion) = history[cursor + 1].before

(* A keyframe that leaves the motion leaves the selection, so that what is *)
(* selected can be removed.  Only removing a frame of the timeline leaves  *)
(* the keyframes it takes out selected.                                    *)
SelectionFollows ==
  [][motion.selection \subseteq motion.keyframes /\ exact'
       => motion'.selection \subseteq motion'.keyframes \cup Held(history')]_vars
=============================================================================
