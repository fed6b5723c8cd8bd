--------------------------- MODULE KeyframesProofs ---------------------------
(***************************************************************************)
(* Proofs about Keyframes for any addresses, poses, frames, limits and     *)
(* numbers of commands: the array and the track of a motion agree, every   *)
(* keyframe has exactly one owner, undo and redo walk the motion through   *)
(* the tracks that it had, and the selection follows.                      *)
(*                                                                         *)
(* The first half is the inductive invariant IInv: what is where, and who  *)
(* owns it.  The second half adds Recorded to it: what each command on the *)
(* stack has recorded is enough to take it back.                           *)
(***************************************************************************)
EXTENDS Keyframes, FiniteSetTheorems, SequenceTheorems, TLAPS

\* TrackMatchesArray of any motion.
Agree(m) ==
  /\ \A f \in Occupied(m) : m.track[f] \in m.keyframes /\ m.frame[m.track[f]] = f
  /\ \A k \in m.keyframes : m.track[m.frame[k]] = k

\* The keyframes that exist are those of the motion and the others, which are held.
Owns(m, others) == m.live = m.keyframes \cup others /\ m.keyframes \cap others = {}

LEMMA FrameIsNat == MaxFrame \in Nat /\ Frame = 0 .. MaxFrame /\ None \notin Frame /\ None \notin Key
BY KeyAssumption, BoundsAssumption DEF Frame

-----------------------------------------------------------------------------
\* Taking keyframes out of the array and the track.
LEMMA WithdrawKeeps ==
  ASSUME NEW m \in Motion, NEW keys \in SUBSET Key, NEW others, Agree(m), Owns(m, others)
  PROVE  /\ Withdraw(m, keys) \in Motion
         /\ Withdraw(m, keys).frame = m.frame
         /\ Withdraw(m, keys).live = m.live
         /\ Withdraw(m, keys).keyframes = m.keyframes \ keys
         /\ Agree(Withdraw(m, keys))
         /\ Owns(Withdraw(m, keys), others \cup (keys \cap m.keyframes))
<1> DEFINE w == Withdraw(m, keys)
           rest == [f \in Frame |-> IF \E k \in keys \cap m.keyframes : m.frame[k] = f
                                    THEN None ELSE m.track[f]]
<1>1. w = [m EXCEPT !.keyframes = m.keyframes \ (keys \cap m.keyframes), !.track = rest]
  BY DEF Withdraw
<1>0. rest \in [Frame -> Key \cup {None}]
  BY DEF Motion
<1> HIDE DEF rest
<1>2. /\ w \in Motion /\ w.frame = m.frame /\ w.live = m.live
      /\ w.keyframes = m.keyframes \ keys
      /\ w.track = rest
  BY <1>0, <1>1 DEF Motion
<1> HIDE DEF w
<1>3. m.frame \in [Key -> Frame] /\ m.keyframes \subseteq Key /\ m.track \in [Frame -> Key \cup {None}]
  BY DEF Motion
<1>4. ASSUME NEW f \in Occupied(w)
      PROVE  w.track[f] \in w.keyframes /\ w.frame[w.track[f]] = f
  <2>1. f \in Frame /\ w.track[f] = m.track[f] /\ f \in Occupied(m)
        /\ ~ \E k \in keys \cap m.keyframes : m.frame[k] = f
    BY <1>2, <1>4 DEF Occupied, rest
  <2>2. m.track[f] \in m.keyframes /\ m.frame[m.track[f]] = f
    BY <2>1 DEF Agree
  <2>3. QED BY <1>2, <2>1, <2>2
<1>5. ASSUME NEW k \in w.keyframes PROVE w.track[w.frame[k]] = k
  <2>1. k \in m.keyframes /\ k \notin keys /\ m.track[m.frame[k]] = k /\ m.frame[k] \in Frame
    BY <1>2, <1>3 DEF Agree
  <2>2. ~ \E j \in keys \cap m.keyframes : m.frame[j] = m.frame[k]
    BY <2>1 DEF Agree
  <2>3. QED BY <1>2, <2>1, <2>2 DEF rest
<1>6. Owns(w, others \cup (keys \cap m.keyframes))
  BY <1>2 DEF Owns
<1>7. QED BY <1>2, <1>4, <1>5, <1>6 DEF Agree, w

\* Freeing keyframes that are held.
LEMMA FreeKeeps ==
  ASSUME NEW m \in Motion, NEW keys, NEW others, Agree(m), Owns(m, others \cup keys),
         others \cap keys = {}
  PROVE  /\ Free(m, keys) \in Motion /\ Agree(Free(m, keys)) /\ Owns(Free(m, keys), others)
<1> DEFINE w == Free(m, keys)
<1>1. w \in Motion /\ w.frame = m.frame /\ w.live = m.live \ keys
      /\ w.keyframes = m.keyframes /\ w.track = m.track
  BY DEF Free, Motion
<1> HIDE DEF w
<1>2. Agree(w) /\ Owns(w, others)
  BY <1>1 DEF Agree, Owns, Occupied
<1>3. QED BY <1>1, <1>2 DEF w

\* Putting held keyframes into the motion: each goes to its frame or is freed.
LEMMA PutKeeps ==
  ASSUME NEW m \in Motion, NEW S \in SUBSET Key, NEW place \in [S -> Frame], NEW others,
         Agree(m), Owns(m, others \cup S), others \cap S = {}
  PROVE  Put(m, place) \in Motion /\ Agree(Put(m, place)) /\ Owns(Put(m, place), others)
<1> DEFINE At(f)  == {k \in S : place[k] = f}
           free   == {f \in Frame : m.track[f] = None /\ At(f) # {}}
           taken  == [f \in free |-> CHOOSE k \in At(f) : TRUE]
           added  == {taken[f] : f \in free}
           track  == [f \in Frame |-> IF f \in free THEN taken[f] ELSE m.track[f]]
           frame  == [k \in Key |-> IF k \in added THEN place[k] ELSE m.frame[k]]
           p      == Put(m, place)
<1>1. p = [m EXCEPT !.keyframes = m.keyframes \cup added,
                    !.live = m.live \ (S \ added),
                    !.track = track, !.frame = frame]
  BY DOMAIN place = S DEF Put
<1>2. \A f \in free : taken[f] \in S /\ place[taken[f]] = f /\ f \in Frame /\ m.track[f] = None
  OBVIOUS
<1> HIDE DEF At, free, taken
<1>3. added \subseteq S /\ \A k \in added : place[k] \in free /\ taken[place[k]] = k
  BY <1>2
<1> HIDE DEF added
<1>4. m.frame \in [Key -> Frame] /\ m.keyframes \subseteq Key /\ m.live \subseteq Key
      /\ m.track \in [Frame -> Key \cup {None}]
  BY DEF Motion
<1>5. track \in [Frame -> Key \cup {None}] /\ frame \in [Key -> Frame]
  BY <1>2, <1>3, <1>4
<1> DEFINE all == m.keyframes \cup added
           rest == m.live \ (S \ added)
<1>14. all \in SUBSET Key /\ rest \in SUBSET Key
  BY <1>3, <1>4
<1> HIDE DEF track, frame, all, rest
<1>15. p = [m EXCEPT !.keyframes = all, !.live = rest, !.track = track, !.frame = frame]
  BY <1>1 DEF all, rest
<1>16. p \in Motion
  BY <1>5, <1>14, <1>15 DEF Motion
<1>17. p.keyframes = all /\ p.live = rest /\ p.track = track /\ p.frame = frame
  BY <1>15 DEF Motion
<1>6. /\ p \in Motion
      /\ p.keyframes = m.keyframes \cup added
      /\ p.live = m.live \ (S \ added)
      /\ p.track = track
      /\ p.frame = frame
  BY <1>16, <1>17 DEF all, rest
<1> HIDE DEF p
<1> USE DEF track, frame
<1>7. added \cap m.keyframes = {}
  BY <1>3 DEF Owns
<1>8. ASSUME NEW f \in Occupied(p)
      PROVE  p.track[f] \in p.keyframes /\ p.frame[p.track[f]] = f
  <2>1. f \in Frame
    BY <1>8 DEF Occupied
  <2>2. CASE f \in free
    <3>1. p.track[f] = taken[f] /\ taken[f] \in S /\ place[taken[f]] = f
      BY <1>2, <1>6, <2>1, <2>2
    <3>2. taken[f] \in added
      BY <2>2 DEF added
    <3>3. QED BY <1>6, <3>1, <3>2
  <2>3. CASE f \notin free
    <3>1. p.track[f] = m.track[f] /\ f \in Occupied(m)
      BY <1>6, <1>8, <2>1, <2>3 DEF Occupied
    <3>2. m.track[f] \in m.keyframes /\ m.frame[m.track[f]] = f
      BY <3>1 DEF Agree
    <3>3. QED BY <1>4, <1>6, <1>7, <3>1, <3>2
  <2>4. QED BY <2>2, <2>3
<1>9. ASSUME NEW k \in p.keyframes PROVE p.track[p.frame[k]] = k
  <2>1. CASE k \in added
    <3>1. p.frame[k] = place[k] /\ place[k] \in free /\ taken[place[k]] = k /\ place[k] \in Frame
      BY <1>2, <1>3, <1>6, <2>1
    <3>2. QED BY <1>6, <3>1
  <2>2. CASE k \notin added
    <3>1. k \in m.keyframes /\ k \in Key
      BY <1>4, <1>6, <1>9, <2>2
    <3>2. m.track[m.frame[k]] = k /\ m.frame[k] \in Frame
      BY <1>4, <3>1 DEF Agree
    <3>3. m.frame[k] \notin free
      BY <1>2, <3>1, <3>2, FrameIsNat
    <3>4. p.frame[k] = m.frame[k]
      BY <1>6, <2>2, <3>1
    <3>5. QED BY <1>6, <3>2, <3>3, <3>4
  <2>3. QED BY <2>1, <2>2
<1>10. Owns(p, others)
  BY <1>3, <1>6, <1>7 DEF Owns
<1>11. QED BY <1>6, <1>8, <1>9, <1>10 DEF Agree, p

-----------------------------------------------------------------------------
\* A set of numbers that is bounded has a largest one.
LEMMA LargestExists ==
  ASSUME NEW n \in Nat, NEW U \in SUBSET (0 .. n), U # {}
  PROVE  \E i \in U : \A j \in U : j <= i
<1> DEFINE T == {n - i : i \in U}
<1>0. \A i \in U : i \in Nat /\ n - i \in Nat
  OBVIOUS
<1>1. T \subseteq Nat /\ T # {}
  <2>1. PICK i \in U : TRUE
    OBVIOUS
  <2>2. n - i \in T
    OBVIOUS
  <2>3. QED BY <1>0, <2>2
<1> HIDE DEF T
<1>2. \E x \in T : \A y \in T : ~ (<<y, x>> \in OpToRel(<, Nat))
  BY <1>1, NatLessThanWellFounded, WFMin
<1>3. PICK x \in T : \A y \in T : ~ (<<y, x>> \in OpToRel(<, Nat))
  BY <1>2
<1>4. \A y \in T : ~ (y < x)
  BY <1>1, <1>3 DEF OpToRel
<1>5. PICK i \in U : x = n - i
  BY <1>3 DEF T
<1>6. ASSUME NEW j \in U PROVE j <= i
  <2>1. n - j \in T
    BY DEF T
  <2>2. ~ (n - j < n - i)
    BY <1>4, <1>5, <2>1
  <2>3. QED BY <1>0, <2>2
<1>7. QED BY <1>5, <1>6

\* Changing the poses and the selection moves no keyframe.
LEMMA ContentsMoveNothing ==
  ASSUME NEW m \in Motion, NEW w \in Motion, NEW others, Agree(m), Owns(m, others),
         w.live = m.live, w.keyframes = m.keyframes, w.track = m.track, w.frame = m.frame
  PROVE  Agree(w) /\ Owns(w, others)
BY DEF Agree, Owns, Occupied

LEMMA RestoreKeeps ==
  ASSUME NEW m \in Motion, NEW entries \in Seq(Entry), NEW state \in [DOMAIN entries -> State],
         NEW others, Agree(m), Owns(m, others)
  PROVE  LET w == Restore(m, entries, state)
         IN  /\ w \in Motion /\ Agree(w) /\ Owns(w, others)
             /\ w.live = m.live /\ w.keyframes = m.keyframes /\ w.track = m.track
             /\ w.frame = m.frame
<1> DEFINE w    == Restore(m, entries, state)
           last == CHOOSE i \in Updates(entries) : \A j \in Updates(entries) : j <= i
           key  == m.track[entries[last].frame]
<1>1. CASE Updates(entries) = {} \/ key = None
  BY <1>1 DEF Restore
<1>2. CASE Updates(entries) # {} /\ key # None
  <2>1. Len(entries) \in Nat /\ DOMAIN entries = 1 .. Len(entries)
        /\ \A i \in DOMAIN entries : entries[i] \in Entry
    BY ElementOfSeq, LenProperties
  <2>2. Updates(entries) \in SUBSET (0 .. Len(entries)) /\ Updates(entries) \subseteq DOMAIN entries
    BY <2>1 DEF Updates
  <2>3. last \in Updates(entries)
    BY <1>2, <2>1, <2>2, LargestExists
  <2> HIDE DEF last
  <2>4. entries[last].frame \in Frame /\ state[last] \in State
    BY <2>1, <2>2, <2>3 DEF Entry
  <2>5. key \in Key
    BY <1>2, <2>4 DEF Motion
  <2> HIDE DEF key
  <2>6. w = [m EXCEPT !.state[key] = state[last]]
    <3>1. ~ (Updates(entries) = {} \/ key = None)
      BY <1>2
    <3>2. QED BY <3>1 DEF Restore, key, last, w
  <2>7. [m.state EXCEPT ![key] = state[last]] \in [Key -> State]
    BY <2>4, <2>5 DEF Motion
  <2>8. w \in Motion /\ w.live = m.live /\ w.keyframes = m.keyframes /\ w.track = m.track
        /\ w.frame = m.frame
    BY <2>6, <2>7 DEF Motion
  <2> HIDE DEF w
  <2>9. Agree(w) /\ Owns(w, others)
    BY <2>8, ContentsMoveNothing
  <2>10. QED BY <2>8, <2>9 DEF w
<1>3. QED BY <1>1, <1>2

LEMMA DeselectKeeps ==
  ASSUME NEW m \in Motion, NEW keys, NEW others, Agree(m), Owns(m, others)
  PROVE  LET w == Deselect(m, keys)
         IN  w \in Motion /\ Agree(w) /\ Owns(w, others) /\ w.keyframes = m.keyframes
<1> DEFINE w == Deselect(m, keys)
<1>1. w \in Motion /\ w.live = m.live /\ w.keyframes = m.keyframes /\ w.track = m.track
      /\ w.frame = m.frame
  BY DEF Deselect, Motion
<1> HIDE DEF w
<1>2. Agree(w) /\ Owns(w, others)
  BY <1>1, ContentsMoveNothing
<1>3. QED BY <1>1, <1>2 DEF w

LEMMA OverrideKeeps ==
  ASSUME NEW m \in Motion, NEW entry \in Entry, NEW curve \in Nat, NEW others,
         Agree(m), Owns(m, others)
  PROVE  LET w == Override(m, entry, curve)
         IN  w \in Motion /\ Agree(w) /\ Owns(w, others)
<1> DEFINE w == Override(m, entry, curve)
           key == m.track[entry.over]
           state == [m.state EXCEPT ![key] = [m.state[key] EXCEPT !.curve = curve]]
<1>1. CASE entry.over = None \/ entry.over \notin Occupied(m)
  BY <1>1 DEF Override
<1>2. CASE entry.over # None /\ entry.over \in Occupied(m)
  <2>1. key \in Key
    BY <1>2 DEF Motion, Occupied
  <2>2. m.state[key] \in State
    BY <2>1 DEF Motion
  <2>3. [m.state[key] EXCEPT !.curve = curve] \in State
    BY <2>2 DEF State
  <2>4. state \in [Key -> State]
    BY <2>1, <2>3 DEF Motion
  <2>5. w = [m EXCEPT !.state = state]
    BY <1>2 DEF Override
  <2> HIDE DEF key, state
  <2>6. w \in Motion /\ w.live = m.live /\ w.keyframes = m.keyframes /\ w.track = m.track
        /\ w.frame = m.frame
    BY <2>4, <2>5 DEF Motion
  <2> HIDE DEF w
  <2>7. Agree(w) /\ Owns(w, others)
    BY <2>6, ContentsMoveNothing
  <2>8. QED BY <2>6, <2>7 DEF w
<1>3. QED BY <1>1, <1>2

LEMMA EntryTypes ==
  ASSUME NEW entries \in Seq(Entry)
  PROVE  /\ Len(entries) \in Nat /\ DOMAIN entries = 1 .. Len(entries)
         /\ \A i \in DOMAIN entries : /\ entries[i] \in Entry /\ entries[i].frame \in Frame
                                      /\ entries[i].first \in State /\ entries[i].second \in State
         /\ FirstOf(entries) \in [DOMAIN entries -> State]
         /\ SecondOf(entries) \in [DOMAIN entries -> State]
<1>1. Len(entries) \in Nat /\ DOMAIN entries = 1 .. Len(entries)
      /\ \A i \in DOMAIN entries : entries[i] \in Entry
  BY ElementOfSeq, LenProperties
<1>2. \A i \in DOMAIN entries : /\ entries[i] \in Entry /\ entries[i].frame \in Frame
                                /\ entries[i].first \in State /\ entries[i].second \in State
  BY <1>1 DEF Entry
<1>3. QED BY <1>1, <1>2 DEF FirstOf, SecondOf

\* BaseBoneKeyframeCommand::addKeyframe
LEMMA AddKeeps ==
  ASSUME NEW m \in Motion, NEW entries \in Seq(Entry), NEW others,
         Agree(m), Owns(m, others), NEW a \in Add(m, entries)
  PROVE  a \in Motion /\ Agree(a) /\ Owns(a, others)
<1> DEFINE fits    == Fits(m, entries)
           unused  == Key \ m.live
           r       == Restore(m, entries, FirstOf(entries))
<1>0. \E new \in [fits -> unused], lost \in SUBSET unused : a = Added(m, entries, new, lost)
  <2>1. PICK lost \in SUBSET unused : \E new \in [fits -> unused] : a = Added(m, entries, new, lost)
    BY DEF Add
  <2>2. QED BY <2>1
<1>1. PICK new \in [fits -> unused], lost \in SUBSET unused : a = Added(m, entries, new, lost)
  BY <1>0
<1> DEFINE keys  == {new[i] : i \in fits}
           Of(k) == entries[CHOOSE i \in fits : new[i] = k]
           place == [k \in keys |-> Of(k).frame]
           state == [k \in Key |-> IF k \in keys THEN Of(k).first ELSE r.state[k]]
           selection == r.selection \cup {k \in keys : Of(k).selected} \cup lost
           live  == r.live \cup keys
           alloc == [r EXCEPT !.live = live, !.selection = selection, !.state = state]
<1>2. a = Put(alloc, place)
  BY <1>1, DOMAIN new = fits DEF Added
<1>3. r \in Motion /\ Agree(r) /\ Owns(r, others) /\ r.live = m.live
      /\ r.keyframes = m.keyframes /\ r.track = m.track /\ r.frame = m.frame
  BY EntryTypes, RestoreKeeps
<1>4. fits \subseteq DOMAIN entries /\ keys \subseteq unused /\ unused \subseteq Key
  BY DEF Fits, Creates
<1>5. \A k \in keys : (CHOOSE i \in fits : new[i] = k) \in DOMAIN entries
  BY <1>4
<1>6. \A k \in keys : Of(k).frame \in Frame /\ Of(k).first \in State
  BY <1>5, EntryTypes
<1> HIDE DEF Of, r, fits
<1>7. place \in [keys -> Frame] /\ state \in [Key -> State]
  BY <1>3, <1>6 DEF Motion
<1>8. selection \in SUBSET Key /\ live \in SUBSET Key
  BY <1>3, <1>4 DEF Motion
<1> HIDE DEF place, state, selection
<1>9. alloc \in Motion /\ alloc.live = live /\ alloc.keyframes = r.keyframes
      /\ alloc.track = r.track /\ alloc.frame = r.frame
  BY <1>3, <1>7, <1>8 DEF Motion
<1> HIDE DEF alloc
<1>10. Agree(alloc)
  BY <1>3, <1>9 DEF Agree, Occupied
<1>11. keys \cap others = {}
  BY <1>3, <1>4 DEF Owns
<1>12. Owns(alloc, others \cup keys)
  BY <1>3, <1>4, <1>9 DEF Owns
<1> HIDE DEF keys
<1>13. QED BY <1>2, <1>4, <1>7, <1>9, <1>10, <1>11, <1>12, PutKeeps

\* BaseBoneKeyframeCommand::removeKeyframe
LEMMA TakeOutKeeps ==
  ASSUME NEW m \in Motion, NEW entries \in Seq(Entry), NEW others, Agree(m), Owns(m, others)
  PROVE  LET w == TakeOut(m, entries) IN w \in Motion /\ Agree(w) /\ Owns(w, others)
<1> DEFINE Missing(i) == ~entries[i].updated /\ (m.track[entries[i].frame] = None \/ Repeats(entries, i))
           done == {i \in DOMAIN entries : \A j \in 1 .. i : ~Missing(j)}
           some == SubSeq(entries, 1, Cardinality(done))
           keys == {m.track[entries[i].frame] : i \in done \ Updates(entries)}
           r    == Restore(m, some, SecondOf(some))
           d    == Deselect(r, keys)
<1>1. TakeOut(m, entries) = Free(Withdraw(d, keys), keys)
  BY DEF TakeOut
<1>2. /\ DOMAIN entries = 1 .. Len(entries) /\ Len(entries) \in Nat
      /\ \A i \in DOMAIN entries : entries[i] \in Entry /\ entries[i].frame \in Frame
  BY EntryTypes
<1>3. done \in SUBSET (1 .. Len(entries))
  BY <1>2
<1>4. Cardinality(done) \in Nat /\ Cardinality(done) <= Len(entries)
  <2> HIDE DEF done
  <2>1. IsFiniteSet(1 .. Len(entries)) /\ Cardinality(1 .. Len(entries)) = Len(entries)
    BY <1>2, FS_Interval
  <2>2. QED BY <1>3, <2>1, FS_Subset, FS_CardinalityType
<1>5. \A i \in done \ Updates(entries) :
        m.track[entries[i].frame] \in m.keyframes
  <2> TAKE i \in done \ Updates(entries)
  <2>1. i \in DOMAIN entries /\ ~Missing(i) /\ ~entries[i].updated
    BY <1>2 DEF Updates
  <2>2. entries[i].frame \in Occupied(m)
    BY <1>2, <2>1 DEF Occupied
  <2>3. QED BY <2>2 DEF Agree
<1>6. keys \subseteq m.keyframes /\ keys \in SUBSET Key
  BY <1>5 DEF Motion
<1> HIDE DEF done, keys
<1>7. some \in Seq(Entry)
  BY <1>2, <1>4, SubSeqProperties
<1> HIDE DEF some
<1>8. r \in Motion /\ Agree(r) /\ Owns(r, others) /\ r.keyframes = m.keyframes
  BY <1>7, EntryTypes, RestoreKeeps
<1> HIDE DEF r
<1>9. d \in Motion /\ Agree(d) /\ Owns(d, others) /\ d.keyframes = m.keyframes
  BY <1>8, DeselectKeeps
<1> HIDE DEF d
<1>10. keys \cap d.keyframes = keys /\ others \cap keys = {}
  BY <1>6, <1>9 DEF Owns
<1>11. /\ Withdraw(d, keys) \in Motion /\ Agree(Withdraw(d, keys))
       /\ Owns(Withdraw(d, keys), others \cup keys)
  BY <1>6, <1>9, <1>10, WithdrawKeeps
<1>12. QED BY <1>1, <1>10, <1>11, FreeKeeps

\* BaseShiftingAllKeyframesCommand::shiftAllBoneKeyframesWithOffset
LEMMA ShiftKeeps ==
  ASSUME NEW m \in Motion, NEW S, S \subseteq m.keyframes, NEW place \in [S -> Frame], NEW others,
         Agree(m), Owns(m, others)
  PROVE  /\ Shift(m, place) \in Motion /\ Agree(Shift(m, place)) /\ Owns(Shift(m, place), others)
<1>1. DOMAIN place = S /\ S \in SUBSET Key /\ S \cap m.keyframes = S
  BY DEF Motion
<1> DEFINE w == Withdraw(m, S)
<1>2. w \in Motion /\ Agree(w) /\ Owns(w, others \cup S)
  BY <1>1, WithdrawKeeps
<1>3. others \cap S = {}
  BY DEF Owns
<1>4. Shift(m, place) = Put(w, place)
  BY <1>1 DEF Shift
<1> HIDE DEF w
<1>5. QED BY <1>1, <1>2, <1>3, <1>4, PutKeeps

\* What redoing or undoing a command gives: a motion, and the keyframes the command
\* holds, beside those that others hold.
Good(r, others) ==
  /\ r.motion \in Motion /\ Agree(r.motion) /\ r.held \in SUBSET Key
  /\ Owns(r.motion, others \cup r.held) /\ others \cap r.held = {}

LEMMA ShiftBackwardKeeps ==
  ASSUME NEW m \in Motion, NEW c, c.frame \in Frame, c.held \in SUBSET Key, Room(m, c),
         NEW others, others \cap c.held = {}, Agree(m), Owns(m, others \cup c.held)
  PROVE  Good(ShiftBackward(m, c), others)
<1> DEFINE r     == ShiftBackward(m, c)
           late  == {k \in m.keyframes : m.frame[k] >= c.frame}
           later == [k \in late |-> m.frame[k] + 1]
           back  == [k \in c.held |-> c.frame]
           s     == Shift(m, later)
<1>1. CASE c.frame = 0
  <2>1. r = [motion |-> m, held |-> c.held]
    BY <1>1 DEF ShiftBackward
  <2>2. QED BY <2>1 DEF Good
<1>2. CASE c.frame # 0
  <2>1. r = [motion |-> Put(s, back), held |-> {}]
    BY <1>2 DEF ShiftBackward
  <2>2. \A k \in late : m.frame[k] + 1 \in Frame
    BY FrameIsNat DEF Room, Motion
  <2>3. later \in [late -> Frame] /\ back \in [c.held -> Frame] /\ late \subseteq m.keyframes
    BY <2>2
  <2> HIDE DEF later, late, back
  <2>4. s \in Motion /\ Agree(s) /\ Owns(s, others \cup c.held)
    BY <2>3, ShiftKeeps
  <2> HIDE DEF s
  <2>5. Put(s, back) \in Motion /\ Agree(Put(s, back)) /\ Owns(Put(s, back), others)
    BY <2>3, <2>4, PutKeeps
  <2>6. QED BY <2>1, <2>5 DEF Good
<1>3. QED BY <1>1, <1>2

LEMMA ShiftForwardKeeps ==
  ASSUME NEW m \in Motion, NEW c, c.frame \in Frame, c.held \in SUBSET Key,
         NEW others, others \cap c.held = {}, Agree(m), Owns(m, others \cup c.held)
  PROVE  Good(ShiftForward(m, c), others)
<1> DEFINE r       == ShiftForward(m, c)
           late    == {k \in m.keyframes : m.frame[k] > c.frame}
           here    == {k \in m.keyframes : m.frame[k] = c.frame}
           earlier == [k \in late |-> m.frame[k] - 1]
           w       == Withdraw(m, here)
           held    == c.held \cup here
<1>1. r = [motion |-> Shift(w, earlier), held |-> held]
  BY DEF ShiftForward
<1>2. \A k \in late : m.frame[k] - 1 \in Frame
  BY FrameIsNat DEF Motion
<1>3. earlier \in [late -> Frame] /\ late \subseteq m.keyframes \ here /\ here \subseteq m.keyframes
  BY <1>2, FrameIsNat DEF Motion
<1> HIDE DEF earlier, late, here
<1>4. here \in SUBSET Key /\ here \cap m.keyframes = here
  BY <1>3 DEF Motion
<1>5. /\ w \in Motion /\ Agree(w) /\ w.keyframes = m.keyframes \ here
      /\ Owns(w, (others \cup c.held) \cup here)
  BY <1>4, WithdrawKeeps
<1> HIDE DEF w
<1>6. Owns(w, others \cup held) /\ held \in SUBSET Key /\ others \cap held = {}
  BY <1>3, <1>4, <1>5 DEF Owns
<1> HIDE DEF held
<1>7. /\ Shift(w, earlier) \in Motion /\ Agree(Shift(w, earlier))
      /\ Owns(Shift(w, earlier), others \cup held)
  BY <1>3, <1>5, <1>6, ShiftKeeps
<1>8. QED BY <1>1, <1>6, <1>7 DEF Good

\* Commands as they are on the stack: only those that shift hold keyframes.
WellFormed(c) ==
  /\ c \in Command
  /\ c.kind \in {"add", "remove"} => c.held = {}
  /\ c.kind = "add" => Len(c.entries) = 1

LEMMA CommandTypes ==
  ASSUME NEW c, WellFormed(c)
  PROVE  /\ c.entries \in Seq(Entry) /\ c.frame \in Frame /\ c.held \in SUBSET Key /\ c.kind \in Kind
         /\ c.kind = "add" => /\ c.entries[1] \in Entry
                              /\ c.entries[1].curve.first \in Nat /\ c.entries[1].curve.second \in Nat
<1>1. c.entries \in Seq(Entry) /\ c.frame \in Frame /\ c.held \in SUBSET Key /\ c.kind \in Kind
  BY DEF WellFormed, Command
<1>2. ASSUME c.kind = "add" PROVE c.entries[1] \in Entry
  BY <1>1, <1>2, EntryTypes DEF WellFormed
<1>3. ASSUME c.kind = "add"
      PROVE  c.entries[1].curve.first \in Nat /\ c.entries[1].curve.second \in Nat
  BY <1>2, <1>3 DEF Entry
<1>4. QED BY <1>1, <1>2, <1>3

LEMMA RedoneKeeps ==
  ASSUME NEW m \in Motion, NEW c, WellFormed(c), NEW others, others \cap c.held = {},
         Agree(m), Owns(m, others \cup c.held), NEW r \in Redone(m, c)
  PROVE  Good(r, others) /\ (c.kind \in {"add", "remove"} => r.held = {})
<1>1. CASE c.kind = "add"
  <2>1. Owns(m, others)
    BY <1>1 DEF WellFormed
  <2>2. PICK a \in Add(m, c.entries) :
          r = Alone(Override(a, c.entries[1], c.entries[1].curve.first))
    BY <1>1 DEF Redone
  <2>3. a \in Motion /\ Agree(a) /\ Owns(a, others)
    BY <2>1, CommandTypes, AddKeeps
  <2> DEFINE w == Override(a, c.entries[1], c.entries[1].curve.first)
  <2>4. w \in Motion /\ Agree(w) /\ Owns(w, others)
    BY <1>1, <2>3, CommandTypes, OverrideKeeps
  <2> HIDE DEF w
  <2>5. r = [motion |-> w, held |-> {}]
    BY <2>2 DEF Alone, w
  <2>6. QED BY <2>4, <2>5 DEF Good
<1>2. CASE c.kind = "remove"
  <2>1. Owns(m, others)
    BY <1>2 DEF WellFormed
  <2>2. r = [motion |-> TakeOut(m, c.entries), held |-> {}]
    BY <1>2 DEF Redone, Alone
  <2>3. QED BY <2>1, <2>2, CommandTypes, TakeOutKeeps DEF Good
<1>3. CASE c.kind = "insertFrame"
  <2>1. Room(m, c) /\ r = ShiftBackward(m, c)
    BY <1>3 DEF Redone
  <2>2. QED BY <1>3, <2>1, CommandTypes, ShiftBackwardKeeps
<1>4. CASE c.kind = "removeFrame"
  <2>1. r = ShiftForward(m, c)
    BY <1>4 DEF Redone
  <2>2. QED BY <1>4, <2>1, CommandTypes, ShiftForwardKeeps
<1>5. QED BY <1>1, <1>2, <1>3, <1>4, CommandTypes DEF Kind

LEMMA UndoneKeeps ==
  ASSUME NEW m \in Motion, NEW c, WellFormed(c), NEW others, others \cap c.held = {},
         Agree(m), Owns(m, others \cup c.held), NEW r \in Undone(m, c)
  PROVE  Good(r, others) /\ (c.kind \in {"add", "remove"} => r.held = {})
<1>1. CASE c.kind = "add"
  <2>1. Owns(m, others)
    BY <1>1 DEF WellFormed
  <2> DEFINE a == TakeOut(m, c.entries)
             w == Override(a, c.entries[1], c.entries[1].curve.second)
  <2>2. a \in Motion /\ Agree(a) /\ Owns(a, others)
    BY <2>1, CommandTypes, TakeOutKeeps
  <2>3. r = [motion |-> w, held |-> {}]
    BY <1>1 DEF Undone, Alone
  <2> HIDE DEF a
  <2>4. w \in Motion /\ Agree(w) /\ Owns(w, others)
    BY <1>1, <2>2, CommandTypes, OverrideKeeps
  <2> HIDE DEF w
  <2>5. QED BY <2>3, <2>4 DEF Good
<1>2. CASE c.kind = "remove"
  <2>1. Owns(m, others)
    BY <1>2 DEF WellFormed
  <2>2. PICK a \in Add(m, c.entries) : r = [motion |-> a, held |-> {}]
    BY <1>2 DEF Undone, Alone
  <2>3. a \in Motion /\ Agree(a) /\ Owns(a, others)
    BY <2>1, CommandTypes, AddKeeps
  <2>4. QED BY <2>2, <2>3 DEF Good
<1>3. CASE c.kind = "insertFrame"
  <2>1. r = ShiftForward(m, c)
    BY <1>3 DEF Undone
  <2>2. QED BY <1>3, <2>1, CommandTypes, ShiftForwardKeeps
<1>4. CASE c.kind = "removeFrame"
  <2>1. Room(m, c) /\ r = ShiftBackward(m, c)
    BY <1>4 DEF Undone
  <2>2. QED BY <1>4, <2>1, CommandTypes, ShiftBackwardKeeps
<1>5. QED BY <1>1, <1>2, <1>3, <1>4, CommandTypes DEF Kind

-----------------------------------------------------------------------------
\* The histories of commands and what they hold.
Others(h, i) == UNION {h[j].held : j \in DOMAIN h \ {i}}
Disjoint(h) == \A i, j \in DOMAIN h : i # j => h[i].held \cap h[j].held = {}
AllWellFormed(h) == \A i \in DOMAIN h : WellFormed(h[i])

LEMMA SplitHeld ==
  ASSUME NEW h, NEW i \in DOMAIN h
  PROVE  /\ Held(h) = Others(h, i) \cup h[i].held
         /\ Disjoint(h) => Others(h, i) \cap h[i].held = {}
BY DEF Held, Others, Disjoint

LEMMA ReplaceHeld ==
  ASSUME NEW h \in Seq(Command), AllWellFormed(h), Disjoint(h), NEW i \in DOMAIN h,
         NEW held \in SUBSET Key, Others(h, i) \cap held = {},
         h[i].kind \in {"add", "remove"} => held = {}
  PROVE  LET g == [h EXCEPT ![i].held = held]
         IN  /\ g \in Seq(Command) /\ Len(g) = Len(h) /\ AllWellFormed(g) /\ Disjoint(g)
             /\ Held(g) = Others(h, i) \cup held
<1> DEFINE c == [h[i] EXCEPT !.held = held]
           g == [h EXCEPT ![i] = c]
<1>1. Len(h) \in Nat /\ DOMAIN h = 1 .. Len(h)
  BY LenProperties
<1>2. WellFormed(c) /\ c.held = held /\ c \in Command
  BY DEF AllWellFormed, WellFormed, Command
<1> HIDE DEF c
<1>3. g \in Seq(Command) /\ Len(g) = Len(h) /\ DOMAIN g = DOMAIN h
      /\ \A j \in DOMAIN h : g[j] = IF j = i THEN c ELSE h[j]
  BY <1>1, <1>2, ExceptSeq
<1> HIDE DEF g
<1>4. AllWellFormed(g)
  BY <1>2, <1>3 DEF AllWellFormed
<1>5. Disjoint(g)
  BY <1>2, <1>3 DEF Disjoint, Others
<1>6. Held(g) = Others(h, i) \cup held
  <2>1. Others(g, i) = Others(h, i)
    BY <1>3 DEF Others
  <2>2. g[i].held = held
    BY <1>2, <1>3
  <2>3. QED BY <1>3, <2>1, <2>2, SplitHeld
<1>7. QED BY <1>3, <1>4, <1>5, <1>6 DEF g, c

-----------------------------------------------------------------------------
\* Types of what commands are made of.
LEMMA ContentType ==
  ASSUME NEW m \in Motion
  PROVE  /\ Content(m) \in [Frame -> State \cup {None}]
         /\ \A f \in Occupied(m) : Content(m)[f] \in State
<1>1. \A f \in Frame : m.track[f] # None => m.state[m.track[f]] \in State
  BY DEF Motion
<1>2. QED BY <1>1 DEF Content, Occupied

LEMMA DefaultType == Default \in State
BY PoseAssumption DEF Default, State

LEMMA AddEntryType ==
  ASSUME motion \in Motion, NEW f \in Frame, NEW pose \in Pose, NEW adjust \in BOOLEAN
  PROVE  AddEntry(f, pose, adjust) \in Entry
<1> DEFINE before == {g \in Occupied(motion) : g < f}
           after  == {g \in Occupied(motion) : g > f}
           exists == f \in Occupied(motion)
           over   == IF exists \/ before = {} THEN None
                     ELSE CHOOSE g \in before : \A h \in before : h <= g
           curve  == IF over = None THEN 0 ELSE Content(motion)[over].curve
           splits == over # None /\ adjust /\ curve # 0 /\ after # {}
           first  == [pose |-> pose, curve |-> IF splits THEN 2 * curve + 1 ELSE 0]
           second == IF exists THEN Content(motion)[f] ELSE Default
           ahead  == IF splits THEN 2 * curve
                     ELSE IF over # None /\ adjust /\ curve = 0 THEN 1 ELSE curve
<1>1. AddEntry(f, pose, adjust) =
        [frame |-> f, updated |-> exists \/ f = 0, selected |-> ~exists,
         first |-> first, second |-> second, over |-> over,
         curve |-> [first |-> ahead, second |-> curve]]
  BY DEF AddEntry
<1>2. over \in Occupied(motion) \cup {None}
  <2>1. CASE exists \/ before = {}
    BY <2>1
  <2>2. CASE ~(exists \/ before = {})
    <3>1. before \in SUBSET (0 .. MaxFrame)
      BY FrameIsNat DEF Occupied
    <3>2. \E g \in before : \A h \in before : h <= g
      BY <2>2, <3>1, FrameIsNat, LargestExists
    <3>3. QED BY <2>2, <3>2
  <2>3. QED BY <2>1, <2>2
<1>3. over \in Frame \cup {None}
  BY <1>2 DEF Occupied
<1> HIDE DEF over
<1>4. curve \in Nat
  BY <1>2, ContentType DEF State
<1>5. second \in State
  BY ContentType, DefaultType
<1> HIDE DEF curve, second
<1>6. first \in State /\ ahead \in Nat
  BY <1>4 DEF State
<1> HIDE DEF first, ahead, exists
<1>7. (exists \/ f = 0) \in BOOLEAN /\ (~exists) \in BOOLEAN
  BY DEF exists
<1>8. QED BY <1>1, <1>3, <1>4, <1>5, <1>6, <1>7 DEF Entry

LEMMA RemoveEntryType ==
  ASSUME motion \in Motion, NEW k \in Key
  PROVE  RemoveEntry(k) \in Entry
<1>1. motion.frame[k] \in Frame /\ motion.state[k] \in State
  BY DEF Motion
<1>2. QED BY <1>1, DefaultType DEF RemoveEntry, Entry

LEMMA NewCommandType ==
  ASSUME motion \in Motion, NEW kind \in Kind, NEW entries \in Seq(Entry), NEW frame \in Frame,
         kind = "add" => Len(entries) = 1
  PROVE  WellFormed(NewCommand(kind, entries, frame)) /\ NewCommand(kind, entries, frame).held = {}
BY ContentType DEF NewCommand, WellFormed, Command

-----------------------------------------------------------------------------
\* The inductive invariant.
IInv == TypeOK /\ TrackMatchesArray /\ OwnedOnce /\ AllWellFormed(history)

LEMMA IInvParts ==
  IInv <=> /\ TypeOK /\ Agree(motion) /\ Owns(motion, Held(history))
           /\ Disjoint(history) /\ AllWellFormed(history)
BY DEF IInv, TrackMatchesArray, OwnedOnce, Agree, Owns, Disjoint

\* undoStackPushCommand keeps a part of the commands and destroys the rest.
LEMMA PushSplits ==
  ASSUME TypeOK, Disjoint(history), AllWellFormed(history)
  PROVE  /\ Kept \in Seq(Command) /\ Len(Kept) \in Nat /\ Len(Kept) < Limit
         /\ AllWellFormed(Kept) /\ Disjoint(Kept)
         /\ Held(history) = Held(Kept) \cup Held(Dropped)
         /\ Held(Kept) \cap Held(Dropped) = {}
<1>1. /\ history \in Seq(Command) /\ Len(history) \in Nat /\ DOMAIN history = 1 .. Len(history)
      /\ \A i \in 1 .. Len(history) : history[i] \in Command
      /\ Len(history) <= Limit /\ cursor \in 0 .. Len(history) /\ Limit \in Nat \ {0}
  BY LenProperties, ElementOfSeq, BoundsAssumption DEF TypeOK
<1>2. CASE cursor = Limit
  <2>1. Len(history) = Limit /\ history # <<>>
    <3> DEFINE n == Len(history)
    <3>0. n \in Nat /\ n <= Limit /\ cursor \in 0 .. n /\ cursor = Limit /\ Limit \in Nat /\ Limit # 0
      BY <1>1, <1>2
    <3> HIDE DEF n
    <3>a. n = Limit /\ n # 0
      BY <3>0
    <3>1. Len(history) = Limit /\ Len(history) # 0
      BY <3>a DEF n
    <3>2. history # <<>>
      BY <1>1, <3>1, EmptySeq
    <3>3. QED BY <3>1, <3>2
  <2>2. /\ Kept \in Seq(Command) /\ Len(Kept) = Len(history) - 1
        /\ \A i \in 1 .. Len(Kept) : Kept[i] = history[i + 1]
    BY <1>1, <1>2, <2>1, HeadTailProperties DEF Kept
  <2>3. DOMAIN Kept = 1 .. Len(history) - 1
    BY <2>2, LenProperties
  <2>4. Dropped = <<history[1]>>
    BY <1>1, <1>2, <2>1 DEF Dropped
  <2>5. Held(Dropped) = history[1].held
    BY <2>4 DEF Held
  <2>6. Held(Kept) = Others(history, 1)
    <3>1. \A i \in DOMAIN Kept : i + 1 \in DOMAIN history \ {1} /\ Kept[i] = history[i + 1]
      BY <1>1, <2>2, <2>3
    <3>2. \A j \in DOMAIN history \ {1} : j - 1 \in DOMAIN Kept /\ Kept[j - 1] = history[j]
      BY <1>1, <2>2, <2>3
    <3>3. QED BY <3>1, <3>2 DEF Held, Others
  <2>7. 1 \in DOMAIN history
    BY <1>1, <2>1
  <2>8. AllWellFormed(Kept) /\ Disjoint(Kept)
    <3>1. \A i \in DOMAIN Kept : i + 1 \in DOMAIN history /\ Kept[i] = history[i + 1]
      BY <1>1, <2>2, <2>3
    <3>2. \A i, j \in DOMAIN Kept : i # j => i + 1 # j + 1
      BY <2>3
    <3>3. AllWellFormed(Kept)
      BY <3>1 DEF AllWellFormed
    <3>4. Disjoint(Kept)
      BY <3>1, <3>2 DEF Disjoint
    <3>5. QED BY <3>3, <3>4
  <2>9. QED BY <1>1, <2>1, <2>2, <2>5, <2>6, <2>7, <2>8, SplitHeld
<1>3. CASE cursor # Limit
  <2>1. /\ Kept \in Seq(Command) /\ Len(Kept) = cursor
        /\ \A i \in 1 .. cursor : Kept[i] = history[i]
    <3>1. Kept = SubSeq(history, 1, cursor) /\ \A i \in 1 .. cursor : history[i] \in Command
      BY <1>1, <1>3 DEF Kept
    <3>2. QED BY <1>1, <3>1, SubSeqProperties
  <2>2. /\ Dropped \in Seq(Command) /\ Len(Dropped) = Len(history) - cursor
        /\ \A i \in 1 .. Len(history) - cursor : Dropped[i] = history[cursor + i]
    <3> DEFINE n     == Len(history)
               first == cursor + 1
               size  == n - first + 1
    <3>1. Dropped = SubSeq(history, first, n)
          /\ \A i \in first .. n : history[i] \in Command
      BY <1>1, <1>3 DEF Dropped
    <3>2. first \in Int /\ n \in Int
      BY <1>1
    <3>3. n \in Nat /\ cursor \in Nat /\ cursor <= n
      BY <1>1
    <3> HIDE DEF n
    <3>4. size = n - cursor /\ (first <= n \/ n - cursor = 0)
          /\ \A i \in 1 .. size : first + i - 1 = cursor + i
      BY <3>3
    <3> HIDE DEF first, size
    <3>5. /\ Dropped \in Seq(Command)
          /\ Len(Dropped) = IF first <= n THEN size ELSE 0
          /\ \A i \in 1 .. size : Dropped[i] = history[first + i - 1]
      BY <3>1, <3>2, SubSeqProperties DEF size
    <3>6. Len(Dropped) = n - cursor
      BY <3>4, <3>5
    <3>7. \A i \in 1 .. n - cursor : Dropped[i] = history[cursor + i]
      BY <3>4, <3>5
    <3>8. QED BY <3>5, <3>6, <3>7 DEF n
  <2>3. DOMAIN Kept = 1 .. cursor /\ DOMAIN Dropped = 1 .. Len(history) - cursor
    BY <2>1, <2>2, LenProperties
  <2>4. \A i \in DOMAIN Kept : i \in DOMAIN history /\ Kept[i] = history[i]
    BY <1>1, <2>1, <2>3
  <2>5. \A i \in DOMAIN Dropped : /\ cursor + i \in DOMAIN history /\ cursor + i \notin DOMAIN Kept
                                  /\ Dropped[i] = history[cursor + i]
    BY <1>1, <2>2, <2>3
  <2>6. \A i \in DOMAIN history : i \in DOMAIN Kept \/ i - cursor \in DOMAIN Dropped
    BY <1>1, <2>3
  <2>7. \A i \in DOMAIN history : cursor + (i - cursor) = i
    BY <1>1
  <2>8. Held(history) = Held(Kept) \cup Held(Dropped)
    BY <2>4, <2>5, <2>6, <2>7 DEF Held
  <2>9. Held(Kept) \cap Held(Dropped) = {}
    BY <2>4, <2>5 DEF Held, Disjoint
  <2>10. AllWellFormed(Kept) /\ Disjoint(Kept)
    BY <2>4 DEF AllWellFormed, Disjoint
  <2>11. QED BY <1>1, <1>3, <2>1, <2>8, <2>9, <2>10
<1>4. QED BY <1>2, <1>3

LEMMA PushKeeps ==
  ASSUME IInv, NEW m \in Motion, Agree(m), Owns(m, Held(history)),
         NEW c, WellFormed(c), c.held = {}, NEW undoable \in BOOLEAN, Push(m, c, undoable)
  PROVE  IInv'
<1>1. PICK r \in Redone(m, c) :
        /\ motion' = Free(r.motion, Held(Dropped))
        /\ history' = Append(Kept, [c EXCEPT !.held = r.held, !.after = Content(r.motion)])
  BY DEF Push
<1> DEFINE d == [c EXCEPT !.held = r.held, !.after = Content(r.motion)]
<1>2. /\ TypeOK /\ Disjoint(history) /\ AllWellFormed(history)
  BY IInvParts
<1>3. Good(r, Held(history)) /\ (c.kind \in {"add", "remove"} => r.held = {})
  BY RedoneKeeps
<1>4. WellFormed(d) /\ d \in Command /\ d.held = r.held
  <2>1. Content(r.motion) \in [Frame -> State \cup {None}]
    BY <1>3, ContentType DEF Good
  <2>2. QED BY <1>3, <2>1 DEF WellFormed, Command, Good
<1> HIDE DEF d
<1>5. motion' \in Motion /\ Agree(motion)' /\ Owns(motion', Held(Kept) \cup r.held)
  <2>1. /\ Owns(r.motion, (Held(Kept) \cup r.held) \cup Held(Dropped))
        /\ (Held(Kept) \cup r.held) \cap Held(Dropped) = {}
    BY <1>2, <1>3, PushSplits DEF Good, Owns
  <2>2. r.motion \in Motion /\ Agree(r.motion)
    BY <1>3 DEF Good
  <2> DEFINE w == Free(r.motion, Held(Dropped))
  <2>3. w \in Motion /\ Agree(w) /\ Owns(w, Held(Kept) \cup r.held)
    BY <2>1, <2>2, FreeKeeps
  <2>4. motion' = w
    BY <1>1
  <2> HIDE DEF w
  <2>5. QED BY <2>3, <2>4 DEF Agree, Occupied
<1>6. /\ history' \in Seq(Command) /\ Len(history') = Len(Kept) + 1
      /\ \A i \in 1 .. Len(Kept) : history'[i] = Kept[i]
      /\ history'[Len(Kept) + 1] = d
  BY <1>1, <1>2, <1>4, PushSplits, AppendProperties DEF d
<1>7. DOMAIN history' = 1 .. Len(Kept) + 1 /\ DOMAIN Kept = 1 .. Len(Kept) /\ Len(Kept) \in Nat
  BY <1>2, <1>6, PushSplits, LenProperties
<1>8. \A i \in DOMAIN history' : history'[i] = IF i \in DOMAIN Kept THEN Kept[i] ELSE d
  BY <1>6, <1>7
<1>9. Held(history') = Held(Kept) \cup r.held
  <2>1. Held(history') \subseteq Held(Kept) \cup r.held
    BY <1>4, <1>8 DEF Held
  <2>2. Held(Kept) \subseteq Held(history')
    BY <1>6, <1>7 DEF Held
  <2>3. r.held \subseteq Held(history')
    BY <1>4, <1>6, <1>7 DEF Held
  <2>4. QED BY <2>1, <2>2, <2>3
<1>10. AllWellFormed(history')
  BY <1>2, <1>4, <1>8, PushSplits DEF AllWellFormed
<1>11. Disjoint(history')
  <2>1. \A i \in DOMAIN Kept : Kept[i].held \cap r.held = {}
    <3>1. Held(Kept) \cap r.held = {}
      BY <1>2, <1>3, PushSplits DEF Good
    <3>2. \A i \in DOMAIN Kept : Kept[i].held \subseteq Held(Kept)
      BY DEF Held
    <3>3. QED BY <3>1, <3>2
  <2>2. ASSUME NEW i \in DOMAIN history', NEW j \in DOMAIN history', i # j
        PROVE  history'[i].held \cap history'[j].held = {}
    <3>1. i \in DOMAIN Kept \/ j \in DOMAIN Kept
      BY <1>7, <2>2
    <3>2. QED BY <1>2, <1>4, <1>8, <2>1, <2>2, <3>1, PushSplits DEF Disjoint
  <2>3. QED BY <2>2 DEF Disjoint
<1>12. TypeOK'
  <2>1. cursor' = Len(Kept) + 1 /\ edits < MaxEdit /\ edits' = edits + 1
        /\ exact' = (exact /\ undoable)
    BY DEF Push
  <2>2. edits' \in 0 .. MaxEdit /\ exact' \in BOOLEAN
    BY <1>2, <2>1, BoundsAssumption DEF TypeOK
  <2>3. QED BY <1>2, <1>5, <1>6, <1>7, <2>1, <2>2, PushSplits, BoundsAssumption DEF TypeOK
<1>13. QED
  <2>1. Owns(motion, Held(history))' /\ Disjoint(history)' /\ AllWellFormed(history)'
    BY <1>5, <1>9, <1>10, <1>11 DEF Owns, Held, Disjoint, AllWellFormed
  <2>2. QED BY <1>5, <1>12, <2>1, IInvParts DEF IInv, TrackMatchesArray, OwnedOnce, Agree, Owns, Disjoint

\* Undoing or redoing the command at i.
LEMMA MoveKeeps ==
  ASSUME IInv, NEW i \in DOMAIN history, NEW r,
         r \in Undone(motion, history[i]) \/ r \in Redone(motion, history[i]),
         motion' = r.motion, history' = [history EXCEPT ![i].held = r.held],
         cursor' \in 0 .. Len(history), UNCHANGED <<edits, exact>>
  PROVE  IInv'
<1>1. TypeOK /\ Agree(motion) /\ Owns(motion, Held(history)) /\ Disjoint(history)
      /\ AllWellFormed(history)
  BY IInvParts
<1>2. motion \in Motion /\ history \in Seq(Command) /\ WellFormed(history[i])
  BY <1>1 DEF TypeOK, AllWellFormed
<1>3. Owns(motion, Others(history, i) \cup history[i].held)
      /\ Others(history, i) \cap history[i].held = {}
  BY <1>1, SplitHeld
<1>4. Good(r, Others(history, i)) /\ (history[i].kind \in {"add", "remove"} => r.held = {})
  BY <1>1, <1>2, <1>3, UndoneKeeps, RedoneKeeps
<1>5. /\ history' \in Seq(Command) /\ Len(history') = Len(history)
      /\ AllWellFormed(history') /\ Disjoint(history')
      /\ Held(history') = Others(history, i) \cup r.held
  <2> DEFINE held == r.held
             g == [history EXCEPT ![i].held = held]
  <2>1. held \in SUBSET Key /\ Others(history, i) \cap held = {}
        /\ (history[i].kind \in {"add", "remove"} => held = {})
    BY <1>4 DEF Good
  <2> HIDE DEF held
  <2>2. /\ g \in Seq(Command) /\ Len(g) = Len(history) /\ AllWellFormed(g) /\ Disjoint(g)
        /\ Held(g) = Others(history, i) \cup held
    BY <1>1, <1>2, <2>1, ReplaceHeld
  <2>3. history' = g
    BY DEF held
  <2> HIDE DEF g
  <2>4. QED BY <2>2, <2>3 DEF held
<1>6. motion' \in Motion /\ Agree(motion)' /\ Owns(motion, Held(history))'
  BY <1>4, <1>5 DEF Good, Agree, Owns, Occupied, Held
<1>7. TypeOK'
  BY <1>1, <1>5, <1>6 DEF TypeOK
<1>8. QED
  BY <1>5, <1>6, <1>7
     DEF IInv, TrackMatchesArray, OwnedOnce, Agree, Owns, Disjoint, Held, AllWellFormed

LEMMA IndexOfCommand ==
  ASSUME TypeOK
  PROVE  /\ cursor > 0 => cursor \in DOMAIN history /\ cursor - 1 \in 0 .. Len(history)
         /\ cursor < Len(history) => cursor + 1 \in DOMAIN history /\ cursor + 1 \in 0 .. Len(history)
<1>1. Len(history) \in Nat /\ DOMAIN history = 1 .. Len(history) /\ cursor \in 0 .. Len(history)
  BY LenProperties DEF TypeOK
<1>2. QED BY <1>1

\* Registering a command, with the selection as it is or cleared.
LEMMA RegisterKeeps ==
  ASSUME IInv, NEW m, m \in {motion, [motion EXCEPT !.selection = {}]},
         NEW kind \in Kind, NEW entries \in Seq(Entry), NEW frame \in Frame,
         kind = "add" => Len(entries) = 1, NEW undoable \in BOOLEAN,
         Push(m, NewCommand(kind, entries, frame), undoable)
  PROVE  IInv'
<1>1. motion \in Motion /\ Agree(motion) /\ Owns(motion, Held(history))
  BY IInvParts DEF TypeOK
<1>2. m \in Motion /\ m.live = motion.live /\ m.keyframes = motion.keyframes
      /\ m.track = motion.track /\ m.frame = motion.frame
  BY <1>1 DEF Motion
<1>3. Agree(m) /\ Owns(m, Held(history))
  BY <1>1, <1>2, ContentsMoveNothing
<1>4. QED BY <1>1, <1>2, <1>3, NewCommandType, PushKeeps

LEMMA SelectKeeps ==
  ASSUME IInv, NEW keys \in SUBSET Key, Select(keys)
  PROVE  IInv'
<1>1. motion \in Motion /\ TypeOK
  BY DEF IInv, TypeOK
<1>2. /\ motion' \in Motion /\ motion'.live = motion.live /\ motion'.keyframes = motion.keyframes
      /\ motion'.track = motion.track /\ motion'.frame = motion.frame
  BY <1>1 DEF Select, Motion
<1>3. UNCHANGED <<history, cursor, edits, exact>>
  BY DEF Select
<1>4. TypeOK'
  BY <1>1, <1>2, <1>3 DEF TypeOK
<1>5. QED BY <1>2, <1>3, <1>4
             DEF IInv, TrackMatchesArray, OwnedOnce, Occupied, Held, AllWellFormed

LEMMA IInvInit == Init => IInv
<1> SUFFICES ASSUME Init PROVE IInv
  OBVIOUS
<1>1. PICK track \in Loaded : \E at \in [DOMAIN track -> Key] :
       /\ \A f, g \in DOMAIN track : at[f] = at[g] => f = g
       /\ LET keys == {at[f] : f \in DOMAIN track}
              Of(k) == CHOOSE f \in DOMAIN track : at[f] = k
          IN  motion = [live |-> keys, keyframes |-> keys,
                        track |-> [f \in Frame |-> IF f \in DOMAIN track THEN at[f] ELSE None],
                        frame |-> [k \in Key |-> IF k \in keys THEN Of(k) ELSE 0],
                        state |-> [k \in Key |-> IF k \in keys THEN [pose |-> track[Of(k)], curve |-> 0]
                                                 ELSE Default],
                        selection |-> {}]
  BY DEF Init
<1>2. PICK at \in [DOMAIN track -> Key] :
       /\ \A f, g \in DOMAIN track : at[f] = at[g] => f = g
       /\ LET keys == {at[f] : f \in DOMAIN track}
              Of(k) == CHOOSE f \in DOMAIN track : at[f] = k
          IN  motion = [live |-> keys, keyframes |-> keys,
                        track |-> [f \in Frame |-> IF f \in DOMAIN track THEN at[f] ELSE None],
                        frame |-> [k \in Key |-> IF k \in keys THEN Of(k) ELSE 0],
                        state |-> [k \in Key |-> IF k \in keys THEN [pose |-> track[Of(k)], curve |-> 0]
                                                 ELSE Default],
                        selection |-> {}]
  BY <1>1
<1> DEFINE keys   == {at[f] : f \in DOMAIN track}
           Of(k)  == CHOOSE f \in DOMAIN track : at[f] = k
           tracks == [f \in Frame |-> IF f \in DOMAIN track THEN at[f] ELSE None]
           frame  == [k \in Key |-> IF k \in keys THEN Of(k) ELSE 0]
           state  == [k \in Key |-> IF k \in keys THEN [pose |-> track[Of(k)], curve |-> 0] ELSE Default]
<1>3. motion = [live |-> keys, keyframes |-> keys, track |-> tracks, frame |-> frame,
                state |-> state, selection |-> {}]
  BY <1>2
<1>4. DOMAIN track \subseteq Frame /\ \A f \in DOMAIN track : track[f] \in Pose
  BY BoundsAssumption
<1>5. \A k \in keys : Of(k) \in DOMAIN track /\ at[Of(k)] = k
  OBVIOUS
<1>6. \A f \in DOMAIN track : Of(at[f]) = f
  BY <1>2
<1>7. keys \in SUBSET Key
  OBVIOUS
<1> HIDE DEF Of
<1>8. /\ tracks \in [Frame -> Key \cup {None}] /\ frame \in [Key -> Frame]
      /\ state \in [Key -> State]
  BY <1>4, <1>5, <1>7, FrameIsNat, DefaultType DEF State
<1>9. Agree(motion)
  <2>1. ASSUME NEW f \in Occupied(motion)
        PROVE  motion.track[f] \in motion.keyframes /\ motion.frame[motion.track[f]] = f
    <3>1. f \in DOMAIN track /\ f \in Frame /\ tracks[f] = at[f] /\ at[f] \in keys /\ at[f] \in Key
      BY <1>3, <2>1 DEF Occupied
    <3>2. frame[at[f]] = f
      BY <1>6, <3>1
    <3>3. QED BY <1>3, <3>1, <3>2
  <2>2. ASSUME NEW k \in motion.keyframes PROVE motion.track[motion.frame[k]] = k
    <3>1. k \in keys /\ k \in Key /\ frame[k] = Of(k) /\ Of(k) \in DOMAIN track /\ at[Of(k)] = k
      BY <1>3, <1>5, <1>7, <2>2
    <3>2. tracks[Of(k)] = k
      BY <1>4, <3>1
    <3>3. QED BY <1>3, <3>1, <3>2
  <2>3. QED BY <2>1, <2>2 DEF Agree
<1> HIDE DEF keys, tracks, frame, state
<1>10. motion \in Motion /\ motion.live = motion.keyframes
  BY <1>3, <1>7, <1>8 DEF Motion
<1>11. history = <<>> /\ cursor = 0 /\ edits = 0 /\ exact = TRUE
  BY DEF Init
<1>12. history \in Seq(Command) /\ Len(history) = 0 /\ DOMAIN history = {}
  BY <1>11, EmptySeq
<1>13. TypeOK
  BY <1>10, <1>11, <1>12, BoundsAssumption DEF TypeOK
<1>14. Owns(motion, Held(history)) /\ Disjoint(history) /\ AllWellFormed(history)
  BY <1>10, <1>12 DEF Owns, Held, Disjoint, AllWellFormed
<1>15. QED BY <1>9, <1>13, <1>14, IInvParts

LEMMA IInvStep == IInv /\ [Next]_vars => IInv'
<1> SUFFICES ASSUME IInv, [Next]_vars PROVE IInv'
  OBVIOUS
<1>0. TypeOK /\ motion \in Motion /\ history \in Seq(Command) /\ Kind = {"add", "remove", "insertFrame", "removeFrame"}
  BY DEF IInv, TypeOK, Kind
<1>e. <<>> \in Seq(Entry) /\ 0 \in Frame
  BY EmptySeq, FrameIsNat
<1>1. CASE RegisterAddKeyframe
  <2>1. PICK f \in Frame, pose \in Pose, adjust \in BOOLEAN :
          Push(motion, NewCommand("add", <<AddEntry(f, pose, adjust)>>, f), TRUE)
    BY <1>1 DEF RegisterAddKeyframe
  <2>2. AddEntry(f, pose, adjust) \in Entry
    BY <1>0, AddEntryType
  <2> DEFINE entries == <<AddEntry(f, pose, adjust)>>
  <2>3. entries \in Seq(Entry) /\ Len(entries) = 1
    BY <2>2
  <2> HIDE DEF entries
  <2>4. Push(motion, NewCommand("add", entries, f), TRUE)
    BY <2>1 DEF entries
  <2>5. QED BY <1>0, <2>3, <2>4, RegisterKeeps
<1>2. CASE RegisterRemoveKeyframe
  <2>1. PICK f \in Occupied(motion) :
          Push(motion, NewCommand("remove", <<RemoveEntry(motion.track[f])>>, f), TRUE)
    BY <1>2 DEF RegisterRemoveKeyframe
  <2>2. motion.track[f] \in Key /\ f \in Frame
    BY <1>0 DEF Occupied, Motion
  <2>3. RemoveEntry(motion.track[f]) \in Entry
    BY <1>0, <2>2, RemoveEntryType
  <2> DEFINE entries == <<RemoveEntry(motion.track[f])>>
  <2>4. entries \in Seq(Entry)
    BY <2>3
  <2> HIDE DEF entries
  <2>5. Push(motion, NewCommand("remove", entries, f), TRUE)
    BY <2>1 DEF entries
  <2>6. QED BY <1>0, <2>2, <2>4, <2>5, RegisterKeeps
<1>3. CASE RegisterRemoveAllSelectedKeyframes
  <2>1. PICK keys \in SetToSeqs(motion.selection) :
          Push([motion EXCEPT !.selection = {}],
               NewCommand("remove", [i \in DOMAIN keys |-> RemoveEntry(keys[i])], 0),
               motion.selection \subseteq motion.keyframes)
    BY <1>3 DEF RegisterRemoveAllSelectedKeyframes
  <2>2. motion.selection \in SUBSET Key
    BY <1>0 DEF Motion
  <2>3. Cardinality(motion.selection) \in Nat
    BY <2>2, KeyAssumption, FS_Subset, FS_CardinalityType
  <2>4. DOMAIN keys = 1 .. Cardinality(motion.selection)
        /\ \A i \in DOMAIN keys : keys[i] \in Key
    BY <2>1, <2>2 DEF SetToSeqs
  <2> DEFINE entries == [i \in DOMAIN keys |-> RemoveEntry(keys[i])]
  <2>5. \A i \in DOMAIN keys : RemoveEntry(keys[i]) \in Entry
    BY <1>0, <2>4, RemoveEntryType
  <2>6. entries \in Seq(Entry)
    BY <2>3, <2>4, <2>5, IsASeq
  <2> HIDE DEF entries
  <2>7. Push([motion EXCEPT !.selection = {}], NewCommand("remove", entries, 0),
             motion.selection \subseteq motion.keyframes)
    BY <2>1 DEF entries
  <2>8. (motion.selection \subseteq motion.keyframes) \in BOOLEAN
    OBVIOUS
  <2>9. QED BY <1>0, <1>e, <2>6, <2>7, <2>8, RegisterKeeps
<1>4. CASE RegisterInsertEmptyTimelineFrame
  <2>1. PICK f \in Frame \ {0} : Push(motion, NewCommand("insertFrame", <<>>, f), TRUE)
    BY <1>4 DEF RegisterInsertEmptyTimelineFrame
  <2>2. QED BY <1>0, <1>e, <2>1, RegisterKeeps
<1>5. CASE RegisterRemoveTimelineFrame
  <2>1. PICK f \in Frame : Push(motion, NewCommand("removeFrame", <<>>, f), f # 0)
    BY <1>5 DEF RegisterRemoveTimelineFrame
  <2>2. (f # 0) \in BOOLEAN
    OBVIOUS
  <2>3. QED BY <1>0, <1>e, <2>1, <2>2, RegisterKeeps
<1>6. CASE Undo
  <2>1. cursor \in DOMAIN history /\ cursor' \in 0 .. Len(history)
    BY <1>0, <1>6, IndexOfCommand DEF Undo
  <2>2. PICK r \in Undone(motion, history[cursor]) :
          motion' = r.motion /\ history' = [history EXCEPT ![cursor].held = r.held]
    BY <1>6 DEF Undo
  <2>3. UNCHANGED <<edits, exact>>
    BY <1>6 DEF Undo
  <2>4. QED BY <2>1, <2>2, <2>3, MoveKeeps
<1>7. CASE Redo
  <2>1. cursor + 1 \in DOMAIN history /\ cursor' \in 0 .. Len(history)
    BY <1>0, <1>7, IndexOfCommand DEF Redo
  <2>2. PICK r \in Redone(motion, history[cursor + 1]) :
          motion' = r.motion /\ history' = [history EXCEPT ![cursor + 1].held = r.held]
    BY <1>7 DEF Redo
  <2>3. UNCHANGED <<edits, exact>>
    BY <1>7 DEF Redo
  <2>4. QED BY <2>1, <2>2, <2>3, MoveKeeps
<1>8. \A f \in Occupied(motion) : motion.track[f] \in Key
  BY <1>0 DEF Occupied, Motion
<1>9. motion.selection \subseteq Key
  BY <1>0 DEF Motion
<1>10. CASE SelectKeyframe
  <2>1. PICK f \in Frame :
          Select(motion.selection \cup {motion.track[g] : g \in {f, f + 1} \cap Occupied(motion)})
    BY <1>10 DEF SelectKeyframe
  <2>2. motion.selection \cup {motion.track[g] : g \in {f, f + 1} \cap Occupied(motion)} \in SUBSET Key
    BY <1>8, <1>9
  <2>3. QED BY <2>1, <2>2, SelectKeeps
<1>11. CASE SelectAllRowKeyframes
  <2>1. motion.selection \cup {motion.track[f] : f \in Occupied(motion)} \in SUBSET Key
    BY <1>8, <1>9
  <2>2. QED BY <1>11, <2>1, SelectKeeps DEF SelectAllRowKeyframes
<1>12. CASE ClearSelectAllKeyframes
  BY <1>12, SelectKeeps DEF ClearSelectAllKeyframes
<1>13. CASE UNCHANGED vars
  BY <1>13 DEF vars, IInv, TypeOK, TrackMatchesArray, OwnedOnce, Occupied, Held, AllWellFormed
<1>14. QED BY <1>1, <1>2, <1>3, <1>4, <1>5, <1>6, <1>7, <1>10, <1>11, <1>12, <1>13 DEF Next

LEMMA IInvHolds == Spec => []IInv
<1>1. QED BY IInvInit, IInvStep, PTL DEF Spec

-----------------------------------------------------------------------------
\* The motion, the commands on the stack and the bounds keep their types.
THEOREM TypeCorrect == Spec => []TypeOK
<1>1. IInv => TypeOK
  BY DEF IInv
<1>2. QED BY <1>1, IInvHolds, PTL

\* Whatever is added, removed, shifted, undone, redone and evicted, array, track and frame
\* numbers of the motion agree.
THEOREM TrackAlwaysMatchesArray == Spec => []TrackMatchesArray
<1>1. IInv => TrackMatchesArray
  BY DEF IInv
<1>2. QED BY <1>1, IInvHolds, PTL

\* Every keyframe that exists belongs to the motion or to exactly one command: none is
\* lost and none is freed twice.
THEOREM AlwaysOwnedOnce == Spec => []OwnedOnce
<1>1. IInv => OwnedOnce
  BY DEF IInv
<1>2. QED BY <1>1, IInvHolds, PTL

-----------------------------------------------------------------------------
\* Where taking out and putting back leaves the keyframes.

\* Where the keyframes are after some of them are taken out.
LEMMA WithdrawWhere ==
  ASSUME NEW m \in Motion, NEW keys \in SUBSET Key, Agree(m), keys \subseteq m.keyframes
  PROVE  LET w == Withdraw(m, keys)
         IN  /\ w.state = m.state /\ w.selection = m.selection
             /\ \A f \in Frame : w.track[f] = IF m.track[f] \in keys THEN None ELSE m.track[f]
<1> DEFINE w    == Withdraw(m, keys)
           rest == [f \in Frame |-> IF \E k \in keys \cap m.keyframes : m.frame[k] = f
                                    THEN None ELSE m.track[f]]
           left == m.keyframes \ (keys \cap m.keyframes)
<1>1. w = [m EXCEPT !.keyframes = left, !.track = rest]
  BY DEF Withdraw
<1> HIDE DEF rest, left
<1>2. w.state = m.state /\ w.selection = m.selection /\ w.track = rest
  BY <1>1 DEF Motion
<1> HIDE DEF w
<1>3. ASSUME NEW f \in Frame
      PROVE  (\E k \in keys \cap m.keyframes : m.frame[k] = f) <=> m.track[f] \in keys
  <2>1. ASSUME NEW k \in keys \cap m.keyframes, m.frame[k] = f PROVE m.track[f] = k
    BY <2>1 DEF Agree
  <2>2. ASSUME m.track[f] \in keys PROVE m.frame[m.track[f]] = f /\ m.track[f] \in m.keyframes
    <3>1. m.track[f] # None
      BY <2>2, FrameIsNat
    <3>2. QED BY <3>1 DEF Agree, Occupied
  <2>3. QED BY <2>1, <2>2
<1>4. QED BY <1>2, <1>3 DEF w, rest

\* Keyframes that go to frames of their own, which are free or become free.
Apart(S, place) == \A j, k \in S : place[j] = place[k] => j = k
FreeIn(m, S, place, leaving) == \A k \in S : m.track[place[k]] \in leaving \cup {None}

\* Each of the keyframes S is at its place in p, and all else is as in m.
AtPlaces(m, S, place, p) ==
  /\ p.state = m.state /\ p.selection = m.selection
  /\ p.keyframes = m.keyframes \cup S
  /\ \A k \in S : p.track[place[k]] = k
  /\ \A f \in Frame : (\A k \in S : place[k] # f) => p.track[f] = m.track[f]

\* Where the keyframes are after some are put into frames of their own that are free.
LEMMA PutWhere ==
  ASSUME NEW m \in Motion, NEW S \in SUBSET Key, NEW place \in [S -> Frame],
         Apart(S, place), FreeIn(m, S, place, {})
  PROVE  AtPlaces(m, S, place, Put(m, place))
<1> DEFINE At(f)  == {k \in S : place[k] = f}
           free   == {f \in Frame : m.track[f] = None /\ At(f) # {}}
           taken  == [f \in free |-> CHOOSE k \in At(f) : TRUE]
           added  == {taken[f] : f \in free}
           track  == [f \in Frame |-> IF f \in free THEN taken[f] ELSE m.track[f]]
           frame  == [k \in Key |-> IF k \in added THEN place[k] ELSE m.frame[k]]
           all    == m.keyframes \cup added
           live   == m.live \ (S \ added)
           p      == Put(m, place)
<1>0. \A j, k \in S : place[j] = place[k] => j = k
  BY DEF Apart
<1>a. \A k \in S : m.track[place[k]] = None
  BY DEF FreeIn
<1>1. p = [m EXCEPT !.keyframes = all, !.live = live, !.track = track, !.frame = frame]
  BY DOMAIN place = S DEF Put
<1>2. \A k \in S : place[k] \in free /\ k \in At(place[k])
  BY <1>a
<1>3. \A f \in free : taken[f] \in S /\ place[taken[f]] = f
  OBVIOUS
<1>4. \A f \in Frame : f \in free => \E k \in S : place[k] = f
  OBVIOUS
<1> HIDE DEF At, free, taken
<1>5. \A k \in S : taken[place[k]] = k
  BY <1>0, <1>2, <1>3
<1>6. added = S
  BY <1>2, <1>3, <1>5
<1> HIDE DEF added
<1>7. \A k \in S : track[place[k]] = k
  BY <1>2, <1>5
<1>8. \A f \in Frame : (\A k \in S : place[k] # f) => track[f] = m.track[f]
  BY <1>4
<1> HIDE DEF track, frame, live
<1>9. p.state = m.state /\ p.selection = m.selection /\ p.track = track
      /\ p.keyframes = all
  BY <1>1 DEF Motion
<1> HIDE DEF p
<1>10. QED BY <1>6, <1>7, <1>8, <1>9 DEF p, AtPlaces

-----------------------------------------------------------------------------
\* Moving the keyframes from a frame on by one.

LEMMA ShiftWhere ==
  ASSUME NEW m \in Motion, NEW S \in SUBSET Key, S \subseteq m.keyframes,
         NEW place \in [S -> Frame], NEW others, Agree(m), Owns(m, others),
         Apart(S, place), FreeIn(m, S, place, S)
  PROVE  LET s == Shift(m, place)
         IN  /\ s.state = m.state /\ s.selection = m.selection /\ s.keyframes = m.keyframes
             /\ \A k \in S : s.track[place[k]] = k
             /\ \A f \in Frame : (\A k \in S : place[k] # f)
                  => s.track[f] = IF m.track[f] \in S THEN None ELSE m.track[f]
<1>1. DOMAIN place = S /\ S \in SUBSET Key /\ S \cap m.keyframes = S
  BY DEF Motion
<1> DEFINE w == Withdraw(m, S)
<1>2. w \in Motion /\ w.keyframes = m.keyframes \ S
  BY <1>1, WithdrawKeeps
<1>3. /\ w.state = m.state /\ w.selection = m.selection
      /\ \A f \in Frame : w.track[f] = IF m.track[f] \in S THEN None ELSE m.track[f]
  BY <1>1, WithdrawWhere
<1>4. Shift(m, place) = Put(w, place)
  BY <1>1 DEF Shift
<1> HIDE DEF w
<1>5. FreeIn(w, S, place, {})
  BY <1>3 DEF FreeIn
<1> DEFINE p == Put(w, place)
<1>6. /\ p.state = w.state /\ p.selection = w.selection /\ p.keyframes = w.keyframes \cup S
      /\ \A k \in S : p.track[place[k]] = k
      /\ \A f \in Frame : (\A k \in S : place[k] # f) => p.track[f] = w.track[f]
  BY <1>2, <1>5, PutWhere DEF AtPlaces
<1>7. p.keyframes = m.keyframes
  BY <1>2, <1>6
<1> HIDE DEF p
<1>8. QED BY <1>3, <1>4, <1>6, <1>7 DEF p

\* Inserting a frame: what was at the frame or after it is one frame later, and what the
\* command held is at the frame.
LEMMA ShiftBackwardWhere ==
  ASSUME NEW m \in Motion, NEW c, c.frame \in Frame \ {0}, c.held \in SUBSET Key, Room(m, c),
         \A j, k \in c.held : j = k,
         NEW others, others \cap c.held = {}, Agree(m), Owns(m, others \cup c.held)
  PROVE  LET r == ShiftBackward(m, c)
         IN  /\ r.held = {} /\ r.motion.state = m.state /\ r.motion.selection = m.selection
             /\ r.motion.keyframes = m.keyframes \cup c.held
             /\ \A k \in c.held : r.motion.track[c.frame] = k
             /\ c.held = {} => r.motion.track[c.frame] = None
             /\ \A g \in Frame : g < c.frame => r.motion.track[g] = m.track[g]
             /\ \A g \in Frame : g > c.frame => r.motion.track[g] = m.track[g - 1]
             /\ m.track[MaxFrame] = None
<1> DEFINE r     == ShiftBackward(m, c)
           late  == {k \in m.keyframes : m.frame[k] >= c.frame}
           later == [k \in late |-> m.frame[k] + 1]
           back  == [k \in c.held |-> c.frame]
           s     == Shift(m, later)
<1>1. r = [motion |-> Put(s, back), held |-> {}]
  BY DEF ShiftBackward
<1>0. Frame = 0 .. MaxFrame /\ MaxFrame \in Nat /\ None \notin Key /\ c.frame \in 1 .. MaxFrame
  BY FrameIsNat
<1>a. /\ m.frame \in [Key -> Frame] /\ m.track \in [Frame -> Key \cup {None}]
      /\ m.keyframes \in SUBSET Key
  BY DEF Motion
<1>2. \A k \in late : m.frame[k] + 1 \in Frame /\ m.frame[k] \in Frame
  BY <1>0, <1>a DEF Room
<1>3. later \in [late -> Frame] /\ back \in [c.held -> Frame] /\ late \subseteq m.keyframes
  BY <1>2
<1>4. \A k \in m.keyframes : m.track[m.frame[k]] = k
  BY DEF Agree
<1>5. \A g \in Frame : m.track[g] # None => m.track[g] \in m.keyframes /\ m.frame[m.track[g]] = g
  BY DEF Agree, Occupied
<1>6. \A g \in Frame : m.track[g] \in late <=> g >= c.frame /\ m.track[g] # None
  BY <1>0, <1>5, <1>a
<1>7. \A j, k \in late : later[j] = later[k] => j = k
  BY <1>0, <1>2, <1>4
<1>8. \A k \in late : m.track[later[k]] \in late \cup {None}
  BY <1>0, <1>2, <1>6
<1>9. /\ s.state = m.state /\ s.selection = m.selection /\ s.keyframes = m.keyframes
      /\ \A k \in late : s.track[later[k]] = k
      /\ \A f \in Frame : (\A k \in late : later[k] # f)
           => s.track[f] = IF m.track[f] \in late THEN None ELSE m.track[f]
  <2>1. Apart(late, later) /\ FreeIn(m, late, later, late)
    BY <1>7, <1>8 DEF Apart, FreeIn
  <2>2. late \in SUBSET Key
    BY <1>a
  <2> HIDE DEF late, later
  <2>3. QED BY <1>3, <2>1, <2>2, ShiftWhere
<1>10. s \in Motion
  <2> HIDE DEF late, later
  <2>1. QED BY <1>3, ShiftKeeps
<1> HIDE DEF s
<1>11. ASSUME NEW g \in Frame, g <= c.frame
       PROVE  s.track[g] = IF g = c.frame THEN None ELSE m.track[g]
  <2>1. \A k \in late : later[k] # g
    BY <1>0, <1>2, <1>11
  <2>2. s.track[g] = IF m.track[g] \in late THEN None ELSE m.track[g]
    BY <1>9, <2>1
  <2>3. QED BY <1>0, <1>6, <1>11, <2>2
<1>12. ASSUME NEW g \in Frame, g > c.frame
       PROVE  s.track[g] = m.track[g - 1]
  <2>1. g - 1 \in Frame /\ g - 1 >= c.frame /\ g \in Int
    BY <1>0, <1>12
  <2>2. CASE m.track[g - 1] = None
    <3>1. \A k \in late : later[k] # g
      <4> SUFFICES ASSUME NEW k \in late, m.frame[k] + 1 = g PROVE FALSE
        OBVIOUS
      <4>1. m.frame[k] = g - 1
        BY <1>0, <1>2
      <4>2. QED BY <1>3, <1>4, <4>1, <2>2, <1>a, <1>0
    <3>2. s.track[g] = IF m.track[g] \in late THEN None ELSE m.track[g]
      BY <1>9, <3>1
    <3>3. QED BY <1>0, <1>6, <1>12, <2>2, <3>2
  <2>3. CASE m.track[g - 1] # None
    <3> DEFINE k == m.track[g - 1]
    <3>1. k \in late /\ m.frame[k] = g - 1
      BY <1>5, <1>6, <2>1, <2>3
    <3>2. later[k] = g
      BY <2>1, <3>1
    <3> HIDE DEF late, later
    <3>3. QED BY <1>9, <3>1, <3>2
  <2>4. QED BY <2>2, <2>3
<1>13. m.track[MaxFrame] = None
  <2>1. MaxFrame \in Frame /\ MaxFrame >= c.frame
    BY <1>0
  <2>2. ASSUME m.track[MaxFrame] # None PROVE FALSE
    BY <1>0, <1>5, <2>1, <2>2 DEF Room
  <2>3. QED BY <2>2
<1> DEFINE p == Put(s, back)
<1>14. /\ p.state = s.state /\ p.selection = s.selection /\ p.keyframes = s.keyframes \cup c.held
       /\ \A k \in c.held : p.track[back[k]] = k
       /\ \A f \in Frame : (\A k \in c.held : back[k] # f) => p.track[f] = s.track[f]
  <2>1. Apart(c.held, back)
    BY DEF Apart
  <2>2. FreeIn(s, c.held, back, {})
    BY <1>0, <1>11 DEF FreeIn
  <2> HIDE DEF back
  <2>3. QED BY <1>3, <1>10, <2>1, <2>2, PutWhere DEF AtPlaces
<1>15. r.motion = p /\ r.held = {}
  BY <1>1
<1> HIDE DEF p, r, late, later
<1>16. \A g \in Frame : g # c.frame => p.track[g] = s.track[g]
  BY <1>14
<1>17. \A k \in c.held : p.track[c.frame] = k
  BY <1>14
<1>18. c.held = {} => p.track[c.frame] = None
  BY <1>0, <1>11, <1>14
<1>19. QED BY <1>0, <1>9, <1>11, <1>12, <1>13, <1>14, <1>15, <1>16, <1>17, <1>18 DEF r

TakesFrameOut(m, c, r) ==
  /\ r.held = c.held \cup (IF m.track[c.frame] = None THEN {} ELSE {m.track[c.frame]})
  /\ r.motion.state = m.state /\ r.motion.selection = m.selection
  /\ m.keyframes \subseteq r.motion.keyframes \cup r.held
  /\ \A g \in Frame : g < c.frame => r.motion.track[g] = m.track[g]
  /\ \A g \in Frame : g >= c.frame =>
       r.motion.track[g] = IF g < MaxFrame THEN m.track[g + 1] ELSE None

\* Removing a frame: what was after the frame is one frame earlier, and what was at the frame
\* is held.
LEMMA ShiftForwardWhere ==
  ASSUME NEW m \in Motion, NEW c, c.frame \in Frame, c.held \in SUBSET Key,
         NEW others, others \cap c.held = {}, Agree(m), Owns(m, others \cup c.held)
  PROVE  TakesFrameOut(m, c, ShiftForward(m, c))
<1> DEFINE r       == ShiftForward(m, c)
           late    == {k \in m.keyframes : m.frame[k] > c.frame}
           here    == {k \in m.keyframes : m.frame[k] = c.frame}
           earlier == [k \in late |-> m.frame[k] - 1]
           w       == Withdraw(m, here)
           s       == Shift(w, earlier)
<1>1. r = [motion |-> s, held |-> c.held \cup here]
  BY DEF ShiftForward
<1>0. Frame = 0 .. MaxFrame /\ MaxFrame \in Nat /\ None \notin Key /\ c.frame \in 0 .. MaxFrame
  BY FrameIsNat
<1>a. /\ m.frame \in [Key -> Frame] /\ m.track \in [Frame -> Key \cup {None}]
      /\ m.keyframes \in SUBSET Key
  BY DEF Motion
<1>2. \A k \in late : m.frame[k] - 1 \in Frame /\ m.frame[k] \in Frame
  BY <1>0, <1>a
<1>4. \A k \in m.keyframes : m.track[m.frame[k]] = k
  BY DEF Agree
<1>5. \A g \in Frame : m.track[g] # None => m.track[g] \in m.keyframes /\ m.frame[m.track[g]] = g
  BY DEF Agree, Occupied
<1>b. here = IF m.track[c.frame] = None THEN {} ELSE {m.track[c.frame]}
  <2>1. \A k \in here : k = m.track[c.frame]
    BY <1>4
  <2>2. m.track[c.frame] # None => m.track[c.frame] \in here
    BY <1>5
  <2>3. None \notin here
    BY <1>0, <1>a
  <2> HIDE DEF here
  <2>4. QED BY <2>1, <2>2, <2>3
<1>3. earlier \in [late -> Frame] /\ late \subseteq m.keyframes \ here /\ here \subseteq m.keyframes
  BY <1>0, <1>2
<1>6. /\ w \in Motion /\ Agree(w) /\ w.keyframes = m.keyframes \ here
      /\ Owns(w, (others \cup c.held) \cup here) /\ w.frame = m.frame
  <2>1. here \in SUBSET Key /\ here \cap m.keyframes = here
    BY <1>a
  <2> HIDE DEF here
  <2>2. QED BY <2>1, WithdrawKeeps
<1>7. /\ w.state = m.state /\ w.selection = m.selection
      /\ \A f \in Frame : w.track[f] = IF f = c.frame THEN None ELSE m.track[f]
  <2>1. here \in SUBSET Key
    BY <1>a
  <2>2. /\ w.state = m.state /\ w.selection = m.selection
        /\ \A f \in Frame : w.track[f] = IF m.track[f] \in here THEN None ELSE m.track[f]
    <3> HIDE DEF here
    <3>1. QED BY <1>3, <2>1, WithdrawWhere
  <2>3. \A f \in Frame : m.track[f] \in here <=> f = c.frame /\ m.track[f] # None
    BY <1>0, <1>a, <1>4, <1>5
  <2>4. QED BY <2>2, <2>3
<1> HIDE DEF w
<1>8. \A g \in Frame : w.track[g] \in late <=> g > c.frame /\ w.track[g] # None
  BY <1>0, <1>4, <1>5, <1>7, <1>a
<1>9. \A j, k \in late : earlier[j] = earlier[k] => j = k
  BY <1>0, <1>2, <1>4
<1>10. \A k \in late : w.track[earlier[k]] \in late \cup {None}
  BY <1>0, <1>2, <1>7, <1>8
<1>11. /\ s.state = w.state /\ s.selection = w.selection /\ s.keyframes = w.keyframes
       /\ \A k \in late : s.track[earlier[k]] = k
       /\ \A f \in Frame : (\A k \in late : earlier[k] # f)
            => s.track[f] = IF w.track[f] \in late THEN None ELSE w.track[f]
  <2>1. Apart(late, earlier) /\ FreeIn(w, late, earlier, late)
    BY <1>9, <1>10 DEF Apart, FreeIn
  <2>2. late \subseteq w.keyframes /\ late \in SUBSET Key
    BY <1>3, <1>6, <1>a
  <2> HIDE DEF late, earlier, here
  <2>3. QED BY <1>3, <1>6, <2>1, <2>2, ShiftWhere
<1> HIDE DEF s
<1>12. ASSUME NEW g \in Frame, g < c.frame PROVE s.track[g] = m.track[g]
  <2>1. \A k \in late : earlier[k] # g
    BY <1>0, <1>2, <1>12
  <2>2. s.track[g] = IF w.track[g] \in late THEN None ELSE w.track[g]
    BY <1>11, <2>1
  <2>3. QED BY <1>0, <1>7, <1>8, <1>12, <2>2
<1>13. ASSUME NEW g \in Frame, g >= c.frame
       PROVE  s.track[g] = IF g < MaxFrame THEN m.track[g + 1] ELSE None
  <2>1. CASE g < MaxFrame /\ m.track[g + 1] # None
    <3> DEFINE k == m.track[g + 1]
    <3>1. g + 1 \in Frame /\ g + 1 > c.frame
      BY <1>0, <1>13, <2>1
    <3>2. k \in late /\ m.frame[k] = g + 1
      BY <1>5, <2>1, <3>1
    <3>3. earlier[k] = g
      BY <1>0, <3>2
    <3> HIDE DEF late, earlier
    <3>4. QED BY <1>11, <2>1, <3>2, <3>3
  <2>2. CASE ~(g < MaxFrame /\ m.track[g + 1] # None)
    <3>1. \A k \in late : earlier[k] # g
      <4> SUFFICES ASSUME NEW k \in late, m.frame[k] - 1 = g PROVE FALSE
        OBVIOUS
      <4>1. m.frame[k] = g + 1 /\ g + 1 \in Frame
        BY <1>0, <1>2
      <4>2. k \in m.keyframes /\ k # None
        BY <1>0, <1>a
      <4>3. QED BY <1>0, <1>4, <2>2, <4>1, <4>2
    <3>2. s.track[g] = IF w.track[g] \in late THEN None ELSE w.track[g]
      BY <1>11, <3>1
    <3>3. s.track[g] = None
      BY <1>0, <1>7, <1>8, <1>13, <3>2
    <3>4. QED BY <2>2, <3>3
  <2>3. QED BY <2>1, <2>2
<1>14. r.motion = s /\ r.held = c.held \cup here
  BY <1>1
<1> HIDE DEF r, here, late
<1>15. QED BY <1>6, <1>7, <1>11, <1>12, <1>13, <1>14, <1>b DEF r, TakesFrameOut

-----------------------------------------------------------------------------
\* What the track of a motion holds, and how updates and split curves change it.

\* A motion as its track shows it: two keyframes are never at one frame.
LEMMA ContentFacts ==
  ASSUME NEW m \in Motion, Agree(m)
  PROVE  /\ \A f \in Frame : /\ m.track[f] = None => Content(m)[f] = None
                             /\ m.track[f] # None => /\ m.track[f] \in m.keyframes /\ m.track[f] \in Key
                                                     /\ Content(m)[f] = m.state[m.track[f]]
                                                     /\ Content(m)[f] \in State
                             /\ f \in Occupied(m) <=> m.track[f] # None
                             /\ f \in Occupied(m) <=> Content(m)[f] # None
         /\ \A f, g \in Frame : m.track[f] = m.track[g] /\ m.track[f] # None => f = g
         /\ m.keyframes \subseteq Key /\ m.live \subseteq Key /\ None \notin State
<1>1. /\ m.track \in [Frame -> Key \cup {None}] /\ m.keyframes \subseteq Key
      /\ m.live \subseteq Key /\ m.state \in [Key -> State]
  BY DEF Motion
<1>2. None \notin State
  BY PoseAssumption DEF State
<1>3. QED BY <1>1, <1>2 DEF Content, Occupied, Agree

LEMMA SameTrackSameContent ==
  ASSUME NEW m, NEW w, w.track = m.track, w.state = m.state
  PROVE  Content(w) = Content(m)
BY DEF Content

\* What the updates of a command change: at most the one keyframe at their frame.
LEMMA RestoreWhere ==
  ASSUME NEW m \in Motion, NEW entries \in Seq(Entry), NEW state \in [DOMAIN entries -> State],
         NEW others, Agree(m), Owns(m, others)
  PROVE  LET w == Restore(m, entries, state)
         IN  /\ w.selection = m.selection
             /\ \A k \in Key \ m.keyframes : w.state[k] = m.state[k]
             /\ (\A i, j \in Updates(entries) : i = j) =>
                  \A f \in Frame :
                    /\ \A u \in Updates(entries) : entries[u].frame = f /\ f \in Occupied(m)
                         => Content(w)[f] = state[u]
                    /\ (\A u \in Updates(entries) : entries[u].frame # f)
                         => Content(w)[f] = Content(m)[f]
                    /\ f \notin Occupied(m) => Content(w)[f] = None
<1> DEFINE w    == Restore(m, entries, state)
           last == CHOOSE i \in Updates(entries) : \A j \in Updates(entries) : j <= i
           key  == m.track[entries[last].frame]
<1>0. w \in Motion /\ Agree(w) /\ w.track = m.track
  BY RestoreKeeps
<1>u. Updates(entries) \subseteq DOMAIN entries /\ \A u \in Updates(entries) : entries[u].frame \in Frame
  BY EntryTypes DEF Updates
<1>1. CASE Updates(entries) = {}
  <2>1. w = m
    BY <1>1 DEF Restore
  <2> HIDE DEF w
  <2>2. QED BY <1>1, <2>1, ContentFacts DEF w
<1>2. CASE Updates(entries) # {} /\ key = None
  <2>1. w = m
    BY <1>2 DEF Restore
  <2>2. last \in Updates(entries)
    <3>1. Updates(entries) \in SUBSET (0 .. Len(entries)) /\ Len(entries) \in Nat
      BY EntryTypes DEF Updates
    <3>2. QED BY <1>2, <3>1, LargestExists
  <2>3. entries[last].frame \in Frame /\ entries[last].frame \notin Occupied(m)
    BY <1>2, <1>u, <2>2 DEF Occupied
  <2> HIDE DEF w, last
  <2>4. QED BY <2>1, <2>2, <2>3, ContentFacts DEF w
<1>3. CASE Updates(entries) # {} /\ key # None
  <2>1. last \in Updates(entries)
    <3>1. Updates(entries) \in SUBSET (0 .. Len(entries)) /\ Len(entries) \in Nat
      BY EntryTypes DEF Updates
    <3>2. QED BY <1>3, <3>1, LargestExists
  <2>2. entries[last].frame \in Frame /\ state[last] \in State
    BY <1>u, <2>1
  <2>3. w = [m EXCEPT !.state[key] = state[last]]
    <3>1. ~ (Updates(entries) = {} \/ key = None)
      BY <1>3
    <3>2. QED BY <3>1 DEF Restore
  <2> DEFINE frame == entries[last].frame
             value == state[last]
  <2> HIDE DEF last
  <2>4. key \in m.keyframes /\ key \in Key /\ m.track[frame] = key
    BY <1>3, <2>2, ContentFacts
  <2>f. frame \in Frame /\ value \in State
    BY <2>2
  <2> HIDE DEF key, value
  <2>5. w.selection = m.selection /\ w.state = [m.state EXCEPT ![key] = value]
    BY <2>3 DEF Motion, value
  <2> HIDE DEF w
  <2>6. w.state[key] = value /\ \A k \in Key : k # key => w.state[k] = m.state[k]
    BY <2>4, <2>5 DEF Motion
  <2>7. Content(w)[frame] = value
    BY <1>0, <1>3, <2>f, <2>4, <2>6, ContentFacts
  <2>8. ASSUME NEW f \in Frame, f # frame PROVE Content(w)[f] = Content(m)[f]
    BY <1>0, <1>3, <2>f, <2>4, <2>6, <2>8, ContentFacts
  <2>9. ASSUME \A i, j \in Updates(entries) : i = j
        PROVE  \A u \in Updates(entries) : u = last
    BY <2>1, <2>9
  <2>10. frame \in Occupied(m)
    BY <1>3, <2>f, <2>4, ContentFacts
  <2>11. \A f \in Frame \ Occupied(m) : Content(w)[f] = None
    BY <2>8, <2>10, ContentFacts
  <2>12. \A k \in Key \ m.keyframes : w.state[k] = m.state[k]
    BY <2>4, <2>6
  <2>13. QED BY <2>1, <2>5, <2>7, <2>8, <2>9, <2>11, <2>12 DEF w, value
<1>4. QED BY <1>1, <1>2, <1>3

\* The curve before a keyframe: nothing else changes.
LEMMA OverrideWhere ==
  ASSUME NEW m \in Motion, NEW entry \in Entry, NEW curve \in Nat, NEW others,
         Agree(m), Owns(m, others)
  PROVE  LET w == Override(m, entry, curve)
         IN  /\ w.selection = m.selection /\ w.keyframes = m.keyframes /\ w.live = m.live
             /\ \A k \in Key \ m.keyframes : w.state[k] = m.state[k]
             /\ \A f \in Frame : f # entry.over => Content(w)[f] = Content(m)[f]
             /\ entry.over \in Frame => Content(w)[entry.over] =
                  IF Content(m)[entry.over] = None THEN None
                  ELSE [Content(m)[entry.over] EXCEPT !.curve = curve]
<1> DEFINE w == Override(m, entry, curve)
           over == entry.over
           key == m.track[over]
           value == [m.state[key] EXCEPT !.curve = curve]
           state == [m.state EXCEPT ![key] = value]
<1>0. over \in Frame \cup {None}
  BY DEF Entry
<1>1. CASE over = None \/ over \notin Occupied(m)
  <2>1. w = m
    BY <1>1 DEF Override
  <2>2. over \in Frame => Content(m)[over] = None
    BY <1>1, FrameIsNat, ContentFacts
  <2> HIDE DEF w
  <2>3. QED BY <2>1, <2>2 DEF w
<1>2. CASE over # None /\ over \in Occupied(m)
  <2>1. key \in Key /\ key \in m.keyframes /\ over \in Frame /\ m.track[over] # None
        /\ Content(m)[over] = m.state[key] /\ Content(m)[over] # None
    BY <1>0, <1>2, ContentFacts DEF Occupied
  <2>5. w = [m EXCEPT !.state = state]
    BY <1>2 DEF Override
  <2>6. w \in Motion /\ Agree(w)
    BY OverrideKeeps
  <2> HIDE DEF state
  <2>7. w.selection = m.selection /\ w.keyframes = m.keyframes /\ w.live = m.live
        /\ w.state = state /\ w.track = m.track
    BY <2>5 DEF Motion
  <2> HIDE DEF w, value
  <2>8. state[key] = value /\ \A k \in Key : k # key => state[k] = m.state[k]
    BY <2>1 DEF state, Motion
  <2>9. Content(w)[over] = value
    BY <2>1, <2>6, <2>7, <2>8, ContentFacts
  <2>10. value = [Content(m)[over] EXCEPT !.curve = curve]
    BY <2>1 DEF value
  <2>11. ASSUME NEW f \in Frame, f # over PROVE Content(w)[f] = Content(m)[f]
    BY <2>1, <2>6, <2>7, <2>8, <2>11, ContentFacts
  <2>12. QED BY <2>1, <2>7, <2>8, <2>9, <2>10, <2>11 DEF w
<1>3. QED BY <1>0, <1>1, <1>2

-----------------------------------------------------------------------------
\* Taking keyframes out, and adding them.

Distinct(entries) ==
  /\ \A i, j \in DOMAIN entries : entries[i].frame = entries[j].frame => i = j
  /\ \A i, j \in Updates(entries) : i = j

LEMMA DistinctNeverRepeats ==
  ASSUME NEW entries \in Seq(Entry), Distinct(entries)
  PROVE  /\ \A i \in DOMAIN entries : ~Repeats(entries, i)
         /\ Creates(entries) \subseteq DOMAIN entries /\ Updates(entries) \subseteq DOMAIN entries
         /\ DOMAIN entries = Creates(entries) \cup Updates(entries)
         /\ \A i \in Creates(entries), j \in Updates(entries) : entries[i].frame # entries[j].frame
<1>1. Len(entries) \in Nat /\ DOMAIN entries = 1 .. Len(entries)
  BY EntryTypes
<1>2. \A i \in DOMAIN entries : \A j \in 1 .. i - 1 : j \in DOMAIN entries /\ j # i
  BY <1>1
<1>3. QED BY <1>2 DEF Repeats, Distinct, Creates, Updates

\* Removing keyframes that are found: their frames are free.
LEMMA TakeOutWhere ==
  ASSUME NEW m \in Motion, NEW entries \in Seq(Entry), NEW others, Agree(m), Owns(m, others)
  PROVE  LET w == TakeOut(m, entries)
         IN  /\ \A k \in Key \ m.keyframes : w.state[k] = m.state[k]
             /\ m.selection \subseteq m.keyframes => w.selection \subseteq w.keyframes
             /\ Distinct(entries) /\ (\A i \in Creates(entries) : entries[i].frame \in Occupied(m)) =>
                  \A f \in Frame :
                    /\ (\E i \in Creates(entries) : entries[i].frame = f) => Content(w)[f] = None
                    /\ (\A i \in Creates(entries) : entries[i].frame # f)
                         => Content(w)[f] = Content(Restore(m, entries, SecondOf(entries)))[f]
<1> DEFINE Missing(i) == ~entries[i].updated /\ (m.track[entries[i].frame] = None \/ Repeats(entries, i))
           done == {i \in DOMAIN entries : \A j \in 1 .. i : ~Missing(j)}
           some == SubSeq(entries, 1, Cardinality(done))
           keys == {m.track[entries[i].frame] : i \in done \ Updates(entries)}
           r    == Restore(m, some, SecondOf(some))
           d    == Deselect(r, keys)
           v    == Withdraw(d, keys)
           w    == TakeOut(m, entries)
<1>1. w = Free(v, keys)
  BY DEF TakeOut
<1>2. /\ DOMAIN entries = 1 .. Len(entries) /\ Len(entries) \in Nat
      /\ \A i \in DOMAIN entries : entries[i] \in Entry /\ entries[i].frame \in Frame
  BY EntryTypes
<1>3. done \in SUBSET (1 .. Len(entries))
  BY <1>2
<1>4. Cardinality(done) \in Nat /\ Cardinality(done) <= Len(entries)
  <2> HIDE DEF done
  <2>1. IsFiniteSet(1 .. Len(entries)) /\ Cardinality(1 .. Len(entries)) = Len(entries)
    BY <1>2, FS_Interval
  <2>2. QED BY <1>3, <2>1, FS_Subset, FS_CardinalityType
<1>5. \A i \in done \ Updates(entries) :
        m.track[entries[i].frame] \in m.keyframes
  <2> TAKE i \in done \ Updates(entries)
  <2>1. i \in DOMAIN entries /\ ~Missing(i) /\ ~entries[i].updated
    BY <1>2 DEF Updates
  <2>2. entries[i].frame \in Occupied(m)
    BY <1>2, <2>1 DEF Occupied
  <2>3. QED BY <2>2 DEF Agree
<1>6. keys \subseteq m.keyframes /\ keys \in SUBSET Key
  BY <1>5 DEF Motion
<1>7. some \in Seq(Entry)
  <2> HIDE DEF done
  <2>1. QED BY <1>2, <1>4, SubSeqProperties
<1>e. Distinct(entries) /\ (\A i \in Creates(entries) : entries[i].frame \in Occupied(m))
        => /\ some = entries
           /\ keys = {m.track[entries[i].frame] : i \in Creates(entries)}
  <2> SUFFICES ASSUME Distinct(entries),
                      \A i \in Creates(entries) : entries[i].frame \in Occupied(m)
               PROVE  some = entries /\ done = DOMAIN entries
    BY DEF Creates
  <2>1. \A i \in DOMAIN entries : ~Missing(i)
    BY DistinctNeverRepeats DEF Occupied, Creates, Updates
  <2>2. \A i \in DOMAIN entries : \A j \in 1 .. i : j \in DOMAIN entries
    BY <1>2
  <2>3. done = DOMAIN entries
    BY <2>1, <2>2
  <2> HIDE DEF done
  <2>4. Cardinality(done) = Len(entries)
    <3>1. Cardinality(1 .. Len(entries)) = Len(entries)
      BY <1>2, FS_Interval
    <3>2. QED BY <1>2, <2>3, <3>1
  <2>5. some = SubSeq(entries, 1, Len(entries))
    BY <2>4
  <2>6. Len(some) = Len(entries) /\ \A i \in 1 .. Len(some) : some[i] = entries[i]
    BY <1>2, <1>7, <2>5, SubSeqProperties
  <2> HIDE DEF some
  <2>7. some = entries
    BY <1>7, <2>6, SeqEqual
  <2>8. QED BY <2>3, <2>7
<1> HIDE DEF done, keys, some
<1>8. r \in Motion /\ Agree(r) /\ Owns(r, others) /\ r.keyframes = m.keyframes /\ r.track = m.track
  BY <1>7, EntryTypes, RestoreKeeps
<1>8a. r.selection = m.selection /\ \A k \in Key \ m.keyframes : r.state[k] = m.state[k]
  BY <1>7, EntryTypes, RestoreWhere
<1> HIDE DEF r
<1>9. d \in Motion /\ Agree(d) /\ Owns(d, others) /\ d.keyframes = m.keyframes
  BY <1>8, DeselectKeeps
<1>9a. d.track = m.track /\ d.state = r.state /\ d.selection = m.selection \ keys
  BY <1>8, <1>8a DEF Deselect, Motion
<1> HIDE DEF d
<1>10. v \in Motion /\ Agree(v) /\ v.keyframes = m.keyframes \ keys
  <2>1. /\ Withdraw(d, keys) \in Motion /\ Agree(Withdraw(d, keys))
        /\ Withdraw(d, keys).keyframes = d.keyframes \ keys
    BY <1>6, <1>9, WithdrawKeeps
  <2>2. QED BY <1>9, <2>1
<1>11. /\ v.state = r.state /\ v.selection = m.selection \ keys
       /\ \A f \in Frame : v.track[f] = IF m.track[f] \in keys THEN None ELSE m.track[f]
  BY <1>6, <1>9, <1>9a, WithdrawWhere
<1> HIDE DEF v
<1>12. /\ w.state = r.state /\ w.selection = m.selection \ keys /\ w.keyframes = m.keyframes \ keys
       /\ w.track = v.track
  BY <1>1, <1>10, <1>11 DEF Free, Motion
<1> HIDE DEF w
<1>13. m.selection \subseteq m.keyframes => w.selection \subseteq w.keyframes
  BY <1>12
<1>14. ASSUME Distinct(entries), \A i \in Creates(entries) : entries[i].frame \in Occupied(m),
              NEW f \in Frame
       PROVE  /\ (\E i \in Creates(entries) : entries[i].frame = f) => Content(w)[f] = None
              /\ (\A i \in Creates(entries) : entries[i].frame # f)
                   => Content(w)[f] = Content(Restore(m, entries, SecondOf(entries)))[f]
  <2>1. keys = {m.track[entries[i].frame] : i \in Creates(entries)}
        /\ Restore(m, entries, SecondOf(entries)) = r
    BY <1>e, <1>14 DEF r
  <2>2. Creates(entries) \subseteq DOMAIN entries
    BY DEF Creates
  <2>3. ASSUME NEW i \in Creates(entries), entries[i].frame = f
        PROVE  Content(w)[f] = None
    <3>1. w.track[f] = None
      BY <1>11, <1>12, <2>1, <2>3
    <3>2. QED BY <3>1 DEF Content
  <2>4. ASSUME \A i \in Creates(entries) : entries[i].frame # f
        PROVE  Content(w)[f] = Content(r)[f]
    <3>1. m.track[f] \notin keys
      <4> SUFFICES ASSUME NEW i \in Creates(entries), m.track[f] = m.track[entries[i].frame]
                   PROVE  FALSE
        BY <2>1
      <4>1. entries[i].frame \in Frame /\ entries[i].frame \in Occupied(m)
        BY <1>2, <1>14, <2>2
      <4>2. QED BY <2>4, <4>1, ContentFacts
    <3>2. w.track[f] = r.track[f] /\ w.state = r.state
      BY <1>8, <1>11, <1>12, <3>1
    <3>3. QED BY <3>2 DEF Content
  <2>5. QED BY <2>1, <2>3, <2>4
<1>15. \A k \in Key \ m.keyframes : w.state[k] = m.state[k]
  BY <1>8a, <1>12
<1>16. QED BY <1>13, <1>14, <1>15 DEF w

-----------------------------------------------------------------------------
\* Adding keyframes.

\* Adding keyframes: what others hold is left alone, and if all frames are free, each keyframe
\* is at its frame.
LEMMA AddWhere ==
  ASSUME NEW m \in Motion, NEW entries \in Seq(Entry), NEW others,
         Agree(m), Owns(m, others), NEW a \in Add(m, entries)
  PROVE  LET r == Restore(m, entries, FirstOf(entries))
         IN  /\ \A k \in m.live \ m.keyframes : a.state[k] = m.state[k]
             /\ Distinct(entries) /\ (\A i \in Creates(entries) : entries[i].frame \notin Occupied(m)) =>
                  /\ m.keyframes \subseteq a.keyframes
                  /\ a.selection \subseteq m.selection \cup a.keyframes
                  /\ \A f \in Frame :
                       /\ \A i \in Creates(entries) : entries[i].frame = f
                            => Content(a)[f] = entries[i].first
                       /\ (\A i \in Creates(entries) : entries[i].frame # f)
                            => Content(a)[f] = Content(r)[f]
<1> DEFINE fits    == Fits(m, entries)
           unused  == Key \ m.live
           refused == {i \in Creates(entries) \ fits : entries[i].selected}
           r       == Restore(m, entries, FirstOf(entries))
<1>0. \E lost \in SUBSET unused :
        /\ refused = {} => lost = {}
        /\ a \in {Added(m, entries, new, lost) : new \in {g \in [fits -> unused] : IsInjective(g)}}
  BY DEF Add
<1>1. PICK new \in [fits -> unused], lost \in SUBSET unused :
        /\ a = Added(m, entries, new, lost)
        /\ IsInjective(new)
        /\ refused = {} => lost = {}
  BY <1>0
<1>1a. \A i, j \in fits : new[i] = new[j] => i = j
  BY <1>1 DEF IsInjective
<1> DEFINE keys  == {new[i] : i \in fits}
           At(k) == CHOOSE i \in fits : new[i] = k
           Of(k) == entries[At(k)]
           place == [k \in keys |-> Of(k).frame]
           state == [k \in Key |-> IF k \in keys THEN Of(k).first ELSE r.state[k]]
           chosen == {k \in keys : Of(k).selected}
           selection == r.selection \cup chosen \cup lost
           live  == r.live \cup keys
           alloc == [r EXCEPT !.live = live, !.selection = selection, !.state = state]
<1>2. a = Put(alloc, place)
  BY <1>1, DOMAIN new = fits DEF Added
<1>3. r \in Motion /\ Agree(r) /\ Owns(r, others) /\ r.live = m.live
      /\ r.keyframes = m.keyframes /\ r.track = m.track /\ r.frame = m.frame
  BY EntryTypes, RestoreKeeps
<1>3a. r.selection = m.selection /\ \A k \in Key \ m.keyframes : r.state[k] = m.state[k]
  BY EntryTypes, RestoreWhere
<1>4. fits \subseteq DOMAIN entries /\ keys \subseteq unused /\ unused \subseteq Key
  BY DEF Fits, Creates
<1>5. \A k \in keys : At(k) \in fits /\ new[At(k)] = k
  OBVIOUS
<1>5a. \A i \in fits : new[i] \in keys /\ At(new[i]) = i
  BY <1>1a, <1>5
<1> HIDE DEF At
<1>6. \A k \in keys : Of(k).frame \in Frame /\ Of(k).first \in State
  BY <1>4, <1>5, EntryTypes
<1>6a. \A i \in fits : Of(new[i]) = entries[i]
  BY <1>5a
<1>6b. \A k \in keys : \E i \in fits : new[i] = k /\ Of(k) = entries[i]
  BY <1>5
<1> HIDE DEF Of, r, fits
<1>7. place \in [keys -> Frame] /\ state \in [Key -> State]
  BY <1>3, <1>6 DEF Motion
<1>8. selection \in SUBSET Key /\ live \in SUBSET Key
  BY <1>3, <1>4 DEF Motion
<1>s. \A k \in Key : state[k] = IF k \in keys THEN Of(k).first ELSE r.state[k]
  OBVIOUS
<1>p. \A k \in keys : place[k] = Of(k).frame
  OBVIOUS
<1> HIDE DEF place, state, selection
<1>9. alloc \in Motion /\ alloc.live = live /\ alloc.keyframes = r.keyframes
      /\ alloc.track = r.track /\ alloc.frame = r.frame /\ alloc.state = state
      /\ alloc.selection = selection
  BY <1>3, <1>7, <1>8 DEF Motion
<1> HIDE DEF alloc
<1>10. a.state = state
  <2> DEFINE p == Put(alloc, place)
  <2>1. p.state = alloc.state
    BY <1>9 DEF Put, Motion
  <2>2. QED BY <1>2, <1>9, <2>1
<1>11. \A k \in m.live \ m.keyframes : a.state[k] = m.state[k]
  <2> TAKE k \in m.live \ m.keyframes
  <2>1. k \in Key /\ k \notin keys
    BY <1>4 DEF Motion
  <2>2. QED BY <1>3a, <1>10, <1>s, <2>1
<1>12. ASSUME Distinct(entries), \A i \in Creates(entries) : entries[i].frame \notin Occupied(m)
       PROVE  /\ m.keyframes \subseteq a.keyframes
              /\ a.selection \subseteq m.selection \cup a.keyframes
              /\ \A f \in Frame :
                   /\ \A i \in Creates(entries) : entries[i].frame = f
                        => Content(a)[f] = entries[i].first
                   /\ (\A i \in Creates(entries) : entries[i].frame # f)
                        => Content(a)[f] = Content(r)[f]
  <2>1. fits = Creates(entries)
    <3>1. \A i \in Creates(entries) : m.track[entries[i].frame] = None /\ ~Repeats(entries, i)
      BY <1>12, DistinctNeverRepeats, EntryTypes DEF Occupied
    <3>2. QED BY <3>1 DEF fits, Fits
  <2>2. lost = {}
    BY <1>1, <2>1
  <2>3. Apart(keys, place)
    <3> SUFFICES ASSUME NEW j \in keys, NEW k \in keys, place[j] = place[k] PROVE j = k
      BY DEF Apart
    <3>1. PICK x \in fits : new[x] = j /\ Of(j) = entries[x]
      BY <1>6b
    <3>2. PICK y \in fits : new[y] = k /\ Of(k) = entries[y]
      BY <1>6b
    <3>3. entries[x].frame = entries[y].frame
      BY <1>p, <3>1, <3>2
    <3>4. x = y
      BY <1>4, <1>12, <3>3 DEF Distinct
    <3>5. QED BY <3>1, <3>2, <3>4
  <2>4. FreeIn(alloc, keys, place, {})
    <3> SUFFICES ASSUME NEW k \in keys PROVE alloc.track[place[k]] = None
      BY DEF FreeIn
    <3>1. PICK x \in fits : new[x] = k /\ Of(k) = entries[x]
      BY <1>6b
    <3>2. entries[x].frame \in Frame /\ entries[x].frame \notin Occupied(m)
      BY <1>4, <1>12, <2>1, EntryTypes
    <3>3. QED BY <1>3, <1>9, <1>p, <3>1, <3>2 DEF Occupied
  <2>5. keys \in SUBSET Key
    BY <1>4
  <2> DEFINE p == Put(alloc, place)
  <2>6. /\ p.selection = selection /\ p.keyframes = m.keyframes \cup keys
        /\ \A k \in keys : p.track[place[k]] = k
        /\ \A f \in Frame : (\A k \in keys : place[k] # f) => p.track[f] = m.track[f]
    <3> HIDE DEF keys
    <3>1. alloc \in Motion /\ place \in [keys -> Frame]
      BY <1>7, <1>9
    <3>2. AtPlaces(alloc, keys, place, p)
      BY <2>3, <2>4, <2>5, <3>1, PutWhere
    <3> HIDE DEF p
    <3>3. QED BY <1>3, <1>9, <3>2 DEF AtPlaces
  <2>7. p = a
    BY <1>2
  <2> HIDE DEF p
  <2>8. a.selection \subseteq m.selection \cup a.keyframes /\ m.keyframes \subseteq a.keyframes
    BY <1>3a, <2>2, <2>6, <2>7 DEF selection
  <2>9. ASSUME NEW f \in Frame, NEW i \in Creates(entries), entries[i].frame = f
        PROVE  Content(a)[f] = entries[i].first
    <3>1. new[i] \in keys /\ Of(new[i]) = entries[i] /\ new[i] \in Key
      BY <1>5a, <1>6a, <2>1, <2>5, <2>9
    <3>2. a.track[f] = new[i]
      BY <1>p, <2>6, <2>7, <2>9, <3>1
    <3>3. a.state[new[i]] = entries[i].first
      BY <1>10, <1>s, <3>1
    <3>4. new[i] # None
      BY <3>1, FrameIsNat
    <3>5. QED BY <3>2, <3>3, <3>4 DEF Content
  <2>10. ASSUME NEW f \in Frame, \A i \in Creates(entries) : entries[i].frame # f
         PROVE  Content(a)[f] = Content(r)[f]
    <3>1. \A k \in keys : place[k] # f
      <4> TAKE k \in keys
      <4>1. PICK x \in fits : Of(k) = entries[x]
        BY <1>6b
      <4>2. QED BY <1>p, <2>1, <2>10, <4>1
    <3>2. a.track[f] = r.track[f]
      BY <1>3, <2>6, <2>7, <3>1
    <3>3. CASE r.track[f] = None
      BY <3>2, <3>3 DEF Content
    <3>4. CASE r.track[f] # None
      <4>1. r.track[f] \in m.keyframes /\ r.track[f] \in Key
        BY <1>3, <3>4, ContentFacts
      <4>2. r.track[f] \notin keys
        BY <1>3, <1>4, <4>1 DEF Owns
      <4>3. a.state[r.track[f]] = r.state[r.track[f]]
        BY <1>10, <1>s, <4>1, <4>2
      <4>4. QED BY <3>2, <4>3 DEF Content
    <3>5. QED BY <3>3, <3>4
  <2>11. QED BY <2>8, <2>9, <2>10
<1>13. QED BY <1>11, <1>12 DEF r

-----------------------------------------------------------------------------
\* What each command does to the track, and when it can be undone.

\* What a command does to a track b.
Keyed(b, e) ==
  IF e.updated THEN (IF b[e.frame] = None THEN b ELSE [b EXCEPT ![e.frame] = e.first])
  ELSE [g \in Frame |-> IF g = e.frame THEN e.first
                        ELSE IF g = e.over THEN [b[g] EXCEPT !.curve = e.curve.first] ELSE b[g]]
Unkeyed(b, entries) ==
  [g \in Frame |-> IF \E i \in Creates(entries) : entries[i].frame = g THEN None
                   ELSE IF \E i \in Updates(entries) : entries[i].frame = g THEN Default ELSE b[g]]
Inserted(b, f) == [g \in Frame |-> IF g < f THEN b[g] ELSE IF g = f THEN None ELSE b[g - 1]]
Removed(b, f) == [g \in Frame |-> IF g < f THEN b[g] ELSE IF g < MaxFrame THEN b[g + 1] ELSE None]
Effect(c) ==
  CASE c.kind = "add"         -> Keyed(c.before, c.entries[1])
    [] c.kind = "remove"      -> Unkeyed(c.before, c.entries)
    [] c.kind = "insertFrame" -> Inserted(c.before, c.frame)
    [] c.kind = "removeFrame" -> Removed(c.before, c.frame)

\* A command remembers what it takes away.
ReversibleEntry(b, e) ==
  IF e.updated THEN e.over = None /\ (b[e.frame] # None => e.second = b[e.frame])
  ELSE /\ b[e.frame] = None
       /\ e.over # None => /\ e.over # e.frame /\ b[e.over] # None
                           /\ b[e.over].curve = e.curve.second
ReversibleEntries(b, entries) ==
  /\ Distinct(entries)
  /\ \A i \in DOMAIN entries : entries[i].first = b[entries[i].frame] /\ entries[i].second = Default
Reversible(c) ==
  /\ c.kind = "add" => ReversibleEntry(c.before, c.entries[1])
  /\ c.kind = "remove" => ReversibleEntries(c.before, c.entries)
  /\ c.kind = "insertFrame" => c.frame # 0 /\ c.before[MaxFrame] = None
  /\ c.kind = "removeFrame" => c.frame # 0

\* A command that is done holds the keyframe that it took out of the motion, as it was.
HoldsRemoved(m, held, c) ==
  IF c.kind = "removeFrame" /\ c.before[c.frame] # None
  THEN \E k \in Key : held = {k} /\ m.state[k] = c.before[c.frame]
  ELSE held = {}

Follows(m, held) == m.selection \subseteq m.keyframes \cup held

\* The one entry of a command that adds a keyframe.
LEMMA OneEntry ==
  ASSUME NEW entries \in Seq(Entry), Len(entries) = 1
  PROVE  /\ Distinct(entries) /\ entries[1] \in Entry /\ DOMAIN entries = {1}
         /\ entries[1].updated => Creates(entries) = {} /\ Updates(entries) = {1}
         /\ ~entries[1].updated => Creates(entries) = {1} /\ Updates(entries) = {}
<1>1. DOMAIN entries = {1} /\ entries[1] \in Entry
  BY EntryTypes
<1>2. QED BY <1>1 DEF Distinct, Creates, Updates

LEMMA AddGives ==
  ASSUME NEW m \in Motion, NEW entries \in Seq(Entry), NEW others, Len(entries) = 1,
         Agree(m), Owns(m, others), ReversibleEntry(Content(m), entries[1]),
         NEW a \in Add(m, entries)
  PROVE  LET w == Override(a, entries[1], entries[1].curve.first)
         IN  /\ Content(w) = Keyed(Content(m), entries[1])
             /\ Follows(m, {}) => Follows(w, {})
<1> DEFINE e == entries[1]
           b == Content(m)
           r == Restore(m, entries, FirstOf(entries))
           w == Override(a, e, e.curve.first)
<1>1. /\ e \in Entry /\ e.frame \in Frame /\ e.over \in Frame \cup {None} /\ e.first \in State
      /\ e.curve.first \in Nat /\ DOMAIN entries = {1} /\ Distinct(entries)
  BY OneEntry DEF Entry
<1>2. a \in Motion /\ Agree(a) /\ Owns(a, others)
  BY AddKeeps
<1>3. FirstOf(entries)[1] = e.first /\ FirstOf(entries) \in [DOMAIN entries -> State]
  BY <1>1, EntryTypes DEF FirstOf
<1>4. /\ \A f \in Frame : f # e.over => Content(w)[f] = Content(a)[f]
      /\ e.over \in Frame => Content(w)[e.over] =
           IF Content(a)[e.over] = None THEN None
           ELSE [Content(a)[e.over] EXCEPT !.curve = e.curve.first]
      /\ w.selection = a.selection /\ w.keyframes = a.keyframes
  BY <1>1, <1>2, OverrideWhere
<1>5. \A i \in Creates(entries) : entries[i].frame \notin Occupied(m)
  BY <1>1, OneEntry, ContentFacts DEF ReversibleEntry
<1>6. /\ m.keyframes \subseteq a.keyframes /\ a.selection \subseteq m.selection \cup a.keyframes
      /\ \A f \in Frame :
           /\ \A i \in Creates(entries) : entries[i].frame = f => Content(a)[f] = entries[i].first
           /\ (\A i \in Creates(entries) : entries[i].frame # f) => Content(a)[f] = Content(r)[f]
  BY <1>1, <1>5, AddWhere
<1>7. \A f \in Frame :
        /\ \A u \in Updates(entries) : entries[u].frame = f /\ f \in Occupied(m)
             => Content(r)[f] = FirstOf(entries)[u]
        /\ (\A u \in Updates(entries) : entries[u].frame # f) => Content(r)[f] = b[f]
        /\ f \notin Occupied(m) => Content(r)[f] = None
  BY <1>1, <1>3, RestoreWhere DEF Distinct
<1>8. b \in [Frame -> State \cup {None}] /\ \A f \in Frame : f \in Occupied(m) <=> b[f] # None
  BY ContentType, ContentFacts
<1>9. DOMAIN Content(w) = Frame
  BY DEF Content
<1> HIDE DEF w, r, b
<1>10. CASE e.updated
  <2>1. Creates(entries) = {} /\ Updates(entries) = {1} /\ e.over \notin Frame
    BY <1>10, OneEntry, FrameIsNat DEF ReversibleEntry
  <2>2. \A f \in Frame : Content(w)[f] = Content(r)[f]
    BY <1>4, <1>6, <2>1
  <2>3. Keyed(b, e) = IF b[e.frame] = None THEN b ELSE [b EXCEPT ![e.frame] = e.first]
    BY <1>10 DEF Keyed
  <2>4. \A f \in Frame : Content(r)[f] = IF f = e.frame /\ b[f] # None THEN e.first ELSE b[f]
    BY <1>3, <1>7, <1>8, <2>1
  <2> HIDE DEF e
  <2>5. \A f \in Frame : Content(w)[f] = Keyed(b, e)[f]
    BY <1>1, <1>8, <2>2, <2>3, <2>4
  <2>6. DOMAIN Keyed(b, e) = Frame
    BY <1>1, <1>8, <2>3
  <2>7. Keyed(b, e) = [f \in Frame |-> Keyed(b, e)[f]] /\ Content(w) = [f \in Frame |-> Content(w)[f]]
    BY <1>8, <2>3 DEF Content
  <2>8. QED BY <1>4, <1>6, <2>5, <2>7 DEF w, b, e, Follows
<1>11. CASE ~e.updated
  <2>1. Creates(entries) = {1} /\ Updates(entries) = {}
    BY <1>11, OneEntry
  <2>2. \A f \in Frame : Content(a)[f] = IF f = e.frame THEN e.first ELSE b[f]
    BY <1>6, <1>7, <2>1
  <2>3. Keyed(b, e) = [g \in Frame |-> IF g = e.frame THEN e.first
                         ELSE IF g = e.over THEN [b[g] EXCEPT !.curve = e.curve.first] ELSE b[g]]
    BY <1>11 DEF Keyed
  <2>4. e.over \in Frame => e.over # e.frame /\ b[e.over] # None
    BY <1>11, FrameIsNat DEF ReversibleEntry, b
  <2> HIDE DEF e
  <2>5. \A f \in Frame : Content(w)[f] = Keyed(b, e)[f]
    BY <1>4, <2>2, <2>3, <2>4
  <2>6. Content(w) = [f \in Frame |-> Content(w)[f]] /\ Keyed(b, e) = [f \in Frame |-> Keyed(b, e)[f]]
    BY <2>3 DEF Content
  <2>7. QED BY <1>4, <1>6, <2>5, <2>6 DEF w, b, e, Follows
<1>12. QED BY <1>10, <1>11

-----------------------------------------------------------------------------
\* Undoing what added and what removed keyframes.

\* Undoing the adding of a keyframe.
LEMMA AddTakenBack ==
  ASSUME NEW m \in Motion, NEW entries \in Seq(Entry), NEW others, Len(entries) = 1,
         Agree(m), Owns(m, others),
         NEW b \in [Frame -> State \cup {None}], ReversibleEntry(b, entries[1]),
         Content(m) = Keyed(b, entries[1])
  PROVE  LET w == Override(TakeOut(m, entries), entries[1], entries[1].curve.second)
         IN  /\ Content(w) = b
             /\ Follows(m, {}) => Follows(w, {})
<1> DEFINE e == entries[1]
           r == Restore(m, entries, SecondOf(entries))
           a == TakeOut(m, entries)
           w == Override(a, e, e.curve.second)
<1>1. /\ e \in Entry /\ e.frame \in Frame /\ e.over \in Frame \cup {None} /\ e.first \in State
      /\ e.curve.second \in Nat /\ DOMAIN entries = {1} /\ Distinct(entries)
  BY OneEntry DEF Entry
<1>2. a \in Motion /\ Agree(a) /\ Owns(a, others)
  BY TakeOutKeeps
<1>3. SecondOf(entries)[1] = e.second /\ SecondOf(entries) \in [DOMAIN entries -> State]
  BY <1>1, EntryTypes DEF SecondOf
<1> HIDE DEF a
<1>4. /\ \A f \in Frame : f # e.over => Content(w)[f] = Content(a)[f]
      /\ e.over \in Frame => Content(w)[e.over] =
           IF Content(a)[e.over] = None THEN None
           ELSE [Content(a)[e.over] EXCEPT !.curve = e.curve.second]
      /\ w.selection = a.selection /\ w.keyframes = a.keyframes
  BY <1>1, <1>2, OverrideWhere
<1>n. None \notin State /\ None \notin Frame /\ \A f \in Frame : f \in Occupied(m) <=> Content(m)[f] # None
  BY ContentFacts, FrameIsNat
<1>5. \A i \in Creates(entries) : entries[i].frame \in Occupied(m)
  <2>1. CASE e.updated
    BY <2>1, OneEntry
  <2>2. CASE ~e.updated
    <3>1. Content(m)[e.frame] = e.first
      BY <1>1, <2>2 DEF Keyed
    <3>2. QED BY <1>1, <1>n, <2>2, <3>1, OneEntry
  <2>3. QED BY <2>1, <2>2
<1>6. /\ m.selection \subseteq m.keyframes => a.selection \subseteq a.keyframes
      /\ \A f \in Frame :
           /\ (\E i \in Creates(entries) : entries[i].frame = f) => Content(a)[f] = None
           /\ (\A i \in Creates(entries) : entries[i].frame # f) => Content(a)[f] = Content(r)[f]
  BY <1>1, <1>5, TakeOutWhere DEF a
<1>7. \A f \in Frame :
        /\ \A u \in Updates(entries) : entries[u].frame = f /\ f \in Occupied(m)
             => Content(r)[f] = SecondOf(entries)[u]
        /\ (\A u \in Updates(entries) : entries[u].frame # f) => Content(r)[f] = Content(m)[f]
        /\ f \notin Occupied(m) => Content(r)[f] = None
  BY <1>1, <1>3, RestoreWhere DEF Distinct
<1>9. Content(w) = [f \in Frame |-> Content(w)[f]] /\ b = [f \in Frame |-> b[f]]
  BY DEF Content
<1> HIDE DEF w, r
<1>s. Follows(m, {}) => Follows(w, {})
  BY <1>4, <1>6 DEF Follows
<1>10. CASE e.updated
  <2>1. Creates(entries) = {} /\ Updates(entries) = {1} /\ e.over \notin Frame
        /\ (b[e.frame] # None => e.second = b[e.frame])
    BY <1>n, <1>10, OneEntry DEF ReversibleEntry
  <2>2. \A f \in Frame : Content(w)[f] = Content(r)[f]
    BY <1>4, <1>6, <2>1
  <2>3. Content(m) = IF b[e.frame] = None THEN b ELSE [b EXCEPT ![e.frame] = e.first]
    BY <1>10 DEF Keyed
  <2> HIDE DEF e
  <2>4. Content(m)[e.frame] = None <=> b[e.frame] = None
    BY <1>1, <1>n, <2>3
  <2>5. \A f \in Frame : f # e.frame => Content(m)[f] = b[f]
    BY <1>1, <2>3
  <2>6. \A f \in Frame : Content(r)[f] = b[f]
    BY <1>1, <1>3, <1>7, <1>n, <2>1, <2>4, <2>5 DEF e
  <2>7. \A f \in Frame : Content(w)[f] = b[f]
    BY <2>2, <2>6
  <2>8. QED BY <1>9, <1>s, <2>7 DEF w, e, a
<1>11. CASE ~e.updated
  <2>1. Creates(entries) = {1} /\ Updates(entries) = {}
    BY <1>11, OneEntry
  <2>2. \A f \in Frame : Content(m)[f] = IF f = e.frame THEN e.first
                         ELSE IF f = e.over THEN [b[f] EXCEPT !.curve = e.curve.first] ELSE b[f]
    BY <1>11 DEF Keyed
  <2>3. \A f \in Frame : Content(a)[f] = IF f = e.frame THEN None ELSE Content(m)[f]
    BY <1>6, <1>7, <2>1
  <2>4. b[e.frame] = None
        /\ (e.over \in Frame => e.over # e.frame /\ b[e.over] # None /\ b[e.over].curve = e.curve.second)
    BY <1>11, <1>n DEF ReversibleEntry
  <2> DEFINE over == e.over
             first == e.curve.first
             second == e.curve.second
  <2>5. ASSUME over \in Frame PROVE Content(w)[over] = b[over]
    <3>1. b[over] \in State
      BY <2>4, <2>5
    <3>2. Content(a)[over] = [b[over] EXCEPT !.curve = first]
      BY <2>2, <2>3, <2>4, <2>5
    <3>3. Content(a)[over] # None
      <4>1. first \in Nat
        BY <1>1 DEF Entry
      <4> HIDE DEF first, over
      <4>2. [b[over] EXCEPT !.curve = first] \in State
        BY <3>1, <4>1 DEF State
      <4>3. QED BY <1>n, <3>2, <4>2
    <3>4. Content(w)[over] = [[b[over] EXCEPT !.curve = first] EXCEPT !.curve = second]
      BY <1>4, <2>5, <3>2, <3>3
    <3>5. b[over].curve = second
      BY <2>4, <2>5
    <3> HIDE DEF over, first, second
    <3>6. QED BY <3>1, <3>4, <3>5 DEF State
  <2>6. ASSUME NEW f \in Frame, f # over PROVE Content(w)[f] = b[f]
    BY <1>4, <2>2, <2>3, <2>4, <2>6
  <2>7. \A f \in Frame : Content(w)[f] = b[f]
    BY <2>5, <2>6
  <2>8. QED BY <1>9, <1>s, <2>7 DEF w, a
<1>12. QED BY <1>10, <1>11

\* Removing keyframes, and putting them back.
LEMMA RemoveGives ==
  ASSUME NEW m \in Motion, NEW entries \in Seq(Entry), NEW others,
         Agree(m), Owns(m, others), ReversibleEntries(Content(m), entries)
  PROVE  LET w == TakeOut(m, entries)
         IN  /\ Content(w) = Unkeyed(Content(m), entries)
             /\ Follows(m, {}) => Follows(w, {})
<1> DEFINE b == Content(m)
           r == Restore(m, entries, SecondOf(entries))
           w == TakeOut(m, entries)
<1>1. Distinct(entries) /\ Creates(entries) \subseteq DOMAIN entries /\ Updates(entries) \subseteq DOMAIN entries
      /\ \A i \in DOMAIN entries : /\ entries[i].frame \in Frame /\ entries[i].frame \in Occupied(m)
                                   /\ SecondOf(entries)[i] = Default
  BY EntryTypes, ContentFacts DEF ReversibleEntries, SecondOf, Creates, Updates
<1>2. /\ m.selection \subseteq m.keyframes => w.selection \subseteq w.keyframes
      /\ \A f \in Frame :
           /\ (\E i \in Creates(entries) : entries[i].frame = f) => Content(w)[f] = None
           /\ (\A i \in Creates(entries) : entries[i].frame # f) => Content(w)[f] = Content(r)[f]
  BY <1>1, TakeOutWhere
<1>3. \A f \in Frame :
        /\ \A u \in Updates(entries) : entries[u].frame = f /\ f \in Occupied(m)
             => Content(r)[f] = SecondOf(entries)[u]
        /\ (\A u \in Updates(entries) : entries[u].frame # f) => Content(r)[f] = b[f]
  BY <1>1, EntryTypes, RestoreWhere DEF Distinct
<1>4. Content(w) = [f \in Frame |-> Content(w)[f]]
  BY DEF Content
<1> HIDE DEF w, r, b
<1>5. \A f \in Frame : Content(w)[f] = Unkeyed(b, entries)[f]
  BY <1>1, <1>2, <1>3 DEF Unkeyed
<1>6. Unkeyed(b, entries) = [f \in Frame |-> Unkeyed(b, entries)[f]]
  BY DEF Unkeyed
<1>7. Content(w) = Unkeyed(b, entries)
  BY <1>4, <1>5, <1>6
<1>8. QED BY <1>2, <1>7 DEF w, b, Follows

LEMMA RemoveTakenBack ==
  ASSUME NEW m \in Motion, NEW entries \in Seq(Entry), NEW others,
         Agree(m), Owns(m, others),
         NEW b \in [Frame -> State \cup {None}], ReversibleEntries(b, entries),
         Content(m) = Unkeyed(b, entries), NEW a \in Add(m, entries)
  PROVE  Content(a) = b /\ (Follows(m, {}) => Follows(a, {}))
<1> DEFINE r == Restore(m, entries, FirstOf(entries))
<1>1. /\ Distinct(entries) /\ Creates(entries) \subseteq DOMAIN entries
      /\ Updates(entries) \subseteq DOMAIN entries
      /\ \A i \in DOMAIN entries : /\ entries[i].frame \in Frame
                                   /\ FirstOf(entries)[i] = b[entries[i].frame]
                                   /\ entries[i].first = b[entries[i].frame]
  BY EntryTypes DEF ReversibleEntries, FirstOf, Creates, Updates
<1>2. Default \in State /\ None \notin State
      /\ \A f \in Frame : f \in Occupied(m) <=> Content(m)[f] # None
  BY ContentFacts, DefaultType
<1>3. \A i \in Creates(entries) : entries[i].frame \notin Occupied(m)
  BY <1>1, <1>2 DEF Unkeyed
<1>4. \A i \in Updates(entries) : entries[i].frame \in Occupied(m)
  <2> TAKE u \in Updates(entries)
  <2>1. ~ \E i \in Creates(entries) : entries[i].frame = entries[u].frame
    BY <1>1, DistinctNeverRepeats
  <2>2. Content(m)[entries[u].frame] = Default
    BY <1>1, <2>1 DEF Unkeyed
  <2>3. QED BY <1>1, <1>2, <2>2
<1>5. /\ m.keyframes \subseteq a.keyframes /\ a.selection \subseteq m.selection \cup a.keyframes
      /\ \A f \in Frame :
           /\ \A i \in Creates(entries) : entries[i].frame = f => Content(a)[f] = entries[i].first
           /\ (\A i \in Creates(entries) : entries[i].frame # f) => Content(a)[f] = Content(r)[f]
  BY <1>1, <1>3, AddWhere
<1>6. \A f \in Frame :
        /\ \A u \in Updates(entries) : entries[u].frame = f /\ f \in Occupied(m)
             => Content(r)[f] = FirstOf(entries)[u]
        /\ (\A u \in Updates(entries) : entries[u].frame # f) => Content(r)[f] = Content(m)[f]
  <2>1. FirstOf(entries) \in [DOMAIN entries -> State] /\ \A i, j \in Updates(entries) : i = j
    BY <1>1, EntryTypes DEF Distinct
  <2>2. QED BY <2>1, RestoreWhere
<1> HIDE DEF r
<1>7. ASSUME NEW f \in Frame PROVE Content(a)[f] = b[f]
  <2>1. CASE \E i \in Creates(entries) : entries[i].frame = f
    BY <1>1, <1>5, <2>1
  <2>2. CASE /\ ~ \E i \in Creates(entries) : entries[i].frame = f
             /\ \E i \in Updates(entries) : entries[i].frame = f
    BY <1>1, <1>4, <1>5, <1>6, <2>2
  <2>3. CASE /\ ~ \E i \in Creates(entries) : entries[i].frame = f
             /\ ~ \E i \in Updates(entries) : entries[i].frame = f
    <3>1. Content(m)[f] = b[f]
      BY <2>3 DEF Unkeyed
    <3>2. QED BY <1>5, <1>6, <2>3, <3>1
  <2>4. QED BY <2>1, <2>2, <2>3
<1>8. Content(a) = [f \in Frame |-> Content(a)[f]] /\ b = [f \in Frame |-> b[f]]
  BY DEF Content
<1>9. Content(a) = b
  BY <1>7, <1>8
<1>10. QED BY <1>5, <1>9 DEF Follows

-----------------------------------------------------------------------------
\* Inserting and removing a frame of the timeline, and every command.

\* What inserting and removing a frame does to the track.
PutsFrameIn(m, c, r) ==
  /\ r.held = {} /\ Content(m)[MaxFrame] = None
  /\ Follows(m, c.held) => Follows(r.motion, {})
  /\ c.held = {} => Content(r.motion) = Inserted(Content(m), c.frame)
  /\ \A k \in c.held :
       Content(r.motion) = [Inserted(Content(m), c.frame) EXCEPT ![c.frame] = m.state[k]]
HoldsFrame(m, c, r) ==
  /\ Follows(m, {}) => Follows(r.motion, r.held)
  /\ Content(r.motion) = Removed(Content(m), c.frame)
  /\ Content(m)[c.frame] = None => r.held = {}
  /\ Content(m)[c.frame] # None
       => \E k \in Key : r.held = {k} /\ r.motion.state[k] = Content(m)[c.frame]

LEMMA InsertGives ==
  ASSUME NEW m \in Motion, NEW c, c.frame \in Frame \ {0}, c.held \in SUBSET Key, Room(m, c),
         \A j, k \in c.held : j = k,
         NEW others, others \cap c.held = {}, Agree(m), Owns(m, others \cup c.held)
  PROVE  PutsFrameIn(m, c, ShiftBackward(m, c))
<1> DEFINE r == ShiftBackward(m, c)
<1>1. /\ r.held = {} /\ r.motion.state = m.state /\ r.motion.selection = m.selection
      /\ r.motion.keyframes = m.keyframes \cup c.held
      /\ \A k \in c.held : r.motion.track[c.frame] = k
      /\ c.held = {} => r.motion.track[c.frame] = None
      /\ \A g \in Frame : g < c.frame => r.motion.track[g] = m.track[g]
      /\ \A g \in Frame : g > c.frame => r.motion.track[g] = m.track[g - 1]
      /\ m.track[MaxFrame] = None
  BY ShiftBackwardWhere
<1>2. Frame = 0 .. MaxFrame /\ MaxFrame \in Nat /\ None \notin Key /\ c.frame \in 1 .. MaxFrame
  BY FrameIsNat
<1> HIDE DEF r
<1>3. \A g \in Frame : g < c.frame => Content(r.motion)[g] = Content(m)[g]
  BY <1>1 DEF Content
<1>4. \A g \in Frame : g > c.frame => g - 1 \in Frame /\ Content(r.motion)[g] = Content(m)[g - 1]
  BY <1>1, <1>2 DEF Content
<1>5. \A k \in c.held : Content(r.motion)[c.frame] = m.state[k]
  BY <1>1, <1>2 DEF Content
<1>6. c.held = {} => Content(r.motion)[c.frame] = None
  BY <1>1, <1>2 DEF Content
<1>7. Content(m)[MaxFrame] = None
  BY <1>1, <1>2 DEF Content
<1>8. DOMAIN Content(r.motion) = Frame /\ Content(r.motion) = [g \in Frame |-> Content(r.motion)[g]]
  BY DEF Content
<1> DEFINE i == Inserted(Content(m), c.frame)
<1>9. i = [g \in Frame |-> i[g]]
      /\ \A g \in Frame : i[g] = IF g < c.frame THEN Content(m)[g]
                                 ELSE IF g = c.frame THEN None ELSE Content(m)[g - 1]
  BY DEF Inserted
<1> HIDE DEF i
<1>10. ASSUME c.held = {} PROVE Content(r.motion) = i
  <2>1. \A g \in Frame : Content(r.motion)[g] = i[g]
    BY <1>2, <1>3, <1>4, <1>6, <1>9, <1>10
  <2>2. QED BY <1>8, <1>9, <2>1
<1>11. ASSUME NEW k \in c.held PROVE Content(r.motion) = [i EXCEPT ![c.frame] = m.state[k]]
  <2> DEFINE j == [i EXCEPT ![c.frame] = m.state[k]]
  <2>1. j = [g \in Frame |-> j[g]] /\ \A g \in Frame : j[g] = IF g = c.frame THEN m.state[k] ELSE i[g]
    BY <1>9
  <2> HIDE DEF j
  <2>2. \A g \in Frame : Content(r.motion)[g] = j[g]
    BY <1>2, <1>3, <1>4, <1>5, <1>9, <2>1
  <2>3. Content(r.motion) = j
    BY <1>8, <2>1, <2>2
  <2>4. QED BY <2>3 DEF j
<1>12. QED BY <1>1, <1>7, <1>10, <1>11 DEF r, i, Follows, PutsFrameIn

LEMMA RemoveFrameGives ==
  ASSUME NEW m \in Motion, NEW c, c.frame \in Frame, c.held = {},
         NEW others, Agree(m), Owns(m, others)
  PROVE  HoldsFrame(m, c, ShiftForward(m, c))
<1> DEFINE r == ShiftForward(m, c)
<1>1. /\ r.held = c.held \cup (IF m.track[c.frame] = None THEN {} ELSE {m.track[c.frame]})
      /\ r.motion.state = m.state /\ r.motion.selection = m.selection
      /\ m.keyframes \subseteq r.motion.keyframes \cup r.held
      /\ \A g \in Frame : g < c.frame => r.motion.track[g] = m.track[g]
      /\ \A g \in Frame : g >= c.frame =>
           r.motion.track[g] = IF g < MaxFrame THEN m.track[g + 1] ELSE None
  <2>1. TakesFrameOut(m, c, r)
    <3>1. Owns(m, others \cup c.held) /\ others \cap c.held = {} /\ c.held \in SUBSET Key
      OBVIOUS
    <3>2. QED BY <3>1, ShiftForwardWhere
  <2>2. QED BY <2>1 DEF TakesFrameOut
<1>2. Frame = 0 .. MaxFrame /\ MaxFrame \in Nat /\ None \notin Key /\ c.frame \in 0 .. MaxFrame
  BY FrameIsNat
<1> HIDE DEF r
<1>3. \A g \in Frame : g < c.frame => Content(r.motion)[g] = Content(m)[g]
  BY <1>1 DEF Content
<1>4. \A g \in Frame : g >= c.frame /\ g < MaxFrame
        => g + 1 \in Frame /\ Content(r.motion)[g] = Content(m)[g + 1]
  BY <1>1, <1>2 DEF Content
<1>5. \A g \in Frame : g >= c.frame /\ ~(g < MaxFrame) => Content(r.motion)[g] = None
  BY <1>1, <1>2 DEF Content
<1>6. /\ m.track[c.frame] = None <=> Content(m)[c.frame] = None
      /\ m.track[c.frame] # None => /\ m.track[c.frame] \in Key
                                    /\ Content(m)[c.frame] = m.state[m.track[c.frame]]
  BY ContentFacts
<1>8. Content(r.motion) = [g \in Frame |-> Content(r.motion)[g]]
  BY DEF Content
<1> DEFINE i == Removed(Content(m), c.frame)
<1>9. i = [g \in Frame |-> i[g]]
      /\ \A g \in Frame : i[g] = IF g < c.frame THEN Content(m)[g]
                                 ELSE IF g < MaxFrame THEN Content(m)[g + 1] ELSE None
  BY DEF Removed
<1> HIDE DEF i
<1>10. \A g \in Frame : Content(r.motion)[g] = i[g]
  BY <1>2, <1>3, <1>4, <1>5, <1>9
<1>11. Content(r.motion) = i
  BY <1>8, <1>9, <1>10
<1>12. Follows(m, {}) => Follows(r.motion, r.held)
  BY <1>1 DEF Follows
<1>13. QED BY <1>1, <1>6, <1>11, <1>12 DEF r, i, HoldsFrame

\* Redoing a reversible command has its effect.
LEMMA RedoneGives ==
  ASSUME NEW m \in Motion, NEW c, WellFormed(c), Reversible(c), c.held = {}, NEW others,
         Agree(m), Owns(m, others), Content(m) = c.before, NEW r \in Redone(m, c)
  PROVE  /\ Content(r.motion) = Effect(c) /\ HoldsRemoved(r.motion, r.held, c)
         /\ Follows(m, {}) => Follows(r.motion, r.held)
<1> USE CommandTypes
<1>0. Owns(m, others \cup c.held) /\ others \cap c.held = {} /\ \A j, k \in c.held : j = k
  OBVIOUS
<1>1. CASE c.kind = "add"
  <2>1. PICK a \in Add(m, c.entries) :
          r = Alone(Override(a, c.entries[1], c.entries[1].curve.first))
    BY <1>1 DEF Redone
  <2> DEFINE w == Override(a, c.entries[1], c.entries[1].curve.first)
  <2>2. Content(w) = Keyed(Content(m), c.entries[1]) /\ (Follows(m, {}) => Follows(w, {}))
    <3>1. Len(c.entries) = 1 /\ ReversibleEntry(Content(m), c.entries[1])
      BY <1>1 DEF WellFormed, Reversible
    <3>2. QED BY <3>1, AddGives
  <2>3. r.motion = w /\ r.held = {}
    BY <2>1 DEF Alone
  <2> HIDE DEF w
  <2>4. QED BY <1>1, <2>2, <2>3 DEF Effect, HoldsRemoved
<1>2. CASE c.kind = "remove"
  <2>1. r.motion = TakeOut(m, c.entries) /\ r.held = {}
    BY <1>2 DEF Redone, Alone
  <2>2. ReversibleEntries(Content(m), c.entries)
    BY <1>2 DEF Reversible
  <2>3. QED BY <1>2, <2>1, <2>2, RemoveGives DEF Effect, HoldsRemoved
<1>3. CASE c.kind = "insertFrame"
  <2>1. Room(m, c) /\ r = ShiftBackward(m, c)
    BY <1>3 DEF Redone
  <2>2. c.frame \in Frame \ {0}
    BY <1>3 DEF Reversible
  <2>3. PutsFrameIn(m, c, r)
    BY <1>0, <2>1, <2>2, InsertGives
  <2>4. QED BY <1>3, <2>3 DEF PutsFrameIn, Effect, HoldsRemoved
<1>4. CASE c.kind = "removeFrame"
  <2>1. r = ShiftForward(m, c)
    BY <1>4 DEF Redone
  <2>2. HoldsFrame(m, c, r)
    BY <2>1, RemoveFrameGives
  <2>3. QED BY <1>4, <2>2 DEF HoldsFrame, Effect, HoldsRemoved
<1>5. QED BY <1>1, <1>2, <1>3, <1>4 DEF Kind

\* Undoing it gives back the track that it met, and the keyframe that it held.
LEMMA UndoneGives ==
  ASSUME NEW m \in Motion, NEW c, WellFormed(c), Reversible(c), NEW others, others \cap c.held = {},
         Agree(m), Owns(m, others \cup c.held), HoldsRemoved(m, c.held, c), Content(m) = Effect(c),
         NEW r \in Undone(m, c)
  PROVE  /\ Content(r.motion) = c.before /\ r.held = {}
         /\ Follows(m, c.held) => Follows(r.motion, {})
<1> USE CommandTypes
<1>0. c.before \in [Frame -> State \cup {None}]
  BY DEF WellFormed, Command
<1>1. CASE c.kind = "add"
  <2>1. Len(c.entries) = 1 /\ ReversibleEntry(c.before, c.entries[1]) /\ c.held = {}
        /\ Content(m) = Keyed(c.before, c.entries[1]) /\ Owns(m, others)
    BY <1>1 DEF WellFormed, Reversible, Effect
  <2> DEFINE w == Override(TakeOut(m, c.entries), c.entries[1], c.entries[1].curve.second)
  <2>2. r.motion = w /\ r.held = {}
    BY <1>1 DEF Undone, Alone
  <2>3. Content(w) = c.before /\ (Follows(m, {}) => Follows(w, {}))
    BY <1>0, <2>1, AddTakenBack
  <2>4. QED BY <2>1, <2>2, <2>3
<1>2. CASE c.kind = "remove"
  <2>1. ReversibleEntries(c.before, c.entries) /\ c.held = {} /\ Owns(m, others)
        /\ Content(m) = Unkeyed(c.before, c.entries)
    BY <1>2 DEF WellFormed, Reversible, Effect
  <2>2. r.motion \in Add(m, c.entries) /\ r.held = {}
    BY <1>2 DEF Undone, Alone
  <2>3. QED BY <1>0, <2>1, <2>2, RemoveTakenBack
<1>3. CASE c.kind = "insertFrame"
  <2> DEFINE b == c.before
             f == c.frame
  <2>1. r = ShiftForward(m, c) /\ c.held = {}
        /\ Content(m) = Inserted(b, f) /\ f \in Frame \ {0} /\ b[MaxFrame] = None
    BY <1>3 DEF Undone, Reversible, HoldsRemoved, Effect
  <2>2. HoldsFrame(m, c, r)
    <3>1. Owns(m, others)
      BY <2>1
    <3>2. QED BY <2>1, <3>1, RemoveFrameGives
  <2>3. Frame = 0 .. MaxFrame /\ MaxFrame \in Nat
    BY FrameIsNat
  <2> HIDE DEF b, f
  <2>4. Content(m)[f] = None
    BY <2>1, <2>3 DEF Inserted
  <2>5. \A g \in Frame : Removed(Inserted(b, f), f)[g] = b[g]
    <3> TAKE g \in Frame
    <3>1. CASE g < f
      BY <2>1, <2>3, <3>1 DEF Removed, Inserted
    <3>2. CASE g >= f /\ g < MaxFrame
      <4>1. g + 1 \in Frame /\ ~(g + 1 < f) /\ g + 1 # f /\ (g + 1) - 1 = g /\ ~(g < f)
        BY <2>1, <2>3, <3>2
      <4>2. QED BY <2>1, <3>2, <4>1 DEF Removed, Inserted
    <3>3. CASE g >= f /\ ~(g < MaxFrame)
      <4>1. g = MaxFrame /\ ~(g < f)
        BY <2>1, <2>3, <3>3
      <4>2. QED BY <2>1, <3>3, <4>1 DEF Removed
    <3>4. QED BY <2>1, <2>3, <3>1, <3>2, <3>3
  <2>6. Removed(Inserted(b, f), f) = [g \in Frame |-> Removed(Inserted(b, f), f)[g]]
    BY DEF Removed
  <2>7. b = [g \in Frame |-> b[g]]
    BY <1>0 DEF b
  <2>8. Removed(Inserted(b, f), f) = b
    BY <2>5, <2>6, <2>7
  <2>9. QED BY <2>1, <2>2, <2>4, <2>8 DEF b, f, HoldsFrame
<1>4. CASE c.kind = "removeFrame"
  <2> DEFINE b == c.before
             f == c.frame
  <2>1. r = ShiftBackward(m, c) /\ Room(m, c)
        /\ Content(m) = Removed(b, f) /\ f \in Frame \ {0}
    BY <1>4 DEF Undone, Reversible, Effect
  <2>2. /\ b[f] = None => c.held = {}
        /\ b[f] # None => \E k \in Key : c.held = {k} /\ m.state[k] = b[f]
    BY <1>4 DEF HoldsRemoved
  <2>3. c.held \in SUBSET Key /\ \A j, k \in c.held : j = k
    BY <2>2
  <2>4. PutsFrameIn(m, c, r)
    BY <2>1, <2>3, InsertGives
  <2>5. Frame = 0 .. MaxFrame /\ MaxFrame \in Nat
    BY FrameIsNat
  <2> DEFINE i == Inserted(Removed(b, f), f)
  <2>6. i = [g \in Frame |-> i[g]] /\ b = [g \in Frame |-> b[g]]
    BY <1>0 DEF Inserted
  <2>a. Content(r.motion) = IF b[f] = None THEN i ELSE [i EXCEPT ![f] = b[f]]
    BY <2>1, <2>2, <2>4 DEF PutsFrameIn
  <2> HIDE DEF b, f
  <2>7. \A g \in Frame : g # f => i[g] = b[g]
    <3> TAKE g \in Frame
    <3>1. CASE g < f
      BY <2>1, <2>5, <3>1 DEF Removed, Inserted
    <3>2. CASE g > f
      <4>1. g - 1 \in Frame /\ ~(g - 1 < f) /\ g - 1 < MaxFrame /\ (g - 1) + 1 = g /\ ~(g < f) /\ g # f
        BY <2>1, <2>5, <3>2
      <4>2. QED BY <2>1, <4>1 DEF Removed, Inserted
    <3>3. QED BY <2>1, <2>5, <3>1, <3>2
  <2>8. i[f] = None
    BY <2>1, <2>5 DEF Inserted
  <2> HIDE DEF i
  <2>9. Content(r.motion) = b
    <3>1. CASE b[f] = None
      BY <2>1, <2>6, <2>7, <2>8, <2>a, <3>1
    <3>2. CASE b[f] # None
      <4> DEFINE j == [i EXCEPT ![f] = b[f]]
      <4>1. j = [g \in Frame |-> j[g]] /\ \A g \in Frame : j[g] = b[g]
        BY <2>6, <2>7
      <4> HIDE DEF j
      <4>2. j = b
        BY <2>6, <4>1
      <4>3. QED BY <2>a, <3>2, <4>2 DEF j
    <3>3. QED BY <3>1, <3>2
  <2>10. QED BY <2>4, <2>9 DEF b, PutsFrameIn
<1>5. QED BY <1>1, <1>2, <1>3, <1>4 DEF Kind

-----------------------------------------------------------------------------
\* What other commands hold.

\* What is not in the motion is not overridden.
LEMMA OverrideElsewhere ==
  ASSUME NEW m \in Motion, Agree(m), NEW entry, NEW curve, NEW k \in Key \ m.keyframes
  PROVE  Override(m, entry, curve).state[k] = m.state[k]
<1> DEFINE key == m.track[entry.over]
           value == [m.state[key] EXCEPT !.curve = curve]
<1>1. CASE entry.over = None \/ entry.over \notin Occupied(m)
  BY <1>1 DEF Override
<1>2. CASE ~(entry.over = None \/ entry.over \notin Occupied(m))
  <2>1. Override(m, entry, curve) = [m EXCEPT !.state[key] = value]
    BY <1>2 DEF Override
  <2>2. key # k
    BY <1>2 DEF Agree
  <2> HIDE DEF key, value
  <2>3. QED BY <2>1, <2>2 DEF Motion
<1>3. QED BY <1>1, <1>2

AtMostOne(S) == \A i, j \in S : i = j

\* What other commands hold stays as it is while a command is redone or undone.
LEMMA OthersStay ==
  ASSUME NEW m \in Motion, NEW c, WellFormed(c), Reversible(c), NEW held, held = c.held, AtMostOne(held),
         NEW all, held \subseteq all, Agree(m), Owns(m, all),
         NEW r, r \in Redone(m, c) \/ r \in Undone(m, c), NEW k \in all \ held
  PROVE  r.motion.state[k] = m.state[k]
<1> USE CommandTypes
<1> DEFINE others == all \ c.held
<1>z. others \cap c.held = {} /\ Owns(m, others \cup c.held) /\ k \in others
  <2>1. others \cup c.held = all
    OBVIOUS
  <2>2. QED BY <2>1
<1> HIDE DEF others
<1>0. k \in m.live \ m.keyframes /\ k \in Key \ m.keyframes /\ Owns(m, others \cup c.held)
  BY <1>z DEF Owns, Motion
<1>1. ASSUME NEW entries \in Seq(Entry), NEW a \in Add(m, entries)
      PROVE  a \in Motion /\ Agree(a) /\ a.state[k] = m.state[k] /\ Owns(a, others \cup c.held)
  BY <1>0, <1>1, AddKeeps, AddWhere
<1>2. ASSUME NEW entries \in Seq(Entry)
      PROVE  /\ TakeOut(m, entries) \in Motion /\ Agree(TakeOut(m, entries))
             /\ TakeOut(m, entries).state[k] = m.state[k]
             /\ Owns(TakeOut(m, entries), others \cup c.held)
  BY <1>0, <1>2, TakeOutKeeps, TakeOutWhere
<1>3. ASSUME NEW w \in Motion, Agree(w), Owns(w, others \cup c.held), NEW entry, NEW curve
      PROVE  Override(w, entry, curve).state[k] = w.state[k]
  <2>1. k \in Key \ w.keyframes
    BY <1>0, <1>z, <1>3 DEF Owns
  <2>2. QED BY <1>3, <2>1, OverrideElsewhere
<1>5. ASSUME c.frame \in Frame \ {0}, \A i, j \in c.held : i = j, Room(m, c)
      PROVE  ShiftBackward(m, c).motion.state = m.state
  BY <1>z, <1>5, ShiftBackwardWhere
<1>6. ShiftForward(m, c).motion.state = m.state
  <2>1. TakesFrameOut(m, c, ShiftForward(m, c))
    BY <1>z, ShiftForwardWhere
  <2>2. QED BY <2>1 DEF TakesFrameOut
<1>7. \A i, j \in c.held : i = j
  BY DEF AtMostOne
<1>8. CASE c.kind = "add"
  <2>1. CASE r \in Redone(m, c)
    <3>1. PICK a \in Add(m, c.entries) :
            r.motion = Override(a, c.entries[1], c.entries[1].curve.first)
      BY <1>8, <2>1 DEF Redone, Alone
    <3>2. a \in Motion /\ Agree(a) /\ a.state[k] = m.state[k] /\ Owns(a, others \cup c.held)
      BY <1>1
    <3>3. Override(a, c.entries[1], c.entries[1].curve.first).state[k] = a.state[k]
      BY <1>3, <3>2
    <3>4. QED BY <3>1, <3>2, <3>3
  <2>2. CASE r \in Undone(m, c)
    <3>1. r.motion = Override(TakeOut(m, c.entries), c.entries[1], c.entries[1].curve.second)
      BY <1>8, <2>2 DEF Undone, Alone
    <3> DEFINE a == TakeOut(m, c.entries)
    <3>2. a \in Motion /\ Agree(a) /\ a.state[k] = m.state[k] /\ Owns(a, others \cup c.held)
      BY <1>2
    <3> HIDE DEF a
    <3>3. Override(a, c.entries[1], c.entries[1].curve.second).state[k] = a.state[k]
      BY <1>3, <3>2
    <3>4. QED BY <3>1, <3>2, <3>3 DEF a
  <2>3. QED BY <2>1, <2>2
<1>9. CASE c.kind = "remove"
  <2>1. r.motion = TakeOut(m, c.entries) \/ r.motion \in Add(m, c.entries)
    BY <1>9 DEF Redone, Undone, Alone
  <2>2. QED BY <1>1, <1>2, <2>1
<1>10. CASE c.kind \in {"insertFrame", "removeFrame"}
  <2>1. c.frame \in Frame \ {0}
    BY <1>10 DEF Reversible
  <2>2. r = ShiftForward(m, c) \/ (r = ShiftBackward(m, c) /\ Room(m, c))
    BY <1>10 DEF Redone, Undone
  <2>3. QED BY <1>5, <1>6, <1>7, <2>1, <2>2
<1>11. QED BY <1>8, <1>9, <1>10 DEF Kind

LEMMA HoldsOne ==
  ASSUME NEW m, NEW held, NEW c, held = {} \/ HoldsRemoved(m, held, c)
  PROVE  AtMostOne(held)
BY DEF HoldsRemoved, AtMostOne

LEMMA FreshOthersStay ==
  ASSUME NEW m \in Motion, NEW c, WellFormed(c), Reversible(c), c.held = {},
         NEW all, Agree(m), Owns(m, all), NEW r \in Redone(m, c)
  PROVE  \A k \in all : r.motion.state[k] = m.state[k]
<1> TAKE k \in all
<1>1. /\ AtMostOne({}) /\ k \in all \ {} /\ {} \subseteq all /\ {} = c.held
      /\ r \in Redone(m, c) \/ r \in Undone(m, c)
  BY DEF AtMostOne
<1>2. QED BY <1>1, OthersStay

-----------------------------------------------------------------------------
\* What the commands on the stack have recorded.

\* The commands of a history are reversible, each met the track that the one before left,
\* those that are done hold what they took out, and the motion stands at the cursor.
Chained(h) ==
  \A i \in DOMAIN h : /\ Reversible(h[i]) /\ h[i].after = Effect(h[i])
                      /\ i + 1 \in DOMAIN h => h[i + 1].before = h[i].after
HoldsBehind(m, h, n) ==
  \A i \in DOMAIN h : /\ i <= n => HoldsRemoved(m, h[i].held, h[i])
                      /\ i > n => h[i].held = {}
Stands(m, h, n) ==
  /\ n > 0 => Content(m) = h[n].after
  /\ n < Len(h) => Content(m) = h[n + 1].before
Recorded ==
  exact => /\ Chained(history) /\ HoldsBehind(motion, history, cursor)
           /\ Stands(motion, history, cursor)

\* What a command remembers does not depend on what it holds, nor on what it left.
SameRecord(c, d) ==
  /\ d.before = c.before /\ Effect(d) = Effect(c) /\ (Reversible(c) => Reversible(d))
  /\ \A m, s : HoldsRemoved(m, s, c) => HoldsRemoved(m, s, d)

LEMMA RecordsStay ==
  ASSUME NEW c, NEW d, d.before = c.before, d.kind = c.kind, d.entries = c.entries, d.frame = c.frame
  PROVE  SameRecord(c, d)
<1>1. Effect(d) = Effect(c)
  BY DEF Effect
<1>2. Reversible(c) => Reversible(d)
  BY DEF Reversible
<1>3. \A m, s : HoldsRemoved(m, s, c) => HoldsRemoved(m, s, d)
  BY DEF HoldsRemoved
<1>4. QED BY <1>1, <1>2, <1>3 DEF SameRecord

LEMMA HoldsStays ==
  ASSUME NEW m, NEW w, NEW held, NEW c, HoldsRemoved(m, held, c),
         \A k \in held : w.state[k] = m.state[k]
  PROVE  HoldsRemoved(w, held, c)
BY DEF HoldsRemoved

\* Where the commands that are kept were.
LEMMA KeptWhere ==
  ASSUME TypeOK
  PROVE  \E s \in {0, 1} : /\ s <= cursor /\ Len(Kept) = cursor - s /\ DOMAIN Kept = 1 .. cursor - s
                           /\ \A i \in DOMAIN Kept : i + s \in DOMAIN history /\ Kept[i] = history[i + s]
<1>1. /\ history \in Seq(Command) /\ Len(history) \in Nat /\ DOMAIN history = 1 .. Len(history)
      /\ \A i \in 1 .. Len(history) : history[i] \in Command
      /\ Len(history) <= Limit /\ cursor \in 0 .. Len(history) /\ Limit \in Nat \ {0}
  BY LenProperties, ElementOfSeq, BoundsAssumption DEF TypeOK
<1>2. CASE cursor = Limit
  <2>1. cursor = Len(history) /\ Len(history) # 0
    <3> DEFINE n == Len(history)
    <3>1. n \in Nat /\ n <= Limit /\ cursor \in 0 .. n /\ cursor = Limit /\ Limit \in Nat /\ Limit # 0
      BY <1>1, <1>2
    <3> HIDE DEF n
    <3>2. cursor = n /\ n # 0
      BY <3>1
    <3>3. QED BY <3>2 DEF n
  <2>2. history # <<>>
    BY <1>1, <2>1, EmptySeq
  <2>3. /\ Kept \in Seq(Command) /\ Len(Kept) = Len(history) - 1
        /\ \A i \in 1 .. Len(Kept) : Kept[i] = history[i + 1]
    BY <1>1, <1>2, <2>2, HeadTailProperties DEF Kept
  <2>4. DOMAIN Kept = 1 .. cursor - 1 /\ Len(Kept) = cursor - 1 /\ cursor \in Nat /\ 1 <= cursor
    BY <1>1, <2>1, <2>3, LenProperties
  <2>5. \A i \in DOMAIN Kept : i + 1 \in DOMAIN history /\ Kept[i] = history[i + 1]
    BY <1>1, <2>1, <2>3, <2>4
  <2>6. QED BY <2>4, <2>5
<1>3. CASE cursor # Limit
  <2>1. /\ Kept \in Seq(Command) /\ Len(Kept) = cursor
        /\ \A i \in 1 .. cursor : Kept[i] = history[i]
    <3>1. Kept = SubSeq(history, 1, cursor) /\ \A i \in 1 .. cursor : history[i] \in Command
      BY <1>1, <1>3 DEF Kept
    <3>2. QED BY <1>1, <3>1, SubSeqProperties
  <2>2. DOMAIN Kept = 1 .. cursor
    BY <2>1, LenProperties
  <2>3. \A i \in DOMAIN Kept : i + 0 \in DOMAIN history /\ Kept[i] = history[i + 0]
    BY <1>1, <2>1, <2>2
  <2>4. 0 <= cursor /\ cursor - 0 = cursor
    BY <1>1
  <2>5. QED BY <2>1, <2>2, <2>3, <2>4
<1>4. QED BY <1>2, <1>3

-----------------------------------------------------------------------------
\* Registering a command.

\* SelectionFollows of one step.
FollowsOn == exact' /\ Follows(motion, {}) => Follows(motion', Held(history'))

LEMMA PushRecords ==
  ASSUME IInv, Recorded, NEW m \in Motion, Agree(m), Owns(m, Held(history)),
         m.state = motion.state, Content(m) = Content(motion),
         m.selection \subseteq motion.selection, m.keyframes = motion.keyframes,
         NEW c, WellFormed(c), c.held = {}, c.before = Content(motion), NEW undoable \in BOOLEAN,
         undoable /\ Redone(m, c) # {} => Reversible(c),
         Push(m, c, undoable)
  PROVE  Recorded' /\ FollowsOn
<1> SUFFICES ASSUME exact'
             PROVE  Chained(history') /\ HoldsBehind(motion', history', cursor')
                    /\ Stands(motion', history', cursor')
                    /\ (Follows(motion, {}) => Follows(motion', Held(history')))
  BY DEF Recorded, Chained, HoldsBehind, Stands, Content, FollowsOn
<1>1. PICK r \in Redone(m, c) :
        /\ motion' = Free(r.motion, Held(Dropped))
        /\ history' = Append(Kept, [c EXCEPT !.held = r.held, !.after = Content(r.motion)])
  BY DEF Push
<1> DEFINE d == [c EXCEPT !.held = r.held, !.after = Content(r.motion)]
<1>2. TypeOK /\ Disjoint(history) /\ AllWellFormed(history)
  BY IInvParts
<1>3. exact /\ Reversible(c) /\ cursor' = Len(Kept) + 1
  BY <1>1 DEF Push
<1>4. Chained(history) /\ HoldsBehind(motion, history, cursor) /\ Stands(motion, history, cursor)
  BY <1>3 DEF Recorded
<1>5. /\ Content(r.motion) = Effect(c) /\ HoldsRemoved(r.motion, r.held, c)
      /\ Follows(m, {}) => Follows(r.motion, r.held)
  <2>1. Content(m) = c.before
    OBVIOUS
  <2>2. QED BY <1>1, <1>3, <2>1, RedoneGives
<1>6. r.motion \in Motion /\ Content(r.motion) \in [Frame -> State \cup {None}] /\ r.held \in SUBSET Key
  <2>1. Owns(m, Held(history) \cup c.held) /\ Held(history) \cap c.held = {}
    OBVIOUS
  <2>2. Good(r, Held(history))
    BY <1>1, <2>1, RedoneKeeps
  <2>3. QED BY <2>2, ContentType DEF Good
<1>7. motion'.state = r.motion.state /\ Content(motion') = Content(r.motion)
  <2>1. motion'.state = r.motion.state /\ motion'.track = r.motion.track
    BY <1>1, <1>6 DEF Free, Motion
  <2>2. QED BY <2>1, SameTrackSameContent
<1>8. \A k \in Held(history) : motion'.state[k] = motion.state[k]
  <2>1. \A k \in Held(history) : r.motion.state[k] = m.state[k]
    BY <1>1, <1>3, FreshOthersStay
  <2>2. QED BY <1>7, <2>1
<1>9. /\ d.held = r.held /\ d.after = Effect(c) /\ d.before = Content(motion)
      /\ Effect(d) = Effect(c) /\ Reversible(d) /\ HoldsRemoved(motion', d.held, d)
  <2>1. c \in Command
    BY DEF WellFormed
  <2>2. /\ d.held = r.held /\ d.after = Content(r.motion) /\ d.before = c.before
        /\ d.kind = c.kind /\ d.entries = c.entries /\ d.frame = c.frame
    BY <2>1 DEF Command
  <2> HIDE DEF d
  <2>3. SameRecord(c, d)
    BY <2>2, RecordsStay
  <2>4. HoldsRemoved(motion', d.held, d)
    BY <1>5, <1>7, <2>2, <2>3, HoldsStays DEF SameRecord
  <2>5. QED BY <1>3, <1>5, <2>2, <2>3, <2>4 DEF SameRecord
<1>10. d \in Command
  BY <1>6 DEF WellFormed, Command
<1>11. history' = Append(Kept, d)
  BY <1>1
<1> HIDE DEF d
<1> DEFINE h == history'
           n == Len(Kept)
<1>12. /\ Len(h) = n + 1 /\ DOMAIN h = 1 .. n + 1 /\ n \in Nat
       /\ \A i \in 1 .. n : h[i] = Kept[i]
       /\ h[n + 1] = d
  BY <1>2, <1>10, <1>11, PushSplits, AppendProperties, LenProperties
<1>13. PICK s \in {0, 1} : /\ s <= cursor /\ n = cursor - s /\ DOMAIN Kept = 1 .. cursor - s
                           /\ \A i \in DOMAIN Kept : i + s \in DOMAIN history /\ Kept[i] = history[i + s]
  BY <1>2, KeptWhere
<1>14. cursor \in Nat /\ cursor' = n + 1 /\ s \in Nat
  BY <1>2, <1>3 DEF TypeOK
<1> HIDE DEF h, n
<1>15. \A i \in 1 .. n : /\ i + s \in DOMAIN history /\ h[i] = history[i + s] /\ i + s <= cursor
                         /\ (i + s) + 1 = (i + 1) + s
  <2> TAKE i \in 1 .. n
  <2>1. i \in DOMAIN Kept /\ h[i] = Kept[i] /\ i \in Int /\ i <= n
    BY <1>12, <1>13
  <2>2. QED BY <1>13, <1>14, <2>1
<1>16. \A i \in 1 .. n + 1 : (i \in 1 .. n \/ i = n + 1) /\ i \in Nat /\ i <= n + 1
  BY <1>12
<1>17. Chained(h)
  <2>1. ASSUME NEW i \in 1 .. n
        PROVE  /\ Reversible(h[i]) /\ h[i].after = Effect(h[i])
               /\ h[i + 1].before = h[i].after
    <3>1. Reversible(h[i]) /\ h[i].after = Effect(h[i])
      BY <1>4, <1>15 DEF Chained
    <3>2. CASE i + 1 \in 1 .. n
      <4>1. (i + s) + 1 \in DOMAIN history /\ h[i + 1] = history[(i + s) + 1]
        BY <1>15, <3>2
      <4>2. QED BY <1>4, <1>15, <4>1 DEF Chained
    <3>3. CASE i + 1 \notin 1 .. n
      <4>1. i = n /\ i + s = cursor /\ cursor > 0
        BY <1>12, <1>13, <1>14, <3>3
      <4>2. h[i].after = Content(motion)
        BY <1>4, <1>15, <4>1 DEF Stands
      <4>3. QED BY <1>9, <1>12, <3>1, <4>1, <4>2
    <3>4. QED BY <3>1, <3>2, <3>3
  <2>2. Reversible(h[n + 1]) /\ h[n + 1].after = Effect(h[n + 1]) /\ (n + 1) + 1 \notin 1 .. n + 1
    BY <1>9, <1>12
  <2>3. QED BY <1>12, <1>16, <2>1, <2>2 DEF Chained
<1>18. HoldsBehind(motion', h, cursor')
  <2>1. ASSUME NEW i \in 1 .. n PROVE HoldsRemoved(motion', h[i].held, h[i])
    <3>1. HoldsRemoved(motion, h[i].held, h[i]) /\ h[i].held \subseteq Held(history)
      BY <1>4, <1>15 DEF HoldsBehind, Held
    <3>2. QED BY <1>8, <3>1, HoldsStays
  <2>2. QED BY <1>9, <1>12, <1>14, <1>16, <2>1 DEF HoldsBehind
<1>19. Stands(motion', h, cursor')
  BY <1>5, <1>7, <1>9, <1>12, <1>14 DEF Stands
<1>20. Follows(motion, {}) => Follows(motion', Held(h))
  <2>1. motion'.selection = r.motion.selection /\ motion'.keyframes = r.motion.keyframes
    BY <1>1, <1>6 DEF Free, Motion
  <2>2. r.held \subseteq Held(h)
    BY <1>9, <1>12 DEF Held
  <2>3. QED BY <1>5, <2>1, <2>2 DEF Follows
<1>21. QED BY <1>17, <1>18, <1>19, <1>20 DEF h

-----------------------------------------------------------------------------
\* Undoing and redoing.

\* Replacing what a command of the history holds.
LEMMA MoveRecords ==
  ASSUME IInv, exact, Chained(history), HoldsBehind(motion, history, cursor),
         NEW i \in DOMAIN history, NEW w, NEW held, NEW n \in {i, i - 1},
         cursor = IF n = i THEN i - 1 ELSE i,
         \A k \in Others(history, i) : w.state[k] = motion.state[k],
         n = i => Content(w) = Effect(history[i]) /\ HoldsRemoved(w, held, history[i]),
         n = i - 1 => Content(w) = history[i].before /\ held = {}
  PROVE  LET h == [history EXCEPT ![i].held = held]
         IN  Chained(h) /\ HoldsBehind(w, h, n) /\ Stands(w, h, n)
<1> DEFINE c == history[i]
           d == [c EXCEPT !.held = held]
           h == [history EXCEPT ![i].held = held]
<1>1. TypeOK /\ history \in Seq(Command) /\ Len(history) \in Nat /\ DOMAIN history = 1 .. Len(history)
      /\ c \in Command
  BY IInvParts, LenProperties, ElementOfSeq DEF TypeOK
<1>2. DOMAIN h = DOMAIN history /\ Len(h) = Len(history)
      /\ \A j \in DOMAIN history : h[j] = IF j = i THEN d ELSE history[j]
  BY <1>1
<1>3. d.held = held /\ d.after = c.after /\ SameRecord(c, d)
  <2>1. /\ d.held = held /\ d.after = c.after /\ d.before = c.before
        /\ d.kind = c.kind /\ d.entries = c.entries /\ d.frame = c.frame
    BY <1>1 DEF Command
  <2> HIDE DEF d
  <2>2. QED BY <2>1, RecordsStay
<1>4. c.after = Effect(c) /\ Reversible(c)
  BY DEF Chained
<1>5. \A j \in DOMAIN history : j # i => history[j].held \subseteq Others(history, i)
  BY DEF Others
<1> HIDE DEF d, h, c
<1> USE DEF c
<1>6. \A j \in DOMAIN history : h[j].before = history[j].before /\ h[j].after = history[j].after
                                /\ SameRecord(history[j], h[j])
  BY <1>2, <1>3 DEF SameRecord
<1>7. Chained(h)
  BY <1>2, <1>6 DEF Chained, SameRecord
<1>8. HoldsBehind(w, h, n)
  <2>1. ASSUME NEW j \in DOMAIN history, j # i
        PROVE  /\ j <= n => HoldsRemoved(w, h[j].held, h[j])
               /\ j > n => h[j].held = {}
    <3>1. h[j] = history[j] /\ j \in Int /\ (j <= n <=> j <= cursor) /\ (j > n <=> j > cursor)
      BY <1>1, <1>2, <2>1
    <3>2. \A k \in history[j].held : w.state[k] = motion.state[k]
      BY <1>5, <2>1
    <3>3. /\ j <= cursor => HoldsRemoved(motion, history[j].held, history[j])
          /\ j > cursor => history[j].held = {}
      BY DEF HoldsBehind
    <3>4. QED BY <3>1, <3>2, <3>3, HoldsStays
  <2>2. /\ i <= n => HoldsRemoved(w, h[i].held, h[i])
        /\ i > n => h[i].held = {}
    BY <1>1, <1>2, <1>3 DEF SameRecord
  <2>3. QED BY <1>2, <2>1, <2>2 DEF HoldsBehind
<1>9. Stands(w, h, n)
  <2>1. CASE n = i
    <3>1. h[i].after = Effect(history[i])
      BY <1>4, <1>6
    <3>2. n < Len(h) => i + 1 \in DOMAIN history
      BY <1>1, <1>2, <2>1
    <3>3. i + 1 \in DOMAIN history => h[i + 1].before = history[i].after
      BY <1>6 DEF Chained
    <3>4. QED BY <1>4, <2>1, <3>1, <3>2, <3>3 DEF Stands
  <2>2. CASE n = i - 1
    <3>1. n + 1 = i /\ (n > 0 => n \in DOMAIN history)
      BY <1>1, <2>2
    <3>2. n > 0 => h[n].after = history[i].before
      BY <1>6, <3>1 DEF Chained
    <3>3. QED BY <1>6, <2>2, <3>1, <3>2 DEF Stands
  <2>3. QED BY <2>1, <2>2
<1>10. QED BY <1>7, <1>8, <1>9 DEF h

LEMMA UndoRecords == ASSUME IInv, Recorded, Undo PROVE Recorded' /\ FollowsOn
<1> SUFFICES ASSUME exact'
             PROVE  Chained(history') /\ HoldsBehind(motion', history', cursor')
                    /\ Stands(motion', history', cursor')
                    /\ (Follows(motion, {}) => Follows(motion', Held(history')))
  BY DEF Recorded, Chained, HoldsBehind, Stands, Content, FollowsOn
<1> DEFINE c == history[cursor]
           others == Others(history, cursor)
<1>1. PICK r \in Undone(motion, c) :
        motion' = r.motion /\ history' = [history EXCEPT ![cursor].held = r.held]
  BY DEF Undo
<1>2. exact /\ cursor' = cursor - 1 /\ cursor > 0
  BY DEF Undo
<1>3. TypeOK /\ Disjoint(history) /\ AllWellFormed(history) /\ Agree(motion) /\ Owns(motion, Held(history))
  BY IInvParts
<1>4. Chained(history) /\ HoldsBehind(motion, history, cursor) /\ Stands(motion, history, cursor)
  BY <1>2 DEF Recorded
<1>5. cursor \in DOMAIN history /\ cursor \in Nat /\ motion \in Motion
  BY <1>2, <1>3, IndexOfCommand DEF TypeOK
<1>6. WellFormed(c) /\ Reversible(c) /\ HoldsRemoved(motion, c.held, c) /\ Content(motion) = Effect(c)
  BY <1>2, <1>3, <1>4, <1>5 DEF AllWellFormed, Chained, HoldsBehind, Stands
<1>7. Owns(motion, others \cup c.held) /\ others \cap c.held = {} /\ Held(history) = others \cup c.held
  BY <1>3, <1>5, SplitHeld
<1> HIDE DEF c, others
<1>8. Content(r.motion) = c.before /\ r.held = {} /\ (Follows(motion, c.held) => Follows(r.motion, {}))
  BY <1>1, <1>3, <1>5, <1>6, <1>7, UndoneGives
<1>9. \A k \in others : r.motion.state[k] = motion.state[k]
  <2> TAKE k \in others
  <2>1. AtMostOne(c.held)
    BY <1>6, HoldsOne
  <2>2. c.held \subseteq Held(history) /\ k \in Held(history) \ c.held
    BY <1>7
  <2>3. QED BY <1>1, <1>3, <1>5, <1>6, <2>1, <2>2, OthersStay
<1> DEFINE n == cursor - 1
           w == r.motion
           held == r.held
           h == [history EXCEPT ![cursor].held = held]
<1>10. Content(w) = history[cursor].before /\ held = {} /\ \A k \in Others(history, cursor) : w.state[k] = motion.state[k]
  BY <1>8, <1>9 DEF c, others
<1>11. n \in {cursor, cursor - 1} /\ n # cursor /\ n = cursor - 1
  BY <1>5
<1>12. motion' = w /\ history' = h /\ cursor' = n
  BY <1>1, <1>2
<1> HIDE DEF n, w, held
<1>13. Chained(h) /\ HoldsBehind(w, h, n) /\ Stands(w, h, n)
  BY <1>2, <1>4, <1>5, <1>10, <1>11, MoveRecords
<1> HIDE DEF h
<1>14. Follows(motion, {}) => Follows(motion', Held(history'))
  BY <1>1, <1>8 DEF Follows
<1>15. QED BY <1>12, <1>13, <1>14

LEMMA RedoRecords == ASSUME IInv, Recorded, Redo PROVE Recorded' /\ FollowsOn
<1> SUFFICES ASSUME exact'
             PROVE  Chained(history') /\ HoldsBehind(motion', history', cursor')
                    /\ Stands(motion', history', cursor')
                    /\ (Follows(motion, {}) => Follows(motion', Held(history')))
  BY DEF Recorded, Chained, HoldsBehind, Stands, Content, FollowsOn
<1> DEFINE i == cursor + 1
           c == history[i]
           others == Others(history, i)
<1>1. PICK r \in Redone(motion, c) :
        motion' = r.motion /\ history' = [history EXCEPT ![i].held = r.held]
  BY DEF Redo
<1>2. exact /\ cursor' = i /\ cursor < Len(history)
  BY DEF Redo
<1>3. TypeOK /\ Disjoint(history) /\ AllWellFormed(history) /\ Agree(motion) /\ Owns(motion, Held(history))
  BY IInvParts
<1>4. Chained(history) /\ HoldsBehind(motion, history, cursor) /\ Stands(motion, history, cursor)
  BY <1>2 DEF Recorded
<1>5. i \in DOMAIN history /\ cursor \in Nat /\ motion \in Motion /\ i > cursor
  BY <1>2, <1>3, IndexOfCommand DEF TypeOK
<1>6. WellFormed(c) /\ Reversible(c) /\ c.held = {} /\ Content(motion) = c.before
  BY <1>2, <1>3, <1>4, <1>5 DEF AllWellFormed, Chained, HoldsBehind, Stands
<1>7. Held(history) = others \cup c.held /\ others \cap c.held = {} /\ Owns(motion, others)
  <2>1. Owns(motion, others \cup c.held) /\ others \cap c.held = {} /\ Held(history) = others \cup c.held
    BY <1>3, <1>5, SplitHeld
  <2>2. QED BY <1>6, <2>1
<1> HIDE DEF c, others
<1>8. /\ Content(r.motion) = Effect(c) /\ HoldsRemoved(r.motion, r.held, c)
      /\ Follows(motion, {}) => Follows(r.motion, r.held)
  BY <1>1, <1>3, <1>5, <1>6, <1>7, RedoneGives
<1>9. \A k \in others : r.motion.state[k] = motion.state[k]
  <2> TAKE k \in others
  <2>1. r \in Redone(motion, c) \/ r \in Undone(motion, c)
    BY <1>1
  <2>2. AtMostOne(c.held)
    BY <1>6 DEF AtMostOne
  <2>3. WellFormed(c) /\ Reversible(c) /\ motion \in Motion /\ Agree(motion)
    BY <1>3, <1>5, <1>6
  <2>4. c.held \subseteq Held(history) /\ k \in Held(history) \ c.held
    BY <1>6, <1>7
  <2> HIDE DEF i
  <2>5. QED BY <2>1, <2>2, <2>3, <2>4, <1>3, OthersStay
<1> DEFINE w == r.motion
           held == r.held
           h == [history EXCEPT ![i].held = held]
<1>10. Content(w) = Effect(history[i]) /\ HoldsRemoved(w, held, history[i])
       /\ \A k \in Others(history, i) : w.state[k] = motion.state[k]
  BY <1>8, <1>9 DEF c, others
<1>11. i # i - 1 /\ cursor = i - 1
  BY <1>5
<1>12. motion' = w /\ history' = h /\ cursor' = i
  BY <1>1, <1>2
<1> HIDE DEF w, held, i
<1>13. Chained(h) /\ HoldsBehind(w, h, i) /\ Stands(w, h, i)
  BY <1>2, <1>4, <1>5, <1>10, <1>11, MoveRecords
<1> HIDE DEF h
<1>14. Follows(motion, {}) => Follows(motion', Held(history'))
  <2>1. held \subseteq Held(h)
    <3>1. i \in DOMAIN h /\ h[i].held = held
      <4>1. history \in Seq(Command) /\ history[i] \in Command
        BY <1>3, <1>5, ElementOfSeq DEF TypeOK
      <4>2. [history[i] EXCEPT !.held = held].held = held
        BY <4>1 DEF Command
      <4>3. QED BY <1>5, <4>1, <4>2 DEF h
    <3>2. QED BY <3>1 DEF Held
  <2>2. QED BY <1>8, <1>12, <2>1 DEF Follows, w, held
<1>15. QED BY <1>12, <1>13, <1>14

-----------------------------------------------------------------------------
\* The commands that the user registers.

\* Registering a command, with the selection as it is or cleared.
LEMMA RegisterRecords ==
  ASSUME IInv, Recorded, NEW m, m \in {motion, [motion EXCEPT !.selection = {}]},
         NEW kind \in Kind, NEW entries \in Seq(Entry), NEW frame \in Frame,
         kind = "add" => Len(entries) = 1, NEW undoable \in BOOLEAN,
         undoable /\ Redone(m, NewCommand(kind, entries, frame)) # {}
           => Reversible(NewCommand(kind, entries, frame)),
         Push(m, NewCommand(kind, entries, frame), undoable)
  PROVE  Recorded' /\ FollowsOn
<1> DEFINE c == NewCommand(kind, entries, frame)
<1>1. motion \in Motion /\ Agree(motion) /\ Owns(motion, Held(history))
  BY IInvParts DEF TypeOK
<1>2. m \in Motion /\ m.live = motion.live /\ m.keyframes = motion.keyframes
      /\ m.track = motion.track /\ m.frame = motion.frame /\ m.state = motion.state
      /\ m.selection \subseteq motion.selection
  BY <1>1 DEF Motion
<1>3. Agree(m) /\ Owns(m, Held(history))
  BY <1>1, <1>2, ContentsMoveNothing
<1>4. Content(m) = Content(motion)
  BY <1>2, SameTrackSameContent
<1>5. WellFormed(c) /\ c.held = {}
  BY <1>1, NewCommandType
<1>6. c.before = Content(motion)
  BY DEF NewCommand
<1> HIDE DEF c
<1> DEFINE d == c
<1>7. undoable /\ Redone(m, d) # {} => Reversible(d)
  BY DEF c
<1>8. Push(m, d, undoable)
  BY DEF c
<1> HIDE DEF d
<1>9. WellFormed(d) /\ d.held = {} /\ d.before = Content(motion)
  BY <1>5, <1>6 DEF d
<1>10. QED BY <1>2, <1>3, <1>4, <1>7, <1>8, <1>9, PushRecords

\* An entry that adds a keyframe remembers what it replaces and the curve that it splits.
LEMMA AddIsReversible ==
  ASSUME motion \in Motion, Agree(motion), NEW f \in Frame, NEW pose \in Pose, NEW adjust \in BOOLEAN
  PROVE  ReversibleEntry(Content(motion), AddEntry(f, pose, adjust))
<1> DEFINE before == {g \in Occupied(motion) : g < f}
           exists == f \in Occupied(motion)
           over   == IF exists \/ before = {} THEN None
                     ELSE CHOOSE g \in before : \A h \in before : h <= g
           curve  == IF over = None THEN 0 ELSE Content(motion)[over].curve
           e      == AddEntry(f, pose, adjust)
<1>1. /\ e.frame = f /\ (e.updated <=> exists \/ f = 0) /\ e.over = over /\ e.curve.second = curve
      /\ e.second = IF exists THEN Content(motion)[f] ELSE Default
  BY DEF AddEntry
<1>2. over = None \/ over \in before
  <2>1. CASE exists \/ before = {}
    BY <2>1
  <2>2. CASE ~(exists \/ before = {})
    <3>1. before \in SUBSET (0 .. MaxFrame)
      BY FrameIsNat DEF Occupied
    <3>2. \E g \in before : \A h \in before : h <= g
      BY <2>2, <3>1, FrameIsNat, LargestExists
    <3>3. QED BY <2>2, <3>2
  <2>3. QED BY <2>1, <2>2
<1>3. exists \/ f = 0 => over = None
  <2>1. f = 0 => before = {}
    BY FrameIsNat DEF Occupied
  <2>2. QED BY <2>1
<1>4. /\ ~exists => Content(motion)[f] = None
      /\ over # None => over # f /\ Content(motion)[over] # None /\ Content(motion)[over].curve = curve
  <2>1. \A g \in Frame : g \in Occupied(motion) <=> Content(motion)[g] # None
    BY ContentFacts
  <2>2. \A g \in before : g \in Occupied(motion) /\ g \in Frame /\ g # f
    BY FrameIsNat DEF Occupied
  <2> HIDE DEF over
  <2>3. over # None => over \in before /\ Content(motion)[over].curve = curve
    BY <1>2
  <2> HIDE DEF before
  <2>4. QED BY <2>1, <2>2, <2>3
<1> HIDE DEF over, before, curve, e
<1>5. CASE exists \/ f = 0
  <2>1. e.updated /\ e.over = None
    BY <1>1, <1>3, <1>5
  <2>2. Content(motion)[f] # None => e.second = Content(motion)[f]
    BY <1>1, <1>4
  <2>3. QED BY <1>1, <2>1, <2>2 DEF ReversibleEntry, e
<1>6. CASE ~(exists \/ f = 0)
  <2>1. ~e.updated /\ Content(motion)[e.frame] = None
    BY <1>1, <1>4, <1>6
  <2>2. e.over # None => /\ e.over # e.frame /\ Content(motion)[e.over] # None
                         /\ Content(motion)[e.over].curve = e.curve.second
    BY <1>1, <1>4
  <2>3. QED BY <2>1, <2>2 DEF ReversibleEntry, e
<1>7. QED BY <1>5, <1>6

\* Entries that remove keyframes of the motion, each once, remember them.
LEMMA RemoveIsReversible ==
  ASSUME motion \in Motion, Agree(motion), NEW n \in Nat, NEW keys \in [1 .. n -> motion.keyframes],
         \A i, j \in 1 .. n : keys[i] = keys[j] => i = j,
         NEW entries, entries = [i \in 1 .. n |-> RemoveEntry(keys[i])]
  PROVE  ReversibleEntries(Content(motion), entries)
<1>1. \A i \in 1 .. n : /\ entries[i].frame = motion.frame[keys[i]] /\ entries[i].second = Default
                        /\ entries[i].first = motion.state[keys[i]]
                        /\ entries[i].updated => entries[i].frame = 0
  BY DEF RemoveEntry
<1>2. \A k \in motion.keyframes : /\ motion.frame[k] \in Frame /\ motion.track[motion.frame[k]] = k
                                  /\ Content(motion)[motion.frame[k]] = motion.state[k]
  <2> TAKE k \in motion.keyframes
  <2>1. k \in Key /\ motion.frame[k] \in Frame /\ motion.track[motion.frame[k]] = k /\ k # None
    BY FrameIsNat DEF Motion, Agree
  <2>2. QED BY <2>1, ContentFacts
<1>3. DOMAIN entries = 1 .. n /\ \A i \in 1 .. n : keys[i] \in motion.keyframes
  OBVIOUS
<1>4. \A i, j \in 1 .. n : entries[i].frame = entries[j].frame => i = j
  <2> TAKE i, j \in 1 .. n
  <2>1. HAVE entries[i].frame = entries[j].frame
  <2>2. keys[i] = keys[j]
    BY <1>1, <1>2, <1>3, <2>1
  <2>3. QED BY <2>2
<1>5. \A i, j \in Updates(entries) : i = j
  BY <1>1, <1>3, <1>4 DEF Updates
<1>6. \A i \in 1 .. n : entries[i].first = Content(motion)[entries[i].frame]
  BY <1>1, <1>2, <1>3
<1>7. QED BY <1>1, <1>3, <1>4, <1>5, <1>6 DEF ReversibleEntries, Distinct

-----------------------------------------------------------------------------
\* Recorded is invariant, and what follows from it.

LEMMA SelectRecords ==
  ASSUME IInv, Recorded, NEW keys, keys \subseteq motion.selection \cup motion.keyframes, Select(keys)
  PROVE  Recorded' /\ FollowsOn
<1>1. motion \in Motion
  BY DEF IInv, TypeOK
<1>2. /\ motion'.state = motion.state /\ motion'.keyframes = motion.keyframes
      /\ motion'.track = motion.track /\ motion'.selection = keys
      /\ UNCHANGED <<history, cursor, exact>>
  BY <1>1 DEF Select, Motion
<1>3. Content(motion') = Content(motion)
  BY <1>2, SameTrackSameContent
<1>4. HoldsBehind(motion, history, cursor) => HoldsBehind(motion', history', cursor')
  <2>1. \A i \in DOMAIN history : HoldsRemoved(motion, history[i].held, history[i])
                                  => HoldsRemoved(motion', history[i].held, history[i])
    BY <1>2 DEF HoldsRemoved
  <2>2. QED BY <1>2, <2>1 DEF HoldsBehind
<1>5. Stands(motion, history, cursor) => Stands(motion', history', cursor')
  BY <1>2, <1>3 DEF Stands
<1>6. Recorded'
  BY <1>2, <1>4, <1>5 DEF Recorded, Chained, HoldsBehind, Stands, Content
<1>7. FollowsOn
  BY <1>2 DEF FollowsOn, Follows
<1>8. QED BY <1>6, <1>7

LEMMA RecordedInit == Init => Recorded
<1> SUFFICES ASSUME Init PROVE Recorded
  OBVIOUS
<1>1. history = <<>> /\ cursor = 0 /\ Len(history) = 0 /\ DOMAIN history = {}
  BY EmptySeq DEF Init
<1>2. QED BY <1>1 DEF Recorded, Chained, HoldsBehind, Stands

LEMMA RecordedStep == IInv /\ Recorded /\ [Next]_vars => Recorded' /\ FollowsOn
<1> SUFFICES ASSUME IInv, Recorded, [Next]_vars PROVE Recorded' /\ FollowsOn
  OBVIOUS
<1>0. /\ motion \in Motion /\ Agree(motion) /\ Owns(motion, Held(history)) /\ TypeOK
      /\ Kind = {"add", "remove", "insertFrame", "removeFrame"}
  BY IInvParts DEF TypeOK, Kind
<1>e. <<>> \in Seq(Entry) /\ 0 \in Frame
  BY EmptySeq, FrameIsNat
<1>k. motion.keyframes \subseteq Key
  BY <1>0 DEF Motion
<1>1. CASE RegisterAddKeyframe
  <2>1. PICK f \in Frame, pose \in Pose, adjust \in BOOLEAN :
          Push(motion, NewCommand("add", <<AddEntry(f, pose, adjust)>>, f), TRUE)
    BY <1>1 DEF RegisterAddKeyframe
  <2> DEFINE entries == <<AddEntry(f, pose, adjust)>>
             c == NewCommand("add", entries, f)
  <2>2. entries \in Seq(Entry) /\ Len(entries) = 1
    BY <1>0, AddEntryType
  <2>3. Reversible(c)
    <3>1. ReversibleEntry(Content(motion), AddEntry(f, pose, adjust))
      BY <1>0, AddIsReversible
    <3>2. c.kind = "add" /\ c.entries[1] = AddEntry(f, pose, adjust) /\ c.before = Content(motion)
      BY DEF NewCommand
    <3> HIDE DEF c
    <3>3. QED BY <3>1, <3>2 DEF Reversible
  <2> HIDE DEF entries
  <2>4. Push(motion, NewCommand("add", entries, f), TRUE)
    BY <2>1 DEF entries
  <2>5. QED BY <1>0, <2>2, <2>3, <2>4, RegisterRecords
<1>2. CASE RegisterRemoveKeyframe
  <2>1. PICK f \in Occupied(motion) :
          Push(motion, NewCommand("remove", <<RemoveEntry(motion.track[f])>>, f), TRUE)
    BY <1>2 DEF RegisterRemoveKeyframe
  <2>2. motion.track[f] \in motion.keyframes /\ f \in Frame /\ motion.track[f] \in Key
    BY <1>0, <1>k DEF Occupied, Agree
  <2> DEFINE key == motion.track[f]
             n == 1
             keys == [i \in 1 .. n |-> key]
             entries == <<RemoveEntry(motion.track[f])>>
             c == NewCommand("remove", entries, f)
  <2>3. entries \in Seq(Entry)
    <3>1. RemoveEntry(motion.track[f]) \in Entry
      BY <1>0, <2>2, RemoveEntryType
    <3>2. QED BY <3>1
  <2>4. ReversibleEntries(Content(motion), entries)
    <3>1. entries = [i \in 1 .. n |-> RemoveEntry(keys[i])]
      OBVIOUS
    <3>2. /\ n \in Nat /\ keys \in [1 .. n -> motion.keyframes]
          /\ \A i, j \in 1 .. n : keys[i] = keys[j] => i = j
      BY <2>2
    <3> HIDE DEF keys, entries, n
    <3>3. QED BY <1>0, <3>1, <3>2, RemoveIsReversible
  <2>5. Reversible(c)
    <3>1. c.kind = "remove" /\ c.entries = entries /\ c.before = Content(motion)
      BY DEF NewCommand
    <3> HIDE DEF c, entries
    <3>2. QED BY <2>4, <3>1 DEF Reversible
  <2> HIDE DEF entries
  <2>6. Push(motion, NewCommand("remove", entries, f), TRUE)
    BY <2>1 DEF entries
  <2>7. QED BY <1>0, <2>2, <2>3, <2>5, <2>6, RegisterRecords
<1>3. CASE RegisterRemoveAllSelectedKeyframes
  <2>1. PICK keys \in SetToSeqs(motion.selection) :
          Push([motion EXCEPT !.selection = {}],
               NewCommand("remove", [i \in DOMAIN keys |-> RemoveEntry(keys[i])], 0),
               motion.selection \subseteq motion.keyframes)
    BY <1>3 DEF RegisterRemoveAllSelectedKeyframes
  <2>2. motion.selection \in SUBSET Key
    BY <1>0 DEF Motion
  <2> DEFINE n == Cardinality(motion.selection)
  <2>3. n \in Nat
    BY <2>2, KeyAssumption, FS_Subset, FS_CardinalityType
  <2>4. DOMAIN keys = 1 .. n /\ keys \in [1 .. n -> motion.selection]
        /\ \A i, j \in 1 .. n : keys[i] = keys[j] => i = j
    BY <2>1 DEF SetToSeqs
  <2> DEFINE entries == [i \in DOMAIN keys |-> RemoveEntry(keys[i])]
             c == NewCommand("remove", entries, 0)
             undoable == motion.selection \subseteq motion.keyframes
             m == [motion EXCEPT !.selection = {}]
  <2>5. entries \in Seq(Entry)
    <3>1. \A i \in 1 .. n : RemoveEntry(keys[i]) \in Entry
      BY <1>0, <2>2, <2>4, RemoveEntryType
    <3>2. QED BY <2>3, <2>4, <3>1, IsASeq
  <2>6. undoable => ReversibleEntries(Content(motion), entries)
    <3>1. HAVE undoable
    <3>2. keys \in [1 .. n -> motion.keyframes] /\ entries = [i \in 1 .. n |-> RemoveEntry(keys[i])]
      BY <2>4, <3>1
    <3> HIDE DEF n, entries
    <3>3. QED BY <1>0, <2>3, <2>4, <3>2, RemoveIsReversible
  <2>7. undoable => Reversible(c)
    <3>1. c.kind = "remove" /\ c.entries = entries /\ c.before = Content(motion)
      BY DEF NewCommand
    <3> HIDE DEF c, entries, undoable
    <3>2. QED BY <2>6, <3>1 DEF Reversible
  <2>8. m \in {motion, [motion EXCEPT !.selection = {}]} /\ undoable \in BOOLEAN
    OBVIOUS
  <2> HIDE DEF entries, undoable, m
  <2>9. Push(m, NewCommand("remove", entries, 0), undoable)
    BY <2>1 DEF entries, undoable, m
  <2>10. QED BY <1>0, <1>e, <2>5, <2>7, <2>8, <2>9, RegisterRecords
<1>4. CASE RegisterInsertEmptyTimelineFrame
  <2>1. PICK f \in Frame \ {0} : Push(motion, NewCommand("insertFrame", <<>>, f), TRUE)
    BY <1>4 DEF RegisterInsertEmptyTimelineFrame
  <2> DEFINE c == NewCommand("insertFrame", <<>>, f)
  <2>2. Redone(motion, c) # {} => Reversible(c)
    <3>1. HAVE Redone(motion, c) # {}
    <3>2. /\ c.kind = "insertFrame" /\ c.frame = f /\ c.before = Content(motion) /\ c.held = {}
      BY DEF NewCommand
    <3> HIDE DEF c
    <3>3. Room(motion, c)
      BY <3>1, <3>2 DEF Redone
    <3>4. \A j, k \in c.held : j = k
      BY <3>2
    <3> DEFINE others == Held(history)
    <3>5. Owns(motion, others \cup c.held) /\ others \cap c.held = {} /\ c.held \in SUBSET Key
          /\ c.frame \in Frame \ {0}
      BY <1>0, <3>2
    <3> HIDE DEF others
    <3>6. PutsFrameIn(motion, c, ShiftBackward(motion, c))
      BY <1>0, <3>3, <3>4, <3>5, InsertGives
    <3>7. QED BY <3>2, <3>6 DEF PutsFrameIn, Reversible
  <2>3. QED BY <1>0, <1>e, <2>1, <2>2, RegisterRecords
<1>5. CASE RegisterRemoveTimelineFrame
  <2>1. PICK f \in Frame : Push(motion, NewCommand("removeFrame", <<>>, f), f # 0)
    BY <1>5 DEF RegisterRemoveTimelineFrame
  <2> DEFINE c == NewCommand("removeFrame", <<>>, f)
             undoable == f # 0
  <2>2. undoable => Reversible(c)
    <3>1. c.kind = "removeFrame" /\ c.frame = f
      BY DEF NewCommand
    <3> HIDE DEF c
    <3>2. QED BY <3>1 DEF Reversible
  <2>3. undoable \in BOOLEAN
    OBVIOUS
  <2> HIDE DEF undoable
  <2>4. Push(motion, NewCommand("removeFrame", <<>>, f), undoable)
    BY <2>1 DEF undoable
  <2>5. QED BY <1>0, <1>e, <2>2, <2>3, <2>4, RegisterRecords
<1>6. CASE Undo
  BY <1>6, UndoRecords
<1>7. CASE Redo
  BY <1>7, RedoRecords
<1>8. \A f \in Occupied(motion) : motion.track[f] \in motion.keyframes
  BY <1>0 DEF Agree
<1>10. CASE SelectKeyframe
  <2>1. PICK f \in Frame :
          Select(motion.selection \cup {motion.track[g] : g \in {f, f + 1} \cap Occupied(motion)})
    BY <1>10 DEF SelectKeyframe
  <2> DEFINE keys == motion.selection \cup {motion.track[g] : g \in {f, f + 1} \cap Occupied(motion)}
  <2>2. keys \subseteq motion.selection \cup motion.keyframes
    BY <1>8
  <2> HIDE DEF keys
  <2>3. Select(keys)
    BY <2>1 DEF keys
  <2>4. QED BY <2>2, <2>3, SelectRecords
<1>11. CASE SelectAllRowKeyframes
  <2> DEFINE keys == motion.selection \cup {motion.track[f] : f \in Occupied(motion)}
  <2>1. keys \subseteq motion.selection \cup motion.keyframes
    BY <1>8
  <2> HIDE DEF keys
  <2>2. Select(keys)
    BY <1>11 DEF keys, SelectAllRowKeyframes
  <2>3. QED BY <2>1, <2>2, SelectRecords
<1>12. CASE ClearSelectAllKeyframes
  BY <1>12, SelectRecords DEF ClearSelectAllKeyframes
<1>13. CASE UNCHANGED vars
  <2>1. Recorded'
    BY <1>13 DEF vars, Recorded, Chained, HoldsBehind, Stands, Content
  <2>2. FollowsOn
    BY <1>13 DEF vars, FollowsOn, Follows
  <2>3. QED BY <2>1, <2>2
<1>14. QED BY <1>1, <1>2, <1>3, <1>4, <1>5, <1>6, <1>7, <1>10, <1>11, <1>12, <1>13 DEF Next

LEMMA RecordedHolds == Spec => [](IInv /\ Recorded)
<1>1. Init => IInv /\ Recorded
  BY IInvInit, RecordedInit
<1>2. IInv /\ Recorded /\ [Next]_vars => (IInv /\ Recorded)'
  BY IInvStep, RecordedStep
<1>3. QED BY <1>1, <1>2, PTL DEF Spec

\* Undo and redo walk the motion through the tracks that it had, as long as no command was
\* registered that cannot be undone.
THEOREM UndoAlwaysRestoresTrack == Spec => []UndoRestoresTrack
<1>1. IInv /\ Recorded => UndoRestoresTrack
  BY DEF Recorded, Stands, UndoRestoresTrack
<1>2. QED BY <1>1, RecordedHolds, PTL

\* No step leaves a keyframe selected that nobody owns, if what was selected was in the motion.
THEOREM SelectionAlwaysFollows == Spec => SelectionFollows
<1>1. IInv /\ Recorded /\ [Next]_vars
        => [motion.selection \subseteq motion.keyframes /\ exact'
              => motion'.selection \subseteq motion'.keyframes \cup Held(history')]_vars
  BY RecordedStep DEF FollowsOn, Follows
<1>2. QED BY <1>1, RecordedHolds, PTL DEF Spec, SelectionFollows
=============================================================================
