--------------------------- MODULE CapturingProofs ---------------------------
(***************************************************************************)
(* Proofs about Capturing for any range, scale, number of exports, faults  *)
(* and reads in flight: the order of the frames in the file, that no       *)
(* handler outlives its object, that the settings come back, that every    *)
(* frame is read, and that at most one frame comes after its file is       *)
(* closed.                                                                 *)
(***************************************************************************)
EXTENDS Capturing, SequenceTheorems, TLAPS

\* The types that the order of the frames rests on.
PTSTypes ==
  /\ encoded \in Seq(Nat) /\ at \in Nat /\ lastPTS \in Nat \cup {-1}
  /\ recorded \subseteq Nat /\ flying \subseteq Nat
  /\ inside \in Nat \cup {-1} /\ (stage # "none" => inside \in Nat)

\* A handler that has found the plugin and has not yet given it the frame.
Calling == {"audio", "sound", "video", "frame"}

\* No frame in the file is later than m_lastVideoPTS, a handler that is about to encode
\* has a later one, and without asynchronous reads the frame to come is the later one.
IInv ==
  /\ PTSTypes
  /\ EncodedInOrder
  /\ \A i \in DOMAIN encoded : encoded[i] <= lastPTS
  /\ stage \in Calling => inside > lastPTS
  /\ ~async => lastPTS < at /\ recorded = {} /\ flying = {} /\ stage = "none"

\* Appending a frame that is later than the last one keeps the order.
LEMMA AppendInOrder ==
  ASSUME NEW s \in Seq(Nat), NEW last \in Nat \cup {-1}, NEW n \in Nat, n > last,
         \A i, j \in DOMAIN s : i < j => s[i] < s[j],
         \A i \in DOMAIN s : s[i] <= last
  PROVE  /\ Append(s, n) \in Seq(Nat)
         /\ \A i, j \in DOMAIN Append(s, n) : i < j => Append(s, n)[i] < Append(s, n)[j]
         /\ \A i \in DOMAIN Append(s, n) : Append(s, n)[i] <= n
<1> DEFINE t == Append(s, n)
<1>1. t \in Seq(Nat) /\ Len(t) = Len(s) + 1 /\ DOMAIN t = 1 .. Len(s) + 1 /\ DOMAIN s = 1 .. Len(s)
      /\ Len(s) \in Nat
  OBVIOUS
<1>2. t[Len(s) + 1] = n /\ \A i \in 1 .. Len(s) : t[i] = s[i] /\ s[i] \in Nat
  OBVIOUS
<1>3. \A i \in 1 .. Len(s) : s[i] < n
  BY <1>1, <1>2
<1>4. ASSUME NEW i \in DOMAIN t, NEW j \in DOMAIN t, i < j PROVE t[i] < t[j]
  <2>1. i \in 1 .. Len(s)
    BY <1>1, <1>4
  <2>2. CASE j = Len(s) + 1
    BY <1>2, <1>3, <2>1, <2>2
  <2>3. CASE j # Len(s) + 1
    BY <1>1, <1>2, <2>1, <2>3, <1>4
  <2>4. QED BY <2>2, <2>3
<1>5. ASSUME NEW i \in DOMAIN t PROVE t[i] <= n
  BY <1>1, <1>2, <1>3
<1> HIDE DEF t
<1>6. QED BY <1>1, <1>4, <1>5 DEF t

LEMMA NothingEncoded == <<>> \in Seq(Nat) /\ DOMAIN <<>> = {}
OBVIOUS

LEMMA IInvInit == Init => IInv
<1> SUFFICES ASSUME Init PROVE IInv
  OBVIOUS
<1>1. encoded = <<>> /\ at = 0 /\ lastPTS = -1 /\ recorded = {} /\ flying = {}
      /\ inside = -1 /\ stage = "none"
  BY DEF Init
<1>2. QED BY <1>1, NothingEncoded DEF IInv, PTSTypes, EncodedInOrder, Calling

\* What neither encodes nor moves a read.
Unconcerned == UNCHANGED <<encoded, at, lastPTS, recorded, flying, inside, stage, async>>

LEMMA UnconcernedKeeps == IInv /\ Unconcerned => IInv'
BY DEF Unconcerned, IInv, PTSTypes, EncodedInOrder

LEMMA MostAreUnconcerned ==
  ASSUME \/ OnAccepted \/ OnCancelled \/ ClosePanel \/ Execute \/ CallOff \/ PressCancel
         \/ Draw \/ Prepare \/ CaptureNothing \/ WriteImage \/ Exchange \/ Close \/ Finish
         \/ Cancelled \/ NoteStopped \/ TransitDestruction \/ Restore \/ Restored \/ Delete
         \/ LoadPlugin \/ EncodeAudio \/ Fail \/ Shut
         \/ (\E r \in left : DecrementAsyncCount(r)) \/ UNCHANGED vars
  PROVE  \/ Unconcerned
         \/ UNCHANGED <<encoded, at, lastPTS, recorded, flying, inside, async>>
            /\ stage # "none" /\ (stage' \in Calling => stage \in Calling)
BY DEF OnAccepted, OnCancelled, ClosePanel, Execute, CallOff, PressCancel, Draw, Prepare,
  CaptureNothing, WriteImage, Exchange, Close, Finish, Cancelled, NoteStopped, TransitDestruction,
  Restore, Restored, Delete, LoadPlugin, EncodeAudio, Fail, Shut, DecrementAsyncCount, vars, object,
  history, handlers, Unconcerned, Calling, Calls

LEMMA IInvNext == IInv /\ [Next]_vars => IInv'
<1> SUFFICES ASSUME IInv, [Next]_vars PROVE IInv'
  OBVIOUS
<1> USE DEF PTSTypes, object, history, handlers
<1>1. ASSUME NEW k \in {"image", "video"}, Request(k) PROVE IInv'
  <2>1. encoded' = <<>> /\ at' = 0 /\ lastPTS' = -1
        /\ UNCHANGED <<recorded, flying, inside, stage, async>>
    BY <1>1 DEF Request
  <2>2. QED BY <2>1, NothingEncoded DEF IInv, EncodedInOrder
<1>2. CASE ReadAsync
  <2>1. recorded' = recorded \cup {at} /\ at' = at + 1 /\ async
        /\ UNCHANGED <<encoded, lastPTS, flying, inside, stage, async>>
    BY <1>2 DEF ReadAsync, Advance
  <2>2. QED BY <2>1 DEF IInv, EncodedInOrder
<1>3. CASE ReadAndEncode
  <2>1. ~async /\ at' = at + 1 /\ lastPTS' = at /\ encoded' \in {encoded, Append(encoded, at)}
        /\ UNCHANGED <<recorded, flying, inside, stage, async>>
    BY <1>3 DEF ReadAndEncode, Advance
  <2>2. lastPTS < at /\ stage \notin Calling
    BY <2>1 DEF IInv, Calling
  <2>3. CASE encoded' = encoded
    BY <2>1, <2>2, <2>3 DEF IInv, EncodedInOrder
  <2>4. CASE encoded' = Append(encoded, at)
    <3>1. /\ encoded' \in Seq(Nat)
          /\ \A i, j \in DOMAIN encoded' : i < j => encoded'[i] < encoded'[j]
          /\ \A i \in DOMAIN encoded' : encoded'[i] <= at
      BY <2>2, <2>4, AppendInOrder DEF IInv, EncodedInOrder
    <3>2. QED BY <2>1, <2>2, <3>1 DEF IInv, EncodedInOrder
  <2>5. QED BY <2>1, <2>3, <2>4
<1>4. CASE Commit
  BY <1>4 DEF Commit, IInv, EncodedInOrder
<1>5. ASSUME NEW r \in flying, Enter(r) PROVE IInv'
  BY <1>5 DEF Enter, IInv, EncodedInOrder, Calling
<1>6. CASE Check
  <2>1. UNCHANGED <<encoded, at, lastPTS, recorded, flying, inside, async>>
        /\ stage = "check" /\ inside \in Nat
        /\ stage' \in Calls \cup {"leave"} /\ (stage' \in Calls => lastPTS = -1 \/ inside > lastPTS)
    BY <1>6 DEF Check, IInv, Calls
  <2>2. QED BY <2>1 DEF IInv, EncodedInOrder, Calling, Calls
<1>7. CASE EncodeVideo
  <2>1. UNCHANGED <<at, recorded, flying, inside, async>> /\ stage = "frame" /\ async
        /\ inside \in Nat /\ inside > lastPTS /\ lastPTS' = inside /\ stage' \in {"leave", "fail"}
    BY <1>7 DEF EncodeVideo, IInv, Calling
  <2>2. CASE encoded' = Append(encoded, inside)
    <3>1. /\ encoded' \in Seq(Nat)
          /\ \A i, j \in DOMAIN encoded' : i < j => encoded'[i] < encoded'[j]
          /\ \A i \in DOMAIN encoded' : encoded'[i] <= inside
      BY <2>1, <2>2, AppendInOrder DEF IInv, EncodedInOrder
    <3>2. QED BY <2>1, <3>1 DEF IInv, EncodedInOrder, Calling
  <2>3. CASE encoded' = encoded
    <3>1. \A i \in DOMAIN encoded : encoded[i] \in Nat
      BY DEF IInv
    <3>2. \A i \in DOMAIN encoded : encoded[i] <= inside
      BY <2>1, <3>1 DEF IInv
    <3>3. QED BY <2>1, <2>3, <3>2 DEF IInv, EncodedInOrder, Calling
  <2>4. QED BY <1>7, <2>2, <2>3 DEF EncodeVideo
<1>8. CASE Leave
  BY <1>8 DEF Leave, IInv, EncodedInOrder, Calling
<1>9. CASE \/ Unconcerned
           \/ UNCHANGED <<encoded, at, lastPTS, recorded, flying, inside, async>>
              /\ stage # "none" /\ (stage' \in Calling => stage \in Calling)
  BY <1>9, UnconcernedKeeps DEF IInv, EncodedInOrder
<1>10. QED
  BY <1>1, <1>2, <1>3, <1>4, <1>5, <1>6, <1>7, <1>8, <1>9, MostAreUnconcerned
     DEF Next, DrawSteps, HandlerSteps, UserSteps

\* The frames of a video reach its file in their order and each once, whatever the order
\* in which the handlers take the mutex, with and without asynchronous reads.
THEOREM FramesEncodedInOrder == Spec => []EncodedInOrder
<1>1. IInv => EncodedInOrder
  BY DEF IInv
<1>2. QED BY <1>1, IInvInit, IInvNext, PTL DEF Spec

-----------------------------------------------------------------------------
(* The object that the handlers use.                                       *)

\* An object that is ready to be deleted has no reads.
LifeIInv == ReadsOutliveNothing /\ (state = "Destroyed" => Reads = {})

LEMMA LifeInit == Init => LifeIInv
BY DEF Init, LifeIInv, ReadsOutliveNothing, Reads

LEMMA ReadIsNumber == \A n \in Nat : n # -1
OBVIOUS

LEMMA LifeNext ==
  ASSUME "asked again" \notin Crossings, IInv, LifeIInv, [Next]_vars
  PROVE  LifeIInv'
<1> USE DEF LifeIInv, ReadsOutliveNothing, object, history, handlers
<1>1. ASSUME NEW k \in {"image", "video"}, Request(k) PROVE LifeIInv'
  BY <1>1 DEF Request, Reads
<1>2. CASE ReadAsync
  <2>1. kind' = "video" /\ state' # "Destroyed"
    BY <1>2 DEF ReadAsync, Advance
  <2>2. QED BY <2>1
<1>3. CASE Delete
  BY <1>3 DEF Delete, Reads
<1>4. CASE TransitDestruction
  BY <1>4 DEF TransitDestruction, Reads
<1>5. CASE Commit
  BY <1>5 DEF Commit, Reads
<1>6. ASSUME NEW r \in flying, Enter(r) PROVE LifeIInv'
  BY <1>6 DEF Enter, Reads, Unlocked
<1>7. CASE Leave
  <2>1. inside # -1
    <3>1. stage = "leave"
      BY <1>7 DEF Leave
    <3>2. inside \in Nat
      BY <3>1 DEF IInv, PTSTypes
    <3>3. QED BY <3>2, ReadIsNumber
  <2>2. kind' = kind /\ state' = state /\ recorded' = recorded /\ flying' = flying
        /\ left' = left \cup {inside} /\ inside' = -1
    BY <1>7 DEF Leave
  <2>3. Reads' \subseteq Reads
    BY <2>1, <2>2 DEF Reads
  <2>4. QED BY <2>2, <2>3
<1>8. ASSUME NEW r \in left, DecrementAsyncCount(r) PROVE LifeIInv'
  BY <1>8 DEF DecrementAsyncCount, Reads
<1>9. CASE UNCHANGED vars
  BY <1>9 DEF vars, Reads
<1>10. CASE \/ ReadAndEncode \/ Check \/ LoadPlugin \/ EncodeAudio \/ EncodeVideo \/ Fail \/ Shut
  BY <1>10 DEF ReadAndEncode, Advance, Check, LoadPlugin, EncodeAudio, EncodeVideo, Fail, Shut, Reads
<1>11. CASE \/ OnAccepted \/ OnCancelled \/ ClosePanel \/ Execute \/ CallOff \/ PressCancel
            \/ Draw \/ Prepare \/ CaptureNothing \/ WriteImage
  BY <1>11 DEF OnAccepted, OnCancelled, ClosePanel, Execute, CallOff, PressCancel, Draw,
     Prepare, CaptureNothing, WriteImage, Reads
<1>12. CASE \/ Exchange \/ Close \/ Finish \/ Cancelled \/ NoteStopped \/ Restore \/ Restored
  BY <1>12 DEF Exchange, Close, Finish, Cancelled, NoteStopped, Restore, Restored, Reads
<1>13. QED
  BY <1>1, <1>2, <1>3, <1>4, <1>5, <1>6, <1>7, <1>8, <1>9, <1>10, <1>11, <1>12
     DEF Next, DrawSteps, HandlerSteps, UserSteps

\* Unless an export is asked for while another one is under way, a handler of a read
\* never meets an object that is gone.
THEOREM HandlersMeetTheirObject ==
  ASSUME "asked again" \notin Crossings
  PROVE  Spec => []ReadsOutliveNothing
<1>1. LifeIInv => ReadsOutliveNothing
  BY DEF LifeIInv
<1>2. IInv /\ LifeIInv /\ [Next]_vars => LifeIInv'
  BY LifeNext
<1>3. QED BY <1>1, <1>2, LifeInit, IInvInit, IInvNext, PTL DEF Spec

-----------------------------------------------------------------------------
(* The steps of the application thread: what may follow what.              *)
\* The steps of the application thread, and what may come after each ("none" is the end).
Steps == {"exchange", "close", "finished", "cancelled", "restore", "restored", "destroy", "capture",
          "stopped", "windows"}
After(s) ==
  IF s \in {"exchange", "close", "finished"} THEN {"stopped", "cancelled", "restore"}
  ELSE IF s = "cancelled" THEN {"windows", "destroy"}
  ELSE IF s = "restore" THEN {"restored"}
  ELSE IF s = "restored" THEN {"destroy"}
  ELSE IF s = "destroy" THEN {"capture", "none"}
  ELSE IF s = "capture" THEN {"stopped"}
  ELSE IF s = "stopped" THEN {"windows"}
  ELSE {"none"}

First(t) == IF t = <<>> THEN "none" ELSE Head(t)

Orderly(t) ==
  /\ t \in Seq(Steps)
  /\ \A i \in 1 .. Len(t) : (IF i = Len(t) THEN "none" ELSE t[i + 1]) \in After(t[i])

LEMMA EmptyIsOrderly == Orderly(<<>>) /\ First(<<>>) = "none" /\ ToSet(<<>>) = {}
BY DEF Orderly, First, ToSet

\* What is left when the first step is done.
LEMMA Popped ==
  ASSUME NEW t, Orderly(t), t # <<>>
  PROVE  /\ Orderly(Tail(t)) /\ First(t) = Head(t) /\ Head(t) \in Steps
         /\ First(Tail(t)) \in After(Head(t))
         /\ ToSet(t) = {Head(t)} \cup ToSet(Tail(t))
<1> DEFINE u == Tail(t)
           n == Len(u)
<1>1. t \in Seq(Steps) /\ Len(t) = n + 1 /\ n \in Nat /\ Head(t) = t[1] /\ t[1] \in Steps
  BY DEF Orderly
<1>2. u \in Seq(Steps) /\ DOMAIN u = 1 .. n /\ DOMAIN t = 1 .. n + 1
      /\ \A i \in 1 .. n : u[i] = t[i + 1]
  BY <1>1
<1>3. u = <<>> <=> n = 0
  BY <1>2
<1>4. u # <<>> => Head(u) = u[1]
  BY <1>2
<1>5. \A i \in 1 .. n + 1 : (IF i = n + 1 THEN "none" ELSE t[i + 1]) \in After(t[i])
  BY <1>1 DEF Orderly
<1>6. Len(u) = n
  OBVIOUS
<1> HIDE DEF u, n
<1>7. Orderly(u)
  <2> SUFFICES ASSUME NEW i \in 1 .. n
               PROVE  (IF i = n THEN "none" ELSE u[i + 1]) \in After(u[i])
    BY <1>2, <1>6 DEF Orderly
  <2>1. i + 1 \in 1 .. n + 1 /\ u[i] = t[i + 1] /\ (i + 1 = n + 1 <=> i = n)
    BY <1>1, <1>2
  <2>2. (IF i + 1 = n + 1 THEN "none" ELSE t[i + 1 + 1]) \in After(t[i + 1])
    BY <2>1, <1>5
  <2>3. ASSUME i # n PROVE u[i + 1] = t[i + 1 + 1]
    <3>1. i + 1 \in 1 .. n
      BY <2>3, <1>1
    <3>2. QED BY <3>1, <1>2
  <2>4. QED BY <2>1, <2>2, <2>3
<1>8. First(u) \in After(t[1])
  <2>1. (IF 1 = n + 1 THEN "none" ELSE t[1 + 1]) \in After(t[1])
    <3>1. 1 \in 1 .. n + 1
      BY <1>1
    <3>2. QED BY <3>1, <1>5
  <2>2. CASE n = 0
    BY <2>1, <2>2, <1>3 DEF First
  <2>3. CASE n # 0
    <3>1. 1 \in 1 .. n /\ 1 # n + 1
      BY <2>3, <1>1
    <3>2. u[1] = t[1 + 1] /\ First(u) = u[1]
      BY <3>1, <2>3, <1>2, <1>3, <1>4 DEF First
    <3>3. QED BY <3>1, <3>2, <2>1
  <2>4. QED BY <2>2, <2>3
<1>9. ToSet(t) = {t[1]} \cup ToSet(u)
  <2>1. ASSUME NEW x \in ToSet(t) PROVE x \in {t[1]} \cup ToSet(u)
    <3>1. PICK i \in 1 .. n + 1 : x = t[i]
      BY <1>2 DEF ToSet
    <3>2. CASE i = 1
      BY <3>1, <3>2
    <3>3. CASE i # 1
      <4>1. i - 1 \in 1 .. n /\ i - 1 + 1 = i
        BY <1>1, <3>3
      <4>2. u[i - 1] = x
        BY <4>1, <3>1, <1>2
      <4>3. QED BY <4>1, <4>2, <1>2 DEF ToSet
    <3>4. QED BY <3>2, <3>3
  <2>2. ASSUME NEW x \in ToSet(u) PROVE x \in ToSet(t)
    <3>1. PICK i \in 1 .. n : x = u[i]
      BY <1>2 DEF ToSet
    <3>2. i + 1 \in 1 .. n + 1 /\ x = t[i + 1]
      BY <1>1, <1>2, <3>1
    <3>3. QED BY <3>2, <1>2 DEF ToSet
  <2>3. t[1] \in ToSet(t)
    <3>1. 1 \in 1 .. n + 1
      BY <1>1
    <3>2. QED BY <3>1, <1>2 DEF ToSet
  <2>4. QED BY <2>1, <2>2, <2>3
<1>10. QED BY <1>1, <1>7, <1>8, <1>9 DEF u, First

\* A step that is put before the others.
LEMMA Pushed ==
  ASSUME NEW t, Orderly(t), NEW s \in Steps, First(t) \in After(s)
  PROVE  /\ Orderly(<<s>> \o t) /\ First(<<s>> \o t) = s
         /\ ToSet(<<s>> \o t) = {s} \cup ToSet(t)
<1> DEFINE u == <<s>> \o t
<1>1. t \in Seq(Steps) /\ Len(t) \in Nat /\ DOMAIN t = 1 .. Len(t)
  BY DEF Orderly
<1>2. u \in Seq(Steps) /\ Len(u) = Len(t) + 1 /\ DOMAIN u = 1 .. Len(t) + 1 /\ u[1] = s
      /\ \A i \in 1 .. Len(t) : u[i + 1] = t[i]
  BY <1>1
<1>3. u # <<>> /\ Head(u) = s
  BY <1>1, <1>2
<1>4. t = <<>> <=> Len(t) = 0
  BY <1>1
<1>5. t # <<>> => Head(t) = t[1]
  BY <1>1
<1> HIDE DEF u
<1>6. Orderly(u)
  <2> SUFFICES ASSUME NEW i \in 1 .. Len(u)
               PROVE  (IF i = Len(u) THEN "none" ELSE u[i + 1]) \in After(u[i])
    BY <1>2 DEF Orderly
  <2>1. CASE i = 1
    <3>1. CASE t = <<>>
      BY <2>1, <3>1, <1>1, <1>2, <1>4 DEF First
    <3>2. CASE t # <<>>
      <4>1. 1 \in 1 .. Len(t) /\ 1 # Len(u)
        BY <3>2, <1>1, <1>2, <1>4
      <4>2. u[1 + 1] = t[1] /\ First(t) = t[1]
        BY <4>1, <1>2, <1>5, <3>2 DEF First
      <4>3. QED BY <4>1, <4>2, <2>1, <1>2
    <3>3. QED BY <3>1, <3>2
  <2>2. CASE i # 1
    <3>1. i - 1 \in 1 .. Len(t) /\ u[i - 1 + 1] = t[i - 1] /\ i - 1 + 1 = i
      BY <2>2, <1>1, <1>2
    <3>2. (IF i - 1 = Len(t) THEN "none" ELSE t[i - 1 + 1]) \in After(t[i - 1])
      BY <3>1 DEF Orderly
    <3>3. i # Len(u) => u[i + 1] = t[i]
      BY <3>1, <1>1, <1>2
    <3>4. QED BY <3>1, <3>2, <3>3, <1>1, <1>2
  <2>3. QED BY <2>1, <2>2
<1>7. ToSet(u) = {s} \cup ToSet(t)
  <2>1. ASSUME NEW x \in ToSet(u) PROVE x \in {s} \cup ToSet(t)
    <3>1. PICK i \in 1 .. Len(t) + 1 : x = u[i]
      BY <1>2 DEF ToSet
    <3>2. CASE i = 1
      BY <3>1, <3>2, <1>2
    <3>3. CASE i # 1
      <4>1. i - 1 \in 1 .. Len(t) /\ u[i - 1 + 1] = t[i - 1] /\ i - 1 + 1 = i
        BY <1>1, <1>2, <3>1, <3>3
      <4>2. QED BY <4>1, <1>1, <3>1 DEF ToSet
    <3>4. QED BY <3>2, <3>3
  <2>2. ASSUME NEW x \in ToSet(t) PROVE x \in ToSet(u)
    <3>1. PICK i \in 1 .. Len(t) : x = t[i]
      BY <1>1 DEF ToSet
    <3>2. i + 1 \in 1 .. Len(t) + 1 /\ x = u[i + 1]
      BY <1>1, <1>2, <3>1
    <3>3. QED BY <3>2, <1>2 DEF ToSet
  <2>3. s \in ToSet(u)
    <3>1. 1 \in DOMAIN u /\ u[1] = s
      BY <1>1, <1>2
    <3>2. QED BY <3>1 DEF ToSet
  <2>4. QED BY <2>1, <2>2, <2>3
<1>8. QED BY <1>3, <1>6, <1>7 DEF u, First

\* Two steps are put before the others one after the other, none is nothing.
LEMMA Joined ==
  ASSUME NEW t \in Seq(Steps), NEW a \in Steps, NEW b \in Steps
  PROVE  /\ <<>> \o t = t /\ t \o <<>> = t
         /\ <<a, b>> \o t = <<a>> \o (<<b>> \o t)
<1>1. <<>> \in Seq(Steps) /\ <<a>> \in Seq(Steps) /\ <<b>> \in Seq(Steps) /\ <<a, b>> \in Seq(Steps)
  OBVIOUS
<1>2. <<>> \o t = t /\ t \o <<>> = t
  BY ConcatEmptySeq
<1>3. <<a, b>> = <<a>> \o <<b>>
  <2> DEFINE r == Append(<<a>>, b)
             p == <<a, b>>
  <2>1. r = <<a>> \o <<b>>
    BY <1>1, AppendIsConcat
  <2>2. Len(<<a>>) = 1 /\ <<a>>[1] = a
    OBVIOUS
  <2>3. r \in Seq(Steps) /\ Len(r) = 2 /\ r[1] = a /\ r[2] = b
    <3>1. /\ r \in Seq(Steps) /\ Len(r) = Len(<<a>>) + 1
          /\ \A i \in 1 .. Len(<<a>>) : r[i] = <<a>>[i]
          /\ r[Len(<<a>>) + 1] = b
      BY <1>1, AppendProperties
    <3> HIDE DEF r
    <3>2. QED BY <3>1, <2>2
  <2>4. p \in Seq(Steps) /\ Len(p) = 2 /\ p[1] = a /\ p[2] = b
    OBVIOUS
  <2> HIDE DEF r, p
  <2>5. \A i \in 1 .. 2 : r[i] = p[i]
    BY <2>3, <2>4
  <2>6. r = p
    BY <2>3, <2>4, <2>5, SeqEqual
  <2>7. QED BY <2>1, <2>6 DEF p
<1>4. (<<a>> \o <<b>>) \o t = <<a>> \o (<<b>> \o t)
  BY <1>1, ConcatAssociative
<1>5. QED BY <1>2, <1>3, <1>4

\* The steps of a frame from its capture on, which end it.
LEMMA NothingEndsWell ==
  ASSUME NEW t, Orderly(t), First(t) = "none"
  PROVE  t = <<>>
<1>1. t # <<>> => Head(t) \in Steps /\ First(t) = Head(t)
  BY Popped
<1>2. QED BY <1>1 DEF Steps

LEMMA LastSteps ==
  ASSUME NEW t, Orderly(t), First(t) \in {"capture", "stopped", "windows", "none"}
  PROVE  ToSet(t) \subseteq {"capture", "stopped", "windows"}
<1>1. ASSUME NEW u, Orderly(u), First(u) = "none" PROVE ToSet(u) = {}
  BY <1>1, NothingEndsWell, EmptyIsOrderly
<1>2. ASSUME NEW u, Orderly(u), First(u) = "windows" PROVE ToSet(u) \subseteq {"windows"}
  <2>1. u # <<>>
    BY <1>2 DEF First
  <2>2. First(Tail(u)) = "none" /\ Orderly(Tail(u)) /\ ToSet(u) = {"windows"} \cup ToSet(Tail(u))
    BY <2>1, <1>2, Popped DEF After
  <2>3. QED BY <2>2, <1>1
<1>3. ASSUME NEW u, Orderly(u), First(u) = "stopped" PROVE ToSet(u) \subseteq {"stopped", "windows"}
  <2>1. u # <<>>
    BY <1>3 DEF First
  <2>2. First(Tail(u)) = "windows" /\ Orderly(Tail(u)) /\ ToSet(u) = {"stopped"} \cup ToSet(Tail(u))
    BY <2>1, <1>3, Popped DEF After
  <2>3. QED BY <2>2, <1>2
<1>4. ASSUME First(t) = "capture" PROVE ToSet(t) \subseteq {"capture", "stopped", "windows"}
  <2>1. t # <<>>
    BY <1>4 DEF First
  <2>2. First(Tail(t)) = "stopped" /\ Orderly(Tail(t)) /\ ToSet(t) = {"capture"} \cup ToSet(Tail(t))
    BY <2>1, <1>4, Popped DEF After
  <2>3. QED BY <2>2, <1>3
<1>5. QED BY <1>1, <1>2, <1>3, <1>4

\* How the steps change from t to u: the first one is done, or becomes another one, or
\* others are put before it (where the step that asks for them may be among them).
Done(t, u, s) == First(t) = s /\ First(u) \in After(s) /\ ToSet(t) = {s} \cup ToSet(u)
Becomes(t, u, s, x) ==
  /\ First(t) = s /\ First(u) = x
  /\ ToSet(u) \subseteq {x} \cup ToSet(t) /\ ToSet(t) \subseteq {s} \cup ToSet(u)
Preceded(t, u, x, before) == First(u) = x /\ ToSet(u) = before \cup ToSet(t)

LEMMA PushedTwice ==
  ASSUME NEW t, Orderly(t), NEW a \in Steps, NEW b \in Steps, First(t) \in After(b), b \in After(a)
  PROVE  /\ Orderly(<<a, b>> \o t) /\ First(<<a, b>> \o t) = a
         /\ ToSet(<<a, b>> \o t) = {a, b} \cup ToSet(t)
<1> DEFINE u == <<b>> \o t
           v == <<a>> \o u
<1>1. Orderly(u) /\ First(u) = b /\ ToSet(u) = {b} \cup ToSet(t)
  BY Pushed
<1> HIDE DEF u
<1>2. Orderly(v) /\ First(v) = a /\ ToSet(v) = {a} \cup ToSet(u)
  BY <1>1, Pushed
<1>3. <<a, b>> \o t = v
  BY Joined DEF Orderly, u
<1> HIDE DEF v
<1>4. QED BY <1>1, <1>2, <1>3

\* The steps of an export that is destroyed while it runs.
LEMMA StepsToCancel ==
  ASSUME NEW r, Orderly(r), First(r) \in {"capture", "none"}, NEW video \in BOOLEAN
  PROVE  LET u == ((IF video THEN <<"exchange">> ELSE <<>>) \o <<"cancelled", "destroy">>) \o r
         IN  /\ Orderly(u) /\ First(u) = (IF video THEN "exchange" ELSE "cancelled")
             /\ ToSet(u) = (IF video THEN {"exchange"} ELSE {}) \cup {"cancelled", "destroy"} \cup ToSet(r)
<1> DEFINE b == <<"cancelled", "destroy">>
           v == b \o r
           w == <<"exchange">> \o v
<1>1. Orderly(v) /\ First(v) = "cancelled" /\ ToSet(v) = {"cancelled", "destroy"} \cup ToSet(r)
  BY PushedTwice DEF Steps, After
<1>2. r \in Seq(Steps) /\ b \in Seq(Steps) /\ <<"exchange">> \in Seq(Steps)
  BY DEF Orderly, Steps
<1>3. (<<"exchange">> \o b) \o r = w
  BY <1>2, ConcatAssociative
<1>4. <<>> \o b = b
  BY <1>2, ConcatEmptySeq
<1> HIDE DEF v
<1>5. Orderly(w) /\ First(w) = "exchange" /\ ToSet(w) = {"exchange"} \cup ToSet(v)
  BY <1>1, Pushed DEF Steps, After
<1> HIDE DEF w, b
<1>6. CASE video
  BY <1>1, <1>3, <1>5, <1>6 DEF b
<1>7. CASE ~video
  BY <1>1, <1>4, <1>7 DEF v, b
<1>8. QED BY <1>6, <1>7

\* The steps that give the project back.
LEMMA StepsToRestore ==
  ASSUME NEW r, Orderly(r), First(r) \in {"capture", "none"}
  PROVE  LET u == (RestoreSteps \o <<"restored", "destroy">>) \o r
             before == IF kind = "image" THEN {"restore"} ELSE IF saved THEN {"exchange", "restore"} ELSE {}
         IN  /\ Orderly(u)
             /\ First(u) = (IF kind = "image" THEN "restore" ELSE IF saved THEN "exchange" ELSE "restored")
             /\ ToSet(u) = before \cup {"restored", "destroy"} \cup ToSet(r)
<1> DEFINE b == <<"restored", "destroy">>
           v == b \o r
           w == <<"restore">> \o v
           x == <<"exchange">> \o w
<1>1. Orderly(v) /\ First(v) = "restored" /\ ToSet(v) = {"restored", "destroy"} \cup ToSet(r)
  BY PushedTwice DEF Steps, After
<1>2. /\ r \in Seq(Steps) /\ b \in Seq(Steps) /\ <<"exchange">> \in Seq(Steps)
      /\ <<"restore">> \in Seq(Steps) /\ <<"exchange", "restore">> \in Seq(Steps)
      /\ "exchange" \in Steps /\ "restore" \in Steps
  BY DEF Orderly, Steps
<1>3. v \in Seq(Steps)
  BY <1>1 DEF Orderly
<1>4. (<<"restore">> \o b) \o r = w
  BY <1>2, ConcatAssociative
<1>5. (<<"exchange", "restore">> \o b) \o r = <<"exchange", "restore">> \o v
  BY <1>2, ConcatAssociative
<1>6. <<>> \o b = b
  BY <1>2, ConcatEmptySeq
<1> HIDE DEF v
<1>7. <<"exchange", "restore">> \o v = x
  BY <1>2, <1>3, Joined
<1>8. Orderly(w) /\ First(w) = "restore" /\ ToSet(w) = {"restore"} \cup ToSet(v)
  BY <1>1, Pushed DEF Steps, After
<1> HIDE DEF w
<1>9. Orderly(x) /\ First(x) = "exchange" /\ ToSet(x) = {"exchange"} \cup ToSet(w)
  BY <1>8, Pushed DEF Steps, After
<1> HIDE DEF x, b
<1>10. CASE kind = "image"
  BY <1>1, <1>4, <1>8, <1>10 DEF b, RestoreSteps
<1>11. CASE kind # "image" /\ saved
  BY <1>1, <1>5, <1>7, <1>8, <1>9, <1>11 DEF b, RestoreSteps
<1>12. CASE kind # "image" /\ ~saved
  BY <1>1, <1>6, <1>12 DEF v, b, RestoreSteps
<1>13. QED BY <1>10, <1>11, <1>12

\* The steps of a drawn frame.
LEMMA StepsOfFrame ==
  ASSUME NEW destroys \in BOOLEAN
  PROVE  LET u == (IF destroys THEN <<"destroy">> ELSE <<>>) \o <<"capture", "stopped", "windows">>
         IN  /\ Orderly(u) /\ First(u) = (IF destroys THEN "destroy" ELSE "capture")
             /\ ToSet(u) = (IF destroys THEN {"destroy"} ELSE {}) \cup {"capture", "stopped", "windows"}
<1> DEFINE f == <<"capture", "stopped", "windows">>
           v == <<"destroy">> \o f
<1>1. Orderly(f) /\ First(f) = "capture"
  BY DEF Orderly, First, After, Steps
<1>2. ToSet(f) = {"capture", "stopped", "windows"}
  <2>1. DOMAIN f = {1, 2, 3}
    OBVIOUS
  <2>2. QED BY <2>1 DEF ToSet
<1>3. <<>> \o f = f
  BY <1>1, ConcatEmptySeq DEF Orderly
<1> HIDE DEF f
<1>4. Orderly(v) /\ First(v) = "destroy" /\ ToSet(v) = {"destroy"} \cup ToSet(f)
  BY <1>1, Pushed DEF Steps, After
<1> HIDE DEF v
<1>5. QED BY <1>1, <1>2, <1>3, <1>4 DEF v, f

LEMMA TodoDone ==
  ASSUME Orderly(todo), NEW s, Doing(s), Then(<<>>)
  PROVE  Orderly(todo') /\ Done(todo, todo', s)
<1>1. todo # <<>> /\ Head(todo) = s /\ todo' = <<>> \o Tail(todo)
  BY DEF Doing, Then
<1>2. Orderly(Tail(todo)) /\ First(todo) = s /\ First(Tail(todo)) \in After(s)
      /\ ToSet(todo) = {s} \cup ToSet(Tail(todo))
  BY <1>1, Popped
<1>3. todo' = Tail(todo)
  BY <1>1, <1>2, ConcatEmptySeq DEF Orderly
<1>4. QED BY <1>2, <1>3 DEF Done

LEMMA TodoBecomes ==
  ASSUME Orderly(todo), NEW s, NEW x \in Steps, After(s) \subseteq After(x), Doing(s), Then(<<x>>)
  PROVE  Orderly(todo') /\ Becomes(todo, todo', s, x)
<1>1. todo # <<>> /\ Head(todo) = s /\ todo' = <<x>> \o Tail(todo)
  BY DEF Doing, Then
<1>2. Orderly(Tail(todo)) /\ First(todo) = s /\ First(Tail(todo)) \in After(s)
      /\ ToSet(todo) = {s} \cup ToSet(Tail(todo))
  BY <1>1, Popped
<1> DEFINE r == Tail(todo)
<1> HIDE DEF r
<1>3. Orderly(<<x>> \o r) /\ First(<<x>> \o r) = x /\ ToSet(<<x>> \o r) = {x} \cup ToSet(r)
  BY <1>2, Pushed DEF r
<1>4. QED BY <1>1, <1>2, <1>3 DEF Becomes, r

\* Which steps the actions leave, by the operations that change them.
LEMMA TodoOfFrame ==
  ASSUME Orderly(todo), pending \in BOOLEAN, Draw
  PROVE  /\ Orderly(todo') /\ First(todo) = "none" /\ First(todo') = (IF pending THEN "destroy" ELSE "capture")
         /\ ToSet(todo') = (IF pending THEN {"destroy"} ELSE {}) \cup {"capture", "stopped", "windows"}
BY StepsOfFrame DEF Draw, Idle, First

LEMMA TodoOfRead ==
  ASSUME Orderly(todo), NEW a, Doing("capture"), Advance(a)
  PROVE  /\ Orderly(todo')
         /\ \/ Done(todo, todo', "capture")
            \/ Becomes(todo, todo', "capture", "exchange") /\ plugin
               /\ Start + (at + 1) \div Scale > End - Start
<1>1. CASE Start + (at + 1) \div Scale > End - Start /\ plugin
  <2>1. Then(<<"exchange">>)
    BY <1>1 DEF Advance
  <2>2. QED BY <1>1, <2>1, TodoBecomes DEF Steps, After
<1>2. CASE ~(Start + (at + 1) \div Scale > End - Start /\ plugin)
  <2>1. Then(<<>>)
    BY <1>2 DEF Advance
  <2>2. QED BY <2>1, TodoDone
<1>3. QED BY <1>1, <1>2

LEMMA TodoOfExchange ==
  ASSUME Orderly(todo), Exchange
  PROVE  /\ Orderly(todo')
         /\ \/ ~plugin /\ Done(todo, todo', "exchange")
            \/ plugin /\ Becomes(todo, todo', "exchange", "close")
<1>1. CASE plugin
  <2>1. Doing("exchange") /\ Then(<<"close">>)
    BY <1>1 DEF Exchange
  <2>2. QED BY <1>1, <2>1, TodoBecomes DEF Steps, After
<1>2. CASE ~plugin
  <2>1. Doing("exchange") /\ Then(<<>>)
    BY <1>2 DEF Exchange
  <2>2. QED BY <1>2, <2>1, TodoDone
<1>3. QED BY <1>1, <1>2

LEMMA TodoOfClose ==
  ASSUME Orderly(todo), Close
  PROVE  Orderly(todo') /\ Becomes(todo, todo', "close", "finished")
<1>1. Doing("close") /\ Then(<<"finished">>)
  BY DEF Close
<1>2. QED BY <1>1, TodoBecomes DEF Steps, After

LEMMA TodoOfCancel ==
  ASSUME Orderly(todo), PressCancel
  PROVE  /\ Orderly(todo') /\ First(todo) = "windows"
         /\ First(todo') = (IF kind = "video" THEN "exchange" ELSE "cancelled")
         /\ ToSet(todo') = (IF kind = "video" THEN {"exchange"} ELSE {}) \cup {"cancelled"} \cup ToSet(todo)
<1>1. First(todo) = "windows"
  BY DEF PressCancel, Doing, First
<1>2. CASE kind = "video"
  <2>1. todo' = <<"exchange", "cancelled">> \o todo
    BY <1>2 DEF PressCancel
  <2>2. Orderly(<<"exchange", "cancelled">> \o todo) /\ First(<<"exchange", "cancelled">> \o todo) = "exchange"
        /\ ToSet(<<"exchange", "cancelled">> \o todo) = {"exchange", "cancelled"} \cup ToSet(todo)
    BY <1>1, PushedTwice DEF Steps, After
  <2>3. QED BY <1>1, <1>2, <2>1, <2>2
<1>3. CASE kind # "video"
  <2>1. todo' = <<"cancelled">> \o todo
    BY <1>3 DEF PressCancel
  <2>2. Orderly(<<"cancelled">> \o todo) /\ First(<<"cancelled">> \o todo) = "cancelled"
        /\ ToSet(<<"cancelled">> \o todo) = {"cancelled"} \cup ToSet(todo)
    BY <1>1, Pushed DEF Steps, After
  <2>3. QED BY <1>1, <1>3, <2>1, <2>2
<1>4. QED BY <1>2, <1>3

\* A step of the destruction keeps the step that asks for it, and puts before it what is
\* still to be done.
LEMMA TodoOfDestruction ==
  ASSUME Orderly(todo), TransitDestruction
  PROVE  /\ Orderly(todo') /\ First(todo) = "destroy" /\ "destroy" \in ToSet(todo)
         /\ \/ /\ state \in {"Initialized", "Configured", "Ready", "Blitted"} /\ state' = state
               /\ First(todo') = (IF kind = "video" THEN "exchange" ELSE "cancelled")
               /\ ToSet(todo') = (IF kind = "video" THEN {"exchange"} ELSE {}) \cup {"cancelled"} \cup ToSet(todo)
            \/ state \in {"None", "Finished", "Cancelled"} /\ state' = "DestroyReady" /\ todo' = todo
            \/ /\ state = "DestroyReady" /\ state' = state
               /\ First(todo') = (IF kind = "image" THEN "restore" ELSE IF saved THEN "exchange" ELSE "restored")
               /\ ToSet(todo') = (IF kind = "image" THEN {"restore"} ELSE IF saved THEN {"exchange", "restore"} ELSE {})
                                   \cup {"restored"} \cup ToSet(todo)
            \/ state = "Restored" /\ Reads = {} /\ state' = "Destroyed" /\ todo' = todo
<1>1. todo # <<>> /\ Head(todo) = "destroy"
  BY DEF TransitDestruction, Doing
<1>2. Orderly(Tail(todo)) /\ First(todo) = "destroy" /\ First(Tail(todo)) \in {"capture", "none"}
      /\ ToSet(todo) = {"destroy"} \cup ToSet(Tail(todo))
  BY <1>1, Popped DEF After
<1> DEFINE r == Tail(todo)
           c == ((IF kind = "video" THEN <<"exchange">> ELSE <<>>) \o <<"cancelled", "destroy">>) \o r
           d == (RestoreSteps \o <<"restored", "destroy">>) \o r
<1>3. /\ Orderly(c) /\ First(c) = (IF kind = "video" THEN "exchange" ELSE "cancelled")
      /\ ToSet(c) = (IF kind = "video" THEN {"exchange"} ELSE {}) \cup {"cancelled", "destroy"} \cup ToSet(r)
  BY <1>2, StepsToCancel
<1>4. /\ Orderly(d)
      /\ First(d) = (IF kind = "image" THEN "restore" ELSE IF saved THEN "exchange" ELSE "restored")
      /\ ToSet(d) = (IF kind = "image" THEN {"restore"} ELSE IF saved THEN {"exchange", "restore"} ELSE {})
                      \cup {"restored", "destroy"} \cup ToSet(r)
  BY <1>2, StepsToRestore
<1>5. \/ state \in {"Initialized", "Configured", "Ready", "Blitted"} /\ state' = state /\ todo' = c
      \/ state \in {"None", "Finished", "Cancelled"} /\ state' = "DestroyReady" /\ todo' = todo
      \/ state = "DestroyReady" /\ state' = state /\ todo' = d
      \/ state = "Restored" /\ Reads = {} /\ state' = "Destroyed" /\ todo' = todo
  BY DEF TransitDestruction, Then
<1> HIDE DEF c, d
<1>6. ToSet(todo) = {"destroy"} \cup ToSet(r)
  BY <1>2
<1> HIDE DEF r
<1>7. CASE state \in {"Initialized", "Configured", "Ready", "Blitted"} /\ state' = state /\ todo' = c
  <2>1. ToSet(c) = (IF kind = "video" THEN {"exchange"} ELSE {}) \cup {"cancelled"} \cup ToSet(todo)
    BY <1>3, <1>6
  <2>2. QED BY <1>2, <1>3, <1>7, <2>1
<1>8. CASE state = "DestroyReady" /\ state' = state /\ todo' = d
  <2>1. ToSet(d) = (IF kind = "image" THEN {"restore"} ELSE IF saved THEN {"exchange", "restore"} ELSE {})
                      \cup {"restored"} \cup ToSet(todo)
    BY <1>4, <1>6
  <2>2. QED BY <1>2, <1>4, <1>8, <2>1
<1>9. QED BY <1>2, <1>5, <1>7, <1>8

\* The export that is called off, or that cannot start, is destroyed at once.
LEMMA OnlyDestroy ==
  Orderly(<<"destroy">>) /\ First(<<"destroy">>) = "destroy" /\ ToSet(<<"destroy">>) = {"destroy"}
<1> DEFINE u == <<"destroy">> \o <<>>
<1>1. u = <<"destroy">>
  BY ConcatEmptySeq, <<"destroy">> \in Seq(Steps) DEF Steps
<1>2. Orderly(u) /\ First(u) = "destroy" /\ ToSet(u) = {"destroy"} \cup ToSet(<<>>)
  BY Pushed, EmptyIsOrderly DEF Steps, After
<1> HIDE DEF u
<1>3. QED BY <1>1, <1>2, EmptyIsOrderly

\* The actions that do the first step and leave the others as they are.
LEMMA TodoOfSteps ==
  ASSUME Orderly(todo)
  PROVE  /\ (Prepare \/ CaptureNothing \/ WriteImage => Done(todo, todo', "capture"))
         /\ (Finish => Done(todo, todo', "finished"))
         /\ (Cancelled => Done(todo, todo', "cancelled"))
         /\ (NoteStopped => Done(todo, todo', "stopped"))
         /\ (Commit => Done(todo, todo', "windows"))
         /\ (Restore => Done(todo, todo', "restore"))
         /\ (Restored => Done(todo, todo', "restored"))
         /\ (Delete => Done(todo, todo', "destroy"))
         /\ (Prepare \/ CaptureNothing \/ WriteImage \/ Finish \/ Cancelled \/ NoteStopped \/ Commit
             \/ Restore \/ Restored \/ Delete => Orderly(todo'))
<1>1. ASSUME NEW s, Doing(s), Then(<<>>) PROVE Orderly(todo') /\ Done(todo, todo', s)
  BY <1>1, TodoDone
<1>2. Prepare \/ CaptureNothing \/ WriteImage => Doing("capture") /\ Then(<<>>)
  BY DEF Prepare, CaptureNothing, WriteImage
<1>3. /\ (Finish => Doing("finished") /\ Then(<<>>)) /\ (Cancelled => Doing("cancelled") /\ Then(<<>>))
      /\ (Commit => Doing("windows") /\ Then(<<>>)) /\ (NoteStopped => Doing("stopped") /\ Then(<<>>))
  BY DEF Finish, Cancelled, NoteStopped, Commit
<1>4. /\ (Restore => Doing("restore") /\ Then(<<>>)) /\ (Restored => Doing("restored") /\ Then(<<>>))
      /\ (Delete => Doing("destroy") /\ Then(<<>>))
  BY DEF Restore, Restored, Delete
<1>5. QED BY <1>1, <1>2, <1>3, <1>4

StepsInOrder == Orderly(todo) /\ pending \in BOOLEAN

\* The actions that are no step of the application thread.
Apart == 
  \/ OnAccepted \/ OnCancelled \/ ClosePanel
  \/ (\E k \in {"image", "video"} : Request(k))
  \/ (\E r \in flying : Enter(r)) \/ Check \/ LoadPlugin \/ EncodeAudio
  \/ EncodeVideo \/ Fail \/ Shut \/ Leave
  \/ (\E r \in left : DecrementAsyncCount(r))
  \/ UNCHANGED vars

LEMMA ApartLeavesTodo == Apart => UNCHANGED <<todo, pending>>
BY DEF Apart, OnAccepted, OnCancelled, ClosePanel, Request, Enter, Check, LoadPlugin,
  EncodeAudio, EncodeVideo, Fail, Shut, Leave, DecrementAsyncCount, vars

LEMMA TodoInit == Init => StepsInOrder
BY EmptyIsOrderly DEF Init, StepsInOrder

LEMMA TodoNext ==
  ASSUME StepsInOrder, [Next]_vars
  PROVE  StepsInOrder'
<1> USE DEF StepsInOrder
<1>1. CASE Apart
  BY <1>1, ApartLeavesTodo
<1>2. CASE Draw
  BY <1>2, TodoOfFrame DEF Draw
<1>3. CASE ReadAsync \/ ReadAndEncode
  <2>1. Doing("capture") /\ \E a : Advance(a)
    BY <1>3 DEF ReadAsync, ReadAndEncode
  <2>2. pending' = pending
    BY <1>3 DEF ReadAsync, ReadAndEncode
  <2>3. QED BY <2>1, <2>2, TodoOfRead
<1>4. CASE Exchange \/ Close
  BY <1>4, TodoOfExchange, TodoOfClose DEF Exchange, Close
<1>5. CASE PressCancel
  BY <1>5, TodoOfCancel DEF PressCancel
<1>6. CASE TransitDestruction
  BY <1>6, TodoOfDestruction DEF TransitDestruction
<1>7. CASE Execute \/ CallOff
  <2>1. todo' \in {todo, <<>>, <<"destroy">>} /\ pending' = pending
    BY <1>7 DEF Execute, CallOff
  <2>2. QED BY <2>1, EmptyIsOrderly, OnlyDestroy
<1>8. CASE \/ Prepare \/ CaptureNothing \/ WriteImage \/ Finish \/ Cancelled \/ NoteStopped \/ Commit
           \/ Restore \/ Restored \/ Delete
  <2>1. Orderly(todo')
    BY <1>8, TodoOfSteps
  <2>2. pending' \in BOOLEAN
    BY <1>8 DEF Prepare, CaptureNothing, WriteImage, Finish, Cancelled, NoteStopped, Commit,
       Restore, Restored, Delete
  <2>3. QED BY <2>1, <2>2
<1>9. QED
  BY <1>1, <1>2, <1>3, <1>4, <1>5, <1>6, <1>7, <1>8
     DEF Next, DrawSteps, HandlerSteps, UserSteps, Apart

-----------------------------------------------------------------------------
\* Where the object of the export is, and what it may still do.
LEMMA Orders ==
  /\ Over("Finished") /\ Over("DestroyReady") /\ Over("Cancelled") /\ Over("Restored") /\ Over("Destroyed")
  /\ ~Over("None") /\ ~Over("Initialized") /\ ~Over("Configured") /\ ~Over("Ready") /\ ~Over("Blitted")
<1>1. ASSUME NEW i \in 1 .. 10 PROVE Order(States[i]) = i
  <2>1. DOMAIN States = 1 .. 10
    BY DEF States
  <2>2. \A j \in 1 .. 10 : States[j] = States[i] => j = i
    BY DEF States
  <2>3. QED BY <2>1, <2>2 DEF Order
<1>2. /\ States[1] = "None" /\ States[2] = "Initialized" /\ States[3] = "Configured" /\ States[4] = "Ready"
      /\ States[5] = "Blitted" /\ States[6] = "Finished" /\ States[7] = "DestroyReady"
      /\ States[8] = "Cancelled" /\ States[9] = "Restored" /\ States[10] = "Destroyed"
  BY DEF States
<1>3. /\ Order("None") = 1 /\ Order("Initialized") = 2 /\ Order("Configured") = 3 /\ Order("Ready") = 4
      /\ Order("Blitted") = 5 /\ Order("Finished") = 6 /\ Order("DestroyReady") = 7
      /\ Order("Cancelled") = 8 /\ Order("Restored") = 9 /\ Order("Destroyed") = 10
  <2>1. \A i \in 1 .. 10 : Order(States[i]) = i
    BY <1>1
  <2>2. {1, 2, 3, 4, 5, 6, 7, 8, 9, 10} \subseteq 1 .. 10
    OBVIOUS
  <2>3. QED BY <2>1, <2>2, <1>2
<1>4. QED BY <1>3 DEF Over

-----------------------------------------------------------------------------
(* The object of the export.                                               *)
Active == {"Initialized", "Configured", "Ready", "Blitted"}
Waiting == dialog = "configure" \/ host # "none"

\* Without an object nothing is done and nobody is asked; the object of an export waits for
\* its path untouched; it is destroyed later only if it has got further, and it is given
\* back only when its export no longer runs.
OneExport ==
  /\ kind \in {"none", "image", "video"} /\ plugin \in BOOLEAN
  /\ kind = "none" => state = "None" /\ dialog = "none" /\ host = "none"
  /\ kind # "video" => ~plugin /\ First(todo) \notin {"exchange", "close", "finished"}
  /\ kind = "none" => First(todo) \in {"none", "capture", "stopped", "windows"}
  /\ Waiting => state = "None" /\ at = 0 /\ First(todo) \in {"none", "capture", "stopped", "windows"}
  /\ dialog = "none" \/ host = "none"
  /\ pending => state # "None" /\ "destroy" \notin ToSet(todo)
  /\ "restore" \in ToSet(todo) => state \notin Active
  /\ state = "None" => Reads = {}

\* What is known before each step.
Known == IInv /\ LifeIInv /\ StepsInOrder /\ OneExport

LEMMA OneExportInit == Init => OneExport
BY EmptyIsOrderly DEF Init, OneExport, Waiting, Reads, Active

LEMMA UserKeepsOneExport ==
  ASSUME Known, "asked again" \notin Crossings, StepsInOrder', UserSteps
  PROVE  OneExport'
<1> USE DEF Known, object, project, user, handlers, coder, history
<1> DEFINE d == <<"destroy">>
<1>0. First(d) = "destroy" /\ ToSet(d) = {"destroy"} /\ First(<<>>) = "none" /\ ToSet(<<>>) = {}
  BY OnlyDestroy, EmptyIsOrderly
<1> HIDE DEF d
<1>1. ASSUME NEW k \in {"image", "video"}, Request(k) PROVE OneExport'
  <2>1. kind = "none" /\ First(todo) = "none" /\ Reads = {} /\ Reads' = Reads
    BY <1>1 DEF Request, Idle, First, LifeIInv, ReadsOutliveNothing, Reads
  <2>2. ToSet(todo) = {} /\ todo' = todo
    BY <1>1, EmptyIsOrderly DEF Request, Idle
  <2>3. ~pending /\ host = "none"
    BY <2>1 DEF OneExport
  <2>4. kind' = k /\ plugin' = FALSE /\ state' = "None" /\ at' = 0 /\ dialog' = "configure"
        /\ UNCHANGED <<host, pending>>
    BY <1>1 DEF Request
  <2>5. QED BY <2>1, <2>2, <2>3, <2>4 DEF OneExport, Waiting
<1>2. CASE OnAccepted \/ OnCancelled
  <2>1. First(todo) = "windows" /\ todo' = todo /\ Reads' = Reads
    BY <1>2 DEF OnAccepted, OnCancelled, Doing, First, Reads
  <2>2. dialog = "configure" /\ dialog' = "none" /\ host' \in {"panel", "nothing"}
        /\ UNCHANGED <<kind, state, at, pending>> /\ plugin' \in {plugin, kind = "video"}
    BY <1>2 DEF OnAccepted, OnCancelled
  <2>3. plugin' \in BOOLEAN /\ (kind # "video" => ~plugin')
    BY <2>2 DEF OneExport
  <2>4. QED BY <2>1, <2>2, <2>3 DEF OneExport, Waiting
<1>3. CASE ClosePanel
  BY <1>3 DEF ClosePanel, OneExport, Waiting, Reads
<1>4. CASE Execute
  <2>1. First(todo) = "none" /\ ToSet(todo) = {} /\ todo' \in {todo, d} /\ Reads' = Reads
    BY <1>4, EmptyIsOrderly DEF Execute, Idle, First, Reads, d
  <2>2. First(todo') \in {"none", "destroy"} /\ "restore" \notin ToSet(todo')
    <3>1. CASE todo' = todo
      BY <3>1, <2>1
    <3>2. CASE todo' = d
      BY <3>2, <1>0
    <3>3. QED BY <3>1, <3>2, <2>1
  <2>3. ~pending
    BY <1>4 DEF Execute, OneExport, Waiting
  <2>4. Reads = {} /\ dialog = "none" /\ host' = "none" /\ kind # "none" /\ pending' = pending
        /\ kind' = kind /\ plugin' = plugin /\ dialog' \in {dialog, "progress"}
    BY <1>4 DEF Execute, OneExport, Waiting
  <2>5. dialog' # "configure"
    BY <1>4, <2>4 DEF Execute
  <2>6. QED BY <2>1, <2>2, <2>3, <2>4, <2>5 DEF OneExport, Waiting
<1>5. CASE CallOff
  <2>1. First(todo) = "none" /\ ToSet(todo) = {} /\ todo' \in {todo, d} /\ Reads' = Reads
    BY <1>5, EmptyIsOrderly DEF CallOff, Idle, First, Reads, d
  <2>2. First(todo') \in {"none", "destroy"} /\ "restore" \notin ToSet(todo')
    <3>1. CASE todo' = todo
      BY <3>1, <2>1
    <3>2. CASE todo' = d
      BY <3>2, <1>0
    <3>3. QED BY <3>1, <3>2, <2>1
  <2>3. ~pending /\ kind # "none"
    BY <1>5 DEF CallOff, OneExport, Waiting
  <2>4. QED BY <1>5, <2>1, <2>2, <2>3 DEF CallOff, OneExport, Waiting
<1>6. CASE PressCancel
  <2>1. Reads' = Reads
    BY <1>6 DEF PressCancel, Reads
  <2>2. First(todo) = "windows" /\ First(todo') = (IF kind = "video" THEN "exchange" ELSE "cancelled")
        /\ ToSet(todo') = (IF kind = "video" THEN {"exchange"} ELSE {}) \cup {"cancelled"} \cup ToSet(todo)
    BY <1>6, TodoOfCancel DEF StepsInOrder
  <2>3. QED BY <1>6, <2>1, <2>2 DEF PressCancel, OneExport, Waiting
<1>7. QED BY <1>1, <1>2, <1>3, <1>4, <1>5, <1>6 DEF UserSteps

LEMMA HandlersKeepOneExport ==
  ASSUME Known, HandlerSteps
  PROVE  OneExport'
<1> USE DEF Known, object, project, user, handlers, coder, history
<1>1. ASSUME NEW r \in flying, Enter(r) PROVE OneExport'
  <2>1. Reads' \subseteq Reads
    BY <1>1 DEF Enter, Reads
  <2>2. QED BY <1>1, <2>1 DEF Enter, OneExport, Waiting
<1>2. CASE Check \/ LoadPlugin \/ EncodeAudio \/ EncodeVideo
  <2>1. UNCHANGED <<kind, plugin, state, dialog, host, todo, at, pending, recorded, flying, left, inside>>
    BY <1>2 DEF Check, LoadPlugin, EncodeAudio, EncodeVideo
  <2>2. Reads' = Reads
    BY <2>1 DEF Reads
  <2>3. QED BY <2>1, <2>2 DEF OneExport, Waiting
<1>3. CASE Fail \/ Shut
  <2>1. inside \in Nat /\ inside # -1 /\ inside \in Reads
    BY <1>3, ReadIsNumber DEF Fail, Shut, IInv, PTSTypes, Reads
  <2>2. kind = "video" /\ state # "None"
    BY <2>1 DEF LifeIInv, ReadsOutliveNothing, OneExport
  <2>3. /\ UNCHANGED <<kind, dialog, host, todo, at, pending, recorded, flying, left, inside>>
        /\ plugin' \in {plugin, FALSE} /\ state' \in {state, "Cancelled"}
    BY <1>3 DEF Fail, Shut
  <2>4. QED BY <2>2, <2>3 DEF OneExport, Waiting, Active, Reads
<1>4. CASE Leave
  <2>1. inside # -1
    <3>1. stage = "leave"
      BY <1>4 DEF Leave
    <3>2. inside \in Nat
      BY <3>1 DEF IInv, PTSTypes
    <3>3. QED BY <3>2, ReadIsNumber
  <2>2. Reads' \subseteq Reads
    <3>1. left' = left \cup {inside} /\ recorded' = recorded /\ flying' = flying /\ inside' = -1
      BY <1>4 DEF Leave
    <3>2. QED BY <3>1, <2>1 DEF Reads
  <2>3. QED BY <1>4, <2>2 DEF Leave, OneExport, Waiting
<1>5. ASSUME NEW r \in left, DecrementAsyncCount(r) PROVE OneExport'
  <2>1. Reads' \subseteq Reads
    BY <1>5 DEF DecrementAsyncCount, Reads
  <2>2. QED BY <1>5, <2>1 DEF DecrementAsyncCount, OneExport, Waiting
<1>6. QED BY <1>1, <1>2, <1>3, <1>4, <1>5 DEF HandlerSteps

LEMMA DrawKeepsOneExport ==
  ASSUME Known, StepsInOrder', DrawSteps
  PROVE  OneExport'
<1> USE DEF Known, object, project, user, handlers, coder, history
<1>1. CASE Draw
  <2>1. First(todo') = (IF pending THEN "destroy" ELSE "capture") /\ "restore" \notin ToSet(todo')
    BY <1>1, TodoOfFrame DEF StepsInOrder
  <2>2. ~pending' /\ kind # "none" /\ UNCHANGED <<kind, plugin, state, dialog, host, at, recorded, flying, left, inside>>
    BY <1>1 DEF Draw
  <2>3. QED BY <2>1, <2>2 DEF OneExport, Waiting, Reads
<1>2. CASE Prepare \/ CaptureNothing \/ WriteImage
  <2>1. Done(todo, todo', "capture") /\ ToSet(todo) \subseteq {"capture", "stopped", "windows"}
    BY <1>2, TodoOfSteps, LastSteps DEF StepsInOrder, Done
  <2>2. First(todo') = "stopped" /\ "restore" \notin ToSet(todo') /\ "destroy" \notin ToSet(todo')
    BY <2>1 DEF Done, After
  <2>3. UNCHANGED <<kind, plugin, dialog, host, at, recorded, flying, left, inside, pending>>
        /\ (state' = state \/ (state # "None" /\ state' # "None"))
    BY <1>2 DEF Prepare, CaptureNothing, WriteImage
  <2>4. QED BY <2>2, <2>3 DEF OneExport, Waiting, Reads
<1>3. CASE ReadAsync \/ ReadAndEncode
  <2>1. ToSet(todo) \subseteq {"capture", "stopped", "windows"} /\ First(todo') \in {"stopped", "exchange"}
        /\ ToSet(todo') \subseteq {"capture", "stopped", "windows", "exchange"}
    <3>1. Doing("capture") /\ \E a : Advance(a)
      BY <1>3 DEF ReadAsync, ReadAndEncode
    <3>2. Done(todo, todo', "capture") \/ Becomes(todo, todo', "capture", "exchange")
      BY <3>1, TodoOfRead DEF StepsInOrder
    <3>3. First(todo) = "capture"
      BY <3>2 DEF Done, Becomes
    <3>4. ToSet(todo) \subseteq {"capture", "stopped", "windows"}
      BY <3>3, LastSteps DEF StepsInOrder
    <3>5. QED BY <3>2, <3>4 DEF Done, Becomes, After
  <2>2. kind = "video" /\ state # "None" /\ state' # "None"
        /\ UNCHANGED <<kind, plugin, dialog, host, pending>>
    BY <1>3 DEF ReadAsync, ReadAndEncode, Advance
  <2>3. QED BY <2>1, <2>2 DEF OneExport, Waiting
<1>4. CASE Exchange \/ Close
  <2>1. /\ First(todo) \in {"exchange", "close"}
        /\ First(todo') \in {"close", "finished", "stopped", "cancelled", "restore"}
        /\ ToSet(todo') \subseteq ToSet(todo) \cup {"close", "finished"}
    BY <1>4, TodoOfExchange, TodoOfClose DEF StepsInOrder, Done, Becomes, After
  <2>2. kind = "video" /\ ~Waiting
    BY <2>1 DEF OneExport
  <2>3. UNCHANGED <<kind, state, dialog, host, at, recorded, flying, left, inside, pending>>
        /\ plugin' \in {plugin, FALSE}
    BY <1>4 DEF Exchange, Close
  <2>4. QED BY <2>1, <2>2, <2>3 DEF OneExport, Waiting, Reads
<1>5. CASE Finish \/ Cancelled \/ Restored
  <2>1. First(todo) \in {"finished", "cancelled", "restored"}
        /\ First(todo') \in {"stopped", "cancelled", "restore", "windows", "destroy"}
        /\ ToSet(todo') \subseteq ToSet(todo)
    BY <1>5, TodoOfSteps DEF StepsInOrder, Done, After
  <2>2. kind # "none" /\ ~Waiting
    BY <2>1 DEF OneExport
  <2>3. UNCHANGED <<kind, plugin, dialog, host, at, recorded, flying, left, inside, pending>>
        /\ state' \notin Active \cup {"None"}
    BY <1>5 DEF Finish, Cancelled, Restored, Active
  <2>4. QED BY <2>1, <2>2, <2>3 DEF OneExport, Waiting
<1>6. CASE Restore
  <2>1. First(todo) = "restore" /\ First(todo') = "restored" /\ ToSet(todo') \subseteq ToSet(todo)
    BY <1>6, TodoOfSteps DEF StepsInOrder, Done, After
  <2>2. kind # "none" /\ ~Waiting
    BY <2>1 DEF OneExport
  <2>3. UNCHANGED <<kind, plugin, state, dialog, host, at, recorded, flying, left, inside, pending>>
    BY <1>6 DEF Restore
  <2>4. QED BY <2>1, <2>2, <2>3 DEF OneExport, Waiting, Reads
<1>7. CASE NoteStopped
  <2>1. Done(todo, todo', "stopped") /\ ToSet(todo) \subseteq {"capture", "stopped", "windows"}
    BY <1>7, TodoOfSteps, LastSteps DEF StepsInOrder, Done
  <2>2. First(todo') = "windows" /\ "restore" \notin ToSet(todo') /\ "destroy" \notin ToSet(todo')
    BY <2>1 DEF Done, After
  <2>3. UNCHANGED <<kind, plugin, state, dialog, host, at, recorded, flying, left, inside>>
        /\ (pending' => pending \/ state # "None")
    BY <1>7, Orders DEF NoteStopped
  <2>4. QED BY <2>2, <2>3 DEF OneExport, Waiting, Reads
<1>8. CASE Commit
  <2>1. First(todo') = "none" /\ ToSet(todo') \subseteq ToSet(todo)
    BY <1>8, TodoOfSteps DEF StepsInOrder, Done, After
  <2>2. Reads' = Reads
    BY <1>8 DEF Commit, Reads
  <2>3. QED BY <1>8, <2>1, <2>2 DEF Commit, OneExport, Waiting
<1>9. CASE TransitDestruction
  <2>1. /\ First(todo) = "destroy" /\ "destroy" \in ToSet(todo)
        /\ \/ First(todo') \in {"exchange", "cancelled"} /\ (First(todo') = "exchange" => kind = "video")
              /\ ToSet(todo') \subseteq ToSet(todo) \cup {"exchange", "cancelled"} /\ state # "None" /\ state' = state
           \/ todo' = todo /\ state' \in {"DestroyReady", "Destroyed"}
           \/ /\ First(todo') \in {"exchange", "restore", "restored"} /\ state' = state /\ state = "DestroyReady"
              /\ (First(todo') = "exchange" => kind = "video")
    <3>1. kind \in {"image", "video"}
      BY <1>9 DEF TransitDestruction, OneExport
    <3>2. QED BY <1>9, <3>1, TodoOfDestruction DEF StepsInOrder
  <2>2. UNCHANGED <<kind, plugin, dialog, host, at, recorded, flying, left, inside, pending>> /\ kind # "none"
    BY <1>9 DEF TransitDestruction
  <2>3. ~Waiting /\ ~pending
    BY <2>1 DEF OneExport
  <2>4. QED BY <2>1, <2>2, <2>3 DEF OneExport, Waiting, Active, Reads
<1>10. CASE Delete
  <2>1. Done(todo, todo', "destroy")
    BY <1>10, TodoOfSteps DEF StepsInOrder
  <2>2. First(todo) = "destroy" /\ First(todo') \in {"capture", "none"} /\ "destroy" \in ToSet(todo)
    BY <2>1 DEF Done, After
  <2>3. ToSet(todo') \subseteq {"capture", "stopped", "windows"}
    BY <2>2, LastSteps DEF StepsInOrder
  <2>4. Reads = {} /\ ~Waiting /\ ~pending
    BY <1>10, <2>2 DEF Delete, LifeIInv, OneExport
  <2>5. Reads' = Reads
    BY <1>10 DEF Delete, Reads
  <2>6. QED BY <1>10, <2>2, <2>3, <2>4, <2>5 DEF Delete, OneExport, Waiting, Active
<1>11. QED
  BY <1>1, <1>2, <1>3, <1>4, <1>5, <1>6, <1>7, <1>8, <1>9, <1>10 DEF DrawSteps

LEMMA OneExportNext ==
  ASSUME "asked again" \notin Crossings, Known, StepsInOrder', [Next]_vars
  PROVE  OneExport'
<1>1. CASE UNCHANGED vars
  BY <1>1 DEF vars, object, user, handlers, coder, OneExport, Known, Waiting, Reads
<1>2. QED BY <1>1, UserKeepsOneExport, HandlersKeepOneExport, DrawKeepsOneExport DEF Next

-----------------------------------------------------------------------------
(* The settings of the project.                                            *)
\* What is left of a destruction once the project is given back.
LEMMA StepsAfterRestore ==
  ASSUME NEW t, Orderly(t), First(t) \in {"restored", "destroy"}
  PROVE  ToSet(t) \subseteq {"restored", "destroy", "capture", "stopped", "windows"}
<1>1. ASSUME NEW u, Orderly(u), First(u) = "destroy"
      PROVE  ToSet(u) \subseteq {"destroy", "capture", "stopped", "windows"}
  <2>1. u # <<>>
    BY <1>1 DEF First
  <2>2. First(Tail(u)) \in {"capture", "none"} /\ Orderly(Tail(u)) /\ ToSet(u) = {"destroy"} \cup ToSet(Tail(u))
    BY <2>1, <1>1, Popped DEF After
  <2>3. ToSet(Tail(u)) \subseteq {"capture", "stopped", "windows"}
    BY <2>2, LastSteps
  <2>4. QED BY <2>2, <2>3
<1>2. CASE First(t) = "restored"
  <2>1. t # <<>>
    BY <1>2 DEF First
  <2>2. First(Tail(t)) = "destroy" /\ Orderly(Tail(t)) /\ ToSet(t) = {"restored"} \cup ToSet(Tail(t))
    BY <2>1, <1>2, Popped DEF After
  <2>3. QED BY <2>2, <1>1
<1>3. QED BY <1>1, <1>2

\* The settings are saved exactly while the project is taken over; an image, which restores
\* them without looking, is destroyed only after it has saved them, and once.
GivesBack ==
  /\ saved \in BOOLEAN
  /\ saved => kind # "none" /\ ~Waiting
  /\ ~saved => settings = "own" /\ selection = "own" /\ ~captured
  /\ state \in Active => saved
  /\ "restore" \in ToSet(todo) => saved
  /\ state \in {"Restored", "Destroyed"} \/ First(todo) = "restored" => ~saved
  /\ dialog = "progress" /\ ~saved => First(todo) \in {"restored", "destroy"}
  /\ kind = "image" /\ ~saved => state \in {"None", "Restored", "Destroyed"} \/ First(todo) = "restored"
  /\ kind = "image" /\ First(todo) = "cancelled" => saved
  /\ kind = "image" /\ "destroy" \in ToSet(todo) => state # "None"

LEMMA GivesBackInit == Init => GivesBack
BY EmptyIsOrderly DEF Init, GivesBack, Waiting, Active

LEMMA UserGivesBack ==
  ASSUME Known, GivesBack, Crossings = {}, UserSteps
  PROVE  GivesBack'
<1> USE DEF Known, object, project, user, handlers, coder, history
<1> DEFINE d == <<"destroy">>
<1>0. First(d) = "destroy" /\ ToSet(d) = {"destroy"} /\ First(<<>>) = "none" /\ ToSet(<<>>) = {}
  BY OnlyDestroy, EmptyIsOrderly
<1> HIDE DEF d
<1>1. ASSUME NEW k \in {"image", "video"}, Request(k) PROVE GivesBack'
  <2>1. kind = "none" /\ First(todo) = "none" /\ ToSet(todo) = {} /\ todo' = todo
    BY <1>1, EmptyIsOrderly DEF Request, Idle, First
  <2>2. saved' = FALSE /\ state' = "None" /\ dialog' = "configure" /\ kind' = k
        /\ UNCHANGED <<settings, selection, captured>>
    BY <1>1 DEF Request
  <2>3. QED BY <2>1, <2>2 DEF GivesBack, Active
<1>2. CASE OnAccepted \/ OnCancelled \/ ClosePanel
  <2>1. UNCHANGED <<todo, state, saved, kind, settings, selection, captured>>
        /\ Waiting /\ (dialog' \in {dialog, "none"})
    BY <1>2 DEF OnAccepted, OnCancelled, ClosePanel, Waiting
  <2>2. QED BY <2>1 DEF GivesBack
<1>3. CASE Execute
  <2>1. First(todo) = "none" /\ ToSet(todo) = {} /\ todo' \in {todo, d} /\ Waiting /\ dialog = "none"
    BY <1>3, EmptyIsOrderly DEF Execute, Idle, First, d, Waiting, OneExport
  <2>2. First(todo') \in {"none", "destroy"} /\ "restore" \notin ToSet(todo')
        /\ ("destroy" \in ToSet(todo') => todo' = d)
    <3>1. CASE todo' = todo
      BY <3>1, <2>1
    <3>2. CASE todo' = d
      BY <3>2, <1>0
    <3>3. QED BY <3>1, <3>2, <2>1
  <2>3. state = "None" /\ kind # "none"
    BY <1>3, <2>1 DEF Execute, OneExport
  <2>4. saved' = TRUE /\ kind' = kind /\ host' = "none" /\ dialog' \in {"none", "progress"}
        /\ state' \in {"None", "Initialized", "Cancelled"}
    BY <1>3, <2>1, <2>3 DEF Execute
  <2>5. kind = "image" => todo' = todo
    BY <1>3 DEF Execute
  <2>6. kind = "image" => "destroy" \notin ToSet(todo')
    BY <2>1, <2>5
  <2>7. QED BY <2>2, <2>3, <2>4, <2>6 DEF GivesBack, Waiting
<1>4. CASE CallOff
  <2>1. First(todo) = "none" /\ ToSet(todo) = {} /\ todo' \in {todo, d} /\ Waiting /\ dialog = "none"
    BY <1>4, EmptyIsOrderly DEF CallOff, Idle, First, d, Waiting, OneExport
  <2>2. First(todo') \in {"none", "destroy"} /\ "restore" \notin ToSet(todo')
    <3>1. CASE todo' = todo
      BY <3>1, <2>1
    <3>2. CASE todo' = d
      BY <3>2, <1>0
    <3>3. QED BY <3>1, <3>2, <2>1
  <2>3. UNCHANGED <<state, saved, kind, dialog, settings, selection, captured>> /\ kind # "image" /\ host' = "none"
    BY <1>4 DEF CallOff
  <2>4. QED BY <2>1, <2>2, <2>3 DEF GivesBack, Waiting
<1>5. CASE PressCancel
  <2>1. First(todo) = "windows" /\ First(todo') = (IF kind = "video" THEN "exchange" ELSE "cancelled")
        /\ ToSet(todo') = (IF kind = "video" THEN {"exchange"} ELSE {}) \cup {"cancelled"} \cup ToSet(todo)
    BY <1>5, TodoOfCancel DEF StepsInOrder
  <2>2. UNCHANGED <<state, saved, kind, host, settings, selection, captured>> /\ dialog = "progress" /\ dialog' = "none"
    BY <1>5 DEF PressCancel
  <2>3. saved
    BY <2>1, <2>2 DEF GivesBack
  <2>4. QED BY <2>1, <2>2, <2>3 DEF GivesBack, Waiting
<1>6. QED BY <1>1, <1>2, <1>3, <1>4, <1>5 DEF UserSteps

LEMMA HandlersGiveBack ==
  ASSUME Known, GivesBack, HandlerSteps
  PROVE  GivesBack'
<1> USE DEF Known, object, project, user, handlers, coder, history
<1>1. CASE Fail \/ Shut
  <2>1. inside \in Reads
    <3>1. inside \in Nat /\ inside # -1
      BY <1>1, ReadIsNumber DEF Fail, Shut, IInv, PTSTypes
    <3>2. QED BY <3>1 DEF Reads
  <2>2. kind = "video"
    BY <2>1 DEF LifeIInv, ReadsOutliveNothing
  <2>3. UNCHANGED <<todo, saved, kind, dialog, host, settings, selection, captured>>
        /\ state' \in {state, "Cancelled"}
    BY <1>1 DEF Fail, Shut
  <2>4. QED BY <2>2, <2>3 DEF GivesBack, Waiting, Active
<1>2. CASE ~(Fail \/ Shut)
  <2>1. UNCHANGED <<todo, state, saved, kind, dialog, host, settings, selection, captured>>
    BY <1>2 DEF HandlerSteps, Enter, Check, LoadPlugin, EncodeAudio, EncodeVideo, Leave, DecrementAsyncCount
  <2>2. QED BY <2>1 DEF GivesBack, Waiting
<1>3. QED BY <1>1, <1>2

LEMMA DrawGivesBack ==
  ASSUME Known, GivesBack, DrawSteps
  PROVE  GivesBack'
<1> USE DEF Known, object, project, user, handlers, coder, history
<1>1. CASE Draw
  <2>1. First(todo') = (IF pending THEN "destroy" ELSE "capture") /\ "restore" \notin ToSet(todo')
        /\ ("destroy" \in ToSet(todo') => pending) /\ First(todo) = "none"
    BY <1>1, TodoOfFrame DEF StepsInOrder
  <2>2. UNCHANGED <<state, saved, kind, dialog, host, settings, selection, captured>>
    BY <1>1 DEF Draw
  <2>3. QED BY <2>1, <2>2 DEF GivesBack, OneExport, Waiting
<1>2. CASE Prepare \/ CaptureNothing \/ WriteImage \/ ReadAsync \/ ReadAndEncode
  <2>1. First(todo) = "capture" /\ First(todo') \in {"stopped", "exchange"}
        /\ ToSet(todo') \subseteq {"capture", "stopped", "windows", "exchange"}
    <3>1. \/ Done(todo, todo', "capture") \/ Becomes(todo, todo', "capture", "exchange")
      <4>1. CASE ReadAsync \/ ReadAndEncode
        <5>1. Doing("capture") /\ \E a : Advance(a)
          BY <4>1 DEF ReadAsync, ReadAndEncode
        <5>2. QED BY <5>1, TodoOfRead DEF StepsInOrder
      <4>2. QED BY <1>2, <4>1, TodoOfSteps DEF StepsInOrder
    <3>2. First(todo) = "capture"
      BY <3>1 DEF Done, Becomes
    <3>3. ToSet(todo) \subseteq {"capture", "stopped", "windows"}
      BY <3>2, LastSteps DEF StepsInOrder
    <3>4. QED BY <3>1, <3>2, <3>3 DEF Done, Becomes, After
  <2>2. UNCHANGED <<saved, kind, dialog, host, settings, selection>>
        /\ (captured' = captured \/ state = "Initialized")
        /\ (state' = state \/ (state \in Active /\ state' \in Active \cup {"Finished", "Cancelled"}))
    BY <1>2 DEF Prepare, CaptureNothing, WriteImage, ReadAsync, ReadAndEncode, Advance, Active
  <2>3. "restore" \notin ToSet(todo') /\ "destroy" \notin ToSet(todo')
    BY <2>1
  <2>4. state \in Active => saved
    BY DEF GivesBack
  <2>5. CASE state' = state /\ captured' = captured
    BY <2>1, <2>2, <2>3, <2>5 DEF GivesBack, Waiting
  <2>6. CASE state \in Active
    BY <2>1, <2>2, <2>3, <2>4, <2>6 DEF GivesBack, Waiting, Active
  <2>7. QED BY <2>2, <2>5, <2>6 DEF Active
<1>3. CASE Exchange \/ Close
  <2>1. /\ First(todo) \in {"exchange", "close"}
        /\ First(todo') \in {"close", "finished", "stopped", "cancelled", "restore"}
        /\ ToSet(todo') \subseteq ToSet(todo) \cup {"close", "finished"}
    BY <1>3, TodoOfExchange, TodoOfClose DEF StepsInOrder, Done, Becomes, After
  <2>2. UNCHANGED <<state, saved, kind, dialog, host, settings, selection, captured>>
    BY <1>3 DEF Exchange, Close
  <2>3. kind = "video"
    BY <2>1 DEF OneExport
  <2>4. QED BY <2>1, <2>2, <2>3 DEF GivesBack, Waiting
<1>4. CASE Finish
  <2>1. First(todo) = "finished" /\ First(todo') \in {"stopped", "cancelled", "restore"}
        /\ ToSet(todo') \subseteq ToSet(todo)
    BY <1>4, TodoOfSteps DEF StepsInOrder, Done, After
  <2>2. UNCHANGED <<saved, kind, dialog, host, settings, selection, captured>> /\ state' = "Finished"
    BY <1>4 DEF Finish
  <2>3. kind = "video"
    BY <2>1 DEF OneExport
  <2>4. QED BY <2>1, <2>2, <2>3 DEF GivesBack, Waiting, Active
<1>5. CASE Cancelled
  <2>1. First(todo) = "cancelled" /\ First(todo') \in {"windows", "destroy"}
        /\ ToSet(todo') \subseteq ToSet(todo)
    BY <1>5, TodoOfSteps DEF StepsInOrder, Done, After
  <2>2. UNCHANGED <<saved, kind, dialog, host, settings, selection, captured>> /\ state' = "Cancelled"
    BY <1>5 DEF Cancelled
  <2>3. QED BY <2>1, <2>2 DEF GivesBack, Waiting, Active
<1>6. CASE NoteStopped \/ Commit
  <2>1. First(todo) \in {"stopped", "windows"} /\ First(todo') \in {"windows", "none"}
        /\ ToSet(todo') \subseteq ToSet(todo)
    BY <1>6, TodoOfSteps DEF StepsInOrder, Done, After
  <2>2. UNCHANGED <<state, saved, kind, dialog, host, settings, selection, captured>>
    BY <1>6 DEF NoteStopped, Commit
  <2>3. QED BY <2>1, <2>2 DEF GivesBack, Waiting
<1>7. CASE TransitDestruction
  <2>1. TransitDestruction /\ kind \in {"image", "video"}
    BY <1>7 DEF TransitDestruction, OneExport
  <2>2. UNCHANGED <<saved, kind, dialog, host, settings, selection, captured>>
    BY <1>7 DEF TransitDestruction
  <2>3. First(todo) = "destroy" /\ "destroy" \in ToSet(todo)
    BY <1>7, TodoOfDestruction DEF StepsInOrder
  <2>4. "restore" \notin ToSet(todo) /\ ~Waiting
    BY <2>3, StepsAfterRestore DEF StepsInOrder, OneExport
  <2>5. CASE state \in Active /\ state' = state /\ First(todo') \in {"exchange", "cancelled"}
             /\ "restore" \notin ToSet(todo')
    BY <2>2, <2>3, <2>5 DEF GivesBack, Waiting, Active
  <2>6. CASE state \in {"None", "Finished", "Cancelled"} /\ state' = "DestroyReady" /\ todo' = todo
    BY <2>2, <2>3, <2>4, <2>6 DEF GivesBack, Waiting, Active
  <2>7. CASE state = "DestroyReady" /\ state' = state /\ kind = "image" /\ First(todo') = "restore"
    BY <2>2, <2>3, <2>7 DEF GivesBack, Waiting, Active
  <2>8. CASE state = "DestroyReady" /\ state' = state /\ kind = "video" /\ saved /\ First(todo') = "exchange"
    BY <2>2, <2>3, <2>8 DEF GivesBack, Waiting, Active
  <2>9. CASE state = "DestroyReady" /\ state' = state /\ kind = "video" /\ ~saved /\ First(todo') = "restored"
             /\ "restore" \notin ToSet(todo')
    BY <2>2, <2>3, <2>9 DEF GivesBack, Waiting, Active
  <2>10. CASE state = "Restored" /\ state' = "Destroyed" /\ todo' = todo
    BY <2>2, <2>3, <2>4, <2>10 DEF GivesBack, Waiting, Active
  <2>11. QED BY <1>7, <2>1, <2>4, <2>5, <2>6, <2>7, <2>8, <2>9, <2>10, TodoOfDestruction DEF StepsInOrder, Active
<1>8. CASE Restore
  <2>1. First(todo) = "restore" /\ First(todo') = "restored" /\ "restore" \in ToSet(todo)
        /\ ToSet(todo') \subseteq ToSet(todo)
    BY <1>8, TodoOfSteps DEF StepsInOrder, Done, After
  <2>2. Orderly(todo')
    BY <1>8, TodoOfSteps DEF StepsInOrder
  <2>3. "restore" \notin ToSet(todo')
    BY <2>1, <2>2, StepsAfterRestore
  <2>4. saved /\ saved' = FALSE /\ settings' = "own" /\ selection' = "own" /\ captured' = FALSE
        /\ UNCHANGED <<state, kind, dialog, host>>
    BY <1>8, <2>1 DEF Restore, GivesBack
  <2>5. state \notin Active
    BY <2>1 DEF OneExport
  <2>6. QED BY <2>1, <2>3, <2>4, <2>5 DEF GivesBack, Waiting
<1>9. CASE Restored
  <2>1. First(todo) = "restored" /\ First(todo') = "destroy" /\ ToSet(todo') \subseteq ToSet(todo)
    BY <1>9, TodoOfSteps DEF StepsInOrder, Done, After
  <2>2. UNCHANGED <<saved, kind, dialog, host, settings, selection, captured>> /\ state' = "Restored"
    BY <1>9 DEF Restored
  <2>3. QED BY <2>1, <2>2 DEF GivesBack, Waiting, Active
<1>10. CASE Delete
  <2>1. First(todo) = "destroy" /\ First(todo') \in {"capture", "none"} /\ ToSet(todo') \subseteq ToSet(todo)
    BY <1>10, TodoOfSteps DEF StepsInOrder, Done, After
  <2>2. UNCHANGED <<saved, host, settings, selection, captured>> /\ state = "Destroyed" /\ state' = "None"
        /\ kind' = "none" /\ dialog' = "none"
    BY <1>10 DEF Delete
  <2>3. ~saved
    BY <2>2 DEF GivesBack
  <2>4. QED BY <2>1, <2>2, <2>3 DEF GivesBack, Active
<1>11. QED
  BY <1>1, <1>2, <1>3, <1>4, <1>5, <1>6, <1>7, <1>8, <1>9, <1>10 DEF DrawSteps

LEMMA GivesBackNext ==
  ASSUME Crossings = {}, Known, GivesBack, [Next]_vars
  PROVE  GivesBack'
<1>1. CASE UNCHANGED vars
  BY <1>1 DEF vars, object, user, project, GivesBack, Waiting
<1>2. QED BY <1>1, UserGivesBack, HandlersGiveBack, DrawGivesBack DEF Next

-----------------------------------------------------------------------------
(* The encoder.                                                            *)
\* Who has the plugin has an open file as soon as frames may come; an open file is closed
\* by whoever has the plugin or has just taken it, the application thread or the handler
\* that failed; without asynchronous reads an export that still runs has it.
EncoderFollows ==
  /\ encoder \in {"open", "closed"}
  /\ plugin /\ (state \in Active \/ Reads # {}) => encoder = "open"
  /\ encoder = "open" => plugin \/ First(todo) = "close" \/ stage = "shut"
  /\ First(todo) = "close" \/ stage = "shut" => ~plugin
  /\ ~async /\ kind = "video" /\ state \in Active => plugin \/ First(todo) \in {"close", "finished"}

LEMMA EncoderInit == Init => EncoderFollows
BY EmptyIsOrderly DEF Init, EncoderFollows, Active, Reads

\* Whose handler holds the mutex is under way.
LEMMA HolderIsRead ==
  ASSUME Known, stage # "none"
  PROVE  inside \in Reads
<1>1. inside \in Nat
  BY DEF Known, IInv, PTSTypes
<1>2. inside # -1
  BY <1>1, ReadIsNumber
<1>3. QED BY <1>2 DEF Reads

\* The steps that are done one by one, seen from the first one: none of them leads to
\* the closing of the encoder.
LEMMA FirstOfSteps ==
  ASSUME StepsInOrder
  PROVE  /\ (Prepare \/ CaptureNothing \/ WriteImage => First(todo) = "capture" /\ First(todo') = "stopped")
         /\ (ReadAsync \/ ReadAndEncode => First(todo) = "capture" /\ First(todo') \in {"stopped", "exchange"})
         /\ (Close => First(todo) = "close" /\ First(todo') = "finished")
         /\ (Finish => First(todo) = "finished" /\ First(todo') \in {"stopped", "cancelled", "restore"})
         /\ (Cancelled => First(todo) = "cancelled" /\ First(todo') \in {"windows", "destroy"})
         /\ (NoteStopped \/ Commit => First(todo) \in {"stopped", "windows"} /\ First(todo') \in {"windows", "none"})
         /\ (Restore \/ Restored => First(todo) \in {"restore", "restored"} /\ First(todo') \in {"restored", "destroy"})
         /\ (Delete => First(todo) = "destroy" /\ First(todo') \in {"capture", "none"})
         /\ (TransitDestruction => /\ First(todo) = "destroy"
                                   /\ First(todo') \in {"destroy", "exchange", "cancelled", "restore", "restored"})
<1>1. CASE ReadAsync \/ ReadAndEncode
  <2>1. Doing("capture") /\ \E a : Advance(a)
    BY <1>1 DEF ReadAsync, ReadAndEncode
  <2>2. First(todo) = "capture" /\ First(todo') \in {"stopped", "exchange"}
    BY <2>1, TodoOfRead DEF StepsInOrder, Done, Becomes, After
  <2>3. QED BY <2>2, TodoOfSteps, TodoOfClose, TodoOfDestruction DEF StepsInOrder, Done, Becomes, After
<1>2. CASE ~(ReadAsync \/ ReadAndEncode)
  BY <1>2, TodoOfSteps, TodoOfClose, TodoOfDestruction DEF StepsInOrder, Done, Becomes, After
<1>3. QED BY <1>1, <1>2

LEMMA UserKeepsEncoder ==
  ASSUME "asked again" \notin Crossings, Known, EncoderFollows, UserSteps
  PROVE  EncoderFollows'
<1> USE DEF Known, object, project, user, handlers, coder, history
<1> DEFINE d == <<"destroy">>
<1>0. First(d) = "destroy" /\ First(<<>>) = "none"
  BY OnlyDestroy, EmptyIsOrderly
<1> HIDE DEF d
<1>1. ASSUME NEW k \in {"image", "video"}, Request(k) PROVE EncoderFollows'
  <2>1. kind = "none" /\ First(todo) = "none" /\ todo' = todo
    BY <1>1 DEF Request, Idle, First
  <2>2. ~plugin
    BY <2>1 DEF OneExport
  <2>3. plugin' = FALSE /\ encoder' = encoder /\ state' = "None" /\ stage' = stage
    BY <1>1, <2>2 DEF Request
  <2>4. QED BY <2>1, <2>2, <2>3 DEF EncoderFollows, Active
<1>2. CASE OnAccepted \/ OnCancelled \/ ClosePanel
  <2>1. UNCHANGED <<todo, state, kind, encoder, async, recorded, flying, left, inside, stage>>
        /\ (plugin' = plugin \/ plugin' = (kind = "video")) /\ Waiting
    BY <1>2 DEF OnAccepted, OnCancelled, ClosePanel, Waiting
  <2>2. state = "None" /\ Reads = {} /\ Reads' = Reads
    BY <2>1 DEF OneExport, Reads
  <2>3. plugin => plugin'
    BY <2>1 DEF OneExport
  <2>4. First(todo) \notin {"close", "finished"}
    BY <2>1 DEF OneExport
  <2>5. stage = "none"
    BY <2>2, HolderIsRead
  <2>6. QED BY <2>1, <2>2, <2>3, <2>4, <2>5 DEF EncoderFollows, Active
<1>3. CASE Execute
  <2>1. First(todo) = "none" /\ todo' \in {todo, d} /\ Waiting
    BY <1>3 DEF Execute, Idle, First, d, Waiting
  <2>2. First(todo') \in {"none", "destroy"}
    <3>1. CASE todo' = todo
      BY <3>1, <2>1
    <3>2. CASE todo' = d
      BY <3>2, <1>0
    <3>3. QED BY <3>1, <3>2, <2>1
  <2>3. state = "None" /\ Reads = {} /\ (kind # "video" => ~plugin)
    BY <2>1 DEF OneExport
  <2>4. UNCHANGED <<kind, plugin, async, stage>> /\ Reads' = Reads
        /\ \/ /\ kind = "image" \/ plugin
              /\ encoder' = (IF kind = "video" THEN "open" ELSE encoder)
           \/ kind = "video" /\ state' \in {"None", "Cancelled"} /\ encoder' = encoder
    BY <1>3, <2>3 DEF Execute, Reads
  <2>5. stage = "none"
    BY <2>3, HolderIsRead
  <2>6. QED BY <2>1, <2>2, <2>3, <2>4, <2>5 DEF EncoderFollows, Active
<1>4. CASE CallOff
  <2>1. First(todo) = "none" /\ todo' \in {<<>>, d}
    BY <1>4 DEF CallOff, Idle, First, d
  <2>2. First(todo') \in {"none", "destroy"}
    <3>1. CASE todo' = <<>>
      BY <3>1, <1>0
    <3>2. CASE todo' = d
      BY <3>2, <1>0
    <3>3. QED BY <3>1, <3>2, <2>1
  <2>3. UNCHANGED <<state, kind, plugin, encoder, async, stage>> /\ Reads' = Reads
    BY <1>4 DEF CallOff, Reads
  <2>4. QED BY <2>1, <2>2, <2>3 DEF EncoderFollows
<1>5. CASE PressCancel
  <2>1. First(todo) = "windows" /\ First(todo') \in {"exchange", "cancelled"}
    BY <1>5, TodoOfCancel DEF StepsInOrder
  <2>2. UNCHANGED <<state, kind, plugin, encoder, async, stage>> /\ Reads' = Reads
    BY <1>5 DEF PressCancel, Reads
  <2>3. QED BY <2>1, <2>2 DEF EncoderFollows
<1>6. QED BY <1>1, <1>2, <1>3, <1>4, <1>5 DEF UserSteps

LEMMA HandlersKeepEncoder ==
  ASSUME Known, EncoderFollows, HandlerSteps
  PROVE  EncoderFollows'
<1> USE DEF Known, object, project, user, handlers, coder, history
<1>1. CASE Fail \/ Shut
  <2>1. inside \in Reads /\ async
    BY <1>1, HolderIsRead DEF Fail, Shut, IInv
  <2>2. UNCHANGED <<todo, kind, async, inside, recorded, flying, left>>
    BY <1>1 DEF Fail, Shut
  <2>3. CASE Fail
    <3>1. plugin' = FALSE /\ encoder' = encoder /\ stage = "fail" /\ (plugin => stage' = "shut")
      BY <2>3 DEF Fail
    <3>2. QED BY <2>1, <2>2, <3>1 DEF EncoderFollows
  <2>4. CASE Shut
    <3>1. plugin' = plugin /\ encoder' = "closed" /\ stage = "shut" /\ stage' = "leave"
      BY <2>4 DEF Shut
    <3>2. QED BY <2>1, <2>2, <3>1 DEF EncoderFollows
  <2>5. QED BY <1>1, <2>3, <2>4
<1>2. CASE ~(Fail \/ Shut)
  <2>1. UNCHANGED <<todo, state, kind, plugin, encoder, async>>
    BY <1>2 DEF HandlerSteps, Enter, Check, LoadPlugin, EncodeAudio, EncodeVideo, Leave, DecrementAsyncCount
  <2>2. stage' = "shut" <=> stage = "shut"
    <3>1. CASE \E r \in flying : Enter(r)
      <4>1. Unlocked /\ stage' = "check"
        BY <3>1 DEF Enter
      <4>2. stage = "none"
        <5>1. stage # "none" => inside \in Nat /\ inside # -1
          BY ReadIsNumber DEF IInv, PTSTypes
        <5>2. QED BY <4>1, <5>1 DEF Unlocked
      <4>3. QED BY <4>1, <4>2
    <3>2. CASE Check \/ LoadPlugin \/ EncodeAudio \/ EncodeVideo \/ Leave
      BY <3>2 DEF Check, LoadPlugin, EncodeAudio, EncodeVideo, Leave, Calls
    <3>3. CASE \E r \in left : DecrementAsyncCount(r)
      BY <3>3 DEF DecrementAsyncCount
    <3>4. QED BY <1>2, <3>1, <3>2, <3>3 DEF HandlerSteps
  <2>3. Reads' \subseteq Reads
    <3>1. ASSUME NEW r \in flying, Enter(r) PROVE Reads' \subseteq Reads
      BY <3>1 DEF Enter, Reads
    <3>2. CASE Check \/ LoadPlugin \/ EncodeAudio \/ EncodeVideo
      BY <3>2 DEF Check, LoadPlugin, EncodeAudio, EncodeVideo, Reads
    <3>3. CASE Leave
      <4>1. left' = left \cup {inside} /\ recorded' = recorded /\ flying' = flying /\ inside' = -1
            /\ stage = "leave"
        BY <3>3 DEF Leave
      <4>2. inside # -1
        <5>1. inside \in Nat
          BY <4>1 DEF IInv, PTSTypes
        <5>2. QED BY <5>1, ReadIsNumber
      <4>3. QED BY <4>1, <4>2 DEF Reads
    <3>4. ASSUME NEW r \in left, DecrementAsyncCount(r) PROVE Reads' \subseteq Reads
      BY <3>4 DEF DecrementAsyncCount, Reads
    <3>5. QED BY <1>2, <3>1, <3>2, <3>3, <3>4 DEF HandlerSteps
  <2>4. QED BY <2>1, <2>2, <2>3 DEF EncoderFollows
<1>3. QED BY <1>1, <1>2

LEMMA DrawKeepsEncoder ==
  ASSUME Known, EncoderFollows, DrawSteps
  PROVE  EncoderFollows'
<1> USE DEF Known, object, project, user, handlers, coder, history
<1>1. CASE Draw
  <2>1. First(todo) = "none" /\ First(todo') \in {"destroy", "capture"}
    BY <1>1, TodoOfFrame DEF StepsInOrder
  <2>2. UNCHANGED <<state, kind, plugin, encoder, async, stage>> /\ Reads' = Reads
    BY <1>1 DEF Draw, Reads
  <2>3. QED BY <2>1, <2>2 DEF EncoderFollows
<1>2. CASE Prepare \/ CaptureNothing \/ WriteImage \/ Cancelled \/ Restored \/ Restore \/ NoteStopped \/ Commit
  <2>1. First(todo) \notin {"close", "finished"} /\ First(todo') # "close"
    BY <1>2, FirstOfSteps
  <2>2. UNCHANGED <<kind, plugin, encoder, async, stage>> /\ (state' \in Active => state \in Active)
    BY <1>2 DEF Prepare, CaptureNothing, WriteImage, Cancelled, Restored, Restore, NoteStopped, Commit, Active
  <2>3. Reads' = Reads
    BY <1>2 DEF Prepare, CaptureNothing, WriteImage, Cancelled, Restored, Restore, NoteStopped, Commit, Reads
  <2>4. QED BY <2>1, <2>2, <2>3 DEF EncoderFollows
<1>3. CASE ReadAsync \/ ReadAndEncode
  <2>1. First(todo) \notin {"close", "finished"} /\ First(todo') # "close"
    BY <1>3, FirstOfSteps
  <2>2. UNCHANGED <<kind, plugin, encoder, async, stage>> /\ state \in Active
    BY <1>3 DEF ReadAsync, ReadAndEncode, Active
  <2>3. QED BY <2>1, <2>2 DEF EncoderFollows
<1>4. CASE Exchange
  <2>1. First(todo) = "exchange"
        /\ ((~plugin /\ First(todo') \in {"stopped", "cancelled", "restore"}) \/ (plugin /\ First(todo') = "close"))
    BY <1>4, TodoOfExchange DEF StepsInOrder, Done, Becomes, After
  <2>2. UNCHANGED <<state, kind, encoder, async, stage>> /\ plugin' = FALSE
    BY <1>4 DEF Exchange
  <2>3. QED BY <2>1, <2>2 DEF EncoderFollows
<1>5. CASE Close
  <2>1. First(todo) = "close" /\ First(todo') = "finished"
    BY <1>5, FirstOfSteps
  <2>2. UNCHANGED <<kind, plugin, async, state, stage>> /\ encoder' = "closed"
    BY <1>5 DEF Close
  <2>3. QED BY <2>1, <2>2 DEF EncoderFollows
<1>6. CASE Finish
  <2>1. First(todo) = "finished" /\ First(todo') # "close"
    BY <1>6, FirstOfSteps
  <2>2. UNCHANGED <<kind, plugin, encoder, async, stage>> /\ state' = "Finished" /\ Reads' = Reads
    BY <1>6 DEF Finish, Reads
  <2>3. QED BY <2>1, <2>2 DEF EncoderFollows, Active
<1>7. CASE TransitDestruction
  <2>1. First(todo) \notin {"close", "finished"} /\ First(todo') # "close"
    BY <1>7, FirstOfSteps
  <2>2. UNCHANGED <<kind, plugin, encoder, async, stage>> /\ Reads' = Reads /\ (state' \in Active => state \in Active)
    BY <1>7 DEF TransitDestruction, Reads, Active
  <2>3. QED BY <2>1, <2>2 DEF EncoderFollows
<1>8. CASE Delete
  <2>1. First(todo) # "close" /\ First(todo') # "close"
    BY <1>8, FirstOfSteps
  <2>2. plugin' = FALSE /\ encoder' = (IF plugin THEN "closed" ELSE encoder) /\ state' = "None"
        /\ UNCHANGED <<async, stage>>
    BY <1>8 DEF Delete
  <2>3. QED BY <2>1, <2>2 DEF EncoderFollows, Active
<1>9. QED BY <1>1, <1>2, <1>3, <1>4, <1>5, <1>6, <1>7, <1>8 DEF DrawSteps

LEMMA EncoderNext ==
  ASSUME "asked again" \notin Crossings, Known, EncoderFollows, [Next]_vars
  PROVE  EncoderFollows'
<1>1. CASE UNCHANGED vars
  BY <1>1 DEF vars, object, handlers, coder, EncoderFollows, Reads
<1>2. QED BY <1>1, UserKeepsEncoder, HandlersKeepEncoder, DrawKeepsEncoder DEF Next

-----------------------------------------------------------------------------
\* A frame that came late is the only one: by then nobody finds the plugin, the file stays
\* closed until another export is asked for, and a handler that still calls is its own.
LateAlone ==
  /\ \A r, s \in late : r = s
  /\ late # {} => /\ ~plugin /\ encoder = "closed" /\ ~Waiting
                  /\ stage \in Calling => late = {inside}

LEMMA LateInit == Init => LateAlone
BY DEF Init, LateAlone

\* A call of the handler that holds the mutex is the only one that comes late.
LEMMA CallComesLate ==
  ASSUME Known, EncoderFollows, LateAlone, stage \in Calling, Given(inside),
         UNCHANGED <<plugin, encoder, dialog, host, inside>>
  PROVE  LateAlone'
<1>1. inside \in Reads
  BY HolderIsRead DEF Calling
<1>2. CASE encoder = "closed"
  <2>1. late' = {inside}
    BY <1>2 DEF Given, LateAlone
  <2>2. ~plugin /\ ~Waiting
    BY <1>1, <1>2 DEF EncoderFollows, Known, OneExport
  <2>3. QED BY <1>2, <2>1, <2>2 DEF LateAlone, Waiting
<1>3. CASE encoder # "closed"
  BY <1>3 DEF Given, LateAlone
<1>4. QED BY <1>2, <1>3

LEMMA LateNext ==
  ASSUME Known, EncoderFollows, LateAlone, [Next]_vars
  PROVE  LateAlone'
<1> USE DEF Known, object, project, user, handlers, coder, history
<1>1. CASE EncodeAudio \/ EncodeVideo
  BY <1>1, CallComesLate DEF EncodeAudio, EncodeVideo, Calling
<1>2. CASE ReadAndEncode
  <2>1. kind = "video" /\ ~async /\ state \in Active /\ Given(at)
    BY <1>2 DEF ReadAndEncode, Active
  <2>2. First(todo) = "capture"
    BY <1>2, FirstOfSteps
  <2>3. encoder = "open"
    BY <2>1, <2>2 DEF EncoderFollows
  <2>4. late' = late /\ UNCHANGED <<plugin, encoder, dialog, host, inside, stage>>
    BY <1>2, <2>1, <2>3 DEF ReadAndEncode, Given
  <2>5. QED BY <2>4 DEF LateAlone, Waiting
<1>3. ASSUME NEW k \in {"image", "video"}, Request(k) PROVE LateAlone'
  BY <1>3 DEF Request, LateAlone
<1>4. CASE Check
  <2>1. stage' \in Calling => plugin
    BY <1>4 DEF Check, Calling
  <2>2. UNCHANGED <<late, plugin, encoder, dialog, host, inside>>
    BY <1>4 DEF Check
  <2>3. QED BY <2>1, <2>2 DEF LateAlone, Waiting
<1>5. CASE \/ LoadPlugin \/ Fail \/ Shut \/ Leave \/ (\E r \in flying : Enter(r))
           \/ (\E r \in left : DecrementAsyncCount(r))
  <2>1. /\ UNCHANGED <<late, dialog, host>> /\ (plugin' => plugin)
        /\ encoder' \in {encoder, "closed"}
        /\ (stage' \in Calling => stage \in Calling /\ inside' = inside)
    BY <1>5 DEF LoadPlugin, Fail, Shut, Leave, Enter, DecrementAsyncCount, Calling, Calls
  <2>2. QED BY <2>1 DEF LateAlone, Waiting
<1>6. CASE OnAccepted \/ OnCancelled \/ ClosePanel \/ Execute
  <2>1. Waiting /\ late' = late
    BY <1>6 DEF OnAccepted, OnCancelled, ClosePanel, Execute, Waiting
  <2>2. QED BY <2>1 DEF LateAlone
<1>7. CASE CallOff \/ PressCancel
  <2>1. UNCHANGED <<late, plugin, encoder, stage, inside>> /\ (Waiting' => Waiting)
    BY <1>7 DEF CallOff, PressCancel, Waiting
  <2>2. QED BY <2>1 DEF LateAlone
<1>8. CASE DrawSteps /\ ~ReadAndEncode
  <2>1. UNCHANGED <<late, host, stage, inside>> /\ dialog' \in {dialog, "none"}
        /\ (plugin' => plugin) /\ encoder' \in {encoder, "closed"}
    <3>1. CASE Draw \/ Prepare \/ CaptureNothing \/ WriteImage \/ ReadAsync \/ Exchange \/ Close \/ Finish
      BY <3>1 DEF Draw, Prepare, CaptureNothing, WriteImage, ReadAsync, Exchange, Close, Finish
    <3>2. CASE Cancelled \/ NoteStopped \/ Commit \/ TransitDestruction \/ Restore \/ Restored \/ Delete
      BY <3>2 DEF Cancelled, NoteStopped, Commit, TransitDestruction, Restore, Restored, Delete
    <3>3. QED BY <1>8, <3>1, <3>2 DEF DrawSteps
  <2>2. QED BY <2>1 DEF LateAlone, Waiting
<1>9. CASE UNCHANGED vars
  BY <1>9 DEF vars, LateAlone, Waiting
<1>10. QED
  BY <1>1, <1>2, <1>3, <1>4, <1>5, <1>6, <1>7, <1>8, <1>9 DEF Next, UserSteps, HandlerSteps

\* Without an export nobody is left who could have the file open.
LEMMA ClosedWithoutExport ==
  ASSUME Known, EncoderFollows, kind = "none"
  PROVE  encoder = "closed"
<1>1. ~plugin /\ First(todo) # "close" /\ Reads = {}
  BY DEF Known, OneExport
<1>2. stage = "none"
  BY <1>1, HolderIsRead
<1>3. QED BY <1>1, <1>2 DEF EncoderFollows

-----------------------------------------------------------------------------
(* The frames of the range.                                                *)
\* How many frames the video of a range has, and an end that neither the user nor a failure
\* has brought about.
Total == (End - Start + 1) * Scale
Undisturbed == {"cancelled", "destroy"} \cap ToSet(todo) = {}

FromTheFirst == Start = 0

\* The frames that were read are those before the present one; an export that runs has not
\* reached the end, and one that finishes by itself has.
ReadsInOrder ==
  /\ at \in Nat /\ at <= Total /\ issued = 0 .. at - 1
  /\ state \in Active => at < Total
  /\ kind = "video" /\ Undisturbed /\ (state = "Finished" \/ First(todo) \in {"exchange", "close", "finished"})
       => at = Total

\* A frame of the video is past the range of the motion exactly from the last one on.
LEMMA FramesOfRange ==
  ASSUME NEW n \in Nat, NEW e \in Nat, NEW s \in Nat \ {0}
  PROVE  (n \div s > e <=> n >= (e + 1) * s) /\ (e + 1) * s \in Nat \ {0}
<1> DEFINE q == n \div s
           r == n % s
<1>1. q \in Nat /\ r \in Nat /\ r < s /\ n = q * s + r
  OBVIOUS
<1> HIDE DEF q, r
<1>2. CASE q > e
  <2>1. q * s >= (e + 1) * s
    BY <1>1, <1>2
  <2>2. n >= (e + 1) * s
    <3>1. q * s \in Nat /\ (e + 1) * s \in Nat
      BY <1>1
    <3>2. QED BY <1>1, <2>1, <3>1
  <2>3. QED BY <1>2, <2>2 DEF q
<1>3. CASE ~(q > e)
  <2>1. (q + 1) * s <= (e + 1) * s
    BY <1>1, <1>3
  <2>2. (q + 1) * s = q * s + s
    BY <1>1
  <2>3. n < (e + 1) * s
    <3>1. q * s \in Nat /\ (e + 1) * s \in Nat
      BY <1>1
    <3>2. QED BY <1>1, <2>1, <2>2, <3>1
  <2>4. QED BY <1>3, <2>3, <1>1 DEF q
<1>4. (e + 1) * s \in Nat \ {0}
  OBVIOUS
<1>5. QED BY <1>1, <1>2, <1>3, <1>4 DEF q
LEMMA TotalOfRange ==
  ASSUME FromTheFirst
  PROVE  /\ Total \in Nat \ {0} /\ 0 < Total /\ 0 <= Total /\ 0 .. 0 - 1 = {} /\ End - Start = End
         /\ \A n \in Nat : Start + n \div Scale > End <=> n >= Total
<1>1. Start = 0 /\ End \in Nat /\ Scale \in Nat \ {0}
  BY CapturingAssumption DEF FromTheFirst
<1> DEFINE s == Start
           e == End
<1> HIDE DEF s, e
<1>2. e - s = e /\ e - s + 1 = e + 1 /\ e \in Nat
  BY <1>1 DEF s, e
<1>3. Total = (e + 1) * Scale
  BY <1>2 DEF Total, s, e
<1>4. ASSUME NEW n \in Nat PROVE s + n \div Scale > e <=> n >= Total
  <2>1. n \div Scale > e <=> n >= (e + 1) * Scale
    BY <1>1, <1>2, FramesOfRange
  <2>2. n \div Scale \in Nat
    BY <1>1
  <2>3. s + n \div Scale = n \div Scale
    BY <1>1, <2>2 DEF s
  <2>4. QED BY <1>3, <2>1, <2>3
<1>5. (e + 1) * Scale \in Nat \ {0}
  BY <1>1, <1>2, FramesOfRange
<1>6. Total \in Nat \ {0} /\ 0 < Total /\ 0 <= Total /\ 0 .. 0 - 1 = {}
  BY <1>3, <1>5
<1>7. QED BY <1>2, <1>4, <1>6 DEF s, e

LEMMA ReadsInOrderInit == FromTheFirst /\ Init => ReadsInOrder
<1> SUFFICES ASSUME FromTheFirst, Init PROVE ReadsInOrder
  OBVIOUS
<1>1. Total \in Nat \ {0}
  BY TotalOfRange
<1>2. kind = "none" /\ state = "None" /\ at = 0 /\ issued = {}
  BY DEF Init
<1>3. QED BY <1>1, <1>2, TotalOfRange DEF ReadsInOrder, Active

\* One more frame is read.
LEMMA ReadAdvances ==
  ASSUME FromTheFirst, StepsInOrder, ReadsInOrder, state = "Blitted", Doing("capture"),
         NEW a \in {"Blitted", "Cancelled"}, Advance(a)
  PROVE  /\ at' \in Nat /\ at' <= Total /\ issued' = 0 .. at' - 1
         /\ state' \in {"Finished", "Blitted", "Cancelled"}
         /\ (state' = "Blitted" => at' < Total)
         /\ (state' = "Finished" \/ First(todo') \in {"exchange", "close", "finished"} => at' = Total)
<1> DEFINE frame == Start + (at + 1) \div Scale
           past == frame > End
<1>1. at \in Nat /\ at < Total /\ issued = 0 .. at - 1 /\ Total \in Nat
  BY TotalOfRange DEF ReadsInOrder, Active
<1>2. past <=> at + 1 >= Total
  <2>1. at + 1 \in Nat
    BY <1>1
  <2>2. QED BY <2>1, TotalOfRange
<1>3. at' = at + 1 /\ issued' = issued \cup {at}
      /\ state' = (IF frame > End \/ (frame > End - Start /\ ~plugin) THEN "Finished" ELSE a)
  BY DEF Advance
<1>4. frame > End - Start <=> past
  BY TotalOfRange
<1>5. issued' = 0 .. at' - 1
  BY <1>1, <1>3
<1>6. state' = (IF past THEN "Finished" ELSE a)
  BY <1>3, <1>4
<1>7. First(todo') \in {"exchange", "close", "finished"} => past
  <2>1. Done(todo, todo', "capture") => First(todo') = "stopped"
    BY DEF Done, After
  <2>2. Done(todo, todo', "capture") \/ past
    BY <1>4, TodoOfRead DEF StepsInOrder
  <2>3. QED BY <2>1, <2>2
<1> HIDE DEF past, frame
<1>8. QED BY <1>1, <1>2, <1>3, <1>5, <1>6, <1>7

\* The steps that a step of the application thread leaves; none but the two that change the
\* state takes away a sign that the end was brought about.
LEMMA SignsStay ==
  ASSUME NEW t, NEW u, NEW s, Done(t, u, s), s \notin {"cancelled", "destroy"},
         {"cancelled", "destroy"} \cap ToSet(u) = {}
  PROVE  {"cancelled", "destroy"} \cap ToSet(t) = {}
BY DEF Done

LEMMA UserKeepsReads ==
  ASSUME FromTheFirst, "asked again" \notin Crossings, Known, ReadsInOrder, UserSteps
  PROVE  ReadsInOrder'
<1> USE DEF Known, object, project, user, handlers, coder, history
<1> DEFINE d == <<"destroy">>
<1>0. First(d) = "destroy" /\ First(<<>>) = "none"
  BY OnlyDestroy, EmptyIsOrderly
<1> HIDE DEF d
<1>1. ASSUME NEW k \in {"image", "video"}, Request(k) PROVE ReadsInOrder'
  <2>1. First(todo) = "none" /\ todo' = todo /\ at' = 0 /\ issued' = {} /\ state' = "None"
    BY <1>1 DEF Request, Idle, First
  <2>2. QED BY <2>1, TotalOfRange DEF ReadsInOrder, Active, Total
<1>2. CASE OnAccepted \/ OnCancelled \/ ClosePanel
  <2>1. UNCHANGED <<todo, state, kind, at, issued>>
    BY <1>2 DEF OnAccepted, OnCancelled, ClosePanel
  <2>2. QED BY <2>1 DEF ReadsInOrder, Total, Undisturbed
<1>3. CASE Execute
  <2>1. First(todo) = "none" /\ todo' \in {todo, d} /\ Waiting
    BY <1>3 DEF Execute, Idle, First, d, Waiting
  <2>2. First(todo') \in {"none", "destroy"}
    <3>1. CASE todo' = todo
      BY <3>1, <2>1
    <3>2. CASE todo' = d
      BY <3>2, <1>0
    <3>3. QED BY <3>1, <3>2, <2>1
  <2>3. state = "None" /\ at = 0
    BY <2>1 DEF OneExport
  <2>4. UNCHANGED <<kind, at, issued>> /\ state' \in {"Initialized", "None", "Cancelled"}
    BY <1>3, <2>3 DEF Execute
  <2>5. at' < Total
    BY <2>3, <2>4, TotalOfRange
  <2>6. QED BY <2>2, <2>4, <2>5 DEF ReadsInOrder, Total
<1>4. CASE CallOff
  <2>1. todo' \in {<<>>, d} /\ Waiting
    BY <1>4 DEF CallOff, d, Waiting
  <2>2. First(todo') \in {"none", "destroy"}
    <3>1. CASE todo' = <<>>
      BY <3>1, <1>0
    <3>2. CASE todo' = d
      BY <3>2, <1>0
    <3>3. QED BY <3>1, <3>2, <2>1
  <2>3. UNCHANGED <<kind, at, issued, state>> /\ state = "None"
    BY <1>4, <2>1 DEF CallOff, OneExport
  <2>4. QED BY <2>2, <2>3 DEF ReadsInOrder, Total, Active
<1>5. CASE PressCancel
  <2>1. "cancelled" \in ToSet(todo')
    BY <1>5, TodoOfCancel DEF StepsInOrder
  <2>2. UNCHANGED <<kind, at, issued, state>>
    BY <1>5 DEF PressCancel
  <2>3. QED BY <2>1, <2>2 DEF ReadsInOrder, Total, Undisturbed
<1>6. QED BY <1>1, <1>2, <1>3, <1>4, <1>5 DEF UserSteps

LEMMA HandlersKeepReads ==
  ASSUME Known, ReadsInOrder, HandlerSteps
  PROVE  ReadsInOrder'
<1> USE DEF object, project, user, handlers, coder, history
<1>1. UNCHANGED <<todo, kind, at, issued>> /\ state' \in {state, "Cancelled"}
  BY DEF HandlerSteps, Enter, Check, LoadPlugin, EncodeAudio, EncodeVideo, Fail, Shut, Leave,
    DecrementAsyncCount
<1>2. QED BY <1>1 DEF ReadsInOrder, Total, Undisturbed, Active

LEMMA DrawKeepsReads ==
  ASSUME FromTheFirst, Known, ReadsInOrder, DrawSteps
  PROVE  ReadsInOrder'
<1> USE DEF Known, object, project, user, handlers, coder, history
<1>1. CASE Draw
  <2>1. /\ First(todo) = "none" /\ First(todo') = (IF pending THEN "destroy" ELSE "capture")
        /\ (pending => "destroy" \in ToSet(todo'))
    BY <1>1, TodoOfFrame DEF StepsInOrder
  <2>2. UNCHANGED <<state, kind, at, issued>> /\ todo = <<>>
    BY <1>1 DEF Draw, Idle
  <2>3. ToSet(todo) = {}
    BY <2>2, EmptyIsOrderly
  <2>4. Undisturbed
    BY <2>3 DEF Undisturbed
  <2>5. QED BY <2>1, <2>2, <2>4 DEF ReadsInOrder, Total
<1>2. CASE Prepare \/ CaptureNothing \/ WriteImage
  <2>1. Done(todo, todo', "capture") /\ First(todo') = "stopped"
    BY <1>2, TodoOfSteps, FirstOfSteps DEF StepsInOrder
  <2>2. UNCHANGED <<kind, at, issued>>
        /\ (state' = state \/ (state \in Active /\ state' \in Active) \/ kind = "image")
        /\ (state' \in Active => state \in Active)
    BY <1>2 DEF Prepare, CaptureNothing, WriteImage, Active
  <2>3. Undisturbed' => Undisturbed
    BY <2>1, SignsStay DEF Undisturbed
  <2>4. QED BY <2>1, <2>2, <2>3 DEF ReadsInOrder, Total, Active
<1>3. CASE ReadAsync \/ ReadAndEncode
  <2>1. /\ kind' = kind /\ state = "Blitted" /\ Doing("capture")
        /\ (Advance("Blitted") \/ Advance("Cancelled"))
    BY <1>3 DEF ReadAsync, ReadAndEncode
  <2>2. /\ at' \in Nat /\ at' <= Total /\ issued' = 0 .. at' - 1
        /\ state' \in {"Finished", "Blitted", "Cancelled"}
        /\ (state' = "Blitted" => at' < Total)
        /\ (state' = "Finished" \/ First(todo') \in {"exchange", "close", "finished"} => at' = Total)
    BY <2>1, ReadAdvances
  <2>3. QED BY <2>2 DEF ReadsInOrder, Total, Active
<1>4. CASE Exchange \/ Close
  <2>1. /\ First(todo) \in {"exchange", "close"}
        /\ \/ Done(todo, todo', "exchange") \/ Becomes(todo, todo', "exchange", "close")
           \/ Becomes(todo, todo', "close", "finished")
    BY <1>4, TodoOfExchange, TodoOfClose DEF StepsInOrder, Done, Becomes
  <2>2. UNCHANGED <<state, kind, at, issued>>
    BY <1>4 DEF Exchange, Close
  <2>3. Undisturbed' => Undisturbed
    BY <2>1 DEF Undisturbed, Done, Becomes
  <2>4. QED BY <2>1, <2>2, <2>3 DEF ReadsInOrder, Total
<1>5. CASE Finish
  <2>1. First(todo) = "finished" /\ Done(todo, todo', "finished")
    BY <1>5, TodoOfSteps DEF StepsInOrder, Done
  <2>2. UNCHANGED <<kind, at, issued>> /\ state' = "Finished"
    BY <1>5 DEF Finish
  <2>3. Undisturbed' => Undisturbed
    BY <2>1, SignsStay DEF Undisturbed
  <2>4. QED BY <2>1, <2>2, <2>3 DEF ReadsInOrder, Total, Active
<1>6. CASE Cancelled
  <2>1. First(todo') \in {"windows", "destroy"}
    BY <1>6, FirstOfSteps
  <2>2. UNCHANGED <<kind, at, issued>> /\ state' = "Cancelled"
    BY <1>6 DEF Cancelled
  <2>3. QED BY <2>1, <2>2 DEF ReadsInOrder, Total, Active
<1>7. CASE NoteStopped \/ Commit \/ Restore \/ Restored
  <2>1. /\ \E s \in {"stopped", "windows", "restore", "restored"} : Done(todo, todo', s)
        /\ First(todo') \notin {"exchange", "close", "finished"}
    BY <1>7, TodoOfSteps, FirstOfSteps DEF StepsInOrder
  <2>2. UNCHANGED <<kind, at, issued>> /\ (state' = state \/ state' = "Restored")
    BY <1>7 DEF NoteStopped, Commit, Restore, Restored
  <2>3. Undisturbed' => Undisturbed
    BY <2>1, SignsStay DEF Undisturbed
  <2>4. QED BY <2>1, <2>2, <2>3 DEF ReadsInOrder, Total, Active
<1>8. CASE TransitDestruction
  <2>1. "destroy" \in ToSet(todo')
    BY <1>8, TodoOfDestruction DEF StepsInOrder
  <2>2. UNCHANGED <<kind, at, issued>> /\ (state' \in Active => state \in Active)
    BY <1>8 DEF TransitDestruction, Active
  <2>3. QED BY <2>1, <2>2 DEF ReadsInOrder, Total, Undisturbed
<1>9. CASE Delete
  <2>1. UNCHANGED <<at, issued>> /\ kind' = "none" /\ state' = "None"
    BY <1>9 DEF Delete
  <2>2. QED BY <2>1 DEF ReadsInOrder, Total, Active
<1>10. QED
  BY <1>1, <1>2, <1>3, <1>4, <1>5, <1>6, <1>7, <1>8, <1>9 DEF DrawSteps

LEMMA ReadsInOrderNext ==
  ASSUME FromTheFirst, "asked again" \notin Crossings, Known, ReadsInOrder, [Next]_vars
  PROVE  ReadsInOrder'
<1>1. CASE UNCHANGED vars
  BY <1>1 DEF vars, object, history, ReadsInOrder, Total, Undisturbed
<1>2. QED BY <1>1, UserKeepsReads, HandlersKeepReads, DrawKeepsReads DEF Next

-----------------------------------------------------------------------------
\* All that is known of an export holds together.
LEMMA KnownAlways ==
  ASSUME "asked again" \notin Crossings
  PROVE  Spec => []Known
<1>1. Init => Known
  BY IInvInit, LifeInit, TodoInit, OneExportInit DEF Known
<1>2. Known /\ [Next]_vars => Known'
  <2> SUFFICES ASSUME Known, [Next]_vars PROVE Known'
    OBVIOUS
  <2>1. IInv' /\ LifeIInv' /\ StepsInOrder'
    BY IInvNext, LifeNext, TodoNext DEF Known
  <2>2. OneExport'
    BY <2>1, OneExportNext
  <2>3. QED BY <2>1, <2>2 DEF Known
<1>3. QED BY <1>1, <1>2, PTL DEF Spec

\* The user's settings, selection and viewport are back whenever no export is left, unless
\* an export is asked for while another one runs or an image is called off.
THEOREM SettingsAlwaysComeBack ==
  ASSUME Crossings = {}
  PROVE  Spec => []SettingsComeBack
<1>1. "asked again" \notin Crossings
  OBVIOUS
<1>2. Known /\ GivesBack /\ [Next]_vars => GivesBack'
  BY GivesBackNext
<1>3. GivesBack => SettingsComeBack
  BY DEF GivesBack, SettingsComeBack
<1>4. QED BY <1>1, <1>2, <1>3, GivesBackInit, KnownAlways, PTL DEF Spec

\* A video that starts at the first frame of its motion and ends by itself has read every
\* frame of its range, with any scale and any failures of the plugin.
THEOREM EveryFrameAlwaysRead ==
  ASSUME Start = 0, "asked again" \notin Crossings
  PROVE  Spec => []EveryFrameIsRead
<1>1. Known /\ ReadsInOrder /\ [Next]_vars => ReadsInOrder'
  BY ReadsInOrderNext DEF FromTheFirst
<1>2. Init => ReadsInOrder
  BY ReadsInOrderInit DEF FromTheFirst
<1>3. ReadsInOrder => EveryFrameIsRead
  BY DEF ReadsInOrder, EveryFrameIsRead, Undisturbed, Total
<1>4. QED BY <1>1, <1>2, <1>3, KnownAlways, PTL DEF Spec

\* At most one frame reaches a file that is closed, and no file stays open without an
\* export, whoever stops the encoder, whenever a handler fails and whatever handlers run
\* meanwhile.
THEOREM OneFrameIsLateAtMost ==
  ASSUME "asked again" \notin Crossings
  PROVE  Spec => []OneFrameIsLate
<1>1. Known /\ EncoderFollows /\ [Next]_vars => EncoderFollows'
  BY EncoderNext
<1>2. Known /\ EncoderFollows /\ LateAlone /\ [Next]_vars => LateAlone'
  BY LateNext
<1>3. Known /\ EncoderFollows /\ LateAlone => OneFrameIsLate
  BY ClosedWithoutExport DEF LateAlone, OneFrameIsLate
<1>4. QED BY <1>1, <1>2, <1>3, EncoderInit, LateInit, KnownAlways, PTL DEF Spec
=============================================================================
