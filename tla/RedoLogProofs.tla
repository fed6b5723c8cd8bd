---------------------------- MODULE RedoLogProofs ----------------------------
(***************************************************************************)
(* Proofs about RedoLog.  For any number of commands, records and projects *)
(* and crashes at any step, the log of a project replays to its document,  *)
(* and a recovery restores the document of the crash, if saved commands    *)
(* are not undone and nobody goes on with a recovered project.             *)
(***************************************************************************)
EXTENDS RedoLog, SequenceTheorems, WellFoundedInduction, TLAPS

\* The types without the bounds of the model.
LooseRecord == [type : {"edit", "undo", "save"}, sequence : Nat, command : Nat]
LooseProject == [doc : Nat, done : Seq(Nat), undone : Seq(Nat), log : Nat, sequence : Nat,
                 loading : BOOLEAN]

\* A log is the magic number and records that are numbered from 0.
LogOf(K) == IF K = <<>> THEN <<>> ELSE <<Magic>> \o K
Numbered(K) == K \in Seq(LooseRecord) /\ \A i \in 1 .. Len(K) : K[i].sequence = i - 1

\* b is its last save point, 0 without one.
SavePoint(K, b) ==
  /\ b \in 0 .. Len(K)
  /\ b # 0 => K[b].type = "save"
  /\ \A i \in 1 .. Len(K) : i > b => K[i].type # "save"

\* What a record makes of the document and the commands that are done: an undo
\* always finds one.
Makes(v, record, u) ==
  \/ /\ record.type = "edit" /\ record.command \in Nat
     /\ u = [doc |-> record.command, done |-> Append(v.done, record.command)]
  \/ /\ record.type = "undo" /\ v.done # <<>>
     /\ u = [doc |-> before[Last(v.done)], done |-> Front(v.done)]

View == [doc : Nat, done : Seq(1 .. created)]
ViewOf(p) == [doc |-> p.doc, done |-> p.done]
Blank == [doc |-> 0, done |-> <<>>]

\* The views w[b] .. w[n] that the records after the save point lead through.
Tells(log, K, b, w) ==
  /\ log = LogOf(K) /\ Numbered(K) /\ SavePoint(K, b)
  /\ w \in [b .. Len(K) -> View]
  /\ w[b] = [doc |-> IF b = 0 THEN 0 ELSE disk, done |-> <<>>]
  /\ \A i \in b + 1 .. Len(K) : Makes(w[i - 1], K[i], w[i])

-----------------------------------------------------------------------------
(* Reading a log.                                                          *)

Just(m) == <<m>>

LEMMA JustFacts ==
  ASSUME NEW S, NEW m \in S
  PROVE  Just(m) \in Seq(S) /\ Len(Just(m)) = 1 /\ Just(m)[1] = m
BY DEF Just

\* l is s with m before it.
Prefixed(l, m, s, S) ==
  /\ l \in Seq(S) /\ Len(l) = Len(s) + 1 /\ l[1] = m /\ l # <<>>
  /\ \A i \in 1 .. Len(s) : l[i + 1] = s[i]

LEMMA LogFacts ==
  ASSUME NEW S, NEW m \in S, NEW s \in Seq(S)
  PROVE  Prefixed(Just(m) \o s, m, s, S)
<1> DEFINE log == Just(m) \o s
<1>1. Just(m) \in Seq(S)
  BY JustFacts
<1>2. /\ log \in Seq(S) /\ Len(log) = Len(Just(m)) + Len(s)
      /\ \A i \in 1 .. Len(Just(m)) + Len(s) :
           log[i] = IF i <= Len(Just(m)) THEN Just(m)[i] ELSE s[i - Len(Just(m))]
  BY <1>1, ConcatProperties, Zenon
<1>3. Len(s) \in Nat
  BY LenProperties
<1>4. /\ Len(log) = Len(s) + 1
      /\ \A i \in 1 .. Len(s) + 1 : log[i] = IF i <= 1 THEN Just(m)[i] ELSE s[i - 1]
  <2>1. PICK k : k = Len(Just(m))
    OBVIOUS
  <2>2. k = 1
    BY <2>1, JustFacts
  <2>3. /\ Len(log) = k + Len(s)
        /\ \A i \in 1 .. k + Len(s) : log[i] = IF i <= k THEN Just(m)[i] ELSE s[i - k]
    BY <1>2, <2>1, Zenon
  <2>4. 1 + Len(s) = Len(s) + 1
    BY <1>3
  <2>5. QED BY <2>2, <2>3, <2>4, Zenon
<1>5. log[1] = m
  BY <1>3, <1>4, JustFacts
<1>6. \A i \in 1 .. Len(s) : log[i + 1] = s[i]
  BY <1>3, <1>4
<1>7. log # <<>>
  BY <1>2, <1>3, <1>4, EmptySeq
<1>8. Prefixed(log, m, s, S)
  BY <1>2, <1>4, <1>5, <1>6, <1>7 DEF Prefixed
<1>9. QED BY <1>8 DEF log

LEMMA FrontFacts ==
  ASSUME NEW S, NEW s \in Seq(S), s # <<>>
  PROVE  /\ Front(s) \in Seq(S) /\ Len(Front(s)) = Len(s) - 1
         /\ \A i \in 1 .. Len(s) - 1 : Front(s)[i] = s[i]
         /\ Last(s) \in S /\ Last(s) = s[Len(s)]
<1> DEFINE n == Len(s)
<1>1. n \in Nat \ {0} /\ \A i \in 1 .. n : s[i] \in S
  BY EmptySeq, ElementOfSeq
<1>2. Front(s) = SubSeq(s, 1, n - 1)
  BY DEF Front
<1>3. Last(s) = s[n]
  BY DEF Last
<1> HIDE DEF n
<1>4. n - 1 \in Int /\ \A i \in 1 .. n - 1 : s[i] \in S
  BY <1>1
<1>5. /\ SubSeq(s, 1, n - 1) \in Seq(S)
      /\ Len(SubSeq(s, 1, n - 1)) = IF 1 <= n - 1 THEN n - 1 - 1 + 1 ELSE 0
      /\ \A i \in 1 .. n - 1 - 1 + 1 : SubSeq(s, 1, n - 1)[i] = s[1 + i - 1]
  BY <1>4, SubSeqProperties
<1>6. /\ Len(SubSeq(s, 1, n - 1)) = n - 1
      /\ \A i \in 1 .. n - 1 : SubSeq(s, 1, n - 1)[i] = s[i]
  BY <1>1, <1>5
<1>7. s[n] \in S
  BY <1>1
<1>8. QED BY <1>2, <1>3, <1>5, <1>6, <1>7 DEF n

LEMMA RecordsRead ==
  ASSUME NEW K, Numbered(K)
  PROVE  Records(LogOf(K)) = K
<1>1. CASE K = <<>>
  BY <1>1 DEF Records, LogOf
<1>2. CASE K # <<>>
  <2>1. K \in Seq(LooseRecord) /\ Len(K) \in Nat /\ \A i \in 1 .. Len(K) : K[i] \in LooseRecord
    BY LenProperties, ElementOfSeq DEF Numbered
  <2>2. PICK log : log = LogOf(K)
    OBVIOUS
  <2>3. PICK S : S = LooseRecord \cup {Magic}
    OBVIOUS
  <2>4. K \in Seq(S) /\ Magic \in S
    BY <2>1, <2>3, SeqMonotonic
  <2>5. log = Just(Magic) \o K
    BY <1>2, <2>2 DEF Just, LogOf
  <2>6. log \in Seq(S) /\ Len(log) = Len(K) + 1 /\ log[1] = Magic /\ log # <<>>
        /\ \A i \in 1 .. Len(K) : log[i + 1] = K[i]
    <3>1. Prefixed(Just(Magic) \o K, Magic, K, S)
      BY <2>4, LogFacts
    <3>2. QED BY <2>5, <3>1 DEF Prefixed
  <2>7. Tail(log) \in Seq(S) /\ Len(Tail(log)) = Len(K)
        /\ \A i \in 1 .. Len(K) : Tail(log)[i] = K[i]
    BY <2>1, <2>6, HeadTailProperties
  <2>8. Tail(log) = K
    BY <2>4, <2>7, SeqEqual
  <2>9. \A i \in 1 .. Len(K) : K[i] # Magic
    <3>1. \A i \in 1 .. Len(K) : K[i].type # "magic"
      BY <2>1 DEF LooseRecord
    <3>2. Magic.type = "magic"
      BY DEF Magic
    <3>3. QED BY <3>1, <3>2
  <2>10. Records(log) = SubSeq(K, 1, Len(K))
    BY <2>6, <2>8, <2>9 DEF Records
  <2>11. SubSeq(K, 1, Len(K)) = K
    BY <2>1, SubSeqFull
  <2>12. QED BY <2>2, <2>10, <2>11
<1>3. QED BY <1>1, <1>2

LEMMA OffsetRead ==
  ASSUME NEW K, Numbered(K), NEW b, SavePoint(K, b)
  PROVE  CountOffset(K) = IF b = 0 THEN 0 ELSE b - 1
<1> DEFINE points == {i \in 1 .. Len(K) : K[i].type = "save"}
<1>1. Len(K) \in Nat /\ b \in 0 .. Len(K)
  BY DEF Numbered, SavePoint
<1>2. CASE b = 0
  <2>1. points = {}
    BY <1>1, <1>2 DEF SavePoint
  <2>2. QED BY <1>2, <2>1 DEF CountOffset
<1>3. CASE b # 0
  <2>1. b \in points /\ \A j \in points : j <= b
    BY <1>1, <1>3 DEF SavePoint
  <2>2. \A i \in points : (\A j \in points : j <= i) => i = b
    BY <1>1, <2>1
  <2> HIDE DEF points
  <2>3. (CHOOSE i \in points : \A j \in points : j <= i) = b
    BY <2>1, <2>2
  <2>4. points # {}
    BY <2>1
  <2>5. CountOffset(K) = (CHOOSE i \in points : \A j \in points : j <= i) - 1
    BY <2>4 DEF CountOffset, points
  <2>6. QED BY <1>3, <2>3, <2>5
<1>4. QED BY <1>2, <1>3

\* What the views depend on.
Basis == before \in [Commands -> Nat] /\ disk \in Nat /\ created \in Document

LEMMA CreatedCommands ==
  ASSUME Basis
  PROVE  1 .. created \subseteq Commands /\ 1 .. created \subseteq Nat
BY BoundsAssumption DEF Basis, Document, Commands

\* The view after the first i records of a replay.
ViewAt(b, w, i) == IF i < b THEN Blank ELSE w[i]
LastAt(i) == IF i = 0 THEN 0 ELSE i - 1
Silent(p) == p \in LooseProject /\ (p.loading \/ p.log = 0)

\* One record takes a replay from a view to the next.
LEMMA OneRecord ==
  ASSUME NEW K, NEW b, NEW w, NEW log, Tells(log, K, b, w),
         Basis,
         NEW i \in 1 .. Len(K), NEW p, Silent(p), ViewOf(p) = ViewAt(b, w, i - 1),
         NEW q, q = IF IsReplayed(K[i], CountOffset(K), LastAt(i - 1))
                    THEN Dispatched(p, K[i]) ELSE p
  PROVE  /\ Silent(q) /\ ViewOf(q) = ViewAt(b, w, i) /\ K[i].sequence = LastAt(i)
         /\ IsReplayed(K[i], CountOffset(K), LastAt(i - 1)) /\ K[i].type = "undo" => ~Writes(p)
<1>1. /\ Numbered(K) /\ SavePoint(K, b) /\ Len(K) \in Nat /\ b \in 0 .. Len(K)
      /\ K[i] \in LooseRecord /\ K[i].sequence = i - 1 /\ i \in Nat
  BY DEF Tells, Numbered, SavePoint
<1>2. K[i].sequence = LastAt(i)
  BY <1>1 DEF LastAt
<1>3. ~Writes(p)
  BY DEF Silent, Writes
<1>4. IsReplayed(K[i], CountOffset(K), LastAt(i - 1)) <=> i >= b
  BY <1>1, OffsetRead DEF IsReplayed, LastAt
<1>5. CASE i < b
  <2>1. q = p
    BY <1>1, <1>4, <1>5
  <2>2. QED BY <1>1, <1>2, <1>3, <1>5, <2>1 DEF ViewAt
<1>6. CASE i = b
  <2>1. q = Dispatched(p, K[i]) /\ K[i].type = "save"
    BY <1>1, <1>4, <1>6 DEF SavePoint
  <2>2. q = NewProject(disk, 0)
    BY <2>1 DEF Dispatched
  <2>3. q = [Down EXCEPT !.doc = disk, !.log = 0]
    BY <2>2 DEF NewProject
  <2>4. Down \in LooseProject
    BY DEF Down, LooseProject
  <2>5. q \in LooseProject /\ q.doc = disk /\ q.log = 0 /\ q.done = Down.done
    <3>1. disk \in Nat
      BY DEF Basis
    <3>2. QED BY ONLY <2>3, <2>4, <3>1 DEF LooseProject
  <2>6. ViewOf(q) = w[b]
    <3>1. Down.done = <<>>
      BY DEF Down
    <3>2. QED BY <1>1, <1>6, <2>5, <3>1 DEF ViewOf, Tells
  <2>7. QED BY <1>1, <1>2, <1>3, <1>6, <2>5, <2>6 DEF ViewAt, Silent
<1>7. CASE i > b
  <2>1. q = Dispatched(p, K[i]) /\ K[i].type # "save"
    BY <1>1, <1>4, <1>7 DEF SavePoint
  <2>2. ViewOf(p) = w[i - 1] /\ ViewAt(b, w, i) = w[i] /\ i \in b + 1 .. Len(K)
    BY <1>1, <1>7 DEF ViewAt
  <2>3. Makes(w[i - 1], K[i], w[i])
    BY <2>2 DEF Tells
  <2>4. p \in LooseProject /\ p.doc = w[i - 1].doc /\ p.done = w[i - 1].done
        /\ w[i - 1] \in View
    <3>1. i - 1 \in b .. Len(K)
      BY <1>1, <1>7
    <3>2. QED BY <2>2, <3>1 DEF ViewOf, Silent, Tells
  <2>5. CASE K[i].type = "edit"
    <3>1. q = Pushed(p, K[i].command) /\ K[i].command \in Nat
      BY <1>1, <2>1, <2>5 DEF Dispatched, LooseRecord
    <3> DEFINE c == K[i].command
               d == Append(p.done, c)
    <3>2. d \in Seq(Nat) /\ c \in Nat /\ p.done \in Seq(Nat)
      BY <2>4, <3>1 DEF LooseProject
    <3>3. q = [p EXCEPT !.doc = c, !.done = d, !.undone = <<>>]
      BY <3>1 DEF Pushed
    <3>4. w[i] = [doc |-> c, done |-> d]
      BY <2>3, <2>4, <2>5 DEF Makes
    <3> HIDE DEF c, d
    <3>5. q \in LooseProject /\ q.doc = c /\ q.done = d /\ q.log = p.log /\ q.loading = p.loading
      <4> DEFINE none == <<>>
      <4>1. none \in Seq(Nat)
        OBVIOUS
      <4>2. q = [p EXCEPT !.doc = c, !.done = d, !.undone = none]
        BY <3>3
      <4> HIDE DEF none
      <4>3. QED BY <2>4, <3>2, <4>1, <4>2 DEF LooseProject
    <3>6. QED BY <1>2, <1>3, <2>2, <3>4, <3>5 DEF ViewOf, Silent
  <2>6. CASE K[i].type = "undo"
    <3>1. w[i - 1].done # <<>> /\ w[i] = [doc |-> before[Last(p.done)], done |-> Front(p.done)]
      BY <2>3, <2>4, <2>6 DEF Makes
    <3>2. q = Undone(p)
      BY <1>3, <2>1, <2>4, <2>6, <3>1 DEF Dispatched, Written
    <3> DEFINE c == Last(p.done)
               d == Front(p.done)
               u == <<c>> \o p.undone
    <3>3. c \in Commands /\ d \in Seq(Nat) /\ u \in Seq(Nat)
      <4>1. p.done \in Seq(Commands) /\ p.done # <<>> /\ p.undone \in Seq(Nat)
            /\ p.done \in Seq(Nat)
        <5>1. p.done \in Seq(1 .. created) /\ p.done # <<>> /\ p.undone \in Seq(Nat)
              /\ p.done \in Seq(Nat)
          BY <2>4, <3>1 DEF View, LooseProject
        <5>2. QED BY <5>1, CreatedCommands, SeqMonotonic
      <4>2. c \in Commands
        BY <4>1, FrontFacts
      <4>3. d \in Seq(Nat)
        BY <4>1, FrontFacts, Zenon
      <4> HIDE DEF c
      <4>4. <<c>> \in Seq(Nat)
        BY <4>2 DEF Commands
      <4>5. u \in Seq(Nat)
        BY <4>1, <4>4
      <4>6. QED BY <4>2, <4>3, <4>5
    <3>4. q = [p EXCEPT !.doc = before[c], !.done = d, !.undone = u]
      BY <3>2 DEF Undone
    <3>5. w[i] = [doc |-> before[c], done |-> d]
      BY <3>1
    <3>6. before[c] \in Nat
      BY <3>3 DEF Basis
    <3> HIDE DEF c, d, u
    <3>7. q \in LooseProject /\ q.doc = before[c] /\ q.done = d /\ q.log = p.log
          /\ q.loading = p.loading
      BY <2>4, <3>3, <3>4, <3>6 DEF LooseProject
    <3>8. QED BY <1>2, <1>3, <2>2, <3>5, <3>7 DEF ViewOf, Silent
  <2>7. QED BY <1>1, <2>1, <2>5, <2>6 DEF LooseRecord
<1>8. QED BY <1>1, <1>5, <1>6, <1>7

-----------------------------------------------------------------------------
(* The loop over the records: there is a least record at which something   *)
(* fails.                                                                  *)

\* A set of naturals that is not empty has a least element.
LEMMA LeastElement ==
  ASSUME NEW T, T \subseteq Nat, T # {}
  PROVE  \E n \in T : \A m \in T : n <= m
<1> DEFINE R == OpToRel(<, Nat)
<1>1. IsWellFoundedOn(R, Nat)
  BY NatLessThanWellFounded
<1>2. \A x, y \in Nat : <<y, x>> \in R <=> y < x
  BY DEF OpToRel
<1> HIDE DEF R
<1>3. PICK x \in T : \A y \in T : ~ (<<y, x>> \in R)
  BY WFMin, <1>1
<1>4. ASSUME NEW m \in T PROVE x <= m
  <2>1. x \in Nat /\ m \in Nat
    OBVIOUS
  <2>2. ~ (m < x)
    BY <1>2, <1>3, <2>1
  <2>3. QED BY <2>1, <2>2
<1>5. QED BY <1>4

\* What holds of 0, and of k + 1 when it holds of k, holds up to n.
LEMMA UpTo ==
  ASSUME NEW n \in Nat, NEW S, 0 \in S,
         \A k \in 0 .. n - 1 : k \in S => k + 1 \in S
  PROVE  0 .. n \subseteq S
<1> SUFFICES ASSUME NEW j \in 0 .. n, j \notin S PROVE FALSE
  OBVIOUS
<1> DEFINE T == {k \in 0 .. n : k \notin S}
<1>1. T \subseteq Nat /\ T # {}
  OBVIOUS
<1>2. PICK m \in T : \A k \in T : m <= k
  <2> HIDE DEF T
  <2>1. QED BY <1>1, LeastElement
<1>3. m \in 1 .. n /\ m - 1 \in 0 .. n - 1
  BY DEF T
<1>4. m - 1 \notin T
  BY <1>2, <1>3
<1>5. m - 1 \in S
  BY <1>3, <1>4
<1>6. QED BY <1>3, <1>5

\* The state of the loop before the first record.
Opening == [project |-> [NewProject(0, 0) EXCEPT !.loading = TRUE], last |-> 0]

\* The function that Replayed takes the last value of exists.
LEMMA ReplayExists ==
  ASSUME NEW K, NEW n \in Nat
  PROVE  \E f : f = [i \in 0 .. n |-> IF i = 0 THEN Opening ELSE RecordReplayed(K, i, f[i - 1])]
<1> DEFINE Fun(m) ==
             \E f : f = [i \in 0 .. m |-> IF i = 0 THEN Opening ELSE RecordReplayed(K, i, f[i - 1])]
           S == {m \in 0 .. n : Fun(m)}
<1>1. 0 \in S
  <2>1. [i \in 0 .. 0 |-> Opening]
          = [i \in 0 .. 0 |-> IF i = 0 THEN Opening
                              ELSE RecordReplayed(K, i, [j \in 0 .. 0 |-> Opening][i - 1])]
    OBVIOUS
  <2>2. Fun(0)
    BY <2>1
  <2>3. QED BY <2>2
<1>2. ASSUME NEW m \in 0 .. n - 1, m \in S PROVE m + 1 \in S
  <2>1. PICK f : f = [i \in 0 .. m |-> IF i = 0 THEN Opening ELSE RecordReplayed(K, i, f[i - 1])]
    BY <1>2
  <2> DEFINE g == [i \in 0 .. m + 1 |->
                     IF i = m + 1 THEN RecordReplayed(K, i, f[m]) ELSE f[i]]
  <2>2. ASSUME NEW k \in 0 .. m + 1
        PROVE  g[k] = IF k = 0 THEN Opening ELSE RecordReplayed(K, k, g[k - 1])
    <3>1. CASE k = m + 1
      <4>1. k # 0 /\ k - 1 = m /\ m \in 0 .. m + 1 /\ m # m + 1
        BY <3>1
      <4>2. g[k] = RecordReplayed(K, k, f[m]) /\ g[m] = f[m]
        BY <3>1, <4>1
      <4>3. QED BY <4>1, <4>2
    <3>2. CASE k \in 1 .. m
      <4>1. k # 0 /\ k \in 0 .. m /\ k - 1 \in 0 .. m /\ k # m + 1 /\ k - 1 # m + 1
            /\ k - 1 \in 0 .. m + 1
        BY <3>2
      <4>2. g[k] = f[k] /\ g[k - 1] = f[k - 1] /\ f[k] = RecordReplayed(K, k, f[k - 1])
        BY <2>1, <4>1
      <4>3. QED BY <4>1, <4>2
    <3>3. CASE k = 0
      <4>1. k \in 0 .. m /\ k # m + 1
        BY <3>3
      <4>2. g[k] = f[k] /\ f[k] = Opening
        BY <2>1, <3>3, <4>1
      <4>3. QED BY <3>3, <4>2
    <3>4. QED BY <3>1, <3>2, <3>3
  <2>3. g = [i \in 0 .. m + 1 |-> IF i = 0 THEN Opening ELSE RecordReplayed(K, i, g[i - 1])]
    BY <2>2
  <2>4. Fun(m + 1)
    <3> HIDE DEF g
    <3>1. QED BY <2>3
  <2>5. QED BY <2>4
<1>3. 0 .. n \subseteq S
  <2> HIDE DEF S
  <2>1. QED BY <1>1, <1>2, UpTo
<1>4. QED BY <1>3

\* Induction over the records: <<i, x>> \in S says what holds of the loop's
\* state x after i of them.
LEMMA ReplayedByRecords ==
  ASSUME NEW log, NEW K, K = Records(log), Len(K) \in Nat, NEW S, <<0, Opening>> \in S,
         ASSUME NEW i \in 1 .. Len(K), NEW x, <<i - 1, x>> \in S
         PROVE  <<i, RecordReplayed(K, i, x)>> \in S
  PROVE  \E x : <<Len(K), x>> \in S /\ Replayed(log) = x.project
<1> DEFINE n == Len(K)
           at == CHOOSE f : f = [i \in 0 .. n |-> IF i = 0 THEN Opening
                                                  ELSE RecordReplayed(K, i, f[i - 1])]
           P == {k \in 0 .. n : <<k, at[k]>> \in S}
<1>1. at = [i \in 0 .. n |-> IF i = 0 THEN Opening ELSE RecordReplayed(K, i, at[i - 1])]
  BY ReplayExists
<1>2. Replayed(log) = at[n].project
  BY DEF Replayed, Opening
<1> HIDE DEF at
<1>3. 0 \in P
  BY <1>1
<1>4. ASSUME NEW k \in 0 .. n - 1, k \in P PROVE k + 1 \in P
  <2>1. k + 1 \in 0 .. n /\ k + 1 \in 1 .. n /\ k + 1 # 0 /\ (k + 1) - 1 = k
    OBVIOUS
  <2>2. at[k + 1] = RecordReplayed(K, k + 1, at[k])
    BY <1>1, <2>1
  <2>3. <<(k + 1) - 1, at[k]>> \in S
    BY <1>4, <2>1
  <2>4. <<k + 1, RecordReplayed(K, k + 1, at[k])>> \in S
    BY <2>1, <2>3
  <2>5. QED BY <2>1, <2>2, <2>4
<1>5. 0 .. n \subseteq P
  <2> HIDE DEF P
  <2>1. QED BY <1>3, <1>4, UpTo
<1>6. QED BY <1>2, <1>5

\* A log replays to the last view.
LEMMA ReplayTells ==
  ASSUME NEW K, NEW b, NEW w, NEW log, Tells(log, K, b, w), Basis
  PROVE  ViewOf(Replayed(log)) = w[Len(K)]
<1>1. Records(log) = K /\ Len(K) \in Nat /\ b \in 0 .. Len(K)
  BY RecordsRead DEF Tells, Numbered, SavePoint
<1> DEFINE States == [project : LooseProject, last : Nat]
           S == {y \in (0 .. Len(K)) \X States :
                   /\ Silent(y[2].project) /\ ViewOf(y[2].project) = ViewAt(b, w, y[1])
                   /\ y[2].last = LastAt(y[1])}
<1>2. <<0, Opening>> \in S
  <2> DEFINE p == Opening.project
  <2>1. p = [NewProject(0, 0) EXCEPT !.loading = TRUE] /\ Opening.last = 0
        /\ Opening = [project |-> p, last |-> 0]
    BY DEF Opening
  <2>2. Down \in LooseProject /\ Down.doc = 0 /\ Down.done = <<>>
    BY DEF Down, LooseProject
  <2>3. NewProject(0, 0) = [Down EXCEPT !.doc = 0, !.log = 0]
    BY DEF NewProject
  <2> HIDE DEF p
  <2>4. p \in LooseProject /\ p.loading = TRUE /\ p.doc = 0 /\ p.done = Down.done
    BY ONLY <2>1, <2>2, <2>3 DEF LooseProject
  <2>5. ViewAt(b, w, 0) = Blank
    BY <1>1 DEF ViewAt, Tells, Blank
  <2>6. ViewOf(p) = ViewAt(b, w, 0)
    BY <2>2, <2>4, <2>5 DEF ViewOf, Blank
  <2>7. Opening \in States
    BY <2>1, <2>4
  <2>8. Silent(p) /\ Opening.project = p /\ Opening.last = LastAt(0) /\ 0 \in 0 .. Len(K)
    BY <1>1, <2>1, <2>4 DEF Silent, LastAt
  <2>9. /\ Silent(Opening.project) /\ ViewOf(Opening.project) = ViewAt(b, w, 0)
        /\ Opening.last = LastAt(0)
    BY <2>6, <2>8
  <2>10. <<0, Opening>> \in (0 .. Len(K)) \X States
    BY <2>7, <2>8
  <2>11. QED BY <2>9, <2>10
<1>3. ASSUME NEW i \in 1 .. Len(K), NEW x, <<i - 1, x>> \in S
      PROVE  <<i, RecordReplayed(K, i, x)>> \in S
  <2>1. /\ i - 1 \in 0 .. Len(K) /\ x \in States /\ Silent(x.project)
        /\ ViewOf(x.project) = ViewAt(b, w, i - 1) /\ x.last = LastAt(i - 1)
    BY <1>3
  <2> DEFINE q == IF IsReplayed(K[i], CountOffset(K), LastAt(i - 1))
                  THEN Dispatched(x.project, K[i]) ELSE x.project
  <2>2. Silent(q) /\ ViewOf(q) = ViewAt(b, w, i) /\ K[i].sequence = LastAt(i)
    BY <2>1, OneRecord
  <2>3. RecordReplayed(K, i, x) = [project |-> q, last |-> LastAt(i)]
    BY <2>1, <2>2 DEF RecordReplayed
  <2> HIDE DEF q
  <2>4. q \in LooseProject /\ LastAt(i) \in Nat /\ i \in 0 .. Len(K)
    BY <1>1, <2>2 DEF Silent, LastAt
  <2>5. QED BY <2>2, <2>3, <2>4
<1> HIDE DEF S
<1>4. \E x : <<Len(K), x>> \in S /\ Replayed(log) = x.project
  BY <1>1, <1>2, <1>3, ReplayedByRecords
<1>5. ViewAt(b, w, Len(K)) = w[Len(K)]
  BY <1>1 DEF ViewAt
<1>6. QED BY <1>4, <1>5 DEF S

-----------------------------------------------------------------------------
(* Writing a log.                                                          *)

\* A log that replays to a document, with the commands done since its last save
\* point, and that has n records.
Reproduces(log, n, doc, done) ==
  \E K, b, w : /\ Tells(log, K, b, w) /\ n = Len(K)
               /\ w[Len(K)] = [doc |-> doc, done |-> done]

\* Another record makes the view after it from the last one.
LEMMA RecordAppended ==
  ASSUME NEW K, Numbered(K), NEW m \in LooseRecord, m.sequence = Len(K)
  PROVE  /\ Numbered(Append(K, m)) /\ Len(Append(K, m)) = Len(K) + 1
         /\ Append(K, m)[Len(K) + 1] = m
         /\ \A i \in 1 .. Len(K) : Append(K, m)[i] = K[i]
<1> DEFINE L == Append(K, m)
           n == Len(K)
<1>1. K \in Seq(LooseRecord) /\ n \in Nat /\ \A i \in 1 .. n : K[i].sequence = i - 1
  BY LenProperties DEF Numbered
<1>2. L \in Seq(LooseRecord) /\ Len(L) = n + 1 /\ L[n + 1] = m /\ \A i \in 1 .. n : L[i] = K[i]
  BY <1>1, AppendProperties
<1> HIDE DEF L, n
<1>3. ASSUME NEW i \in 1 .. n + 1 PROVE L[i].sequence = i - 1
  <2>1. CASE i = n + 1
    BY <1>1, <1>2, <2>1 DEF n
  <2>2. CASE i \in 1 .. n
    BY <1>1, <1>2, <2>2
  <2>3. QED BY <1>1, <2>1, <2>2
<1>4. Numbered(L)
  BY <1>2, <1>3 DEF Numbered
<1>5. QED BY <1>2, <1>4 DEF L, n

LEMMA RecordSaved ==
  ASSUME NEW K, Numbered(K), NEW type, NEW command, NEW m \in LooseRecord,
         m = [type |-> type, sequence |-> Len(K), command |-> command]
  PROVE  Saved(LogOf(K), type, Len(K), command) = LogOf(Append(K, m))
<1>1. K \in Seq(LooseRecord) /\ Len(K) \in Nat
  BY LenProperties DEF Numbered
<1>2. PICK S : S = LooseRecord \cup {Magic}
  OBVIOUS
<1>3. K \in Seq(S) /\ Magic \in S /\ m \in S
  BY <1>1, <1>2, SeqMonotonic
<1>4. Append(K, m) \in Seq(S) /\ Append(K, m) # <<>>
  BY <1>3, AppendProperties
<1>5. CASE K = <<>>
  <2>1. Len(K) = 0 /\ LogOf(K) = <<>>
    BY <1>5 DEF LogOf
  <2>2. Saved(LogOf(K), type, Len(K), command) = Append(<<>>, Magic) \o <<m>>
    BY <2>1 DEF Saved
  <2>3. Append(<<>>, Magic) = <<Magic>> /\ Append(<<>>, m) = <<m>>
    OBVIOUS
  <2>4. LogOf(Append(K, m)) = <<Magic>> \o <<m>>
    BY <1>4, <1>5, <2>3 DEF LogOf
  <2>5. QED BY <2>2, <2>3, <2>4
<1>6. CASE K # <<>>
  <2>1. Len(K) # 0
    BY <1>1, <1>6, EmptySeq
  <2>2. Saved(LogOf(K), type, Len(K), command) = (<<Magic>> \o K) \o <<m>>
    BY <1>6, <2>1 DEF Saved, LogOf
  <2>3. LogOf(Append(K, m)) = <<Magic>> \o Append(K, m)
    BY <1>4 DEF LogOf
  <2>4. Append(K, m) = K \o <<m>>
    BY <1>3
  <2>5. (<<Magic>> \o K) \o <<m>> = <<Magic>> \o (K \o <<m>>)
    <3>1. <<Magic>> \in Seq(S) /\ <<m>> \in Seq(S)
      BY <1>3
    <3>2. QED BY <1>3, <3>1, ConcatAssociative
  <2>6. QED BY <2>2, <2>3, <2>4, <2>5
<1>7. QED BY <1>5, <1>6

LEMMA SavePointTold ==
  ASSUME Basis, NEW log, NEW n, NEW doc, NEW done, Reproduces(log, n, doc, done)
  PROVE  Reproduces(Saved(log, "save", n, 0), n + 1, disk, <<>>)
<1>1. PICK K, b, w : Tells(log, K, b, w) /\ n = Len(K)
  BY DEF Reproduces
<1>2. Numbered(K) /\ n \in Nat
  BY <1>1, LenProperties DEF Tells, Numbered
<1>3. PICK m : m = [type |-> "save", sequence |-> n, command |-> 0]
  OBVIOUS
<1>4. m \in LooseRecord /\ m.sequence = n /\ m.type = "save"
  BY <1>2, <1>3 DEF LooseRecord
<1>5. PICK L : L = Append(K, m)
  OBVIOUS
<1>6. /\ Numbered(L) /\ Len(L) = n + 1 /\ L[n + 1] = m
      /\ Saved(log, "save", n, 0) = LogOf(L)
  BY <1>1, <1>2, <1>3, <1>4, <1>5, RecordAppended, RecordSaved DEF Tells
<1>7. SavePoint(L, n + 1)
  BY <1>2, <1>4, <1>6 DEF SavePoint
<1>8. PICK v : v = [doc |-> disk, done |-> <<>>]
  OBVIOUS
<1>9. v \in View
  BY <1>8 DEF Basis, View
<1> DEFINE x == [i \in n + 1 .. n + 1 |-> v]
<1>10. x \in [n + 1 .. n + 1 -> View] /\ x[n + 1] = v
  BY <1>2, <1>9
<1> HIDE DEF x
<1>11. Tells(Saved(log, "save", n, 0), L, n + 1, x)
  BY <1>2, <1>6, <1>7, <1>8, <1>10 DEF Tells
<1>12. QED BY <1>6, <1>8, <1>10, <1>11 DEF Reproduces

\* A log stays true while commands are created and the file is not saved.
LEMMA ToldStays ==
  ASSUME Basis, Basis', created <= created', disk' = disk,
         \A c \in 1 .. created : before'[c] = before[c],
         NEW log, NEW K, NEW b, NEW w, Tells(log, K, b, w)
  PROVE  Tells(log, K, b, w)'
<1>1. w \in [b .. Len(K) -> View] /\ Len(K) \in Nat /\ b \in Nat
  BY LenProperties DEF Tells, Numbered, SavePoint
<1>2. View \subseteq View'
  <2>1. 1 .. created \subseteq 1 .. created'
    BY BoundsAssumption DEF Basis, Document
  <2>2. ASSUME NEW s \in Seq(1 .. created) PROVE s \in Seq(1 .. created')
    BY <2>1, SeqMonotonic
  <2>3. QED BY <2>2 DEF View
<1>3. w \in [b .. Len(K) -> View']
  BY <1>1, <1>2
<1>4. ASSUME NEW i \in b + 1 .. Len(K) PROVE Makes(w[i - 1], K[i], w[i])'
  <2>1. Makes(w[i - 1], K[i], w[i]) /\ w[i - 1] \in View
    BY <1>1 DEF Tells
  <2>2. CASE K[i].type = "edit"
    BY <2>1, <2>2 DEF Makes
  <2>3. CASE K[i].type = "undo" /\ w[i - 1].done # <<>>
    <3>1. Last(w[i - 1].done) \in 1 .. created
      BY <2>1, <2>3, FrontFacts DEF View
    <3>2. before'[Last(w[i - 1].done)] = before[Last(w[i - 1].done)]
      BY <3>1
    <3>3. QED BY <2>1, <2>3, <3>2 DEF Makes
  <2>4. QED BY <2>1, <2>2, <2>3 DEF Makes
<1>5. QED BY <1>3, <1>4 DEF Tells

LEMMA ReproducesStays ==
  ASSUME Basis, Basis', created <= created', disk' = disk,
         \A c \in 1 .. created : before'[c] = before[c],
         NEW log, NEW n, NEW doc, NEW done, Reproduces(log, n, doc, done)
  PROVE  Reproduces(log, n, doc, done)'
<1>1. PICK K, b, w : /\ Tells(log, K, b, w) /\ n = Len(K)
                     /\ w[Len(K)] = [doc |-> doc, done |-> done]
  BY DEF Reproduces
<1>2. Tells(log, K, b, w)'
  BY <1>1, ToldStays
<1>3. QED BY <1>1, <1>2 DEF Reproduces

\* A command is told by the log that has its record, in the state in which the
\* command has been created.
LEMMA CommandTold ==
  ASSUME Basis, Basis', created <= created', disk' = disk,
         \A c \in 1 .. created : before'[c] = before[c],
         NEW log, NEW n, NEW v, Reproduces(log, n, v.doc, v.done),
         NEW type \in {"edit", "undo"}, NEW command \in Nat, NEW m,
         m = [type |-> type, sequence |-> n, command |-> command],
         NEW u, u \in View', Makes(v, m, u)'
  PROVE  Reproduces(Saved(log, type, n, command), n + 1, u.doc, u.done)'
<1>1. PICK K, b, w : Tells(log, K, b, w) /\ n = Len(K)
                     /\ w[Len(K)] = [doc |-> v.doc, done |-> v.done]
  BY DEF Reproduces
<1>2. Tells(log, K, b, w)'
  BY <1>1, ToldStays
<1>3. Numbered(K) /\ n \in Nat /\ b \in 0 .. n /\ w \in [b .. n -> View']
      /\ (\A i \in b + 1 .. n : Makes(w[i - 1], K[i], w[i]))' /\ SavePoint(K, b)
      /\ log = LogOf(K)
  BY <1>1, <1>2, LenProperties DEF Tells, Numbered, SavePoint
<1>4. m \in LooseRecord /\ m.sequence = n /\ m.type # "save"
  BY <1>3 DEF LooseRecord
<1>5. PICK L : L = Append(K, m)
  OBVIOUS
<1>6. /\ Numbered(L) /\ Len(L) = n + 1 /\ L[n + 1] = m /\ \A i \in 1 .. n : L[i] = K[i]
      /\ Saved(log, type, n, command) = LogOf(L)
  BY <1>1, <1>3, <1>4, <1>5, RecordAppended, RecordSaved
<1>7. SavePoint(L, b)
  <2>1. b \in 0 .. n + 1 /\ (b # 0 => L[b].type = "save")
    BY <1>1, <1>3, <1>6 DEF SavePoint
  <2>2. ASSUME NEW i \in 1 .. n + 1, i > b PROVE L[i].type # "save"
    <3>1. CASE i = n + 1
      BY <1>4, <1>6, <3>1
    <3>2. CASE i \in 1 .. n
      BY <1>1, <1>3, <1>6, <2>2, <3>2 DEF SavePoint
    <3>3. QED BY <1>3, <3>1, <3>2
  <2>3. QED BY <1>6, <2>1, <2>2 DEF SavePoint
<1> DEFINE x == [i \in b .. n + 1 |-> IF i = n + 1 THEN u ELSE w[i]]
<1>8. x \in [b .. n + 1 -> View'] /\ x[n + 1] = u /\ \A i \in b .. n : x[i] = w[i]
  BY <1>3
<1> HIDE DEF x
<1>9. x[b] = [doc |-> IF b = 0 THEN 0 ELSE disk', done |-> <<>>]
  BY <1>2, <1>3, <1>8 DEF Tells
<1>10. ASSUME NEW i \in b + 1 .. n + 1 PROVE Makes(x[i - 1], L[i], x[i])'
  <2>1. CASE i = n + 1
    <3>1. x[i - 1] = [doc |-> v.doc, done |-> v.done] /\ L[i] = m /\ x[i] = u
      BY <1>1, <1>3, <1>6, <1>8, <2>1
    <3>2. QED BY <3>1 DEF Makes
  <2>2. CASE i \in b + 1 .. n
    <3>1. Makes(w[i - 1], K[i], w[i])'
      BY <1>3, <2>2
    <3>2. x[i - 1] = w[i - 1] /\ L[i] = K[i] /\ x[i] = w[i]
      BY <1>3, <1>6, <1>8, <2>2
    <3>3. QED BY <3>1, <3>2 DEF Makes
  <2>3. QED BY <1>3, <2>1, <2>2
<1>11. Tells(Saved(log, type, n, command), L, b, x)'
  <2>1. PICK file : file = Saved(log, type, n, command)
    OBVIOUS
  <2>2. Tells(file, L, b, x)'
    BY <1>6, <1>7, <1>8, <1>9, <1>10, <2>1 DEF Tells, Numbered, SavePoint
  <2>3. QED BY <2>1, <2>2
<1>12. x[Len(L)] = [doc |-> u.doc, done |-> u.done]
  BY <1>6, <1>8 DEF View
<1>13. QED BY <1>6, <1>11, <1>12 DEF Reproduces

\* Saving the document that a log replays to changes at most the view at its save
\* point, and there it is the same document.
LEMMA ToldWhenSaved ==
  ASSUME Basis, Basis', UNCHANGED <<before, created>>,
         NEW log, NEW n, NEW doc, NEW done, disk' = doc, Reproduces(log, n, doc, done)
  PROVE  \E d : Reproduces(log, n, doc, d)'
<1>1. PICK K, b, w : /\ Tells(log, K, b, w) /\ n = Len(K)
                     /\ w[Len(K)] = [doc |-> doc, done |-> done]
  BY DEF Reproduces
<1>2. w \in [b .. n -> View] /\ n \in Nat /\ b \in 0 .. n
  BY <1>1, LenProperties DEF Tells, Numbered, SavePoint
<1>3. PICK v : v = [doc |-> IF b = 0 THEN 0 ELSE disk', done |-> <<>>]
  OBVIOUS
<1>4. PICK x : x = [i \in b .. n |-> IF i = b THEN v ELSE w[i]]
  OBVIOUS
<1>5. View' = View
  BY DEF View
<1>6. v \in View /\ v.done = w[b].done
  BY <1>1, <1>3 DEF Basis, View, Tells
<1>7. x \in [b .. n -> View] /\ x[b] = v /\ \A i \in b + 1 .. n : x[i] = w[i]
  BY <1>2, <1>4, <1>6
<1>8. ASSUME NEW i \in b + 1 .. n PROVE Makes(x[i - 1], K[i], x[i])'
  <2>1. Makes(w[i - 1], K[i], w[i])
    BY <1>1 DEF Tells
  <2>2. x[i] = w[i] /\ x[i - 1].done = w[i - 1].done
    <3>1. CASE i = b + 1
      BY <1>2, <1>6, <1>7, <3>1
    <3>2. CASE i # b + 1
      BY <1>2, <1>7, <3>2
    <3>3. QED BY <3>1, <3>2
  <2>3. QED BY <2>1, <2>2 DEF Makes
<1>9. Tells(log, K, b, x)'
  BY <1>1, <1>3, <1>5, <1>7, <1>8 DEF Tells, Numbered, SavePoint
<1>10. x[n].doc = doc
  <2>1. CASE b = n
    BY <1>1, <1>2, <1>3, <1>7, <2>1 DEF Tells
  <2>2. CASE b # n
    BY <1>1, <1>2, <1>7, <2>2
  <2>3. QED BY <2>1, <2>2
<1>11. x[n] \in View
  BY <1>2, <1>7
<1>12. x[n] = [doc |-> doc, done |-> x[n].done]
  BY <1>10, <1>11 DEF View
<1>13. QED BY <1>1, <1>9, <1>12 DEF Reproduces

\* An empty log is that of a new project.
LEMMA NothingTold ==
  ASSUME Basis
  PROVE  Reproduces(<<>>, 0, 0, <<>>)
<1>1. PICK none : none = <<>>
  OBVIOUS
<1>2. none \in Seq(LooseRecord) /\ Len(none) = 0 /\ none \in Seq(1 .. created)
  BY <1>1
<1>3. Numbered(none) /\ SavePoint(none, 0) /\ none = LogOf(none)
  BY <1>1, <1>2 DEF Numbered, SavePoint, LogOf
<1>4. PICK v : v = [doc |-> 0, done |-> none]
  OBVIOUS
<1>5. v \in View
  BY <1>2, <1>4 DEF View
<1> DEFINE w == [i \in 0 .. 0 |-> v]
<1>6. w \in [0 .. 0 -> View] /\ w[0] = v
  BY <1>5
<1> HIDE DEF w
<1>7. Tells(none, none, 0, w)
  BY <1>1, <1>2, <1>3, <1>4, <1>6 DEF Tells
<1>8. Reproduces(none, 0, 0, none)
  BY <1>2, <1>4, <1>6, <1>7 DEF Reproduces
<1>9. QED BY <1>1, <1>8

-----------------------------------------------------------------------------
(* The invariant: while editing, the log reproduces the document.          *)

\* The commands that are done after the first d.
Since(s, d) == SubSeq(s, d + 1, Len(s))

LEMMA SinceFacts ==
  ASSUME NEW S, NEW s \in Seq(S), NEW d \in 0 .. Len(s)
  PROVE  /\ Since(s, d) \in Seq(S) /\ Len(Since(s, d)) = Len(s) - d
         /\ \A i \in 1 .. Len(s) - d : Since(s, d)[i] = s[i + d]
<1> DEFINE n == Len(s)
<1>1. n \in Nat /\ \A i \in 1 .. n : s[i] \in S
  BY ElementOfSeq, LenProperties
<1>2. Since(s, d) = SubSeq(s, d + 1, n)
  BY DEF Since
<1>3. d \in 0 .. n
  OBVIOUS
<1> HIDE DEF n
<1>4. d + 1 \in Int /\ \A i \in d + 1 .. n : s[i] \in S
  BY <1>1, <1>3
<1>5. /\ SubSeq(s, d + 1, n) \in Seq(S)
      /\ Len(SubSeq(s, d + 1, n)) = IF d + 1 <= n THEN n - (d + 1) + 1 ELSE 0
      /\ \A i \in 1 .. n - (d + 1) + 1 : SubSeq(s, d + 1, n)[i] = s[d + 1 + i - 1]
  BY <1>1, <1>4, SubSeqProperties
<1>6. /\ Len(SubSeq(s, d + 1, n)) = n - d
      /\ \A i \in 1 .. n - d : SubSeq(s, d + 1, n)[i] = s[i + d]
  <2>1. n - (d + 1) + 1 = n - d /\ \A i \in 1 .. n - d : d + 1 + i - 1 = i + d
    BY <1>1, <1>3
  <2>2. IF d + 1 <= n THEN n - d = n - (d + 1) + 1 ELSE n - d = 0
    BY <1>1, <1>3
  <2>3. QED BY <1>5, <2>1, <2>2
<1>7. QED BY <1>2, <1>5, <1>6 DEF n

LEMMA SinceAppend ==
  ASSUME NEW S, NEW s \in Seq(S), NEW d \in 0 .. Len(s), NEW c \in S
  PROVE  d \in 0 .. Len(Append(s, c)) /\ Since(Append(s, c), d) = Append(Since(s, d), c)
<1> DEFINE n == Len(s)
           t == Append(s, c)
           l == Since(t, d)
           r == Append(Since(s, d), c)
<1>1. n \in Nat /\ d \in 0 .. n
  BY LenProperties
<1>2. t \in Seq(S) /\ Len(t) = n + 1 /\ t[n + 1] = c /\ \A i \in 1 .. n : t[i] = s[i]
  BY AppendProperties
<1>3. Since(s, d) \in Seq(S) /\ Len(Since(s, d)) = n - d
      /\ \A i \in 1 .. n - d : Since(s, d)[i] = s[i + d]
  BY SinceFacts
<1> HIDE DEF n, t
<1>4. l \in Seq(S) /\ Len(l) = n + 1 - d /\ \A i \in 1 .. n + 1 - d : l[i] = t[i + d]
  <2>1. d \in 0 .. Len(t)
    BY <1>1, <1>2
  <2>2. l \in Seq(S) /\ Len(l) = Len(t) - d /\ \A i \in 1 .. Len(t) - d : l[i] = t[i + d]
    BY <1>2, <2>1, SinceFacts
  <2> HIDE DEF l
  <2>3. QED BY <1>1, <1>2, <2>2
<1>5. r \in Seq(S) /\ Len(r) = n - d + 1 /\ r[n - d + 1] = c
      /\ \A i \in 1 .. n - d : r[i] = Since(s, d)[i]
  BY <1>3, AppendProperties
<1> HIDE DEF l, r
<1>6. Len(l) = Len(r)
  BY <1>1, <1>4, <1>5
<1>7. ASSUME NEW i \in 1 .. Len(l) PROVE l[i] = r[i]
  <2>1. CASE i = n - d + 1
    <3>1. l[i] = t[i + d] /\ i + d = n + 1
      BY <1>1, <1>4, <2>1
    <3>2. QED BY <1>2, <1>5, <2>1, <3>1
  <2>2. CASE i \in 1 .. n - d
    <3>1. l[i] = t[i + d] /\ i + d \in 1 .. n
      BY <1>1, <1>4, <2>2
    <3>2. QED BY <1>2, <1>3, <1>5, <2>2, <3>1
  <2>3. QED BY <1>1, <1>4, <2>1, <2>2
<1>8. l = r
  BY <1>4, <1>5, <1>6, <1>7, SeqEqual
<1>9. QED BY <1>1, <1>2, <1>8 DEF l, r, t

LEMMA SinceFront ==
  ASSUME NEW S, NEW s \in Seq(S), NEW d \in 0 .. Len(s), d < Len(s)
  PROVE  /\ Since(s, d) # <<>> /\ Last(Since(s, d)) = Last(s)
         /\ d \in 0 .. Len(Front(s)) /\ Since(Front(s), d) = Front(Since(s, d))
<1> DEFINE n == Len(s)
           v == Since(s, d)
           l == Since(Front(s), d)
           r == Front(v)
<1>1. n \in Nat /\ d \in 0 .. n /\ d < n /\ s # <<>>
  BY LenProperties, EmptySeq
<1>2. v \in Seq(S) /\ Len(v) = n - d /\ \A i \in 1 .. n - d : v[i] = s[i + d]
  BY SinceFacts
<1>3. v # <<>>
  BY <1>1, <1>2, EmptySeq
<1>4. /\ Front(s) \in Seq(S) /\ Len(Front(s)) = n - 1
      /\ \A i \in 1 .. n - 1 : Front(s)[i] = s[i]
      /\ Last(s) = s[n]
  BY <1>1, FrontFacts
<1> HIDE DEF n
<1>5. /\ r \in Seq(S) /\ Len(r) = n - d - 1
      /\ \A i \in 1 .. n - d - 1 : r[i] = v[i]
      /\ Last(v) = v[n - d]
  <2> HIDE DEF v
  <2>1. QED BY <1>2, <1>3, FrontFacts
<1>6. d \in 0 .. Len(Front(s))
  BY <1>1, <1>4
<1>7. l \in Seq(S) /\ Len(l) = n - 1 - d /\ \A i \in 1 .. n - 1 - d : l[i] = Front(s)[i + d]
  <2>1. l \in Seq(S) /\ Len(l) = Len(Front(s)) - d
        /\ \A i \in 1 .. Len(Front(s)) - d : l[i] = Front(s)[i + d]
    BY <1>4, <1>6, SinceFacts
  <2> HIDE DEF l
  <2>2. QED BY <1>4, <2>1
<1> HIDE DEF v, l, r
<1>8. Len(l) = Len(r)
  BY <1>1, <1>5, <1>7
<1>9. ASSUME NEW i \in 1 .. Len(l) PROVE l[i] = r[i]
  <2>1. i \in 1 .. n - 1 - d /\ i \in 1 .. n - d - 1 /\ i \in 1 .. n - d /\ i + d \in 1 .. n - 1
    BY <1>1, <1>7
  <2>2. QED BY <1>2, <1>4, <1>5, <1>7, <2>1
<1>10. l = r
  BY <1>5, <1>7, <1>8, <1>9, SeqEqual
<1>11. Last(v) = Last(s)
  <2>1. n - d \in 1 .. n - d /\ n - d + d = n
    BY <1>1
  <2>2. QED BY <1>2, <1>4, <1>5, <2>1
<1>12. QED BY <1>3, <1>6, <1>10, <1>11 DEF v, l, r

LEMMA SinceAll ==
  ASSUME NEW S, NEW s \in Seq(S)
  PROVE  Since(s, Len(s)) = <<>> /\ Len(s) \in 0 .. Len(s)
<1>1. Len(s) \in Nat
  BY LenProperties
<1>2. Since(s, Len(s)) \in Seq(S) /\ Len(Since(s, Len(s))) = Len(s) - Len(s)
  BY <1>1, SinceFacts
<1>3. QED BY <1>1, <1>2, EmptySeq

-----------------------------------------------------------------------------
\* The project that is being edited.
LiveProject == [doc : Nat, done : Seq(1 .. created), undone : Seq(1 .. created),
                log : 0 .. files, sequence : Nat, loading : {FALSE}]

\* The log of the project, if it has one, replays to doc and done.
Logged(doc, done) ==
  project.log # 0 => Reproduces(logs[project.log], project.sequence, doc, done)

\* After the record of a command is written, and until the command takes effect,
\* the log is one command ahead; until the save point is written, the commands
\* done since the last one are not known from the log.
InEdit == phase = "edit" /\ Logged(project.doc, Since(project.done, depth))
InApply ==
  /\ phase = "apply"
  /\ \/ /\ pending.type = "edit" /\ pending.command \in 1 .. created
        /\ Logged(pending.command, Append(Since(project.done, depth), pending.command))
     \/ /\ pending.type = "undo" /\ depth < Len(project.done)
        /\ Logged(before[Last(project.done)], Front(Since(project.done, depth)))
InSaved ==
  /\ phase = "saved" /\ disk = project.doc /\ depth = Len(project.done)
  /\ \E d : Logged(project.doc, d)

\* Log files that no project has yet are empty.
Unused == \A l \in 1 .. MaxProject : l > files => logs[l] = <<>>

Editing ==
  /\ project \in LiveProject /\ depth \in 0 .. Len(project.done)
  /\ files \in 1 .. MaxProject /\ Unused
  /\ InEdit \/ InApply \/ InSaved

\* The log that the crash file names replays to a document that is expected, and
\* a recovery has come to the view after the first i of its records.
Recoverable(K, b, w) ==
  /\ Tells(logs[crashFile], K, b, w)
  /\ w[Len(K)].doc \in expected
Arrived(K, b, w) ==
  /\ project \in LooseProject /\ (K = <<>> \/ Silent(project))
  /\ \E i \in 0 .. Len(K) : /\ replay.position = i + 1 /\ replay.last = LastAt(i)
                            /\ ViewOf(project) = ViewAt(b, w, i)
Recovering ==
  /\ phase \in {"down", "replay"}
  /\ crashFile # 0 /\ expected # {} =>
       \E K, b, w : Recoverable(K, b, w) /\ (phase = "replay" => Arrived(K, b, w))
  /\ (phase = "replay" => crashFile # 0) /\ files \in Nat

Basics == Basis /\ logs = [l \in 1 .. MaxProject |-> logs[l]]
IInv == Basics /\ (Editing \/ Recovering)

LEMMA InitIInv == Init => IInv
<1> SUFFICES ASSUME Init PROVE IInv
  OBVIOUS
<1>1. Basics
  BY BoundsAssumption DEF Init, Basics, Basis, Document
<1>2. created = 0 /\ phase = "edit" /\ depth = 0 /\ files = 1
      /\ logs = [l \in 1 .. MaxProject |-> <<>>] /\ project = NewProject(0, 1)
  BY DEF Init
<1>3. project \in LiveProject /\ project.doc = 0 /\ project.done = <<>> /\ project.log = 1
      /\ project.sequence = 0
  <2> DEFINE none == <<>>
  <2>1. none \in Seq(1 .. created)
    OBVIOUS
  <2>2. Down = [doc |-> 0, done |-> none, undone |-> none, log |-> 0, sequence |-> 0,
                loading |-> FALSE]
    BY DEF Down
  <2>3. project = [Down EXCEPT !.doc = 0, !.log = 1]
    BY <1>2 DEF NewProject
  <2> HIDE DEF none
  <2>4. project \in LiveProject /\ project.doc = 0 /\ project.done = none /\ project.log = 1
        /\ project.sequence = 0
    <3>1. 1 \in 0 .. files /\ 0 \in Nat
      BY <1>2
    <3>2. PICK S, T : S = Seq(1 .. created) /\ T = 0 .. files
      OBVIOUS
    <3>3. LiveProject = [doc : Nat, done : S, undone : S, log : T, sequence : Nat,
                         loading : {FALSE}]
      BY <3>2 DEF LiveProject
    <3>4. QED BY <2>1, <2>2, <2>3, <3>1, <3>2, <3>3
  <2>5. QED BY <2>4 DEF none
<1>4. depth \in 0 .. Len(project.done) /\ Since(project.done, depth) = <<>>
  <2>1. project.done \in Seq(1 .. created) /\ Len(project.done) = 0
    BY <1>3 DEF LiveProject
  <2>2. QED BY <1>2, <2>1, SinceAll
<1>5. files \in 1 .. MaxProject /\ Unused /\ logs[project.log] = <<>>
  BY <1>2, <1>3, BoundsAssumption DEF Unused
<1>6. InEdit
  BY <1>1, <1>2, <1>3, <1>4, <1>5, NothingTold DEF InEdit, Logged, Basics
<1>7. QED BY <1>1, <1>3, <1>4, <1>5, <1>6 DEF IInv, Editing

-----------------------------------------------------------------------------
(* The steps.                                                              *)

LEMMA LiveGrows ==
  ASSUME Basis, Basis', created <= created', files' \in Nat, files \in Nat, files <= files'
  PROVE  LiveProject \subseteq LiveProject'
<1>1. 1 .. created \subseteq 1 .. created' /\ 0 .. files \subseteq 0 .. files'
  BY BoundsAssumption DEF Basis, Document
<1>2. ASSUME NEW s \in Seq(1 .. created) PROVE s \in Seq(1 .. created')
  BY <1>1, SeqMonotonic
<1>3. QED BY <1>1, <1>2 DEF LiveProject

\* What writing a record changes.
LEMMA Recorded ==
  ASSUME Basics, project \in LiveProject, files \in 1 .. MaxProject, Unused, NEW type, NEW command,
         logs' = WrittenLogs(project, logs, type, command), project' = Written(project),
         files' = files
  PROVE  /\ logs' = [l \in 1 .. MaxProject |-> logs'[l]] /\ Unused'
         /\ project' \in LiveProject
         /\ project'.doc = project.doc /\ project'.done = project.done
         /\ project'.undone = project.undone /\ project'.log = project.log
         /\ project.log # 0 =>
              /\ project'.sequence = project.sequence + 1
              /\ logs'[project.log] = Saved(logs[project.log], type, project.sequence, command)
<1>1. project.loading = FALSE /\ project.log \in 0 .. files /\ project.sequence \in Nat
  BY DEF LiveProject
<1>2. logs = [l \in 1 .. MaxProject |-> logs[l]]
  BY DEF Basics
<1>3. CASE project.log = 0
  <2>1. logs' = logs /\ project' = project
    BY <1>3 DEF WrittenLogs, Written, Writes
  <2>2. QED BY <1>2, <1>3, <2>1 DEF Unused
<1>4. CASE project.log # 0
  <2>1. Writes(project)
    BY <1>1, <1>4 DEF Writes
  <2>2. PICK p : p = project.log
    OBVIOUS
  <2>3. PICK e : e = Saved(logs[p], type, project.sequence, command)
    OBVIOUS
  <2>4. logs' = [logs EXCEPT ![p] = e]
    BY <2>1, <2>2, <2>3 DEF WrittenLogs
  <2>5. p \in 1 .. MaxProject /\ p <= files
    BY <1>1, <1>4, <2>2, BoundsAssumption
  <2>6. logs' = [l \in 1 .. MaxProject |-> IF l = p THEN e ELSE logs[l]]
    BY <1>2, <2>4
  <2>7. logs'[p] = e /\ logs' = [l \in 1 .. MaxProject |-> logs'[l]]
    BY <2>5, <2>6
  <2>8. Unused'
    <3>1. ASSUME NEW l \in 1 .. MaxProject, l > files PROVE logs'[l] = <<>>
      BY <2>5, <2>6, <3>1 DEF Unused
    <3>2. QED BY <3>1 DEF Unused
  <2>9. PICK n : n = project.sequence + 1
    OBVIOUS
  <2>10. project' = [project EXCEPT !.sequence = n] /\ n \in Nat
    BY <1>1, <2>1, <2>9 DEF Written
  <2>11. /\ project' \in LiveProject
         /\ project'.doc = project.doc /\ project'.done = project.done
         /\ project'.undone = project.undone /\ project'.log = project.log
         /\ project'.sequence = n
    BY <2>10 DEF LiveProject
  <2>12. QED BY <2>2, <2>3, <2>7, <2>8, <2>9, <2>11
<1>5. QED BY <1>3, <1>4

\* A command is persisted: the log is ahead by what the command will make.
LEMMA CommandRecorded ==
  ASSUME Basics, Basis', project \in LiveProject, files \in 1 .. MaxProject, Unused,
         Logged(project.doc, Since(project.done, depth)),
         created <= created', \A c \in 1 .. created : before'[c] = before[c],
         disk' = disk, files' = files,
         NEW type \in {"edit", "undo"}, NEW command \in Nat, Persist(type, command),
         NEW doc \in Nat, NEW done \in Seq(1 .. created'),
         \/ type = "edit" /\ doc = command /\ done = Append(Since(project.done, depth), command)
         \/ type = "undo" /\ Since(project.done, depth) # <<>>
            /\ doc = before'[Last(Since(project.done, depth))]
            /\ done = Front(Since(project.done, depth))
  PROVE  Basics' /\ project' \in LiveProject' /\ Unused' /\ Logged(doc, done)'
         /\ project'.doc = project.doc /\ project'.done = project.done
         /\ project'.undone = project.undone
<1>1. logs' = WrittenLogs(project, logs, type, command) /\ project' = Written(project)
      /\ files' = files
  BY DEF Persist
<1>2. /\ logs' = [l \in 1 .. MaxProject |-> logs'[l]] /\ Unused'
      /\ project' \in LiveProject
      /\ project'.doc = project.doc /\ project'.done = project.done
      /\ project'.undone = project.undone /\ project'.log = project.log
      /\ project.log # 0 =>
           /\ project'.sequence = project.sequence + 1
           /\ logs'[project.log] = Saved(logs[project.log], type, project.sequence, command)
  BY <1>1, Recorded
<1>3. project' \in LiveProject'
  <2>1. files \in Nat
    BY BoundsAssumption
  <2>2. QED BY <1>1, <1>2, <2>1, LiveGrows DEF Basics
<1>4. ASSUME project.log # 0 PROVE Logged(doc, done)'
  <2>1. PICK v : v = [doc |-> project.doc, done |-> Since(project.done, depth)]
    OBVIOUS
  <2>2. PICK u : u = [doc |-> doc, done |-> done]
    OBVIOUS
  <2>3. PICK log, n : log = logs[project.log] /\ n = project.sequence
    OBVIOUS
  <2>4. Reproduces(log, n, v.doc, v.done)
    BY <1>4, <2>1, <2>3 DEF Logged
  <2>6. PICK m : m = [type |-> type, sequence |-> n, command |-> command]
    OBVIOUS
  <2>7. u \in View'
    BY <2>2 DEF View
  <2>8. Makes(v, m, u)'
    BY <2>1, <2>2, <2>6 DEF Makes
  <2>9. Reproduces(Saved(log, type, n, command), n + 1, u.doc, u.done)'
    BY <2>4, <2>6, <2>7, <2>8, CommandTold DEF Basics
  <2>10. QED BY <1>2, <1>4, <2>2, <2>3, <2>9 DEF Logged
<1>5. QED BY <1>2, <1>3, <1>4 DEF Logged, Basics

-----------------------------------------------------------------------------
(* The invariant through the steps of the user.                            *)
LEMMA BasicsSame ==
  ASSUME Basics, UNCHANGED <<before, created, disk, logs>>
  PROVE  Basics'
BY DEF Basics, Basis

\* While editing, only the user's commands, saves and projects, and a crash, can come.
LEMMA EditingParts ==
  ASSUME Editing
  PROVE  /\ project \in LiveProject /\ depth \in 0 .. Len(project.done)
         /\ project.doc \in Nat /\ project.done \in Seq(1 .. created)
         /\ project.undone \in Seq(1 .. created) /\ project.log \in 0 .. files
         /\ project.loading = FALSE /\ project.sequence \in Nat
         /\ files \in 1 .. MaxProject /\ Unused
         /\ Since(project.done, depth) \in Seq(1 .. created)
         /\ phase = "edit" => Logged(project.doc, Since(project.done, depth))
BY SinceFacts DEF Editing, LiveProject, InEdit, InApply, InSaved

LEMMA EditIInv ==
  ASSUME IInv, Edit
  PROVE  IInv'
<1>1. phase = "edit" /\ Editing /\ Basics
  BY DEF Edit, Persist, IInv, Recovering
<1>2. PICK c : c = created'
  OBVIOUS
<1>3. PICK type : type = "edit"
  OBVIOUS
<1>4. created < MaxCommand /\ created' = created + 1 /\ Persist(type, c)
      /\ before' = [before EXCEPT ![c] = project.doc]
      /\ UNCHANGED <<depth, disk, files, crashFile, target, replay, expected>>
  BY <1>2, <1>3 DEF Edit
<1>5. created \in 0 .. MaxCommand /\ c = created + 1 /\ c \in 1 .. MaxCommand /\ c \in Nat
      /\ c \in 1 .. created'
  BY <1>1, <1>2, <1>4, BoundsAssumption DEF Basics, Basis, Document
<1>6. before' \in [Commands -> Nat] /\ \A e \in 1 .. created : before'[e] = before[e]
  BY <1>1, <1>4, <1>5, EditingParts DEF Basics, Basis, Commands
<1>7. Basis'
  BY <1>1, <1>2, <1>4, <1>5, <1>6 DEF Basics, Basis, Document
<1>8. PICK s : s = Append(Since(project.done, depth), c)
  OBVIOUS
<1>9. s \in Seq(1 .. created')
  <2>1. 1 .. created \subseteq 1 .. created'
    BY <1>1, <1>4, BoundsAssumption DEF Basics, Basis, Document
  <2>2. Since(project.done, depth) \in Seq(1 .. created')
    BY <1>1, <2>1, EditingParts, SeqMonotonic
  <2>3. QED BY <1>5, <1>8, <2>2, AppendProperties
<1>10. Basics' /\ project' \in LiveProject' /\ Unused' /\ Logged(c, s)'
       /\ project'.doc = project.doc /\ project'.done = project.done
  <2>1. logs' = [l \in 1 .. MaxProject |-> logs'[l]]
    BY <1>1, <1>4, EditingParts, Recorded DEF Persist
  <2>2. Basics'
    BY <1>7, <2>1 DEF Basics
  <2>3. created <= created' /\ type \in {"edit", "undo"}
    BY <1>3, <1>4, <1>5
  <2>4. /\ project \in LiveProject /\ files \in 1 .. MaxProject /\ Unused
        /\ Logged(project.doc, Since(project.done, depth))
    BY <1>1, EditingParts
  <2>5. disk' = disk /\ files' = files
    BY <1>4
  <2>6. QED BY <1>1, <1>3, <1>4, <1>5, <1>6, <1>7, <1>8, <1>9, <2>2, <2>3, <2>4, <2>5, CommandRecorded
<1>11. phase' = "apply" /\ pending'.type = "edit" /\ pending'.command = c
  BY <1>3, <1>4 DEF Persist
<1>12. InApply'
  BY <1>2, <1>4, <1>5, <1>8, <1>10, <1>11 DEF InApply
<1>13. QED BY <1>1, <1>4, <1>10, <1>12, EditingParts DEF IInv, Editing

LEMMA UndoIInv ==
  ASSUME IInv, Undo, "undoSaved" \notin Events
  PROVE  IInv'
<1>1. phase = "edit" /\ Editing /\ Basics
  BY DEF Undo, Persist, IInv, Recovering
<1>2. PICK type : type = "undo"
  OBVIOUS
<1>3. Persist(type, 0) /\ depth < Len(project.done)
      /\ UNCHANGED <<before, created, depth, disk, files, crashFile, target, replay, expected>>
  <2>1. Len(project.done) \in Nat /\ depth \in Nat
    BY <1>1, EditingParts, LenProperties
  <2>2. QED BY <1>2, <2>1 DEF Undo
<1>4. PICK v : v = Since(project.done, depth)
  OBVIOUS
<1>5. v \in Seq(1 .. created) /\ v # <<>> /\ Last(v) = Last(project.done)
  BY <1>1, <1>3, <1>4, EditingParts, SinceFront
<1>6. PICK doc, s : doc = before[Last(v)] /\ s = Front(v)
  OBVIOUS
<1>7. Last(v) \in 1 .. created /\ s \in Seq(1 .. created')
  BY <1>3, <1>5, <1>6, FrontFacts
<1>8. doc \in Nat
  <2>1. Last(v) \in Commands
    BY <1>1, <1>7, CreatedCommands DEF Basics
  <2>2. QED BY <1>1, <1>6, <2>1 DEF Basics, Basis
<1>9. Basics' /\ project' \in LiveProject' /\ Unused' /\ Logged(doc, s)'
      /\ project'.doc = project.doc /\ project'.done = project.done
  <2>1. logs' = [l \in 1 .. MaxProject |-> logs'[l]]
    BY <1>1, <1>3, EditingParts, Recorded DEF Persist
  <2>2. Basics'
    BY <1>1, <1>3, <2>1 DEF Basics, Basis
  <2>3. created <= created' /\ 0 \in Nat /\ type \in {"edit", "undo"}
    BY <1>1, <1>2, <1>3, BoundsAssumption DEF Basics, Basis, Document
  <2>4. doc = before'[Last(v)]
    BY <1>3, <1>6
  <2>5. /\ project \in LiveProject /\ files \in 1 .. MaxProject /\ Unused
        /\ Logged(project.doc, Since(project.done, depth))
    BY <1>1, EditingParts
  <2>6. disk' = disk /\ files' = files /\ \A e \in 1 .. created : before'[e] = before[e]
    BY <1>3
  <2>7. Basis'
    BY <2>2 DEF Basics
  <2>8. QED BY <1>1, <1>2, <1>3, <1>4, <1>5, <1>6, <1>7, <1>8, <2>2, <2>3, <2>4, <2>5, <2>6, <2>7,
               CommandRecorded
<1>10. phase' = "apply" /\ pending'.type = "undo"
  BY <1>2, <1>3 DEF Persist
<1>11. doc = before'[Last(project'.done)] /\ s = Front(Since(project'.done, depth'))
  BY <1>3, <1>4, <1>5, <1>6, <1>9
<1>12. InApply'
  BY <1>3, <1>9, <1>10, <1>11 DEF InApply
<1>13. QED BY <1>1, <1>3, <1>9, <1>12, EditingParts DEF IInv, Editing

LEMMA RedoIInv ==
  ASSUME IInv, Redo
  PROVE  IInv'
<1>1. phase = "edit" /\ Editing /\ Basics
  BY DEF Redo, Persist, IInv, Recovering
<1>2. PICK c : c = Head(project.undone)
  OBVIOUS
<1>3. PICK type : type = "edit"
  OBVIOUS
<1>4. Persist(type, c) /\ project.undone # <<>>
      /\ UNCHANGED <<before, created, depth, disk, files, crashFile, target, replay, expected>>
  BY <1>2, <1>3 DEF Redo
<1>5. c \in 1 .. created /\ c \in Nat
  <2>1. project.undone \in Seq(1 .. created)
    BY <1>1, EditingParts
  <2>2. QED BY <1>1, <1>2, <1>4, <2>1, HeadTailProperties, CreatedCommands DEF Basics
<1>6. PICK s : s = Append(Since(project.done, depth), c)
  OBVIOUS
<1>7. s \in Seq(1 .. created')
  BY <1>1, <1>4, <1>5, <1>6, EditingParts, AppendProperties
<1>8. Basics' /\ project' \in LiveProject' /\ Unused' /\ Logged(c, s)'
      /\ project'.doc = project.doc /\ project'.done = project.done
  <2>1. logs' = [l \in 1 .. MaxProject |-> logs'[l]]
    BY <1>1, <1>4, EditingParts, Recorded DEF Persist
  <2>2. Basics'
    BY <1>1, <1>4, <2>1 DEF Basics, Basis
  <2>3. created <= created' /\ type \in {"edit", "undo"}
    BY <1>1, <1>3, <1>4, BoundsAssumption DEF Basics, Basis, Document
  <2>4. /\ project \in LiveProject /\ files \in 1 .. MaxProject /\ Unused
        /\ Logged(project.doc, Since(project.done, depth))
    BY <1>1, EditingParts
  <2>5. disk' = disk /\ files' = files /\ \A e \in 1 .. created : before'[e] = before[e]
    BY <1>4
  <2>6. Basis' /\ c \in Nat /\ s \in Seq(1 .. created')
    BY <1>5, <1>7, <2>2 DEF Basics
  <2>7. QED BY <1>1, <1>3, <1>4, <1>5, <1>6, <2>2, <2>3, <2>4, <2>5, <2>6, CommandRecorded
<1>9. phase' = "apply" /\ pending'.type = "edit" /\ pending'.command = c
  BY <1>3, <1>4 DEF Persist
<1>10. InApply'
  BY <1>4, <1>5, <1>6, <1>8, <1>9 DEF InApply
<1>11. QED BY <1>1, <1>4, <1>8, <1>10, EditingParts DEF IInv, Editing

LEMMA CommitFileIInv ==
  ASSUME IInv, CommitFile
  PROVE  IInv'
<1>1. phase = "edit" /\ Editing /\ Basics
  BY DEF CommitFile, IInv, Recovering
<1>2. disk' = project.doc /\ depth' = Len(project.done) /\ phase' = "saved"
      /\ UNCHANGED <<project, pending, before, created, logs, files, crashFile, target,
                     replay, expected>>
  BY DEF CommitFile
<1>3. Basics'
  BY <1>1, <1>2, EditingParts DEF Basics, Basis
<1>4. project \in LiveProject' /\ Unused'
  BY <1>1, <1>2, EditingParts DEF LiveProject, Unused
<1>5. PICK log, n, doc, done : log = logs[project.log] /\ n = project.sequence
                               /\ doc = project.doc /\ done = Since(project.done, depth)
  OBVIOUS
<1>6. ASSUME project.log # 0 PROVE \E d : Reproduces(log, n, doc, d)'
  <2>1. Reproduces(log, n, doc, done)
    BY <1>1, <1>5, <1>6, EditingParts DEF Logged
  <2>2. disk' = doc
    BY <1>2, <1>5
  <2>3. QED BY <1>1, <1>2, <1>3, <2>1, <2>2, ToldWhenSaved DEF Basics
<1>7. \E d : Logged(project.doc, d)'
  BY <1>2, <1>5, <1>6 DEF Logged
<1>8. InSaved'
  BY <1>2, <1>7 DEF InSaved
<1>9. depth' \in 0 .. Len(project'.done)
  BY <1>1, <1>2, EditingParts, LenProperties
<1>10. QED BY <1>1, <1>2, <1>3, <1>4, <1>8, <1>9, EditingParts DEF IInv, Editing

LEMMA WriteSavePointIInv ==
  ASSUME IInv, WriteSavePoint
  PROVE  IInv'
<1>1. phase = "saved" /\ Editing /\ Basics
  BY DEF WriteSavePoint, IInv, Recovering
<1>2. PICK type : type = "save"
  OBVIOUS
<1>3. logs' = WrittenLogs(project, logs, type, 0) /\ project' = Written(project)
      /\ phase' = "edit"
      /\ UNCHANGED <<pending, before, created, depth, disk, files, crashFile, target, replay,
                     expected>>
  BY <1>2 DEF WriteSavePoint
<1>4. /\ logs' = [l \in 1 .. MaxProject |-> logs'[l]] /\ Unused'
      /\ project' \in LiveProject
      /\ project'.doc = project.doc /\ project'.done = project.done
      /\ project'.undone = project.undone /\ project'.log = project.log
      /\ project.log # 0 =>
           /\ project'.sequence = project.sequence + 1
           /\ logs'[project.log] = Saved(logs[project.log], type, project.sequence, 0)
  BY <1>1, <1>3, EditingParts, Recorded
<1>5. Basics'
  BY <1>1, <1>3, <1>4 DEF Basics, Basis
<1>6. project' \in LiveProject'
  BY <1>3, <1>4 DEF LiveProject
<1>7. disk = project.doc /\ depth = Len(project.done) /\ \E d : Logged(project.doc, d)
  BY <1>1 DEF Editing, InEdit, InApply, InSaved
<1>8. Since(project.done, depth) = <<>>
  BY <1>1, <1>7, EditingParts, SinceAll
<1>9. PICK doc, none : doc = disk /\ none = <<>>
  OBVIOUS
<1>10. Logged(doc, none)'
  <2>1. SUFFICES ASSUME project.log # 0 PROVE Logged(doc, none)'
    BY <1>4 DEF Logged
  <2>2. PICK log, n : log = logs[project.log] /\ n = project.sequence
    OBVIOUS
  <2>3. PICK d : Reproduces(log, n, project.doc, d)
    BY <1>7, <2>1, <2>2 DEF Logged
  <2>4. PICK file, m : file = Saved(log, "save", n, 0) /\ m = n + 1
    OBVIOUS
  <2>5. Reproduces(file, m, doc, none)
    BY <1>1, <1>9, <2>3, <2>4, SavePointTold DEF Basics
  <2>6. created <= created'
    BY <1>1, <1>3, BoundsAssumption DEF Basics, Basis, Document
  <2>7. Reproduces(file, m, doc, none)'
    BY <1>1, <1>3, <1>5, <2>5, <2>6, ReproducesStays DEF Basics
  <2>8. file = logs'[project'.log] /\ m = project'.sequence
    BY <1>2, <1>4, <2>1, <2>2, <2>4
  <2>9. QED BY <2>7, <2>8 DEF Logged
<1>11. InEdit'
  <2>1. project'.doc = doc /\ Since(project'.done, depth') = none
    BY <1>3, <1>4, <1>7, <1>8, <1>9
  <2>2. QED BY <1>3, <1>10, <2>1 DEF InEdit
<1>12. QED BY <1>1, <1>3, <1>4, <1>5, <1>6, <1>11, EditingParts DEF IInv, Editing

-----------------------------------------------------------------------------
(* The invariant through a command that takes effect and a save.           *)
\* A command takes effect.
LEMMA AppliedEdit ==
  ASSUME NEW p \in LiveProject, NEW c \in 1 .. created, c \in Nat, NEW m,
         m.type = "edit", m.command = c
  PROVE  /\ Applied(p, m) \in LiveProject
         /\ Applied(p, m).doc = c /\ Applied(p, m).done = Append(p.done, c)
         /\ Applied(p, m).log = p.log /\ Applied(p, m).sequence = p.sequence
<1> DEFINE q == Applied(p, m)
<1>1. PICK done, none : done = Append(p.done, c) /\ none = <<>>
  OBVIOUS
<1>2. p.done \in Seq(1 .. created) /\ p.undone \in Seq(1 .. created)
  BY DEF LiveProject
<1>3. done \in Seq(1 .. created) /\ none \in Seq(1 .. created)
  BY <1>1, <1>2, AppendProperties
<1>4. q = IF p.undone # none /\ Head(p.undone) = c THEN Redone(p) ELSE Pushed(p, c)
  BY <1>1 DEF Applied
<1>5. CASE p.undone # none /\ Head(p.undone) = c
  <2>1. PICK tail : tail = Tail(p.undone)
    OBVIOUS
  <2>2. tail \in Seq(1 .. created)
    BY <1>1, <1>2, <1>5, <2>1, HeadTailProperties
  <2>3. q = [p EXCEPT !.doc = c, !.done = done, !.undone = tail]
    BY <1>1, <1>4, <1>5, <2>1 DEF Redone
  <2> HIDE DEF q
  <2>4. q \in LiveProject /\ q.doc = c /\ q.done = done /\ q.log = p.log /\ q.sequence = p.sequence
    BY <1>3, <2>2, <2>3 DEF LiveProject
  <2>5. QED BY <1>1, <2>4 DEF q
<1>6. CASE ~(p.undone # none /\ Head(p.undone) = c)
  <2>1. q = [p EXCEPT !.doc = c, !.done = done, !.undone = none]
    BY <1>1, <1>4, <1>6 DEF Pushed
  <2> HIDE DEF q
  <2>2. q \in LiveProject /\ q.doc = c /\ q.done = done /\ q.log = p.log /\ q.sequence = p.sequence
    BY <1>3, <2>1 DEF LiveProject
  <2>3. QED BY <1>1, <2>2 DEF q
<1>7. QED BY <1>5, <1>6

LEMMA AppliedUndo ==
  ASSUME Basis, NEW p \in LiveProject, p.done # <<>>, NEW m, m.type = "undo"
  PROVE  /\ Applied(p, m) \in LiveProject
         /\ Applied(p, m).doc = before[Last(p.done)] /\ Applied(p, m).done = Front(p.done)
         /\ Applied(p, m).log = p.log /\ Applied(p, m).sequence = p.sequence
<1> DEFINE q == Applied(p, m)
<1>1. PICK c, doc, done, undone : /\ c = Last(p.done) /\ doc = before[c] /\ done = Front(p.done)
                                  /\ undone = <<c>> \o p.undone
  OBVIOUS
<1>2. p.done \in Seq(1 .. created) /\ p.undone \in Seq(1 .. created)
  BY DEF LiveProject
<1>3. c \in 1 .. created /\ done \in Seq(1 .. created)
  BY <1>1, <1>2, FrontFacts
<1>4. undone \in Seq(1 .. created)
  BY <1>1, <1>2, <1>3
<1>5. doc \in Nat
  <2>1. c \in Commands
    BY <1>3, CreatedCommands
  <2>2. QED BY <1>1, <2>1 DEF Basis
<1>6. q = [p EXCEPT !.doc = doc, !.done = done, !.undone = undone]
  BY <1>1 DEF Applied, Undone
<1> HIDE DEF q
<1>7. q \in LiveProject /\ q.doc = doc /\ q.done = done /\ q.log = p.log /\ q.sequence = p.sequence
  BY <1>3, <1>4, <1>5, <1>6 DEF LiveProject
<1>8. QED BY <1>1, <1>7 DEF q

\* What the log says while a command is being performed.
LEMMA ApplyingShows ==
  ASSUME Basis, Editing, InApply
  PROVE  /\ Applied(project, pending) \in LiveProject
         /\ Applied(project, pending).log = project.log
         /\ Applied(project, pending).sequence = project.sequence
         /\ depth \in 0 .. Len(Applied(project, pending).done)
         /\ Logged(Applied(project, pending).doc, Since(Applied(project, pending).done, depth))
<1>1. PICK q : q = Applied(project, pending)
  OBVIOUS
<1>2. /\ project \in LiveProject /\ depth \in 0 .. Len(project.done)
      /\ project.done \in Seq(1 .. created)
  BY EditingParts
<1>3. CASE pending.type = "edit"
  <2>1. PICK c : c = pending.command
    OBVIOUS
  <2>2. c \in 1 .. created /\ c \in Nat
        /\ Logged(c, Append(Since(project.done, depth), c))
    BY <1>3, <2>1, CreatedCommands DEF InApply
  <2>3. q \in LiveProject /\ q.doc = c /\ q.done = Append(project.done, c)
        /\ q.log = project.log /\ q.sequence = project.sequence
    BY <1>1, <1>2, <1>3, <2>1, <2>2, AppliedEdit
  <2>4. depth \in 0 .. Len(q.done) /\ Since(q.done, depth) = Append(Since(project.done, depth), c)
    <3>1. PICK s, d, S : s = project.done /\ d = depth /\ S = 1 .. created
      OBVIOUS
    <3>2. s \in Seq(S) /\ d \in 0 .. Len(s) /\ c \in S
      BY <1>2, <2>2, <3>1
    <3>3. d \in 0 .. Len(Append(s, c)) /\ Since(Append(s, c), d) = Append(Since(s, d), c)
      BY <3>2, SinceAppend
    <3>4. QED BY <2>3, <3>1, <3>3
  <2>5. QED BY <1>1, <2>2, <2>3, <2>4
<1>4. CASE pending.type = "undo"
  <2>1. depth < Len(project.done)
        /\ Logged(before[Last(project.done)], Front(Since(project.done, depth)))
    BY <1>4 DEF InApply
  <2>2. project.done # <<>>
    BY <1>2, <2>1, EmptySeq
  <2>3. q \in LiveProject /\ q.doc = before[Last(project.done)] /\ q.done = Front(project.done)
        /\ q.log = project.log /\ q.sequence = project.sequence
    BY <1>1, <1>2, <1>4, <2>2, AppliedUndo
  <2>4. depth \in 0 .. Len(q.done) /\ Since(q.done, depth) = Front(Since(project.done, depth))
    BY <1>2, <2>1, <2>3, SinceFront
  <2>5. QED BY <1>1, <2>1, <2>3, <2>4
<1>5. QED BY <1>3, <1>4 DEF InApply

\* A change of the project alone, by which it keeps its log.
LEMMA LoggedSame ==
  ASSUME Basis, Basis', UNCHANGED <<before, created, disk, logs>>, NEW doc, NEW done,
         Logged(doc, done), project'.log = project.log, project'.sequence = project.sequence
  PROVE  Logged(doc, done)'
<1>1. SUFFICES ASSUME project.log # 0 PROVE Logged(doc, done)'
  BY DEF Logged
<1>2. PICK log, n : log = logs[project.log] /\ n = project.sequence
  OBVIOUS
<1>3. Reproduces(log, n, doc, done)
  BY <1>1, <1>2 DEF Logged
<1>4. created <= created' /\ disk' = disk /\ \A c \in 1 .. created : before'[c] = before[c]
  BY BoundsAssumption DEF Basis, Document
<1>5. Reproduces(log, n, doc, done)'
  BY <1>3, <1>4, ReproducesStays
<1>6. log = logs'[project'.log] /\ n = project'.sequence
  BY <1>2
<1>7. QED BY <1>5, <1>6 DEF Logged

LEMMA ApplyIInv ==
  ASSUME IInv, Apply
  PROVE  IInv'
<1>1. phase = "apply" /\ Editing /\ Basics /\ InApply
  BY DEF Apply, IInv, Recovering, Editing, InEdit, InSaved
<1>2. PICK q : q = Applied(project, pending)
  OBVIOUS
<1>3. project' = q /\ phase' = "edit"
      /\ UNCHANGED <<before, created, depth, disk, logs, files, crashFile, target, replay, expected>>
  BY <1>2 DEF Apply
<1>4. PICK doc, done : doc = q.doc /\ done = Since(q.done, depth)
  OBVIOUS
<1>5. q \in LiveProject /\ q.log = project.log /\ q.sequence = project.sequence
      /\ depth \in 0 .. Len(q.done) /\ Logged(doc, done)
  BY <1>1, <1>2, <1>4, ApplyingShows DEF Basics
<1>6. Basics'
  BY <1>1, <1>3, BasicsSame
<1>7. Logged(doc, done)'
  BY <1>1, <1>3, <1>5, <1>6, LoggedSame DEF Basics
<1>8. InEdit'
  BY <1>3, <1>4, <1>7 DEF InEdit
<1>9. project' \in LiveProject'
  BY <1>3, <1>5 DEF LiveProject
<1>10. Unused' /\ files' \in 1 .. MaxProject
  BY <1>1, <1>3, EditingParts DEF Unused
<1>11. QED BY <1>3, <1>5, <1>6, <1>8, <1>9, <1>10 DEF IInv, Editing

\* A project without commands.
Fresh(p, doc, log) ==
  /\ p.doc = doc /\ p.done = <<>> /\ p.undone = <<>> /\ p.log = log /\ p.sequence = 0
  /\ p.loading = FALSE
  /\ p = [doc |-> p.doc, done |-> p.done, undone |-> p.undone, log |-> p.log,
          sequence |-> p.sequence, loading |-> p.loading]

LEMMA FreshProject ==
  ASSUME NEW doc, NEW log
  PROVE  Fresh(NewProject(doc, log), doc, log)
<1> DEFINE none == <<>>
           p == NewProject(doc, log)
<1>1. Down = [doc |-> 0, done |-> none, undone |-> none, log |-> 0, sequence |-> 0,
              loading |-> FALSE]
  BY DEF Down
<1>2. p = [Down EXCEPT !.doc = doc, !.log = log]
  BY DEF NewProject
<1> HIDE DEF none, p
<1>3. p = [doc |-> doc, done |-> none, undone |-> none, log |-> log, sequence |-> 0,
           loading |-> FALSE]
  BY <1>1, <1>2
<1>4. /\ p.doc = doc /\ p.done = none /\ p.undone = none /\ p.log = log /\ p.sequence = 0
      /\ p.loading = FALSE
      /\ p = [doc |-> p.doc, done |-> p.done, undone |-> p.undone, log |-> p.log,
              sequence |-> p.sequence, loading |-> p.loading]
  BY <1>3
<1>5. QED BY <1>4 DEF p, none, Fresh

LEMMA FreshTypes ==
  ASSUME NEW p, NEW doc \in Nat, NEW log \in Nat, Fresh(p, doc, log)
  PROVE  p \in LooseProject /\ (log \in 0 .. files => p \in LiveProject)
<1> DEFINE none == <<>>
<1>1. none \in Seq(1 .. created) /\ none \in Seq(Nat)
  OBVIOUS
<1>2. /\ p.doc = doc /\ p.done = none /\ p.undone = none /\ p.log = log /\ p.sequence = 0
      /\ p.loading = FALSE
      /\ p = [doc |-> p.doc, done |-> p.done, undone |-> p.undone, log |-> p.log,
              sequence |-> p.sequence, loading |-> p.loading]
  BY DEF Fresh
<1> HIDE DEF none
<1>3. PICK q : q = [doc |-> doc, done |-> none, undone |-> none, log |-> log, sequence |-> 0,
                    loading |-> FALSE]
  OBVIOUS
<1>4. p = q
  BY <1>2, <1>3
<1>5. q \in LooseProject
  BY <1>1, <1>3 DEF LooseProject
<1>6. ASSUME log \in 0 .. files PROVE q \in LiveProject
  BY <1>1, <1>3, <1>6 DEF LiveProject
<1>7. QED BY <1>4, <1>5, <1>6

LEMMA OpenProjectIInv ==
  ASSUME IInv, OpenProject
  PROVE  IInv'
<1>1. phase = "edit" /\ Editing /\ Basics
  BY DEF OpenProject, IInv, Recovering
<1>2. project' = NewProject(disk, 0) /\ depth' = 0 /\ phase' = "edit"
      /\ UNCHANGED <<before, created, disk, logs, files>>
  BY <1>1 DEF OpenProject
<1>3. disk \in Nat /\ files \in 1 .. MaxProject /\ Unused /\ 0 \in Nat
  BY <1>1, EditingParts DEF Basics, Basis
<1>4. Fresh(project', disk, 0)
  BY <1>2, FreshProject
<1>5. project' \in LiveProject'
  <2>1. project' \in LiveProject
    BY <1>3, <1>4, FreshTypes
  <2>2. QED BY <1>2, <2>1 DEF LiveProject
<1>6. depth' \in 0 .. Len(project'.done) /\ project'.log = 0
  BY <1>2, <1>4 DEF Fresh
<1>7. Basics' /\ Unused'
  BY <1>1, <1>2, <1>3, BasicsSame DEF Unused
<1>8. InEdit'
  BY <1>2, <1>6 DEF InEdit, Logged
<1>9. QED BY <1>2, <1>3, <1>5, <1>6, <1>7, <1>8 DEF IInv, Editing

LEMMA CreateProjectIInv ==
  ASSUME IInv, CreateProject
  PROVE  IInv'
<1>1. phase = "edit" /\ Editing /\ Basics
  BY DEF CreateProject, IInv, Recovering
<1>2. PICK l : l = files'
  OBVIOUS
<1>3. project' = NewProject(0, l) /\ depth' = 0 /\ phase' = "edit" /\ files < MaxProject
      /\ l = files + 1 /\ UNCHANGED <<before, created, disk, logs>>
  BY <1>1, <1>2 DEF CreateProject, WithNewLog
<1>4. files \in 1 .. MaxProject /\ l \in 1 .. MaxProject /\ l \in Nat /\ Unused
      /\ logs[l] = <<>>
  BY <1>1, <1>3, EditingParts, BoundsAssumption DEF Unused
<1>5. /\ Fresh(project', 0, l)
      /\ project'.doc = 0 /\ project'.done = <<>> /\ project'.log = l /\ project'.sequence = 0
  <2>1. Fresh(project', 0, l)
    BY <1>3, FreshProject
  <2>2. QED BY <2>1 DEF Fresh
<1>6. project' \in LiveProject'
  <2>1. project' \in LooseProject
    BY <1>4, <1>5, FreshTypes
  <2>2. PICK none : none = <<>>
    OBVIOUS
  <2>3. none \in Seq(1 .. created')
    BY <2>2
  <2>4. project'.done = none /\ project'.undone = none /\ project'.loading = FALSE
    BY <1>5, <2>2 DEF Fresh
  <2>5. project'.log \in 0 .. files'
    BY <1>2, <1>4, <1>5
  <2>6. QED BY <2>1, <2>3, <2>4, <2>5 DEF LooseProject, LiveProject
<1>7. PICK none : none = <<>>
  OBVIOUS
<1>8. depth' \in 0 .. Len(project'.done) /\ Since(project'.done, depth') = none
  <2>1. none \in Seq({}) /\ Len(none) = 0
    BY <1>7
  <2>2. Since(none, Len(none)) = <<>>
    BY <2>1, SinceAll
  <2>3. QED BY <1>3, <1>5, <1>7, <2>1, <2>2
<1>9. Basics' /\ Unused'
  BY <1>1, <1>2, <1>3, <1>4, BasicsSame DEF Unused
<1>10. Logged(0, none)'
  <2>1. Reproduces(none, 0, 0, none)
    BY <1>1, <1>7, NothingTold DEF Basics
  <2>2. created <= created' /\ disk' = disk /\ \A c \in 1 .. created : before'[c] = before[c]
    BY <1>1, <1>3, BoundsAssumption DEF Basics, Basis, Document
  <2>3. Reproduces(none, 0, 0, none)'
    BY <1>1, <1>9, <2>1, <2>2, ReproducesStays DEF Basics
  <2>4. logs'[project'.log] = none /\ project'.sequence = 0
    BY <1>3, <1>4, <1>5, <1>7
  <2>5. QED BY <2>3, <2>4 DEF Logged
<1>11. InEdit'
  BY <1>3, <1>5, <1>8, <1>10 DEF InEdit
<1>12. QED BY <1>2, <1>4, <1>6, <1>8, <1>9, <1>11 DEF IInv, Editing

-----------------------------------------------------------------------------
(* The invariant through a crash and a recovery.                           *)
LEMMA TellsExpected ==
  ASSUME Basis, Basis', UNCHANGED <<before, created, disk, logs, crashFile>>,
         NEW n, NEW doc, NEW done, Reproduces(logs[crashFile], n, doc, done), doc \in expected'
  PROVE  \E K, b, w : Recoverable(K, b, w)'
<1>1. PICK log : log = logs[crashFile]
  OBVIOUS
<1>2. PICK K, b, w : Tells(log, K, b, w) /\ w[Len(K)] = [doc |-> doc, done |-> done]
  BY <1>1 DEF Reproduces
<1>3. created <= created' /\ disk' = disk /\ \A c \in 1 .. created : before'[c] = before[c]
  BY BoundsAssumption DEF Basis, Document
<1>4. Tells(log, K, b, w)'
  BY <1>2, <1>3, ToldStays
<1>5. log = logs'[crashFile'] /\ w[Len(K)].doc \in expected'
  BY <1>1, <1>2
<1>6. Recoverable(K, b, w)'
  BY <1>4, <1>5 DEF Recoverable
<1>7. QED BY <1>6

LEMMA RecoverableStays ==
  ASSUME Basis, Basis', UNCHANGED <<before, created, disk, logs, crashFile, expected>>,
         NEW K, NEW b, NEW w, Recoverable(K, b, w)
  PROVE  Recoverable(K, b, w)'
<1>1. PICK log : log = logs[crashFile]
  OBVIOUS
<1>2. Tells(log, K, b, w) /\ w[Len(K)].doc \in expected
  BY <1>1 DEF Recoverable
<1>3. created <= created' /\ disk' = disk /\ \A c \in 1 .. created : before'[c] = before[c]
  BY BoundsAssumption DEF Basis, Document
<1>4. Tells(log, K, b, w)'
  BY <1>2, <1>3, ToldStays
<1>5. log = logs'[crashFile'] /\ w[Len(K)].doc \in expected'
  BY <1>1, <1>2
<1>6. QED BY <1>4, <1>5 DEF Recoverable

\* The document that a crash leaves to be expected is the one in the log.
LEMMA CrashExpects ==
  ASSUME Basics, Editing, Crash, project.log = crashFile, crashFile # 0
  PROVE  \E n, doc, done : Reproduces(logs[crashFile], n, doc, done) /\ doc \in expected'
<1>1. expected' = {project.doc} \cup
                  IF phase = "apply" THEN {Applied(project, pending).doc} ELSE {}
  BY DEF Crash, Editing, InEdit, InApply, InSaved
<1>2. CASE InEdit
  <2>1. Reproduces(logs[crashFile], project.sequence, project.doc, Since(project.done, depth))
    BY <1>2 DEF InEdit, Logged
  <2>2. QED BY <1>1, <2>1
<1>3. CASE InSaved
  <2>1. PICK d : Logged(project.doc, d)
    BY <1>3 DEF InSaved
  <2>2. Reproduces(logs[crashFile], project.sequence, project.doc, d)
    BY <2>1 DEF Logged
  <2>3. QED BY <1>1, <2>2
<1>4. CASE InApply
  <2>1. PICK doc, done : doc = Applied(project, pending).doc /\ Logged(doc, done)
    BY <1>4, ApplyingShows DEF Basics
  <2>2. Reproduces(logs[crashFile], project.sequence, doc, done)
    BY <2>1 DEF Logged
  <2>3. doc \in expected'
    BY <1>1, <1>4, <2>1 DEF InApply
  <2>4. QED BY <2>2, <2>3
<1>5. QED BY <1>2, <1>3, <1>4 DEF Editing

LEMMA CrashIInv ==
  ASSUME IInv, Crash
  PROVE  IInv'
<1>1. phase' = "down" /\ UNCHANGED <<before, created, disk, logs, files, crashFile>>
  BY DEF Crash
<1>2. Basics /\ Basics'
  BY <1>1, BasicsSame DEF IInv
<1>3. files' \in Nat
  <2>1. files \in Nat
    BY BoundsAssumption DEF IInv, Editing, Recovering
  <2>2. QED BY <1>1, <2>1
<1>4. ASSUME crashFile # 0, expected' # {}
      PROVE  \E K, b, w : Recoverable(K, b, w)'
  <2>1. CASE Editing
    <3>1. project.log = crashFile
      BY <1>4, <2>1 DEF Crash, Editing, InEdit, InApply, InSaved
    <3>2. PICK n, doc, done : Reproduces(logs[crashFile], n, doc, done) /\ doc \in expected'
      BY <1>2, <1>4, <2>1, <3>1, CrashExpects
    <3>3. QED BY <1>1, <1>2, <3>2, TellsExpected DEF Basics
  <2>2. CASE Recovering
    <3>1. phase = "replay" /\ expected' = expected
      BY <2>2 DEF Crash, Recovering
    <3>2. PICK K, b, w : Recoverable(K, b, w)
      BY <1>4, <2>2, <3>1 DEF Recovering
    <3>3. Recoverable(K, b, w)'
      BY <1>1, <1>2, <3>1, <3>2, RecoverableStays DEF Basics
    <3>4. QED BY <3>3
  <2>3. QED BY <2>1, <2>2 DEF IInv
<1>5. Recovering'
  BY <1>1, <1>3, <1>4 DEF Recovering
<1>6. QED BY <1>2, <1>5 DEF IInv

LEMMA AcceptRecoveryIInv ==
  ASSUME IInv, AcceptRecovery
  PROVE  IInv'
<1>1. phase = "down" /\ crashFile # 0 /\ Recovering /\ Basics
  BY DEF AcceptRecovery, IInv, Editing, InEdit, InApply, InSaved
<1>2. PICK p, l : l = files' /\ p = NewProject(0, l)
  OBVIOUS
<1>3. l = files + 1 /\ project' = [p EXCEPT !.loading = Records(logs[crashFile]) # <<>>]
      /\ replay' = Idle /\ phase' = "replay"
      /\ UNCHANGED <<before, created, disk, logs, crashFile, expected>>
  BY <1>2 DEF AcceptRecovery
<1>4. Basics' /\ l \in Nat
  BY <1>1, <1>3, BasicsSame DEF Recovering
<1>5. Fresh(p, 0, l) /\ p \in LooseProject
  BY <1>2, <1>4, FreshProject, FreshTypes
<1>6. ASSUME NEW K, NEW b, NEW w, Recoverable(K, b, w) PROVE (Recoverable(K, b, w) /\ Arrived(K, b, w))'
  <2>1. Recoverable(K, b, w)'
    BY <1>1, <1>3, <1>4, <1>6, RecoverableStays DEF Basics
  <2>2. PICK log : log = logs[crashFile] /\ Tells(log, K, b, w)
    BY <1>6 DEF Recoverable
  <2>3. Records(log) = K /\ Len(K) \in Nat /\ b \in 0 .. Len(K)
        /\ w[b] = [doc |-> IF b = 0 THEN 0 ELSE disk, done |-> <<>>]
    BY <2>2, RecordsRead, LenProperties DEF Tells, Numbered, SavePoint
  <2>4. PICK on : on = (K # <<>>)
    OBVIOUS
  <2>5. project' = [p EXCEPT !.loading = on]
    BY <1>3, <2>2, <2>3, <2>4
  <2>6. project' \in LooseProject /\ project'.loading = on /\ project'.doc = p.doc
        /\ project'.done = p.done
    BY <1>5, <2>4, <2>5 DEF LooseProject
  <2>7. K = <<>> \/ Silent(project')
    BY <2>4, <2>6 DEF Silent
  <2>8. ViewAt(b, w, 0) = Blank
    BY <2>3 DEF ViewAt, Blank
  <2>9. ViewOf(project') = ViewAt(b, w, 0)
    BY <1>5, <2>6, <2>8 DEF Fresh, ViewOf, Blank
  <2>10. replay'.position = 0 + 1 /\ replay'.last = LastAt(0) /\ 0 \in 0 .. Len(K)
    BY <1>3, <2>3 DEF Idle, LastAt
  <2>11. Arrived(K, b, w)'
    <3>1. ViewAt(b, w, 0)' = ViewAt(b, w, 0) /\ LastAt(0)' = LastAt(0)
      BY DEF ViewAt, LastAt, Blank
    <3>2. QED BY <2>6, <2>7, <2>9, <2>10, <3>1 DEF Arrived, Silent, ViewOf
  <2>12. QED BY <2>1, <2>11
<1>7. Recovering'
  <2>1. crashFile' # 0 /\ expected' # {} => \E K, b, w : (Recoverable(K, b, w) /\ Arrived(K, b, w))'
    BY <1>1, <1>3, <1>6 DEF Recovering
  <2>2. QED BY <1>1, <1>2, <1>3, <1>4, <2>1 DEF Recovering
<1>8. QED BY <1>4, <1>7 DEF IInv

LEMMA ReplayRecordIInv ==
  ASSUME IInv, ReplayRecord
  PROVE  IInv'
<1>1. phase = "replay" /\ Recovering /\ Basics
  BY DEF ReplayRecord, IInv, Editing, InEdit, InApply, InSaved
<1>2. UNCHANGED <<phase, before, created, disk, files, crashFile, expected>>
  BY DEF ReplayRecord
<1>3. Basics'
  <2>1. logs' = logs \/ logs' = WrittenLogs(project, logs, "undo", 0)
    BY DEF ReplayRecord
  <2>2. logs = [l \in 1 .. MaxProject |-> logs[l]]
    BY <1>1 DEF Basics
  <2>3. logs' = [l \in 1 .. MaxProject |-> logs'[l]]
    BY <2>1, <2>2 DEF WrittenLogs
  <2>4. QED BY <1>1, <1>2, <2>3 DEF Basics, Basis
<1>4. ASSUME NEW K, NEW b, NEW w, Recoverable(K, b, w), Arrived(K, b, w)
      PROVE  (Recoverable(K, b, w) /\ Arrived(K, b, w))'
  <2>1. PICK i \in 0 .. Len(K) : /\ replay.position = i + 1 /\ replay.last = LastAt(i)
                                 /\ ViewOf(project) = ViewAt(b, w, i)
    BY <1>4 DEF Arrived
  <2>2. PICK log : log = logs[crashFile] /\ Tells(log, K, b, w)
    BY <1>4 DEF Recoverable
  <2>3. Records(log) = K /\ Len(K) \in Nat /\ b \in 0 .. Len(K)
    BY <2>2, RecordsRead, LenProperties DEF Tells, Numbered, SavePoint
  <2>4. PICK j : j = i + 1
    OBVIOUS
  <2>5. j \in 1 .. Len(K) /\ j - 1 = i /\ K # <<>>
    BY <2>1, <2>2, <2>3, <2>4 DEF ReplayRecord
  <2>6. Silent(project)
    BY <1>4, <2>5 DEF Arrived
  <2>7. PICK q : q = IF IsReplayed(K[j], CountOffset(K), LastAt(j - 1))
                     THEN Dispatched(project, K[j]) ELSE project
    OBVIOUS
  <2>8. /\ Silent(q) /\ ViewOf(q) = ViewAt(b, w, j) /\ K[j].sequence = LastAt(j)
        /\ (IsReplayed(K[j], CountOffset(K), LastAt(j - 1)) /\ K[j].type = "undo" => ~Writes(project))
    BY <1>1, <2>1, <2>2, <2>5, <2>6, <2>7, OneRecord DEF Basics
  <2>9. project' = q /\ replay'.position = j + 1 /\ replay'.last = K[j].sequence
    BY <2>1, <2>2, <2>3, <2>4, <2>5, <2>7 DEF ReplayRecord, NextPosition
  <2>10. logs' = logs
    BY <2>1, <2>2, <2>3, <2>4, <2>5, <2>8 DEF ReplayRecord, WrittenLogs
  <2>11. Recoverable(K, b, w)'
    BY <1>1, <1>2, <1>3, <1>4, <2>10, RecoverableStays DEF Basics
  <2>12. Arrived(K, b, w)'
    <3>1. ViewAt(b, w, j)' = ViewAt(b, w, j) /\ LastAt(j)' = LastAt(j) /\ j \in 0 .. Len(K)
      BY <2>5 DEF ViewAt, LastAt, Blank
    <3>2. Silent(q)' /\ ViewOf(q)' = ViewOf(q)
      BY <2>8 DEF Silent, ViewOf
    <3>3. project' \in LooseProject /\ Silent(project') /\ ViewOf(project') = ViewAt(b, w, j)
      BY <2>8, <2>9 DEF Silent
    <3>4. QED BY <2>8, <2>9, <3>1, <3>3 DEF Arrived, Silent, ViewOf
  <2>13. QED BY <2>11, <2>12
<1>5. Recovering'
  <2>1. crashFile' # 0 /\ expected' # {} => \E K, b, w : (Recoverable(K, b, w) /\ Arrived(K, b, w))'
    BY <1>1, <1>2, <1>4 DEF Recovering
  <2>2. QED BY <1>1, <1>2, <2>1 DEF Recovering
<1>6. QED BY <1>3, <1>5 DEF IInv

LEMMA FinishRecoveryIInv ==
  ASSUME IInv, FinishRecovery, "continue" \notin Events
  PROVE  IInv'
<1>1. phase = "replay" /\ Recovering /\ Basics
  BY DEF FinishRecovery, IInv, Editing, InEdit, InApply, InSaved
<1>2. phase' = "down" /\ crashFile' = 0 /\ UNCHANGED <<before, created, disk, files>>
  BY DEF FinishRecovery
<1>3. Basics'
  <2>1. logs = [l \in 1 .. MaxProject |-> logs[l]]
    BY <1>1 DEF Basics
  <2>2. logs' = [l \in 1 .. MaxProject |-> logs'[l]]
    <3>1. PICK e : logs' = logs \/ logs' = [logs EXCEPT ![target] = e]
      BY DEF FinishRecovery
    <3>2. QED BY <2>1, <3>1
  <2>3. QED BY <1>1, <1>2, <2>2 DEF Basics, Basis
<1>4. Recovering'
  BY <1>1, <1>2 DEF Recovering
<1>5. QED BY <1>3, <1>4 DEF IInv

LEMMA StutterIInv ==
  ASSUME IInv, UNCHANGED vars
  PROVE  IInv'
<1>1. UNCHANGED <<project, phase, pending, before, created, depth, disk, logs, files,
                  crashFile, target, replay, expected>>
  BY DEF vars
<1>2. View' = View /\ LiveProject' = LiveProject
  BY <1>1 DEF View, LiveProject
<1>3. ASSUME NEW v, NEW record, NEW u PROVE Makes(v, record, u)' <=> Makes(v, record, u)
  BY <1>1 DEF Makes
<1>4. ASSUME NEW log, NEW K, NEW b, NEW w PROVE Tells(log, K, b, w)' <=> Tells(log, K, b, w)
  BY <1>1, <1>2, <1>3 DEF Tells
<1>5. ASSUME NEW log, NEW n, NEW doc, NEW done
      PROVE  Reproduces(log, n, doc, done)' <=> Reproduces(log, n, doc, done)
  BY <1>4 DEF Reproduces
<1>6. Basics'
  BY <1>1 DEF IInv, Basics, Basis
<1>7. CASE Editing
  <2>1. ASSUME NEW doc, NEW done, Logged(doc, done) PROVE Logged(doc, done)'
    <3>1. PICK log, n : log = logs[project.log] /\ n = project.sequence
      OBVIOUS
    <3>2. project.log # 0 => Reproduces(log, n, doc, done)
      BY <2>1, <3>1 DEF Logged
    <3>3. project.log # 0 => Reproduces(log, n, doc, done)'
      BY <1>5, <3>2
    <3>4. log = logs'[project'.log] /\ n = project'.sequence
      BY <1>1, <3>1
    <3>5. QED BY <1>1, <3>3, <3>4 DEF Logged
  <2>2. PICK doc, since, last, p : /\ doc = project.doc /\ since = Since(project.done, depth)
                                   /\ last = before[Last(project.done)] /\ p = pending
    OBVIOUS
  <2>3. /\ doc = project'.doc /\ since = Since(project'.done, depth')
        /\ last = before'[Last(project'.done)] /\ p = pending'
    BY <1>1, <2>2
  <2>4. CASE InEdit
    <3>1. Logged(doc, since)'
      BY <2>1, <2>2, <2>4 DEF InEdit
    <3>2. QED BY <1>1, <1>2, <1>6, <1>7, <2>3, <2>4, <3>1
             DEF IInv, Editing, InEdit, Unused
  <2>5. CASE InSaved
    <3>1. PICK d : Logged(doc, d)
      BY <2>2, <2>5 DEF InSaved
    <3>2. Logged(doc, d)'
      BY <2>1, <3>1
    <3>3. InSaved'
      BY <1>1, <2>3, <2>5, <3>2 DEF InSaved
    <3>4. QED BY <1>1, <1>2, <1>6, <1>7, <3>3 DEF IInv, Editing, Unused
  <2>6. CASE InApply
    <3>1. \/ p.type = "edit" /\ p.command \in 1 .. created /\ Logged(p.command, Append(since, p.command))'
          \/ p.type = "undo" /\ depth < Len(project.done) /\ Logged(last, Front(since))'
      BY <2>1, <2>2, <2>6 DEF InApply
    <3>2. InApply'
      BY <1>1, <2>3, <2>6, <3>1 DEF InApply
    <3>3. QED BY <1>1, <1>2, <1>6, <1>7, <3>2 DEF IInv, Editing, Unused
  <2>7. QED BY <1>7, <2>4, <2>5, <2>6 DEF Editing
<1>8. CASE Recovering
  <2>1. ASSUME NEW K, NEW b, NEW w, Recoverable(K, b, w) PROVE Recoverable(K, b, w)'
    BY <1>1, <1>6, <2>1, RecoverableStays DEF IInv, Basics
  <2>2. ASSUME NEW K, NEW b, NEW w, Arrived(K, b, w) PROVE Arrived(K, b, w)'
    <3>1. PICK i \in 0 .. Len(K) : /\ replay.position = i + 1 /\ replay.last = LastAt(i)
                                   /\ ViewOf(project) = ViewAt(b, w, i)
      BY <2>2 DEF Arrived
    <3>2. LastAt(i)' = LastAt(i) /\ ViewAt(b, w, i)' = ViewAt(b, w, i)
      BY DEF LastAt, ViewAt, Blank
    <3>3. Silent(project)' <=> Silent(project)
      BY <1>1 DEF Silent
    <3>4. ViewOf(project)' = ViewOf(project)
      BY <1>1 DEF ViewOf
    <3>5. QED BY <1>1, <2>2, <3>1, <3>2, <3>3, <3>4 DEF Arrived
  <2>3. crashFile # 0 /\ expected # {} =>
          \E K, b, w : Recoverable(K, b, w)' /\ (phase = "replay" => Arrived(K, b, w)')
    BY <1>8, <2>1, <2>2 DEF Recovering
  <2>4. QED BY <1>1, <1>6, <1>8, <2>3 DEF IInv, Recovering
<1>9. QED BY <1>7, <1>8 DEF IInv

LEMMA NextIInv ==
  ASSUME "continue" \notin Events, "undoSaved" \notin Events
  PROVE  IInv /\ [Next]_vars => IInv'
<1> SUFFICES ASSUME IInv, [Next]_vars PROVE IInv'
  OBVIOUS
<1>1. CASE Edit
  BY <1>1, EditIInv
<1>2. CASE Undo
  BY <1>2, UndoIInv
<1>3. CASE Redo
  BY <1>3, RedoIInv
<1>4. CASE Apply
  BY <1>4, ApplyIInv
<1>5. CASE CommitFile
  BY <1>5, CommitFileIInv
<1>6. CASE WriteSavePoint
  BY <1>6, WriteSavePointIInv
<1>7. CASE OpenProject
  BY <1>7, OpenProjectIInv
<1>8. CASE CreateProject
  BY <1>8, CreateProjectIInv
<1>9. CASE Crash
  BY <1>9, CrashIInv
<1>10. CASE AcceptRecovery
  BY <1>10, AcceptRecoveryIInv
<1>11. CASE ReplayRecord
  BY <1>11, ReplayRecordIInv
<1>12. CASE FinishRecovery
  BY <1>12, FinishRecoveryIInv
<1>13. CASE UNCHANGED vars
  BY <1>13, StutterIInv
<1>14. QED BY <1>1, <1>2, <1>3, <1>4, <1>5, <1>6, <1>7, <1>8, <1>9, <1>10, <1>11, <1>12, <1>13
       DEF Next

\* Whenever no command is being performed, the log of a project that has one replays
\* to the document the user sees (Project::writeRedoMessage, Redo::loadAllAsync): for
\* every number of commands, records and projects, if saved commands are not undone
\* and nobody goes on with a recovered project.
THEOREM LogAlwaysReproducesDocument ==
  ASSUME "continue" \notin Events, "undoSaved" \notin Events
  PROVE  Spec => []LogReproducesDocument
<1>1. IInv => LogReproducesDocument
  <2>1. SUFFICES ASSUME IInv, phase \in {"edit", "saved"}, project.log # 0
                 PROVE  project.doc = Replayed(logs[project.log]).doc
    BY DEF LogReproducesDocument
  <2>2. PICK d : Logged(project.doc, d)
    BY <2>1 DEF IInv, Editing, Recovering, InEdit, InApply, InSaved
  <2>3. PICK log : log = logs[project.log]
    OBVIOUS
  <2>4. PICK K, b, w : Tells(log, K, b, w) /\ w[Len(K)] = [doc |-> project.doc, done |-> d]
    BY <2>1, <2>2, <2>3 DEF Logged, Reproduces
  <2>5. ViewOf(Replayed(log)) = w[Len(K)]
    BY <2>1, <2>4, ReplayTells DEF IInv, Basics
  <2>6. QED BY <2>3, <2>4, <2>5 DEF ViewOf
<1>2. QED BY <1>1, InitIInv, NextIInv, PTL DEF Spec

\* A recovery restores the document as it was when the application crashed, or with the
\* command that was being performed then, wherever the crashes came, those during the
\* recovery included (Redo::loadAllAsync), under the same conditions.
THEOREM RecoveryAlwaysRestoresDocument ==
  ASSUME "continue" \notin Events, "undoSaved" \notin Events
  PROVE  Spec => RecoveryRestoresDocument
<1>1. IInv => [FinishRecovery /\ expected # {} => project'.doc \in expected]_vars
  <2>1. SUFFICES ASSUME IInv, FinishRecovery, expected # {} PROVE project'.doc \in expected
    OBVIOUS
  <2>2. phase = "replay" /\ Recovering /\ Basics
    BY <2>1 DEF FinishRecovery, IInv, Editing, InEdit, InApply, InSaved
  <2>3. PICK K, b, w : Recoverable(K, b, w) /\ Arrived(K, b, w)
    BY <2>1, <2>2 DEF Recovering
  <2>4. PICK log : log = logs[crashFile] /\ Tells(log, K, b, w)
    BY <2>3 DEF Recoverable
  <2>5. Records(log) = K /\ Len(K) \in Nat /\ b \in 0 .. Len(K)
    BY <2>4, RecordsRead, LenProperties DEF Tells, Numbered, SavePoint
  <2>6. PICK i \in 0 .. Len(K) : replay.position = i + 1 /\ ViewOf(project) = ViewAt(b, w, i)
    BY <2>3 DEF Arrived
  <2>7. i = Len(K)
    BY <2>1, <2>4, <2>5, <2>6 DEF FinishRecovery
  <2>8. project.doc = w[Len(K)].doc
    BY <2>5, <2>6, <2>7 DEF ViewOf, ViewAt
  <2>9. project'.doc = project.doc
    <3>1. project' = [project EXCEPT !.loading = FALSE] /\ project \in LooseProject
      BY <2>1, <2>3 DEF FinishRecovery, Arrived
    <3>2. QED BY <3>1 DEF LooseProject
  <2>10. QED BY <2>3, <2>8, <2>9 DEF Recoverable
<1>2. QED BY <1>1, InitIInv, NextIInv, PTL DEF Spec, RecoveryRestoresDocument
=============================================================================
