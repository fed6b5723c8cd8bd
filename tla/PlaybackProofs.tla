--------------------------- MODULE PlaybackProofs ---------------------------
(***************************************************************************)
(* Proofs about Playback for any models, length of the segment, bounds of  *)
(* the queues and the dialogs, and any crossings of use cases: what a      *)
(* playback leaves as it was, the pointers it keeps alive, that it never   *)
(* meets the model editor, what showing the window resumes, and that the   *)
(* menu follows.                                                           *)
(*                                                                         *)
(* The operations of the project are first described by what they do to    *)
(* it (Begins, Ends, Activated); the inductive invariant is IInv, and for  *)
(* the menu Informed besides, which says what the events on their way to   *)
(* it tell.                                                                *)
(***************************************************************************)
EXTENDS Playback, SequenceTheorems, TLAPS

-----------------------------------------------------------------------------
(* What the operations of the project do.                                  *)

\* What an operation of the project yields.
Outcome(r) == r.project \in Projects /\ r.sent \in Seq(Events) /\ Len(r.sent) <= 2

LEMMA SentTypes ==
  /\ <<>> \in Seq(Events) /\ Len(<<>>) = 0
  /\ \A e \in Events : <<e>> \in Seq(Events) /\ Len(<<e>>) = 1
  /\ \A e, f \in Events : <<e, f>> \in Seq(Events) /\ Len(<<e, f>>) = 2
OBVIOUS

LEMMA QuietlyTypes ==
  ASSUME NEW p \in Projects
  PROVE  Outcome(Quietly(p)) /\ Quietly(p).project = p /\ Quietly(p).sent = <<>>
BY SentTypes DEF Outcome, Quietly

LEMMA TellingTypes ==
  ASSUME NEW p \in Projects, NEW e \in Events
  PROVE  Outcome(Telling(p, e)) /\ Telling(p, e).project = p /\ Telling(p, e).sent = <<e>>
BY SentTypes DEF Outcome, Telling

LEMMA SaveStateTypes ==
  ASSUME NEW p \in Projects
  PROVE  /\ SaveState(p) \in SavedStates /\ SaveState(p) # NoState
         /\ SaveState(p).model = p.model /\ SaveState(p).loop = p.loop
         /\ SaveState(p).editing = p.editing
BY StatesAssumption DEF SaveState, Projects, SavedStates

\* Playback begins: the selection and the flags are saved, and no model is active.
Begins(p, q) ==
  /\ q \in Projects /\ ~p.editing
  /\ q.state = "play" /\ q.last = IF Playing(p) THEN p.last ELSE p.state
  /\ q.saved # NoState /\ q.saved.model = p.model /\ q.saved.loop = p.loop
  /\ q.saved.editing = FALSE /\ q.model = NoModel
  /\ q.loop = p.loop /\ q.editing = p.editing /\ q.models = p.models

LEMMA BeginsWhere ==
  ASSUME NEW p \in Projects, ~p.editing
  PROVE  /\ Begins(p, PlayerPlay(PreparePlaying(p)))
         /\ PlayerPlay(PreparePlaying(p)).active = p.active
         /\ ~Playing(p) => /\ Begins(p, SetState(PreparePlaying(p), "play"))
                           /\ SetState(PreparePlaying(p), "play").active = p.active
<1> DEFINE s == SaveState(p)
           q == [[p EXCEPT !.saved = s] EXCEPT !.model = NoModel]
<1>1. PreparePlaying(p) = q
  BY DEF PreparePlaying, SetActiveModel, Projects
<1>2. s \in SavedStates /\ s # NoState /\ s.model = p.model /\ s.loop = p.loop /\ s.editing = p.editing
  BY SaveStateTypes
<1> HIDE DEF s
<1>3. /\ q \in Projects /\ q.state = p.state /\ q.last = p.last /\ q.saved = s /\ q.model = NoModel
      /\ q.loop = p.loop /\ q.editing = p.editing /\ q.active = p.active /\ q.models = p.models
  BY <1>2 DEF Projects, Pointers
<1> HIDE DEF q
<1> DEFINE t == [q EXCEPT !.last = q.state, !.state = "play"]
<1>4. /\ t \in Projects /\ t.state = "play" /\ t.last = q.state /\ t.saved = s /\ t.model = NoModel
      /\ t.loop = p.loop /\ t.editing = p.editing /\ t.active = p.active /\ t.models = p.models
  BY <1>3 DEF Projects, PlayerStates
<1>5. SetState(q, "play") = t
  BY DEF SetState
<1> HIDE DEF t
<1>6. ~Playing(p) => Begins(p, t)
  BY <1>2, <1>3, <1>4 DEF Begins, Playing
<1>7. Playing(p) => Begins(p, q)
  BY <1>2, <1>3 DEF Begins, Playing
<1>8. PlayerPlay(q) = IF Playing(p) THEN q ELSE t
  BY <1>3, <1>5 DEF PlayerPlay, Playing
<1>9. QED BY <1>1, <1>3, <1>4, <1>5, <1>6, <1>7, <1>8

\* Playback ends: what was saved is given back.
Ends(p, q) ==
  /\ q \in Projects /\ q.saved = NoState
  /\ q.state # "play" /\ q.models = p.models
  /\ p.saved = NoState => q.model = p.model /\ q.loop = p.loop /\ q.editing = p.editing
  /\ p.saved # NoState => /\ q.model = IF p.editing THEN p.model ELSE p.saved.model
                          /\ q.loop = p.saved.loop /\ q.editing = p.saved.editing

LEMMA StoppingWhere ==
  ASSUME NEW p \in Projects
  PROVE  LET q == PrepareStopping(p)
         IN  /\ q \in Projects /\ q.saved = NoState /\ q.state = p.state /\ q.last = p.last
             /\ q.active = p.active /\ q.models = p.models /\ q.frame = p.frame
             /\ p.saved = NoState => q.model = p.model /\ q.loop = p.loop /\ q.editing = p.editing
             /\ p.saved # NoState => /\ q.model = IF p.editing THEN p.model ELSE p.saved.model
                                     /\ q.loop = p.saved.loop /\ q.editing = p.saved.editing
<1>1. CASE p.saved = NoState
  BY <1>1 DEF PrepareStopping
<1>2. CASE p.saved # NoState
  <2>1. p.saved \in SavedStates
    BY <1>2 DEF Projects
  <2> DEFINE s == p.saved
             m == IF p.editing THEN p.model ELSE s.model
             q == [p EXCEPT !.model = m, !.loop = s.loop, !.editing = s.editing, !.saved = NoState]
  <2>2. PrepareStopping(p) = q
    BY <1>2 DEF PrepareStopping, RestoreState, SetActiveModel, Projects
  <2>3. s.model \in Pointers /\ s.loop \in BOOLEAN /\ s.editing \in BOOLEAN /\ m \in Pointers
    BY <2>1 DEF SavedStates, Projects
  <2> HIDE DEF m
  <2>4. /\ q \in Projects /\ q.saved = NoState /\ q.state = p.state /\ q.last = p.last
        /\ q.active = p.active /\ q.models = p.models /\ q.frame = p.frame
        /\ q.model = m /\ q.loop = s.loop /\ q.editing = s.editing
    BY <2>3 DEF Projects
  <2> HIDE DEF q
  <2>5. QED BY <1>2, <2>2, <2>4 DEF m
<1>3. QED BY <1>1, <1>2

-----------------------------------------------------------------------------
(* Play, stop, pause, resume, the end of the segment and the window.       *)

LEMMA PlayWhere ==
  ASSUME NEW p \in Projects
  PROVE  LET r == Play(p)
         IN  /\ r.project.active = p.active
             /\ p.editing => r.project = p /\ r.sent = <<>>
             /\ ~p.editing => Begins(p, r.project) /\ r.sent = <<"play">>
<1>1. CASE p.editing
  BY <1>1, QuietlyTypes DEF Play
<1>2. CASE ~p.editing
  <2> DEFINE q == PlayerPlay(PreparePlaying(p))
  <2>1. Begins(p, q) /\ q.active = p.active
    BY <1>2, BeginsWhere
  <2>2. Play(p) = Telling(q, "play")
    BY <1>2 DEF Play
  <2> HIDE DEF q
  <2>3. Play(p).project = q /\ Play(p).sent = <<"play">>
    BY <2>2 DEF Telling
  <2>4. QED BY <1>2, <2>1, <2>3
<1>3. QED BY <1>1, <1>2

LEMMA StopWhere ==
  ASSUME NEW p \in Projects
  PROVE  LET r == Stop(p)
         IN  /\ Ends(p, r.project) /\ r.sent = <<"stop">> /\ r.project.active = p.active
             /\ r.project.state = IF p.state \in {"play", "pause"} THEN "stop" ELSE p.state
             /\ r.project.last = IF p.state \in {"play", "pause"} THEN p.state ELSE p.last
<1> DEFINE s == PlayerStop(p)
           t == PrepareStopping(s)
           q == [t EXCEPT !.frame = 0]
<1>1. /\ s \in Projects
      /\ s.state = IF p.state \in {"play", "pause"} THEN "stop" ELSE p.state
      /\ s.last = IF p.state \in {"play", "pause"} THEN p.state ELSE p.last
      /\ s.active = p.active /\ s.models = p.models /\ s.model = p.model /\ s.loop = p.loop
      /\ s.editing = p.editing /\ s.saved = p.saved
  BY DEF PlayerStop, SetState, Projects, PlayerStates
<1> HIDE DEF s
<1>2. /\ t \in Projects /\ t.saved = NoState /\ t.state = s.state /\ t.last = s.last
      /\ t.active = s.active /\ t.models = s.models
      /\ s.saved = NoState => t.model = s.model /\ t.loop = s.loop /\ t.editing = s.editing
      /\ s.saved # NoState => /\ t.model = IF s.editing THEN s.model ELSE s.saved.model
                              /\ t.loop = s.saved.loop /\ t.editing = s.saved.editing
  BY <1>1, StoppingWhere
<1> HIDE DEF t
<1>3. /\ q \in Projects /\ q.saved = t.saved /\ q.state = t.state /\ q.last = t.last
      /\ q.active = t.active /\ q.models = t.models /\ q.model = t.model /\ q.loop = t.loop
      /\ q.editing = t.editing
  BY <1>2, BoundsAssumption DEF Projects, Frames
<1>4. Stop(p).project = q /\ Stop(p).sent = <<"stop">>
  BY DEF Stop, Telling, s, t
<1> HIDE DEF q
<1>5. QED BY <1>1, <1>2, <1>3, <1>4 DEF Ends

LEMMA PauseWhere ==
  ASSUME NEW p \in Projects, Playing(p), NEW force
  PROVE  LET r == Pause(p, force)
         IN  /\ Ends(p, r.project) /\ r.sent = <<"pause">> /\ r.project.active = p.active
             /\ r.project.state = "pause" /\ r.project.last = "play"
<1> DEFINE s == PlayerPause(p)
           t == PrepareStopping(s)
<1>1. /\ s \in Projects /\ s.state = "pause" /\ s.last = "play"
      /\ s.active = p.active /\ s.models = p.models /\ s.model = p.model /\ s.loop = p.loop
      /\ s.editing = p.editing /\ s.saved = p.saved
  BY DEF PlayerPause, SetState, Projects, PlayerStates, Playing
<1> HIDE DEF s
<1>2. /\ t \in Projects /\ t.saved = NoState /\ t.state = s.state /\ t.last = s.last
      /\ t.active = s.active /\ t.models = s.models
      /\ s.saved = NoState => t.model = s.model /\ t.loop = s.loop /\ t.editing = s.editing
      /\ s.saved # NoState => /\ t.model = IF s.editing THEN s.model ELSE s.saved.model
                              /\ t.loop = s.saved.loop /\ t.editing = s.saved.editing
  BY <1>1, StoppingWhere
<1> HIDE DEF t
<1>3. Pause(p, force).project = t /\ Pause(p, force).sent = <<"pause">>
  BY DEF Pause, Telling, s, t
<1>4. QED BY <1>1, <1>2, <1>3 DEF Ends

LEMMA ResumeWhere ==
  ASSUME NEW p \in Projects, ~Playing(p), NEW force \in BOOLEAN
  PROVE  LET r == Resume(p, force)
         IN  /\ r.project.active = p.active
             /\ (force \/ WasPlaying(p)) /\ ~p.editing
                  => Begins(p, r.project) /\ r.sent = <<"resume">>
             /\ ~((force \/ WasPlaying(p)) /\ ~p.editing) => r.project = p /\ r.sent = <<>>
<1>1. CASE ~((force \/ WasPlaying(p)) /\ ~p.editing)
  BY <1>1, QuietlyTypes DEF Resume
<1>2. CASE (force \/ WasPlaying(p)) /\ ~p.editing
  <2> DEFINE q == SetState(PreparePlaying(p), "play")
  <2>1. Begins(p, q) /\ q.active = p.active
    BY <1>2, BeginsWhere
  <2>2. Resume(p, force) = Telling(q, "resume")
    BY <1>2 DEF Resume
  <2> HIDE DEF q
  <2>3. Resume(p, force).project = q /\ Resume(p, force).sent = <<"resume">>
    BY <2>2 DEF Telling
  <2>4. QED BY <1>2, <2>1, <2>3
<1>3. QED BY <1>1, <1>2

LEMMA JoinedEvents ==
  ASSUME NEW e \in Events
  PROVE  /\ <<e>> \o <<>> = <<e>>
         /\ \A f \in Events : <<e>> \o <<f>> = <<e, f>>
<1>1. <<e>> \in Seq(Events) /\ Len(<<e>>) = 1
  OBVIOUS
<1>2. <<e>> \o <<>> = <<e>>
  BY <1>1, ConcatEmptySeq
<1>3. ASSUME NEW f \in Events PROVE <<e>> \o <<f>> = <<e, f>>
  <2>1. <<f>> \in Seq(Events) /\ Len(<<f>>) = 1
    OBVIOUS
  <2> DEFINE s == <<e>>
             t == <<f>>
             u == <<e, f>>
  <2>2. s[1] = e /\ t[1] = f /\ u[1] = e /\ u[2] = f /\ u \in Seq(Events) /\ Len(u) = 2
    OBVIOUS
  <2> HIDE DEF s, t, u
  <2>3. s \o t \in Seq(Events) /\ Len(s \o t) = 2 /\ (s \o t)[1] = s[1] /\ (s \o t)[2] = t[1]
    BY <1>1, <2>1, ConcatProperties DEF s, t
  <2>4. s \o t = u
    BY <2>2, <2>3, SeqEqual
  <2>5. QED BY <2>4 DEF s, t, u
<1>4. QED BY <1>2, <1>3

\* The end of the segment.
LEMMA ContinuesWhere ==
  ASSUME NEW p \in Projects
  PROVE  LET r == ContinuesPlaying(p)
         IN  /\ r.project.active = p.active
             /\ \/ Ends(p, r.project) /\ r.sent = <<"stop">>
                \/ \E q : Ends(p, q) /\ Begins(q, r.project) /\ r.sent = <<"stop", "play">>
<1> DEFINE q == Stop(p).project
           again == Play(q)
           r == ContinuesPlaying(p)
<1>1. Ends(p, q) /\ Stop(p).sent = <<"stop">> /\ q.active = p.active /\ q \in Projects
  BY StopWhere DEF Ends
<1>2. /\ again.project.active = q.active
      /\ q.editing => again.project = q /\ again.sent = <<>>
      /\ ~q.editing => Begins(q, again.project) /\ again.sent = <<"play">>
  BY <1>1, PlayWhere
<1>3. r = IF q.loop THEN [project |-> again.project, sent |-> Stop(p).sent \o again.sent]
          ELSE Stop(p)
  BY DEF ContinuesPlaying
<1> HIDE DEF again, q
<1>4. <<"stop">> \o <<>> = <<"stop">> /\ <<"stop">> \o <<"play">> = <<"stop", "play">>
  BY JoinedEvents DEF Events
<1>5. CASE ~q.loop
  BY <1>1, <1>3, <1>5 DEF q
<1>6. CASE q.loop
  <2> DEFINE both == [project |-> again.project, sent |-> Stop(p).sent \o again.sent]
  <2>1. r = both
    BY <1>3, <1>6, Zenon
  <2>2. both.project = again.project /\ both.sent = Stop(p).sent \o again.sent
    OBVIOUS
  <2> HIDE DEF both, r
  <2>3. r.project = again.project /\ r.sent = Stop(p).sent \o again.sent
    BY <2>1, <2>2
  <2>4. CASE q.editing
    BY <1>1, <1>2, <1>4, <2>3, <2>4 DEF r
  <2>5. CASE ~q.editing
    BY <1>1, <1>2, <1>4, <2>3, <2>5 DEF r
  <2>6. QED BY <2>4, <2>5
<1>7. QED BY <1>5, <1>6

\* The window is hidden and shown.
Activated(p, value, q, sent) ==
  /\ p.active = value => q = p /\ sent = <<>>
  /\ p.active # value => q.active = value
  /\ p.active # value /\ value /\ WasPlaying(p) /\ ~p.editing
       => Begins(p, q) /\ sent = <<"resume">>
  /\ p.active # value /\ value /\ ~(WasPlaying(p) /\ ~p.editing)
       => q = [p EXCEPT !.active = TRUE] /\ sent = <<>>
  /\ p.active # value /\ ~value /\ Playing(p)
       => Ends(p, q) /\ q.state = "pause" /\ q.last = "play" /\ sent = <<"pause">>
  /\ p.active # value /\ ~value /\ ~Playing(p)
       => /\ q = [p EXCEPT !.last = p.state, !.state = "suspend", !.active = FALSE]
          /\ sent = <<>>

LEMMA SetActiveWhere ==
  ASSUME NEW p \in Projects, NEW value \in BOOLEAN, ~(p.state = "play" /\ p.last = "play")
  PROVE  Activated(p, value, SetActive(p, value).project, SetActive(p, value).sent)
<1> DEFINE r == SetActive(p, value)
<1>0. \A q \in Projects : [q EXCEPT !.active = value] \in Projects
  BY DEF Projects
<1>1. CASE p.active = value
  BY <1>1 DEF SetActive, Quietly, Activated
<1>2. CASE p.active # value /\ value
  <2> DEFINE force == WasPlaying(p)
             u == Resume(p, force)
  <2>1. r.project = [u.project EXCEPT !.active = TRUE] /\ r.sent = u.sent
    BY <1>2 DEF SetActive, Resume, Quietly, Telling
  <2>2. WasPlaying(p) => ~Playing(p)
    BY DEF WasPlaying, Playing
  <2>3. force \in BOOLEAN
    BY DEF WasPlaying
  <2>4. CASE WasPlaying(p) /\ ~p.editing
    <3>1. Begins(p, u.project) /\ u.sent = <<"resume">>
      BY <2>2, <2>3, <2>4, ResumeWhere
    <3> HIDE DEF u
    <3>2. Begins(p, [u.project EXCEPT !.active = TRUE]) /\ [u.project EXCEPT !.active = TRUE].active = TRUE
      BY <3>1 DEF Begins, Projects
    <3>3. QED BY <1>2, <2>1, <2>4, <3>1, <3>2 DEF Activated
  <2>5. CASE ~(WasPlaying(p) /\ ~p.editing)
    <3>1. u = Quietly(p)
      BY <2>5 DEF Resume
    <3>2. u.project = p /\ u.sent = <<>>
      BY <3>1 DEF Quietly
    <3> HIDE DEF u
    <3>3. [p EXCEPT !.active = TRUE].active = TRUE
      BY DEF Projects
    <3>4. QED BY <1>2, <2>1, <2>5, <3>2, <3>3 DEF Activated
  <2>6. QED BY <2>4, <2>5
<1>3. CASE p.active # value /\ ~value /\ Playing(p)
  <2> DEFINE u == Pause(p, FALSE)
  <2>1. r.project = [u.project EXCEPT !.active = FALSE] /\ r.sent = u.sent
    BY <1>3 DEF SetActive, Pause, Quietly, Telling
  <2>2. Ends(p, u.project) /\ u.sent = <<"pause">> /\ u.project.state = "pause" /\ u.project.last = "play"
    BY <1>3, PauseWhere
  <2> HIDE DEF u
  <2> DEFINE q == [u.project EXCEPT !.active = FALSE]
  <2>3. Ends(p, q) /\ q.active = FALSE /\ q.state = "pause" /\ q.last = "play"
    BY <2>2 DEF Ends, Projects
  <2>4. QED BY <1>3, <2>1, <2>2, <2>3 DEF Activated
<1>4. CASE p.active # value /\ ~value /\ ~Playing(p)
  <2>1. r.project = [SetState(p, "suspend") EXCEPT !.active = FALSE] /\ r.sent = <<>>
    BY <1>4 DEF SetActive, Quietly
  <2>2. QED BY <1>4, <2>1 DEF SetState, Projects, Activated
<1>5. QED BY <1>1, <1>2, <1>3, <1>4

-----------------------------------------------------------------------------
(* Types of what the operations yield.                                     *)

LEMMA EndsTypes ==
  ASSUME NEW p, NEW q, Ends(p, q)
  PROVE  q \in Projects
BY DEF Ends

LEMMA BeginsTypes ==
  ASSUME NEW p, NEW q, Begins(p, q)
  PROVE  q \in Projects
BY DEF Begins

LEMMA EventTypes == {"play", "stop", "pause", "resume", "dialog", "clear", "editing", "edited"} = Events
BY DEF Events

\* What the operations publish.
Publishes(s) == s \in Seq(Events) /\ Len(s) <= 2

LEMMA PublishedTypes ==
  /\ Publishes(<<>>) /\ Publishes(<<"play">>) /\ Publishes(<<"stop">>) /\ Publishes(<<"pause">>)
  /\ Publishes(<<"resume">>) /\ Publishes(<<"stop", "play">>)
<1>1. \A e \in Events : Publishes(<<e>>)
  BY SentTypes DEF Publishes
<1>2. \A e, f \in Events : Publishes(<<e, f>>)
  BY SentTypes DEF Publishes
<1>3. Publishes(<<>>)
  BY SentTypes DEF Publishes
<1>4. QED BY <1>1, <1>2, <1>3, EventTypes

LEMMA OutcomeParts ==
  ASSUME NEW r, r.project \in Projects, Publishes(r.sent)
  PROVE  Outcome(r)
BY DEF Outcome, Publishes

LEMMA PlayTypes ==
  ASSUME NEW p \in Projects
  PROVE  Outcome(Play(p))
<1> DEFINE r == Play(p)
<1>1. /\ p.editing => r.project = p /\ r.sent = <<>>
      /\ ~p.editing => Begins(p, r.project) /\ r.sent = <<"play">>
  BY PlayWhere
<1> HIDE DEF r
<1>2. Outcome(r)
  BY <1>1, BeginsTypes, PublishedTypes, OutcomeParts
<1>3. QED BY <1>2 DEF r

LEMMA StopTypes ==
  ASSUME NEW p \in Projects
  PROVE  Outcome(Stop(p))
<1> DEFINE r == Stop(p)
<1>1. Ends(p, r.project) /\ r.sent = <<"stop">>
  BY StopWhere
<1> HIDE DEF r
<1>2. Outcome(r)
  BY <1>1, EndsTypes, PublishedTypes, OutcomeParts
<1>3. QED BY <1>2 DEF r

LEMMA PauseTypes ==
  ASSUME NEW p \in Projects, Playing(p), NEW force
  PROVE  Outcome(Pause(p, force))
<1> DEFINE r == Pause(p, force)
<1>1. Ends(p, r.project) /\ r.sent = <<"pause">>
  BY PauseWhere
<1> HIDE DEF r
<1>2. Outcome(r)
  BY <1>1, EndsTypes, PublishedTypes, OutcomeParts
<1>3. QED BY <1>2 DEF r

LEMMA ResumeTypes ==
  ASSUME NEW p \in Projects, ~Playing(p), NEW force \in BOOLEAN
  PROVE  Outcome(Resume(p, force))
<1> DEFINE r == Resume(p, force)
           again == (force \/ WasPlaying(p)) /\ ~p.editing
<1>1. /\ again => Begins(p, r.project) /\ r.sent = <<"resume">>
      /\ ~again => r.project = p /\ r.sent = <<>>
  BY ResumeWhere
<1> HIDE DEF r, again
<1>2. Outcome(r)
  BY <1>1, BeginsTypes, PublishedTypes, OutcomeParts
<1>3. QED BY <1>2 DEF r

LEMMA ContinuesTypes ==
  ASSUME NEW p \in Projects
  PROVE  Outcome(ContinuesPlaying(p))
<1> DEFINE r == ContinuesPlaying(p)
<1>1. \/ Ends(p, r.project) /\ r.sent = <<"stop">>
      \/ \E q : Ends(p, q) /\ Begins(q, r.project) /\ r.sent = <<"stop", "play">>
  BY ContinuesWhere
<1> HIDE DEF r
<1>2. r.project \in Projects
  BY <1>1, EndsTypes, BeginsTypes
<1>3. Publishes(r.sent)
  BY <1>1, PublishedTypes
<1>4. Outcome(r)
  BY <1>2, <1>3, OutcomeParts
<1>5. QED BY <1>4 DEF r

LEMMA SetActiveTypes ==
  ASSUME NEW p \in Projects, NEW value \in BOOLEAN, ~(p.state = "play" /\ p.last = "play")
  PROVE  Outcome(SetActive(p, value))
<1> DEFINE r == SetActive(p, value)
           q == r.project
           again == WasPlaying(p) /\ ~p.editing
           shown == [p EXCEPT !.active = TRUE]
           suspended == [p EXCEPT !.last = p.state, !.state = "suspend", !.active = FALSE]
<1>1. /\ p.active = value => q = p /\ r.sent = <<>>
      /\ p.active # value /\ value /\ again => Begins(p, q) /\ r.sent = <<"resume">>
      /\ p.active # value /\ value /\ ~again => q = shown /\ r.sent = <<>>
      /\ p.active # value /\ ~value /\ Playing(p) => Ends(p, q) /\ r.sent = <<"pause">>
      /\ p.active # value /\ ~value /\ ~Playing(p) => q = suspended /\ r.sent = <<>>
  <2>1. Activated(p, value, q, r.sent)
    BY SetActiveWhere
  <2> HIDE DEF r
  <2>2. QED BY <2>1 DEF Activated
<1>2. shown \in Projects
  BY DEF Projects
<1>3. suspended \in Projects
  BY DEF Projects, PlayerStates
<1> HIDE DEF r, again, shown, suspended
<1>4. q \in Projects
  BY <1>1, <1>2, <1>3, EndsTypes, BeginsTypes
<1>5. Publishes(r.sent)
  BY <1>1, PublishedTypes
<1>6. Outcome(r)
  BY <1>4, <1>5, OutcomeParts
<1>7. QED BY <1>6 DEF r

LEMMA QuietTypes ==
  ASSUME NEW p \in Projects
  PROVE  Outcome(Quietly(p))
BY QuietlyTypes

LEMMA TellTypes ==
  ASSUME NEW p \in Projects, NEW e \in Events
  PROVE  Outcome(Telling(p, e))
BY TellingTypes

\* Publishing in a queue with room keeps the types of the project and its events.
LEMMA PerformTypes ==
  ASSUME NEW r, Outcome(r), Perform(r), Room, events \in Seq(Events)
  PROVE  project' \in Projects /\ events' \in Seq(Events) /\ Len(events') <= MaxMessages + 1
<1> DEFINE s == r.sent
<1>1. s \in Seq(Events) /\ Len(s) <= 2 /\ project' \in Projects /\ events' = events \o s
  BY DEF Outcome, Perform
<1> HIDE DEF s
<1>2. events \o s \in Seq(Events) /\ Len(events \o s) = Len(events) + Len(s)
  BY <1>1, ConcatProperties
<1>3. Len(events) \in Nat /\ Len(s) \in Nat
  BY <1>1, LenProperties
<1>4. QED BY <1>1, <1>2, <1>3, BoundsAssumption DEF Room

LEMMA AppendTypes ==
  ASSUME NEW e \in Events, events \in Seq(Events), Room
  PROVE  Append(events, e) \in Seq(Events) /\ Len(Append(events, e)) <= MaxMessages + 1
<1>1. Append(events, e) \in Seq(Events) /\ Len(Append(events, e)) = Len(events) + 1
  BY AppendProperties
<1>2. Len(events) \in Nat
  BY LenProperties
<1>3. QED BY <1>1, <1>2, BoundsAssumption DEF Room

LEMMA ReceiveTypes ==
  ASSUME TypeOK, NEW c, Receive(c)
  PROVE  Room /\ commands' \in Seq(Commands) /\ Len(commands') <= MaxMessages
<1>1. Room /\ commands # <<>> /\ commands' = Tail(commands)
  BY DEF Receive
<1>2. commands \in Seq(Commands) /\ Len(commands) <= MaxMessages /\ Len(commands) \in Nat
  BY LenProperties DEF TypeOK
<1>3. Tail(commands) \in Seq(Commands) /\ Len(Tail(commands)) = Len(commands) - 1
  BY <1>1, <1>2, HeadTailProperties
<1>4. QED BY <1>1, <1>2, <1>3, BoundsAssumption

LEMMA CrossingTypes ==
  ASSUME NEW what \in Crossings, NEW happens, Crossing(what, happens), crossed \subseteq Crossings
  PROVE  crossed' \subseteq Crossings
BY DEF Crossing

\* The parts of the state but the project, its events and the queue of commands.
Side ==
  /\ editor \in SavedStates \cup {NoState}
  /\ asked \in Seq(Models) /\ Len(asked) <= MaxDialogs
  /\ items \in Items /\ covered \in Items \cup {NoState}
  /\ chosen \in [model : Pointers, loop : BOOLEAN]
  /\ hiding \in {"no", "playing", "idle", "touched"}
  /\ crossed \subseteq Crossings
  /\ missed \in BOOLEAN

Traffic ==
  /\ project \in Projects
  /\ commands \in Seq(Commands) /\ Len(commands) <= MaxMessages
  /\ events \in Seq(Events) /\ Len(events) <= MaxMessages + 1

LEMMA TypeParts ==
  /\ TypeOK <=> Side /\ Traffic
  /\ TypeOK' <=> Side' /\ Traffic'
BY DEF TypeOK, Side, Traffic

-----------------------------------------------------------------------------
(* A frame that is drawn and an editor that is closed.                     *)

LEMMA FramedProject ==
  ASSUME NEW q \in Projects, NEW f \in Frames
  PROVE  LET t == [q EXCEPT !.frame = f]
         IN  /\ t \in Projects /\ t.state = q.state /\ t.last = q.last /\ t.models = q.models
             /\ t.model = q.model /\ t.saved = q.saved /\ t.loop = q.loop
             /\ t.editing = q.editing /\ t.active = q.active
BY DEF Projects

LEMMA FramedOutcome ==
  ASSUME NEW q, NEW s, NEW f
  PROVE  LET r == [[project |-> q, sent |-> s] EXCEPT !.project.frame = f]
         IN  r.project = [q EXCEPT !.frame = f] /\ r.sent = s
OBVIOUS

LEMMA ContinuesRecord ==
  ASSUME NEW p
  PROVE  LET r == ContinuesPlaying(p)
         IN  \E q, s : r = [project |-> q, sent |-> s] /\ r.project = q /\ r.sent = s
<1> DEFINE r == ContinuesPlaying(p)
<1>1. \E q, s : r = [project |-> q, sent |-> s]
  <2>1. CASE Stop(p).project.loop
    BY <2>1, Zenon DEF ContinuesPlaying
  <2>2. CASE ~Stop(p).project.loop
    BY <2>2, Zenon DEF ContinuesPlaying, Stop, Telling
  <2>3. QED BY <2>1, <2>2
<1> HIDE DEF r
<1>2. \E q, s : r = [project |-> q, sent |-> s] /\ r.project = q /\ r.sent = s
  BY <1>1
<1>3. QED BY <1>2 DEF r

\* A frame is drawn while the project plays.
Drawn ==
  /\ Playing(project) /\ project'.active = project.active
  /\ \/ /\ events' = events \o <<>>
        /\ \E f \in Frames : project' = [project EXCEPT !.frame = f]
     \/ events' = events \o <<"stop">> /\ Ends(project, project')
     \/ /\ events' = events \o <<"stop", "play">>
        /\ \E q : Ends(project, q) /\ Begins(q, project')

LEMMA UpdateWhere ==
  ASSUME project \in Projects, Update
  PROVE  Drawn
<1>1. PICK f \in Frames :
        LET r == IF project.frame >= Duration THEN ContinuesPlaying(project) ELSE Quietly(project)
        IN  Perform(IF Playing(r.project) THEN [r EXCEPT !.project.frame = f] ELSE r)
  BY DEF Update
<1>2. Playing(project)
  BY DEF Update
<1> DEFINE r == IF project.frame >= Duration THEN ContinuesPlaying(project) ELSE Quietly(project)
           framed == [r EXCEPT !.project.frame = f]
<1>3. \E q, s : r = [project |-> q, sent |-> s] /\ r.project = q /\ r.sent = s
  <2>1. Quietly(project) = [project |-> project, sent |-> <<>>]
    BY DEF Quietly
  <2>2. LET u == Quietly(project)
        IN  \E q, s : u = [project |-> q, sent |-> s] /\ u.project = q /\ u.sent = s
    BY <2>1
  <2>3. QED BY <2>2, ContinuesRecord, Zenon
<1>4. Perform(IF Playing(r.project) THEN framed ELSE r)
  BY <1>1
<1>5. \/ r.project = project /\ r.sent = <<>>
      \/ /\ r.project.active = project.active
         /\ \/ Ends(project, r.project) /\ r.sent = <<"stop">>
            \/ \E q : Ends(project, q) /\ Begins(q, r.project) /\ r.sent = <<"stop", "play">>
  <2>1. CASE project.frame >= Duration
    <3> DEFINE c == ContinuesPlaying(project)
    <3>1. /\ c.project.active = project.active
          /\ \/ Ends(project, c.project) /\ c.sent = <<"stop">>
             \/ \E q : Ends(project, q) /\ Begins(q, c.project) /\ c.sent = <<"stop", "play">>
      BY ContinuesWhere
    <3>2. r = c
      BY <2>1
    <3> HIDE DEF c, r
    <3>3. QED BY <3>1, <3>2
  <2>2. CASE ~(project.frame >= Duration)
    BY <2>2, QuietlyTypes
  <2>3. QED BY <2>1, <2>2
<1>6. framed.project = [r.project EXCEPT !.frame = f] /\ framed.sent = r.sent
  <2> HIDE DEF r
  <2>1. QED BY <1>3, FramedOutcome
<1> HIDE DEF framed, r
<1>7. /\ events' = events \o r.sent
      /\ project' = IF Playing(r.project) THEN [r.project EXCEPT !.frame = f] ELSE r.project
  BY <1>4, <1>6 DEF Perform
<1>8. CASE r.project = project /\ r.sent = <<>>
  <2>1. project' = [project EXCEPT !.frame = f]
    BY <1>2, <1>7, <1>8
  <2>2. project'.active = project.active
    BY <2>1, FramedProject
  <2>3. QED BY <1>2, <1>7, <1>8, <2>1, <2>2 DEF Drawn
<1>9. CASE Ends(project, r.project) /\ r.sent = <<"stop">> /\ r.project.active = project.active
  <2>1. ~Playing(r.project)
    BY <1>9 DEF Ends, Playing
  <2>2. QED BY <1>2, <1>7, <1>9, <2>1 DEF Drawn
<1>10. CASE /\ \E q : Ends(project, q) /\ Begins(q, r.project) /\ r.sent = <<"stop", "play">>
            /\ r.project.active = project.active
  <2>1. PICK q : Ends(project, q) /\ Begins(q, r.project) /\ r.sent = <<"stop", "play">>
    BY <1>10
  <2> DEFINE t == [r.project EXCEPT !.frame = f]
  <2>2. r.project \in Projects /\ Playing(r.project)
    BY <2>1 DEF Begins, Playing
  <2>3. /\ t \in Projects /\ t.state = r.project.state /\ t.last = r.project.last
        /\ t.models = r.project.models /\ t.model = r.project.model /\ t.saved = r.project.saved
        /\ t.loop = r.project.loop /\ t.editing = r.project.editing /\ t.active = r.project.active
    BY <2>2, FramedProject
  <2>4. project' = t
    BY <1>7, <2>2
  <2> HIDE DEF t
  <2>5. Begins(q, t)
    BY <2>1, <2>3 DEF Begins
  <2>6. QED BY <1>2, <1>7, <1>10, <2>1, <2>3, <2>4, <2>5 DEF Drawn
<1>11. QED BY <1>5, <1>8, <1>9, <1>10

\* The editor is closed: its state is given back.
Closed ==
  /\ project' \in Projects
  /\ project'.state = project.state /\ project'.last = project.last
  /\ project'.models = project.models /\ project'.saved = project.saved
  /\ project'.active = project.active /\ project'.loop = editor.loop
  /\ project'.model = IF project.editing THEN project.model ELSE editor.model
  /\ project'.editing = (project'.model = NoModel)
  /\ events' = IF project'.editing THEN events \o <<>> ELSE events \o <<"edited">>
  /\ editor' = NoState

LEMMA CloseWhere ==
  ASSUME project \in Projects, editor \in SavedStates, editor.editing, CloseEditor
  PROVE  Closed
<1> DEFINE m == IF project.editing THEN project.model ELSE editor.model
           q == [project EXCEPT !.model = m, !.loop = editor.loop, !.editing = editor.editing]
<1>1. RestoreState(project, editor) = q
  BY DEF RestoreState, SetActiveModel, Projects
<1>2. m \in Pointers /\ editor.loop \in BOOLEAN /\ editor.editing = TRUE
  BY DEF Projects, SavedStates
<1> HIDE DEF m
<1>3. /\ q \in Projects /\ q.state = project.state /\ q.last = project.last
      /\ q.models = project.models /\ q.saved = project.saved /\ q.active = project.active
      /\ q.loop = editor.loop /\ q.model = m /\ q.editing = TRUE
  BY <1>2 DEF Projects
<1>4. PICK f \in Frames :
        LET p == [q EXCEPT !.frame = f]
        IN  IF p.model # NoModel /\ p.editing
            THEN Perform(Telling([p EXCEPT !.editing = FALSE], "edited"))
            ELSE Perform(Quietly(p))
  BY <1>1 DEF CloseEditor
<1> HIDE DEF q
<1> DEFINE p == [q EXCEPT !.frame = f]
           t == [p EXCEPT !.editing = FALSE]
<1>5. /\ p \in Projects /\ p.state = q.state /\ p.last = q.last
      /\ p.models = q.models /\ p.saved = q.saved /\ p.active = q.active
      /\ p.loop = q.loop /\ p.model = q.model /\ p.editing = q.editing
  BY <1>3, FramedProject
<1>6. IF p.model # NoModel /\ p.editing THEN Perform(Telling(t, "edited")) ELSE Perform(Quietly(p))
  BY <1>4
<1> HIDE DEF p
<1>7. /\ t \in Projects /\ t.state = p.state /\ t.last = p.last
      /\ t.models = p.models /\ t.saved = p.saved /\ t.active = p.active
      /\ t.loop = p.loop /\ t.model = p.model /\ t.editing = FALSE
  BY <1>5 DEF Projects
<1> HIDE DEF t
<1>8. editor' = NoState
  BY DEF CloseEditor
<1>9. CASE m # NoModel
  <2>1. project' = t /\ events' = events \o <<"edited">>
    BY <1>3, <1>5, <1>6, <1>9 DEF Perform, Telling
  <2>2. QED BY <1>3, <1>5, <1>7, <1>8, <1>9, <2>1 DEF Closed, m
<1>10. CASE m = NoModel
  <2>1. project' = p /\ events' = events \o <<>>
    BY <1>3, <1>5, <1>6, <1>10 DEF Perform, Quietly
  <2>2. QED BY <1>3, <1>5, <1>8, <1>10, <2>1 DEF Closed, m
<1>11. QED BY <1>9, <1>10

-----------------------------------------------------------------------------
(* Every action keeps the types: the menu and the commands it sends.       *)

StartsOnce == ~(project.state = "play" /\ project.last = "play")
EditorState == editor # NoState => editor.editing /\ editor.model # NoModel

LEMMA StartingTypes ==
  ASSUME NEW p, Starting(p), crossed \subseteq Crossings
  PROVE  crossed' \subseteq Crossings
BY CrossingTypes DEF Starting, Crossings

LEMMA TouchingTypes ==
  ASSUME TypeOK, Touching
  PROVE  hiding' \in {"no", "playing", "idle", "touched"}
BY DEF TypeOK, Touching

\* Publishing an outcome while nothing else that is typed changes.
LEMMA TrafficFromOutcome ==
  ASSUME TypeOK, NEW r, Outcome(r), Perform(r), Room,
         commands' \in Seq(Commands), Len(commands') <= MaxMessages
  PROVE  Traffic'
<1>1. events \in Seq(Events)
  BY DEF TypeOK
<1>2. project' \in Projects /\ events' \in Seq(Events) /\ Len(events') <= MaxMessages + 1
  BY <1>1, PerformTypes
<1>3. QED BY <1>2 DEF Traffic

LEMMA SendTypes ==
  ASSUME TypeOK, NEW c \in Commands, Send(c)
  PROVE  TypeOK'
<1>1. commands \in Seq(Commands) /\ Len(commands) < MaxMessages /\ Len(commands) \in Nat
  BY LenProperties DEF TypeOK, Send
<1>2. Append(commands, c) \in Seq(Commands) /\ Len(Append(commands, c)) = Len(commands) + 1
  BY <1>1, AppendProperties
<1>3. commands' \in Seq(Commands) /\ Len(commands') <= MaxMessages
  BY <1>1, <1>2, BoundsAssumption DEF Send
<1>4. QED BY <1>3 DEF TypeOK, Send, Keep

LEMMA EventItemsTypes ==
  ASSUME NEW e \in Events, e \notin {"dialog", "clear"}, NEW i \in Items
  PROVE  EventItems(e, i) \in Items
BY DEF Events, Items, EventItems

LEMMA HandleEventTypes ==
  ASSUME TypeOK, HandleEvent
  PROVE  TypeOK'
<1>1. events \in Seq(Events) /\ events # <<>> /\ Len(events) \in Nat /\ events' = Tail(events)
      /\ Len(events) <= MaxMessages + 1
  BY LenProperties DEF TypeOK, HandleEvent
<1>2. Head(events) \in Events /\ Tail(events) \in Seq(Events) /\ Len(Tail(events)) = Len(events) - 1
  BY <1>1, HeadTailProperties
<1>3. events' \in Seq(Events) /\ Len(events') <= MaxMessages + 1
  BY <1>1, <1>2, BoundsAssumption
<1> DEFINE e == Head(events)
<1>4. e \in Events /\ items \in Items /\ covered \in Items \cup {NoState} /\ missed \in BOOLEAN
  BY <1>2 DEF TypeOK
<1>5. \/ /\ covered' = IF covered = NoState THEN items ELSE covered
         /\ items' = [play |-> FALSE, stop |-> FALSE]
         /\ missed' = missed
      \/ /\ items' = IF covered = NoState THEN items ELSE covered
         /\ covered' = NoState
         /\ missed' = missed
      \/ /\ e \notin {"dialog", "clear"}
         /\ items' = IF covered = NoState THEN EventItems(e, items) ELSE items
         /\ missed' = IF e \in {"editing", "edited"} THEN missed ELSE covered # NoState
         /\ covered' = covered
  BY DEF HandleEvent
<1> HIDE DEF e
<1>6. [play |-> FALSE, stop |-> FALSE] \in Items
  BY DEF Items
<1>7. items' \in Items /\ covered' \in Items \cup {NoState} /\ missed' \in BOOLEAN
  BY <1>4, <1>5, <1>6, EventItemsTypes
<1>8. QED BY <1>3, <1>7 DEF TypeOK, HandleEvent

LEMMA ReceivePlayTypes ==
  ASSUME TypeOK, ReceivePlay
  PROVE  TypeOK'
<1>1. Room /\ commands' \in Seq(Commands) /\ Len(commands') <= MaxMessages
  BY ReceiveTypes DEF ReceivePlay
<1>2. Outcome(Play(project)) /\ Perform(Play(project))
  BY PlayTypes DEF TypeOK, ReceivePlay
<1>3. Traffic'
  BY <1>1, <1>2, TrafficFromOutcome
<1>4. crossed' \subseteq Crossings /\ hiding' \in {"no", "playing", "idle", "touched"}
  BY StartingTypes, TouchingTypes DEF ReceivePlay, TypeOK
<1>5. Side'
  BY <1>4 DEF Side, TypeOK, ReceivePlay
<1>6. QED BY <1>3, <1>5, TypeParts

LEMMA ReceiveStopTypes ==
  ASSUME TypeOK, ReceiveStop
  PROVE  TypeOK'
<1>1. Room /\ commands' \in Seq(Commands) /\ Len(commands') <= MaxMessages
  BY ReceiveTypes DEF ReceiveStop
<1>2. Outcome(Stop(project)) /\ Perform(Stop(project))
  BY StopTypes DEF TypeOK, ReceiveStop
<1>3. Traffic'
  BY <1>1, <1>2, TrafficFromOutcome
<1>4. hiding' \in {"no", "playing", "idle", "touched"}
  BY TouchingTypes DEF ReceiveStop
<1>5. Side'
  BY <1>4 DEF Side, TypeOK, ReceiveStop
<1>6. QED BY <1>3, <1>5, TypeParts

LEMMA ClearAudioWhere ==
  ASSUME NEW p \in Projects
  PROVE  /\ ClearAudioSource(p) \in Projects
         /\ ClearAudioSource(p) = [p EXCEPT !.state = "stop"]
BY DEF ClearAudioSource, Projects, PlayerStates

LEMMA ReceiveClearAudioTypes ==
  ASSUME TypeOK, ReceiveClearAudio
  PROVE  TypeOK'
<1>1. Room /\ commands' \in Seq(Commands) /\ Len(commands') <= MaxMessages
  BY ReceiveTypes DEF ReceiveClearAudio
<1>2. Outcome(Quietly(ClearAudioSource(project)))
  BY QuietTypes, ClearAudioWhere DEF TypeOK
<1>3. Traffic'
  BY <1>1, <1>2, TrafficFromOutcome DEF ReceiveClearAudio
<1>4. crossed' \subseteq Crossings
  BY CrossingTypes DEF ReceiveClearAudio, TypeOK, Crossings
<1>5. Side'
  BY <1>4 DEF Side, TypeOK, ReceiveClearAudio
<1>6. QED BY <1>3, <1>5, TypeParts

LEMMA ReceiveActivateTypes ==
  ASSUME TypeOK, StartsOnce, ReceiveActivate
  PROVE  TypeOK'
<1>1. Room /\ commands' \in Seq(Commands) /\ Len(commands') <= MaxMessages
  BY ReceiveTypes DEF ReceiveActivate
<1>2. Outcome(SetActive(project, TRUE))
  BY SetActiveTypes DEF TypeOK, StartsOnce
<1>3. Traffic'
  BY <1>1, <1>2, TrafficFromOutcome DEF ReceiveActivate
<1>5. Side'
  BY DEF Side, TypeOK, ReceiveActivate
<1>6. QED BY <1>3, <1>5, TypeParts

LEMMA ReceiveDeactivateTypes ==
  ASSUME TypeOK, StartsOnce, ReceiveDeactivate
  PROVE  TypeOK'
<1>1. Room /\ commands' \in Seq(Commands) /\ Len(commands') <= MaxMessages
  BY ReceiveTypes DEF ReceiveDeactivate
<1>2. Outcome(SetActive(project, FALSE))
  BY SetActiveTypes DEF TypeOK, StartsOnce
<1>3. Traffic'
  BY <1>1, <1>2, TrafficFromOutcome DEF ReceiveDeactivate
<1>5. Side'
  BY DEF Side, TypeOK, ReceiveDeactivate
<1>6. QED BY <1>3, <1>5, TypeParts

LEMMA EditedTypes ==
  ASSUME NEW p \in Projects
  PROVE  LET q == [p EXCEPT !.editing = TRUE]
         IN  /\ q \in Projects /\ q.state = p.state /\ q.last = p.last
             /\ q.models = p.models /\ q.saved = p.saved /\ q.active = p.active
             /\ q.loop = p.loop /\ q.editing = TRUE /\ q.model = p.model
BY DEF Projects

\* The editor opens over the project it saved.
EditedProject == [project EXCEPT !.editing = TRUE]

LEMMA ReceiveEditTypes ==
  ASSUME TypeOK, ReceiveEdit
  PROVE  TypeOK'
<1>1. Room /\ commands' \in Seq(Commands) /\ Len(commands') <= MaxMessages
  BY ReceiveTypes DEF ReceiveEdit
<1>2. crossed' \subseteq Crossings
  BY CrossingTypes DEF ReceiveEdit, TypeOK, Crossings
<1>3. CASE OpensEditor
  <2>1. EditedProject \in Projects /\ SaveState(EditedProject) \in SavedStates
    <3>1. project \in Projects
      BY DEF TypeOK
    <3>3. EditedProject \in Projects
      <4>1. [project EXCEPT !.editing = TRUE] \in Projects
        BY <3>1, EditedTypes, Zenon
      <4>2. QED BY <4>1, Zenon DEF EditedProject
    <3>4. SaveState(EditedProject) \in SavedStates
      BY <3>3, SaveStateTypes
    <3>5. QED BY <3>3, <3>4
  <2>2. Perform(Telling(EditedProject, "editing")) /\ editor' = SaveState(EditedProject)
    BY <1>3 DEF ReceiveEdit, EditedProject
  <2>3. Outcome(Telling(EditedProject, "editing"))
    BY <2>1, TellTypes DEF Events
  <2>4. Traffic'
    BY <1>1, <2>2, <2>3, TrafficFromOutcome
  <2>5. Side'
    BY <1>2, <2>1, <2>2 DEF Side, TypeOK, ReceiveEdit
  <2>6. QED BY <2>4, <2>5, TypeParts
<1>4. CASE ~OpensEditor
  BY <1>1, <1>2, <1>4 DEF TypeOK, ReceiveEdit
<1>5. QED BY <1>3, <1>4

LEMMA AskDeleteTypes ==
  ASSUME TypeOK, Room, AskDelete, commands' \in Seq(Commands), Len(commands') <= MaxMessages
  PROVE  TypeOK'
<1>1. crossed' \subseteq Crossings
  BY CrossingTypes DEF AskDelete, TypeOK, Crossings
<1>2. CASE project.model # NoModel
  <2>1. project.model \in Models /\ asked \in Seq(Models) /\ Len(asked) < MaxDialogs /\ Len(asked) \in Nat
    BY <1>2, LenProperties DEF AskDelete, TypeOK, Projects, Pointers
  <2>2. asked' = Append(asked, project.model) /\ events' = Append(events, "dialog")
    BY <1>2 DEF AskDelete
  <2>3. asked' \in Seq(Models) /\ Len(asked') = Len(asked) + 1
    BY <2>1, <2>2, AppendProperties
  <2>4. events' \in Seq(Events) /\ Len(events') <= MaxMessages + 1
    BY <2>2, AppendTypes DEF TypeOK, Events
  <2>5. Len(asked') <= MaxDialogs
    BY <2>1, <2>3, BoundsAssumption
  <2>6. QED BY <1>1, <2>3, <2>4, <2>5 DEF TypeOK, AskDelete
<1>3. CASE ~(project.model # NoModel)
  BY <1>1, <1>3 DEF TypeOK, AskDelete
<1>4. QED BY <1>2, <1>3

-----------------------------------------------------------------------------
(* Every action keeps the types: the panels, the answer and the update.    *)

LEMMA PanelsTypes ==
  ASSUME TypeOK, Panels
  PROVE  Room /\ commands' \in Seq(Commands) /\ Len(commands') <= MaxMessages
BY DEF TypeOK, Panels

LEMMA PressPauseTypes ==
  ASSUME TypeOK, PressPause
  PROVE  TypeOK'
<1>1. Room /\ commands' \in Seq(Commands) /\ Len(commands') <= MaxMessages
  BY PanelsTypes DEF PressPause
<1>2. Outcome(Pause(project, TRUE))
  BY PauseTypes DEF PressPause, TypeOK
<1>3. Traffic'
  BY <1>1, <1>2, TrafficFromOutcome DEF PressPause
<1>4. Side'
  BY DEF Side, TypeOK, PressPause, Panels
<1>5. QED BY <1>3, <1>4, TypeParts

LEMMA PressResumeTypes ==
  ASSUME TypeOK, PressResume
  PROVE  TypeOK'
<1>1. Room /\ commands' \in Seq(Commands) /\ Len(commands') <= MaxMessages
  BY PanelsTypes DEF PressResume
<1>2. Outcome(Resume(project, TRUE))
  BY ResumeTypes DEF PressResume, TypeOK
<1>3. Traffic'
  BY <1>1, <1>2, TrafficFromOutcome DEF PressResume
<1>4. crossed' \subseteq Crossings
  BY StartingTypes DEF PressResume, TypeOK
<1>5. Side'
  BY <1>4 DEF Side, TypeOK, PressResume, Panels
<1>6. QED BY <1>3, <1>5, TypeParts

LEMMA PressPlayTypes ==
  ASSUME TypeOK, PressPlay
  PROVE  TypeOK'
<1>1. Room /\ commands' \in Seq(Commands) /\ Len(commands') <= MaxMessages
  BY PanelsTypes DEF PressPlay
<1>2. Outcome(Play(project))
  BY PlayTypes DEF PressPlay, TypeOK
<1>3. Traffic'
  BY <1>1, <1>2, TrafficFromOutcome DEF PressPlay
<1>4. crossed' \subseteq Crossings
  BY StartingTypes DEF PressPlay, TypeOK
<1>5. Side'
  BY <1>4 DEF Side, TypeOK, PressPlay, Panels
<1>6. QED BY <1>3, <1>5, TypeParts

LEMMA ToggleLoopTypes ==
  ASSUME TypeOK, ToggleLoop
  PROVE  TypeOK'
<1>1. project' \in Projects
  BY DEF ToggleLoop, TypeOK, Projects
<1>2. chosen' \in [model : Pointers, loop : BOOLEAN]
  BY DEF ToggleLoop, TypeOK, Projects
<1>3. crossed' \subseteq Crossings
  BY CrossingTypes DEF ToggleLoop, TypeOK, Crossings
<1>4. QED BY <1>1, <1>2, <1>3 DEF TypeOK, ToggleLoop, Panels

LEMMA ChosenModelTypes ==
  ASSUME NEW p \in Projects, NEW m \in Pointers
  PROVE  LET q == SetActiveModel(p, m)
         IN  /\ q \in Projects /\ q.state = p.state /\ q.last = p.last
             /\ q.models = p.models /\ q.saved = p.saved /\ q.active = p.active
             /\ q.loop = p.loop /\ q.editing = p.editing
             /\ q.model = IF p.editing THEN p.model ELSE m
BY DEF SetActiveModel, Projects

LEMMA ChooseModelTypes ==
  ASSUME TypeOK, NEW m \in project.models \cup {NoModel}, ChooseModel(m)
  PROVE  TypeOK' /\ m \in Pointers
<1>1. m \in Pointers /\ project \in Projects
  BY DEF TypeOK, Projects, Pointers
<1>2. project' \in Projects
  BY <1>1, ChosenModelTypes DEF ChooseModel
<1>3. chosen' \in [model : Pointers, loop : BOOLEAN]
  BY <1>1 DEF ChooseModel, TypeOK
<1>4. QED BY <1>1, <1>2, <1>3 DEF TypeOK, ChooseModel, Panels

LEMMA SeekTimelineTypes ==
  ASSUME TypeOK, NEW f \in Frames, SeekTimeline(f)
  PROVE  TypeOK'
<1>1. project' \in Projects
  BY DEF SeekTimeline, TypeOK, Projects
<1>2. QED BY <1>1 DEF TypeOK, SeekTimeline, Panels

LEMMA PressDeleteTypes ==
  ASSUME TypeOK, PressDelete
  PROVE  TypeOK'
BY AskDeleteTypes DEF PressDelete, TypeOK

LEMMA ReceiveDeleteTypes ==
  ASSUME TypeOK, ReceiveDelete
  PROVE  TypeOK'
BY AskDeleteTypes, ReceiveTypes DEF ReceiveDelete

\* A model is removed.
LEMMA RemoveModelWhere ==
  ASSUME NEW p \in Projects, NEW m \in Models
  PROVE  LET q == RemoveModel(p, m)
         IN  /\ q \in Projects /\ q.state = p.state /\ q.last = p.last
             /\ q.models = p.models \ {m} /\ q.saved = p.saved /\ q.active = p.active
             /\ q.loop = p.loop /\ q.editing = p.editing
             /\ q.model = IF p.model = m /\ ~p.editing THEN NoModel ELSE p.model
<1> DEFINE s == [p EXCEPT !.model = NoModel]
           u == IF p.model = m THEN [SetActiveModel(p, NoModel) EXCEPT !.frame = 0] ELSE p
           q == [u EXCEPT !.models = @ \ {m}]
<1>1. /\ u \in Projects /\ u.state = p.state /\ u.last = p.last
      /\ u.models = p.models /\ u.saved = p.saved /\ u.active = p.active
      /\ u.loop = p.loop /\ u.editing = p.editing
      /\ u.model = IF p.model = m /\ ~p.editing THEN NoModel ELSE p.model
  <2>1. CASE p.model # m
    BY <2>1
  <2>2. CASE p.model = m
    <3> DEFINE t == SetActiveModel(p, NoModel)
    <3>1. /\ t \in Projects /\ t.state = p.state /\ t.last = p.last
          /\ t.models = p.models /\ t.saved = p.saved /\ t.active = p.active
          /\ t.loop = p.loop /\ t.editing = p.editing
          /\ t.model = IF p.editing THEN p.model ELSE NoModel
      BY ChosenModelTypes DEF Pointers
    <3>2. u = [t EXCEPT !.frame = 0]
      BY <2>2
    <3> HIDE DEF t, u
    <3>3. 0 \in Frames
      BY BoundsAssumption DEF Frames
    <3>4. QED BY <2>2, <3>1, <3>2, <3>3, FramedProject
  <2>3. QED BY <2>1, <2>2
<1>2. RemoveModel(p, m) = q
  BY DEF RemoveModel
<1> HIDE DEF u
<1>3. /\ q \in Projects /\ q.state = u.state /\ q.last = u.last
      /\ q.models = u.models \ {m} /\ q.saved = u.saved /\ q.active = u.active
      /\ q.loop = u.loop /\ q.editing = u.editing /\ q.model = u.model
  BY <1>1 DEF Projects
<1> HIDE DEF q
<1>4. QED BY <1>1, <1>2, <1>3

LEMMA AnswerTypes ==
  ASSUME TypeOK, NEW accepted \in BOOLEAN, Answer(accepted)
  PROVE  TypeOK'
<1>1. Room /\ asked # <<>> /\ asked \in Seq(Models) /\ Len(asked) <= MaxDialogs /\ Len(asked) \in Nat
  BY LenProperties DEF Answer, TypeOK
<1>2. Head(asked) \in Models /\ Tail(asked) \in Seq(Models) /\ Len(Tail(asked)) = Len(asked) - 1
  BY <1>1, HeadTailProperties
<1>3. asked' \in Seq(Models) /\ Len(asked') <= MaxDialogs
  BY <1>1, <1>2, BoundsAssumption DEF Answer
<1>4. project' \in Projects
  BY <1>2, RemoveModelWhere DEF Answer, TypeOK
<1>5. chosen' \in [model : Pointers, loop : BOOLEAN]
  BY DEF Answer, TypeOK, Pointers
<1>6. crossed' \subseteq Crossings
  BY CrossingTypes DEF Answer, TypeOK, Crossings
<1>7. events' \in Seq(Events) /\ Len(events') <= MaxMessages + 1
  BY <1>1, AppendTypes DEF Answer, TypeOK, Events
<1>8. QED BY <1>3, <1>4, <1>5, <1>6, <1>7 DEF TypeOK, Answer

\* Publishing what an operation sends, in a queue with room.
LEMMA PublishTypes ==
  ASSUME TypeOK, Room, NEW s, Publishes(s)
  PROVE  events \o s \in Seq(Events) /\ Len(events \o s) <= MaxMessages + 1
<1>1. s \in Seq(Events) /\ Len(s) <= 2 /\ events \in Seq(Events)
  BY DEF Publishes, TypeOK
<1>2. events \o s \in Seq(Events) /\ Len(events \o s) = Len(events) + Len(s)
  BY <1>1, ConcatProperties
<1>3. Len(events) \in Nat /\ Len(s) \in Nat
  BY <1>1, LenProperties
<1>4. QED BY <1>1, <1>2, <1>3, BoundsAssumption DEF Room

LEMMA UpdateTypes ==
  ASSUME TypeOK, Update
  PROVE  TypeOK'
<1>1. Drawn /\ Room
  BY UpdateWhere DEF TypeOK, Update
<1>2. project' \in Projects
  <2>1. \A f \in Frames : [project EXCEPT !.frame = f] \in Projects
    BY FramedProject DEF TypeOK
  <2>2. QED BY <1>1, <2>1, EndsTypes, BeginsTypes DEF Drawn
<1>3. events' \in Seq(Events) /\ Len(events') <= MaxMessages + 1
  <2>1. \E s : Publishes(s) /\ events' = events \o s
    BY <1>1, PublishedTypes DEF Drawn
  <2>2. QED BY <1>1, <2>1, PublishTypes
<1>4. QED BY <1>2, <1>3 DEF TypeOK, Update, Keep

LEMMA CloseEditorTypes ==
  ASSUME TypeOK, EditorState, CloseEditor
  PROVE  TypeOK' /\ Closed
<1>1. project \in Projects /\ editor \in SavedStates /\ editor.editing /\ Room
  BY DEF TypeOK, EditorState, CloseEditor
<1>2. Closed
  BY <1>1, CloseWhere
<1>3. events' \in Seq(Events) /\ Len(events') <= MaxMessages + 1
  <2>1. Publishes(<<"edited">>) /\ Publishes(<<>>)
    BY SentTypes, PublishedTypes DEF Publishes, Events
  <2>2. \E s : Publishes(s) /\ events' = events \o s
    BY <1>2, <2>1 DEF Closed
  <2>3. QED BY <1>1, <2>2, PublishTypes
<1>4. QED BY <1>2, <1>3 DEF TypeOK, CloseEditor, Keep, Closed

LEMMA InitTypes ==
  ASSUME Init
  PROVE  TypeOK
<1>1. project \in Projects
  <2>1. PICK m \in Pointers :
          project = [state |-> "stop", last |-> "stop", frame |-> 0,
                     models |-> Models, model |-> m, saved |-> NoState,
                     loop |-> FALSE, editing |-> FALSE, active |-> TRUE]
    BY DEF Init
  <2>2. 0 \in Frames
    BY BoundsAssumption DEF Frames
  <2>3. QED BY <2>1, <2>2 DEF Projects, PlayerStates
<1>2. asked \in Seq(Models) /\ Len(asked) = 0
  BY DEF Init
<1>3. commands \in Seq(Commands) /\ Len(commands) = 0 /\ events \in Seq(Events) /\ Len(events) = 0
  BY DEF Init
<1>4. items \in Items /\ covered \in Items \cup {NoState}
  BY DEF Init, Items
<1>5. chosen \in [model : Pointers, loop : BOOLEAN]
  BY DEF Init
<1>6. editor = NoState /\ hiding = "no" /\ crossed = {} /\ missed = FALSE
  BY DEF Init
<1>10. Len(asked) <= MaxDialogs /\ Len(commands) <= MaxMessages /\ Len(events) <= MaxMessages + 1
  BY <1>2, <1>3, BoundsAssumption
<1>11. crossed \subseteq Crossings /\ hiding \in {"no", "playing", "idle", "touched"} /\ missed \in BOOLEAN
  BY <1>6
<1>7. Side
  BY <1>2, <1>10, <1>11, <1>4, <1>5, <1>6, BoundsAssumption DEF Side
<1>8. Traffic
  BY <1>1, <1>3, <1>10 DEF Traffic
<1>9. QED BY <1>7, <1>8, TypeParts

-----------------------------------------------------------------------------
(* The selection, the pointers and the editor, by what happens to them.    *)

(* The parts of the inductive invariant that speak of a project p, the     *)
(* editor's state ed, the open questions qs, the user's choices ch and the *)
(* crossings cr.                                                           *)

\* A state is saved exactly while the project plays, playing is entered from
\* another state, and it is never an edited project that is saved.
Session(p, cr) ==
  /\ "cleared" \in cr \/ (p.saved # NoState <=> Playing(p))
  /\ ~(p.state = "play" /\ p.last = "play")
  /\ p.saved # NoState => ~p.saved.editing
  /\ "edited" \in cr \/ ~(p.editing /\ Playing(p))

\* The open editor edits the model it was opened for.
Editing(p, ed, cr) ==
  /\ ed # NoState => ed.editing /\ ed.model # NoModel
  /\ \/ "cleared" \in cr \/ "edited" \in cr
     \/ ed # NoState => p.editing /\ p.loop = ed.loop /\ p.model = ed.model

Alive(p, ed, qs, cr) ==
  /\ "asked twice" \in cr \/ Len(qs) <= 1
  /\ \/ "cleared" \in cr \/ "edited" \in cr \/ "deleted" \in cr \/ "asked twice" \in cr
     \/ /\ p.model \in p.models \cup {NoModel}
        /\ p.saved # NoState => p.saved.model \in p.models \cup {NoModel}
        /\ ed # NoState => ed.model \in p.models \cup {NoModel}
        /\ \A i \in DOMAIN qs : qs[i] \in p.models \cup {NoModel}

Chosen(p, ch, cr) ==
  \/ "replayed" \in cr \/ "cleared" \in cr \/ "edited" \in cr \/ "deleted" \in cr \/ "looped" \in cr
  \/ IF p.saved = NoState
     THEN p.model = ch.model /\ p.loop = ch.loop
     ELSE p.saved.model = ch.model /\ p.saved.loop = ch.loop

Sound(p, ed, qs, ch, cr) ==
  Session(p, cr) /\ Editing(p, ed, cr) /\ Alive(p, ed, qs, cr) /\ Chosen(p, ch, cr)

\* What the crossings do not name stays.
LEMMA SoundSame ==
  ASSUME NEW p, NEW q, NEW ed, NEW qs, NEW ch, NEW cr, NEW dr,
         Sound(p, ed, qs, ch, cr), cr \subseteq dr,
         q.state = p.state, q.last = p.last, q.models = p.models, q.model = p.model,
         q.saved = p.saved, q.loop = p.loop, q.editing = p.editing
  PROVE  Sound(q, ed, qs, ch, dr)
<1>1. Session(q, dr)
  BY DEF Sound, Session, Playing
<1>2. Editing(q, ed, dr)
  BY DEF Sound, Editing
<1>3. Alive(q, ed, qs, dr)
  BY DEF Sound, Alive
<1>4. Chosen(q, ch, dr)
  BY DEF Sound, Chosen
<1>5. QED BY <1>1, <1>2, <1>3, <1>4 DEF Sound

LEMMA SoundBegins ==
  ASSUME NEW p, NEW q, NEW ed, NEW qs, NEW ch, NEW cr, NEW dr,
         Sound(p, ed, qs, ch, cr), cr \subseteq dr, Begins(p, q),
         p.saved # NoState => "replayed" \in dr
  PROVE  Sound(q, ed, qs, ch, dr)
<1>1. Session(q, dr)
  BY DEF Sound, Session, Playing, Begins
<1>2. Editing(q, ed, dr)
  BY DEF Sound, Editing, Begins
<1>3. Alive(q, ed, qs, dr)
  BY DEF Sound, Alive, Begins
<1>4. Chosen(q, ch, dr)
  BY DEF Sound, Chosen, Begins
<1>5. QED BY <1>1, <1>2, <1>3, <1>4 DEF Sound

LEMMA SoundEnds ==
  ASSUME NEW p, NEW q, NEW ed, NEW qs, NEW ch, NEW cr, NEW dr,
         Sound(p, ed, qs, ch, cr), cr \subseteq dr, Ends(p, q),
         q.state # "play"
  PROVE  Sound(q, ed, qs, ch, dr)
<1>1. Session(q, dr)
  BY DEF Sound, Session, Playing, Ends
<1>2. Editing(q, ed, dr)
  BY DEF Sound, Session, Editing, Ends
<1>3. Alive(q, ed, qs, dr)
  BY DEF Sound, Alive, Ends
<1>4. Chosen(q, ch, dr)
  BY DEF Sound, Session, Chosen, Ends
<1>5. QED BY <1>1, <1>2, <1>3, <1>4 DEF Sound

\* The player rests in another state than playing.
LEMMA SoundRests ==
  ASSUME NEW p, NEW q, NEW ed, NEW qs, NEW ch, NEW cr, NEW dr,
         Sound(p, ed, qs, ch, cr), cr \subseteq dr,
         Playing(p) => "cleared" \in dr,
         q.state # "play", q.models = p.models, q.model = p.model,
         q.saved = p.saved, q.loop = p.loop, q.editing = p.editing
  PROVE  Sound(q, ed, qs, ch, dr)
<1>1. Session(q, dr)
  BY DEF Sound, Session, Playing
<1>2. Editing(q, ed, dr)
  BY DEF Sound, Editing
<1>3. Alive(q, ed, qs, dr)
  BY DEF Sound, Alive
<1>4. Chosen(q, ch, dr)
  BY DEF Sound, Chosen
<1>5. QED BY <1>1, <1>2, <1>3, <1>4 DEF Sound

LEMMA SoundEdits ==
  ASSUME NEW p, NEW q, NEW ed, NEW qs, NEW ch, NEW cr, NEW dr, NEW new,
         Sound(p, ed, qs, ch, cr), cr \subseteq dr,
         Playing(p) => "edited" \in dr, p.model # NoModel,
         q.state = p.state, q.last = p.last, q.models = p.models, q.model = p.model,
         q.saved = p.saved, q.loop = p.loop, q.editing = TRUE,
         new.model = q.model, new.loop = q.loop, new.editing = q.editing
  PROVE  Sound(q, new, qs, ch, dr)
<1>1. Session(q, dr)
  BY DEF Sound, Session, Playing
<1>2. Editing(q, new, dr)
  BY DEF Editing
<1>3. Alive(q, new, qs, dr)
  BY DEF Sound, Alive
<1>4. Chosen(q, ch, dr)
  BY DEF Sound, Chosen
<1>5. QED BY <1>1, <1>2, <1>3, <1>4 DEF Sound

LEMMA SoundCloses ==
  ASSUME NEW p, NEW q, NEW ed, NEW qs, NEW ch, NEW cr,
         Sound(p, ed, qs, ch, cr), ed # NoState,
         q.state = p.state, q.last = p.last, q.models = p.models, q.saved = p.saved,
         q.loop = ed.loop, q.model = IF p.editing THEN p.model ELSE ed.model,
         q.editing = (q.model = NoModel)
  PROVE  Sound(q, NoState, qs, ch, cr)
<1>1. Session(q, cr)
  BY DEF Sound, Session, Editing, Playing
<1>2. Editing(q, NoState, cr)
  BY DEF Editing
<1>3. Alive(q, NoState, qs, cr)
  BY DEF Sound, Alive
<1>4. Chosen(q, ch, cr)
  BY DEF Sound, Editing, Chosen
<1>5. QED BY <1>1, <1>2, <1>3, <1>4 DEF Sound

LEMMA SoundLoops ==
  ASSUME NEW p, NEW q, NEW ed, NEW qs, NEW ch, NEW nh, NEW cr, NEW dr,
         Sound(p, ed, qs, ch, cr), cr \subseteq dr,
         ~p.editing, Playing(p) => "looped" \in dr,
         q.state = p.state, q.last = p.last, q.models = p.models, q.model = p.model,
         q.saved = p.saved, q.editing = p.editing,
         nh.model = ch.model, nh.loop = q.loop
  PROVE  Sound(q, ed, qs, nh, dr)
<1>1. Session(q, dr)
  BY DEF Sound, Session, Playing
<1>2. Editing(q, ed, dr)
  BY DEF Sound, Editing
<1>3. Alive(q, ed, qs, dr)
  BY DEF Sound, Alive
<1>4. Chosen(q, nh, dr)
  BY DEF Sound, Session, Chosen
<1>5. QED BY <1>1, <1>2, <1>3, <1>4 DEF Sound

LEMMA SoundChooses ==
  ASSUME NEW p, NEW q, NEW ed, NEW qs, NEW ch, NEW nh, NEW cr,
         Sound(p, ed, qs, ch, cr), ~p.editing,
         q.state = p.state, q.last = p.last, q.models = p.models, q.loop = p.loop,
         q.saved = p.saved, q.editing = p.editing,
         q.model \in p.models \cup {NoModel},
         nh.model = IF Playing(p) THEN ch.model ELSE q.model, nh.loop = ch.loop
  PROVE  Sound(q, ed, qs, nh, cr)
<1>1. Session(q, cr)
  BY DEF Sound, Session, Playing
<1>2. Editing(q, ed, cr)
  BY DEF Sound, Editing
<1>3. Alive(q, ed, qs, cr)
  BY DEF Sound, Alive
<1>4. Chosen(q, nh, cr)
  BY DEF Sound, Session, Chosen
<1>5. QED BY <1>1, <1>2, <1>3, <1>4 DEF Sound

\* A question is added at the end of the open ones, and the first is answered.
Asks(qs, m, bs) ==
  /\ bs \in Seq(Models) /\ (qs # <<>> \/ Len(bs) <= 1)
  /\ \A i \in DOMAIN bs : bs[i] = m \/ \E j \in DOMAIN qs : bs[i] = qs[j]

LEMMA AppendAsks ==
  ASSUME NEW qs \in Seq(Models), NEW m \in Models
  PROVE  Asks(qs, m, Append(qs, m))
<1> DEFINE bs == Append(qs, m)
           n == Len(qs)
<1>8. bs = Append(qs, m)
  OBVIOUS
<1> HIDE DEF bs
<1>1. /\ bs \in Seq(Models) /\ Len(bs) = n + 1 /\ \A i \in 1 .. n : bs[i] = qs[i]
      /\ bs[n + 1] = m
  BY <1>8, AppendProperties
<1>2. n \in Nat /\ DOMAIN qs = 1 .. n
  BY LenProperties
<1>9. qs = <<>> => n = 0
  OBVIOUS
<1>3. DOMAIN bs = 1 .. Len(bs)
  BY <1>1, LenProperties
<1> HIDE DEF bs, n
<1>4. Len(bs) <= 1 \/ qs # <<>>
  BY <1>1, <1>2, <1>9
<1>5. \A i \in DOMAIN bs : bs[i] = m \/ \E j \in DOMAIN qs : bs[i] = qs[j]
  BY <1>1, <1>2, <1>3
<1>6. Asks(qs, m, bs)
  BY <1>1, <1>4, <1>5 DEF Asks
<1>7. QED BY <1>6 DEF bs

Answers(qs, bs) ==
  /\ bs \in Seq(Models) /\ (Len(qs) <= 1 => Len(bs) <= 1 /\ DOMAIN bs = {})
  /\ \A i \in DOMAIN bs : \E j \in DOMAIN qs : bs[i] = qs[j]

LEMMA TailAnswers ==
  ASSUME NEW qs \in Seq(Models), qs # <<>>
  PROVE  Answers(qs, Tail(qs))
<1> DEFINE bs == Tail(qs)
           n == Len(qs)
<1>9. bs = Tail(qs)
  OBVIOUS
<1> HIDE DEF bs
<1>1. bs \in Seq(Models) /\ Len(bs) = n - 1 /\ \A i \in 1 .. Len(bs) : bs[i] = qs[i + 1]
  BY <1>9, HeadTailProperties
<1>2. n \in Nat /\ DOMAIN qs = 1 .. n
  BY LenProperties
<1>3. DOMAIN bs = 1 .. Len(bs) /\ Len(bs) \in Nat
  BY <1>1, LenProperties
<1> HIDE DEF bs, n
<1>4. n = Len(qs)
  BY DEF n
<1>5. n <= 1 => Len(bs) <= 1 /\ DOMAIN bs = {}
  BY <1>1, <1>2, <1>3
<1>6. ASSUME NEW i \in DOMAIN bs PROVE \E j \in DOMAIN qs : bs[i] = qs[j]
  <2>1. bs[i] = qs[i + 1] /\ i + 1 \in DOMAIN qs
    BY <1>1, <1>2, <1>3
  <2>2. QED BY <2>1
<1>7. Answers(qs, bs)
  BY <1>1, <1>4, <1>5, <1>6 DEF Answers
<1>8. QED BY <1>7 DEF bs

LEMMA SoundAsks ==
  ASSUME NEW p, NEW ed, NEW qs, NEW bs, NEW ch, NEW cr, NEW dr,
         Sound(p, ed, qs, ch, cr), cr \subseteq dr,
         Asks(qs, p.model, bs), qs # <<>> => "asked twice" \in dr
  PROVE  Sound(p, ed, bs, ch, dr)
<1>1. Session(p, dr) /\ Editing(p, ed, dr) /\ Chosen(p, ch, dr)
  BY DEF Sound, Session, Editing, Chosen
<1>2. Alive(p, ed, bs, dr)
  <2>1. "asked twice" \in dr \/ Len(bs) <= 1
    BY DEF Asks
  <2>2. ASSUME p.model \in p.models \cup {NoModel}, NEW i \in DOMAIN bs,
               \A j \in DOMAIN qs : qs[j] \in p.models \cup {NoModel}
        PROVE  bs[i] \in p.models \cup {NoModel}
    BY <2>2 DEF Asks
  <2>3. QED BY <2>1, <2>2 DEF Sound, Alive
<1>3. QED BY <1>1, <1>2 DEF Sound

\* A question is answered without removing a model.
LEMMA SoundDismisses ==
  ASSUME NEW p, NEW ed, NEW qs, NEW bs, NEW ch, NEW cr, NEW dr,
         Sound(p, ed, qs, ch, cr), cr \subseteq dr, Answers(qs, bs)
  PROVE  Sound(p, ed, bs, ch, dr)
<1>1. Session(p, dr) /\ Editing(p, ed, dr) /\ Chosen(p, ch, dr)
  BY DEF Sound, Session, Editing, Chosen
<1>2. Alive(p, ed, bs, dr)
  BY DEF Sound, Alive, Answers
<1>3. QED BY <1>1, <1>2 DEF Sound

\* A model is removed while the project does not play.
LEMMA SoundRemoves ==
  ASSUME NEW p, NEW q, NEW ed, NEW qs, NEW bs, NEW ch, NEW nh, NEW cr, NEW dr, NEW m,
         Sound(p, ed, qs, ch, cr), cr \subseteq dr, Answers(qs, bs),
         ~Playing(p), p.editing => "deleted" \in dr,
         q.state = p.state, q.last = p.last, q.saved = p.saved, q.loop = p.loop,
         q.editing = p.editing, q.models = p.models \ {m},
         q.model = IF p.model = m /\ ~p.editing THEN NoModel ELSE p.model,
         nh.loop = ch.loop, nh.model = IF ch.model = m THEN NoModel ELSE ch.model
  PROVE  Sound(q, ed, bs, nh, dr)
<1>3. Session(q, dr)
  BY DEF Sound, Session, Playing
<1>4. Editing(q, ed, dr)
  <2>1. CASE p.editing /\ p.model = m
    BY <2>1 DEF Sound, Editing
  <2>2. CASE ~(p.editing /\ p.model = m)
    BY <2>2 DEF Sound, Editing
  <2>3. QED BY <2>1, <2>2
<1>5. Alive(q, ed, bs, dr)
  <2>1. "asked twice" \in dr \/ (Len(bs) <= 1 /\ DOMAIN bs = {})
    BY DEF Sound, Alive, Answers
  <2>2. QED BY <2>1 DEF Sound, Session, Editing, Alive
<1>6. Chosen(q, nh, dr)
  BY DEF Sound, Session, Chosen
<1>7. QED BY <1>3, <1>4, <1>5, <1>6 DEF Sound

-----------------------------------------------------------------------------
(* The hidden window, and the commands.                                    *)

\* A hidden window: what hiding it interrupted waits, and nothing else does.
Hidden(p, hd, cr) ==
  ~p.active =>
    /\ hd = "playing" => /\ p.last = "play"
                         /\ p.state = "pause" \/ (p.state = "stop" /\ "cleared" \in cr)
    /\ \/ "hidden" \in cr \/ "cleared" \in cr
       \/ ~Playing(p) /\ (hd = "playing" \/ ~WasPlaying(p))

Whole == Sound(project, editor, asked, chosen, crossed) /\ Hidden(project, hiding, crossed)

\* Every step but the one that shows the window keeps it hidden.
StaysHidden == ~project.active => ~project'.active

LEMMA CrossingGrows ==
  ASSUME NEW what, NEW happens, Crossing(what, happens)
  PROVE  crossed \subseteq crossed' /\ (happens => what \in crossed')
BY DEF Crossing

LEMMA StartingGrows ==
  ASSUME NEW p, Starting(p), ~p.editing
  PROVE  /\ crossed \subseteq crossed' /\ (p.saved # NoState => "replayed" \in crossed')
         /\ p.saved = NoState /\ ~p.active => "hidden" \in crossed'
BY CrossingGrows DEF Starting

LEMMA StartingKeeps ==
  ASSUME NEW p, Starting(p)
  PROVE  crossed \subseteq crossed'
BY CrossingGrows DEF Starting

LEMMA WholeUnchanged ==
  ASSUME Whole, UNCHANGED <<project, editor, asked, chosen, hiding>>, crossed \subseteq crossed'
  PROVE  Whole'
<1>1. Sound(project, editor, asked, chosen, crossed')
  BY SoundSame DEF Whole
<1>2. Hidden(project, hiding, crossed')
  BY DEF Whole, Hidden
<1>3. QED BY <1>1, <1>2 DEF Whole

LEMMA SendWhole ==
  ASSUME Whole, NEW c, Send(c)
  PROVE  Whole' /\ StaysHidden
BY WholeUnchanged DEF Send, Keep, StaysHidden

LEMMA HandleEventWhole ==
  ASSUME Whole, HandleEvent
  PROVE  Whole' /\ StaysHidden
BY WholeUnchanged DEF HandleEvent, StaysHidden

LEMMA ReceivePlayWhole ==
  ASSUME TypeOK, Whole, ReceivePlay
  PROVE  Whole' /\ StaysHidden
<1> DEFINE r == Play(project)
<1>1. /\ r.project.active = project.active
      /\ project.editing => r.project = project
      /\ ~project.editing => Begins(project, r.project)
  BY PlayWhere DEF TypeOK
<1>2. /\ project' = r.project /\ Starting(project) /\ Touching /\ UNCHANGED <<editor, asked, chosen>>
  BY DEF ReceivePlay, Perform
<1> HIDE DEF r
<1>3. crossed \subseteq crossed'
  BY <1>2, StartingKeeps
<1>4. CASE project.editing
  <2>1. UNCHANGED <<project, editor, asked, chosen, hiding>>
    BY <1>1, <1>2, <1>4 DEF Touching
  <2>2. QED BY <2>1, <1>3, WholeUnchanged DEF StaysHidden
<1>5. CASE ~project.editing
  <2>1. Begins(project, project') /\ project'.active = project.active
    BY <1>1, <1>2, <1>5
  <2>2. /\ project.saved # NoState => "replayed" \in crossed'
        /\ project.saved = NoState /\ ~project.active => "hidden" \in crossed'
    BY <1>2, <1>5, StartingGrows
  <2>3. Sound(project', editor, asked, chosen, crossed')
    BY <1>3, <2>1, <2>2, SoundBegins DEF Whole
  <2>4. Hidden(project', hiding', crossed')
    <3>1. CASE project' = project
      BY <1>2, <1>3, <3>1 DEF Whole, Hidden, Touching
    <3>2. CASE project' # project /\ ~project.active
      <4>1. hiding' = "touched"
        BY <1>2, <3>2 DEF Touching
      <4>2. "hidden" \in crossed' \/ "cleared" \in crossed'
        BY <1>3, <2>2, <3>2 DEF Whole, Sound, Session, Hidden
      <4>3. QED BY <4>1, <4>2 DEF Hidden
    <3>3. CASE project.active
      BY <2>1, <3>3 DEF Hidden
    <3>4. QED BY <3>1, <3>2, <3>3
  <2>5. QED BY <1>2, <2>1, <2>3, <2>4 DEF Whole, StaysHidden
<1>6. QED BY <1>4, <1>5

LEMMA ReceiveStopWhole ==
  ASSUME TypeOK, Whole, ReceiveStop
  PROVE  Whole' /\ StaysHidden
<1> DEFINE r == Stop(project)
<1>1. /\ Ends(project, r.project) /\ r.project.active = project.active
      /\ r.project.state = IF project.state \in {"play", "pause"} THEN "stop" ELSE project.state
      /\ r.project.last = IF project.state \in {"play", "pause"} THEN project.state ELSE project.last
  BY StopWhere DEF TypeOK
<1>2. /\ project' = r.project /\ Touching /\ UNCHANGED <<editor, asked, chosen, crossed>>
  BY DEF ReceiveStop, Perform
<1> HIDE DEF r
<1>3. Sound(project', editor, asked, chosen, crossed)
  <2>1. project'.state # "play"
    BY <1>1, <1>2 DEF Ends
  <2>2. QED BY <1>1, <1>2, <2>1, SoundEnds DEF Whole
<1>4. Hidden(project', hiding', crossed)
  <2>1. CASE project' = project
    BY <1>2, <2>1 DEF Whole, Hidden, Touching
  <2>2. CASE project' # project /\ ~project.active
    <3>1. hiding' = "touched"
      BY <1>2, <2>2 DEF Touching
    <3>2. \/ "hidden" \in crossed \/ "cleared" \in crossed
          \/ ~Playing(project') /\ ~WasPlaying(project')
      BY <1>1, <1>2, <2>2 DEF Whole, Hidden, Playing, WasPlaying
    <3>3. QED BY <3>1, <3>2 DEF Hidden
  <2>3. CASE project.active
    BY <1>1, <1>2, <2>3 DEF Hidden
  <2>4. QED BY <2>1, <2>2, <2>3
<1>5. QED BY <1>1, <1>2, <1>3, <1>4 DEF Whole, StaysHidden

LEMMA ReceiveClearAudioWhole ==
  ASSUME TypeOK, Whole, ReceiveClearAudio
  PROVE  Whole' /\ StaysHidden
<1> DEFINE q == [project EXCEPT !.state = "stop"]
<1>1. /\ q.state = "stop" /\ q.last = project.last /\ q.models = project.models
      /\ q.model = project.model /\ q.saved = project.saved /\ q.loop = project.loop
      /\ q.editing = project.editing /\ q.active = project.active
  BY DEF TypeOK, Projects
<1>2. project' = q
  BY DEF ReceiveClearAudio, Perform, Quietly, ClearAudioSource
<1> HIDE DEF q
<1>3. /\ crossed \subseteq crossed'
      /\ Playing(project) \/ ~project.active => "cleared" \in crossed'
  BY CrossingGrows DEF ReceiveClearAudio
<1>4. Sound(project', editor, asked, chosen, crossed')
  BY <1>1, <1>2, <1>3, SoundRests DEF Whole
<1>5. Hidden(project', hiding, crossed')
  BY <1>1, <1>2, <1>3 DEF Whole, Hidden
<1>6. QED BY <1>1, <1>2, <1>4, <1>5 DEF Whole, StaysHidden, ReceiveClearAudio

LEMMA WholeStartsOnce ==
  ASSUME Whole
  PROVE  StartsOnce /\ ~(project.state = "play" /\ project.last = "play") /\ EditorState
BY DEF Whole, Sound, Session, Editing, StartsOnce, EditorState

\* The window is shown again.
Shown ==
  ~project.active /\ project'.active =>
    /\ hiding = "playing" => Playing(project') \/ project.editing
    /\ ~Playing(project) /\ Playing(project')
         => hiding = "playing" \/ "hidden" \in crossed \/ "cleared" \in crossed

LEMMA ReceiveActivateWhole ==
  ASSUME TypeOK, Whole, ReceiveActivate
  PROVE  Whole' /\ Shown
<1> DEFINE r == SetActive(project, TRUE)
<1>1. Activated(project, TRUE, r.project, r.sent)
  BY WholeStartsOnce, SetActiveWhere DEF TypeOK
<1>2. project' = r.project /\ UNCHANGED <<editor, asked, chosen, crossed>>
  BY DEF ReceiveActivate, Perform
<1> HIDE DEF r
<1>3. project.active \in BOOLEAN
  BY DEF TypeOK, Projects
<1>4. project'.active = TRUE
  BY <1>1, <1>2, <1>3 DEF Activated
<1>5. Hidden(project', hiding', crossed)
  BY <1>4 DEF Hidden
<1>6. CASE project.active
  <2>1. project' = project
    BY <1>1, <1>2, <1>3, <1>6 DEF Activated
  <2>2. QED BY <1>2, <1>5, <1>6, <2>1 DEF Whole, Shown
<1>7. CASE ~project.active /\ WasPlaying(project) /\ ~project.editing
  <2>1. Begins(project, project')
    BY <1>1, <1>2, <1>3, <1>7 DEF Activated
  <2>2. project.saved # NoState => "cleared" \in crossed
    BY <1>7 DEF Whole, Sound, Session, WasPlaying, Playing
  <2>3. Sound(project', editor, asked, chosen, crossed)
    <3>1. CASE project.saved = NoState
      BY <2>1, <3>1, SoundBegins DEF Whole
    <3>2. CASE "cleared" \in crossed
      <4>1. Session(project', crossed)
        BY <3>2, <2>1 DEF Whole, Sound, Session, Playing, Begins
      <4>2. Editing(project', editor, crossed)
        BY <3>2 DEF Whole, Sound, Editing
      <4>3. Alive(project', editor, asked, crossed)
        BY <3>2 DEF Whole, Sound, Alive
      <4>4. Chosen(project', chosen, crossed)
        BY <3>2 DEF Chosen
      <4>5. QED BY <4>1, <4>2, <4>3, <4>4 DEF Sound
    <3>3. QED BY <2>2, <3>1, <3>2
  <2>4. Playing(project')
    BY <2>1 DEF Begins, Playing
  <2>5. Shown
    BY <1>7, <2>4 DEF Whole, Hidden, Shown
  <2>6. QED BY <1>2, <1>5, <2>3, <2>5 DEF Whole
<1>8. CASE ~project.active /\ ~(WasPlaying(project) /\ ~project.editing)
  <2> DEFINE q == [project EXCEPT !.active = TRUE]
  <2>1. project' = q
    BY <1>1, <1>2, <1>3, <1>8 DEF Activated
  <2>2. /\ q.state = project.state /\ q.last = project.last /\ q.models = project.models
        /\ q.model = project.model /\ q.saved = project.saved /\ q.loop = project.loop
        /\ q.editing = project.editing
    BY DEF TypeOK, Projects
  <2> HIDE DEF q
  <2>3. Sound(project', editor, asked, chosen, crossed)
    BY <2>1, <2>2, SoundSame DEF Whole
  <2>4. hiding = "playing" => WasPlaying(project)
    BY <1>8 DEF Whole, Hidden, WasPlaying
  <2>5. Shown
    BY <1>8, <2>1, <2>2, <2>4 DEF Shown, Playing
  <2>6. QED BY <1>2, <1>5, <2>3, <2>5 DEF Whole
<1>9. QED BY <1>6, <1>7, <1>8

LEMMA ReceiveDeactivateWhole ==
  ASSUME TypeOK, Whole, ReceiveDeactivate
  PROVE  Whole' /\ StaysHidden
<1> DEFINE r == SetActive(project, FALSE)
<1>1. Activated(project, FALSE, r.project, r.sent)
  BY WholeStartsOnce, SetActiveWhere DEF TypeOK
<1>2. /\ project' = r.project /\ UNCHANGED <<editor, asked, chosen, crossed>>
      /\ hiding' = IF ~project.active THEN hiding
                   ELSE IF Playing(project) THEN "playing" ELSE "idle"
  BY DEF ReceiveDeactivate, Perform
<1> HIDE DEF r
<1>3. project.active \in BOOLEAN
  BY DEF TypeOK, Projects
<1>4. CASE ~project.active
  <2>1. project' = project
    BY <1>1, <1>2, <1>3, <1>4 DEF Activated
  <2>2. QED BY <1>2, <1>4, <2>1 DEF Whole, StaysHidden
<1>5. CASE project.active /\ Playing(project)
  <2>1. Ends(project, project') /\ project'.state = "pause" /\ project'.last = "play"
    BY <1>1, <1>2, <1>3, <1>5 DEF Activated
  <2>2. Sound(project', editor, asked, chosen, crossed)
    BY <2>1, SoundEnds DEF Whole
  <2>3. Hidden(project', hiding', crossed)
    BY <1>2, <1>5, <2>1 DEF Hidden, Playing
  <2>4. QED BY <1>2, <1>5, <2>2, <2>3 DEF Whole, StaysHidden
<1>6. CASE project.active /\ ~Playing(project)
  <2> DEFINE q == [project EXCEPT !.last = project.state, !.state = "suspend", !.active = FALSE]
  <2>1. project' = q
    BY <1>1, <1>2, <1>3, <1>6 DEF Activated
  <2>2. /\ q.state = "suspend" /\ q.last = project.state /\ q.models = project.models
        /\ q.model = project.model /\ q.saved = project.saved /\ q.loop = project.loop
        /\ q.editing = project.editing
    BY DEF TypeOK, Projects
  <2> HIDE DEF q
  <2>3. Sound(project', editor, asked, chosen, crossed)
    BY <1>6, <2>1, <2>2, SoundRests DEF Whole
  <2>4. Hidden(project', hiding', crossed)
    BY <1>2, <1>6, <2>1, <2>2 DEF Hidden, Playing, WasPlaying
  <2>5. QED BY <1>2, <1>6, <2>3, <2>4 DEF Whole, StaysHidden
<1>7. QED BY <1>4, <1>5, <1>6

-----------------------------------------------------------------------------
(* The panels, the update, the answer and the editor.                      *)

LEMMA ReceiveEditWhole ==
  ASSUME TypeOK, Whole, ReceiveEdit
  PROVE  Whole' /\ StaysHidden
<1>1. /\ crossed \subseteq crossed'
      /\ OpensEditor /\ Playing(project) => "edited" \in crossed'
  BY CrossingGrows DEF ReceiveEdit
<1>2. UNCHANGED <<asked, chosen, hiding>>
  BY DEF ReceiveEdit
<1>3. CASE ~OpensEditor
  <2>1. UNCHANGED <<project, editor>>
    BY <1>3 DEF ReceiveEdit
  <2>2. QED BY <1>1, <1>2, <2>1, WholeUnchanged DEF StaysHidden
<1>4. CASE OpensEditor
  <2> DEFINE q == [project EXCEPT !.editing = TRUE]
  <2>1. project' = q /\ editor' = SaveState(q)
    BY <1>4 DEF ReceiveEdit, Perform, Telling
  <2>2. /\ q \in Projects /\ q.state = project.state /\ q.last = project.last
        /\ q.models = project.models /\ q.saved = project.saved /\ q.active = project.active
        /\ q.loop = project.loop /\ q.editing = TRUE /\ q.model = project.model
    BY EditedTypes DEF TypeOK
  <2> HIDE DEF q
  <2>3. editor'.model = q.model /\ editor'.loop = q.loop /\ editor'.editing = q.editing
    BY <2>1, <2>2, SaveStateTypes
  <2>4. project.model # NoModel
    BY <1>4 DEF OpensEditor
  <2>5. Sound(project', editor', asked, chosen, crossed')
    BY <1>1, <1>4, <2>1, <2>2, <2>3, <2>4, SoundEdits DEF Whole
  <2>6. Hidden(project', hiding, crossed')
    BY <1>1, <2>1, <2>2 DEF Whole, Hidden, Playing, WasPlaying
  <2>7. QED BY <1>2, <2>1, <2>2, <2>5, <2>6 DEF Whole, StaysHidden
<1>5. QED BY <1>3, <1>4

LEMMA AskDeleteWhole ==
  ASSUME TypeOK, Whole, AskDelete
  PROVE  Whole' /\ StaysHidden
<1>1. /\ crossed \subseteq crossed'
      /\ asked # <<>> /\ project.model # NoModel => "asked twice" \in crossed'
      /\ UNCHANGED <<project, editor, chosen, hiding>>
  BY CrossingGrows DEF AskDelete
<1>2. CASE project.model = NoModel
  <2>1. asked' = asked
    BY <1>2 DEF AskDelete
  <2>2. QED BY <1>1, <2>1, WholeUnchanged DEF StaysHidden
<1>3. CASE project.model # NoModel
  <2>1. project.model \in Models /\ asked \in Seq(Models)
    BY <1>3 DEF TypeOK, Projects, Pointers
  <2>2. asked' = Append(asked, project.model)
    BY <1>3 DEF AskDelete
  <2>3. Asks(asked, project.model, asked')
    BY <2>1, <2>2, AppendAsks
  <2>4. Sound(project, editor, asked', chosen, crossed')
    BY <1>1, <1>3, <2>3, SoundAsks DEF Whole
  <2>5. Hidden(project, hiding, crossed')
    BY <1>1 DEF Whole, Hidden
  <2>6. QED BY <1>1, <2>4, <2>5 DEF Whole, StaysHidden
<1>4. QED BY <1>2, <1>3

LEMMA UpdateWhole ==
  ASSUME TypeOK, Whole, Update
  PROVE  Whole' /\ StaysHidden
<1>1. Drawn
  BY UpdateWhere DEF TypeOK
<1>2. UNCHANGED <<editor, asked, chosen, hiding, crossed>>
  BY DEF Update, Keep
<1>3. CASE \E f \in Frames : project' = [project EXCEPT !.frame = f]
  <2>1. PICK f \in Frames : project' = [project EXCEPT !.frame = f]
    BY <1>3
  <2> DEFINE q == [project EXCEPT !.frame = f]
  <2>2. /\ q.state = project.state /\ q.last = project.last /\ q.models = project.models
        /\ q.model = project.model /\ q.saved = project.saved /\ q.loop = project.loop
        /\ q.editing = project.editing /\ q.active = project.active
    BY FramedProject DEF TypeOK
  <2>3. project' = q
    BY <2>1
  <2> HIDE DEF q
  <2>4. Sound(project', editor, asked, chosen, crossed)
    BY <2>2, <2>3, SoundSame DEF Whole
  <2>5. Hidden(project', hiding, crossed)
    BY <2>2, <2>3 DEF Whole, Hidden, Playing, WasPlaying
  <2>6. QED BY <1>2, <2>2, <2>3, <2>4, <2>5 DEF Whole, StaysHidden
<1>4. CASE ~\E f \in Frames : project' = [project EXCEPT !.frame = f]
  <2>1. \/ Ends(project, project')
        \/ \E q : Ends(project, q) /\ Begins(q, project')
    BY <1>1, <1>4 DEF Drawn
  <2>2. Sound(project', editor, asked, chosen, crossed)
    <3>1. CASE Ends(project, project')
      BY <3>1, SoundEnds DEF Whole, Ends
    <3>2. CASE \E q : Ends(project, q) /\ Begins(q, project')
      <4>1. PICK q : Ends(project, q) /\ Begins(q, project')
        BY <3>2
      <4>2. Sound(q, editor, asked, chosen, crossed) /\ q.saved = NoState
        BY <4>1, SoundEnds DEF Whole, Ends
      <4>3. QED BY <4>1, <4>2, SoundBegins
    <3>3. QED BY <2>1, <3>1, <3>2
  <2>3. Hidden(project', hiding, crossed)
    BY <1>1 DEF Whole, Hidden, Drawn, Playing
  <2>4. QED BY <1>1, <1>2, <2>2, <2>3 DEF Whole, StaysHidden, Drawn
<1>5. QED BY <1>3, <1>4

\* The panels work only in a window that is shown.
LEMMA PanelsWhole ==
  ASSUME Sound(project', editor', asked', chosen', crossed'), project'.active
  PROVE  Whole'
BY DEF Whole, Hidden

LEMMA PressPauseWhole ==
  ASSUME TypeOK, Whole, PressPause
  PROVE  Whole' /\ StaysHidden
<1> DEFINE r == Pause(project, TRUE)
<1>1. Ends(project, r.project) /\ r.project.active = project.active /\ r.project.state = "pause"
  BY PauseWhere DEF TypeOK, PressPause
<1>2. project' = r.project /\ project.active /\ UNCHANGED <<editor, asked, chosen, crossed>>
  BY DEF PressPause, Perform, Panels
<1> HIDE DEF r
<1>3. Sound(project', editor, asked, chosen, crossed)
  BY <1>1, <1>2, SoundEnds DEF Whole
<1>4. QED BY <1>1, <1>2, <1>3, PanelsWhole DEF StaysHidden

LEMMA PressResumeWhole ==
  ASSUME TypeOK, Whole, PressResume
  PROVE  Whole' /\ StaysHidden
<1> DEFINE r == Resume(project, TRUE)
<1>0. ~Playing(project) /\ ~project.editing /\ project.active /\ project' = r.project
      /\ Starting(project) /\ UNCHANGED <<editor, asked, chosen>>
  BY DEF PressResume, Perform, Panels
<1>1. Begins(project, r.project) /\ r.project.active = project.active
  BY <1>0, ResumeWhere DEF TypeOK
<1> HIDE DEF r
<1>2. crossed \subseteq crossed' /\ (project.saved # NoState => "replayed" \in crossed')
  BY <1>0, StartingGrows
<1>3. Sound(project', editor, asked, chosen, crossed')
  BY <1>0, <1>1, <1>2, SoundBegins DEF Whole
<1>4. QED BY <1>0, <1>1, <1>3, PanelsWhole DEF StaysHidden

LEMMA PressPlayWhole ==
  ASSUME TypeOK, Whole, PressPlay
  PROVE  Whole' /\ StaysHidden
<1> DEFINE r == Play(project)
<1>0. ~project.editing /\ project.active /\ project' = r.project
      /\ Starting(project) /\ UNCHANGED <<editor, asked, chosen>>
  BY DEF PressPlay, Perform, Panels
<1>1. Begins(project, r.project) /\ r.project.active = project.active
  BY <1>0, PlayWhere DEF TypeOK
<1> HIDE DEF r
<1>2. crossed \subseteq crossed' /\ (project.saved # NoState => "replayed" \in crossed')
  BY <1>0, StartingGrows
<1>3. Sound(project', editor, asked, chosen, crossed')
  BY <1>0, <1>1, <1>2, SoundBegins DEF Whole
<1>4. QED BY <1>0, <1>1, <1>3, PanelsWhole DEF StaysHidden

LEMMA ToggleLoopWhole ==
  ASSUME TypeOK, Whole, ToggleLoop
  PROVE  Whole' /\ StaysHidden
<1> DEFINE q == [project EXCEPT !.loop = ~@]
           nh == [chosen EXCEPT !.loop = ~project.loop]
<1>1. /\ ~project.editing /\ project.active /\ project' = q /\ chosen' = nh
      /\ UNCHANGED <<editor, asked>> /\ Crossing("looped", Playing(project))
  BY DEF ToggleLoop, Panels
<1>2. /\ q.state = project.state /\ q.last = project.last /\ q.models = project.models
      /\ q.model = project.model /\ q.saved = project.saved
      /\ q.editing = project.editing /\ q.active = project.active /\ q.loop = ~project.loop
  BY DEF TypeOK, Projects
<1>3. nh.model = chosen.model /\ nh.loop = ~project.loop
  BY DEF TypeOK
<1> HIDE DEF q, nh
<1>4. crossed \subseteq crossed' /\ (Playing(project) => "looped" \in crossed')
  BY <1>1, CrossingGrows
<1>5. Sound(project', editor, asked, chosen', crossed')
  BY <1>1, <1>2, <1>3, <1>4, SoundLoops DEF Whole
<1>6. QED BY <1>1, <1>2, <1>5, PanelsWhole DEF StaysHidden

LEMMA ChooseModelWhole ==
  ASSUME TypeOK, Whole, NEW m \in project.models \cup {NoModel}, ChooseModel(m)
  PROVE  Whole' /\ StaysHidden
<1> DEFINE q == SetActiveModel(project, m)
           nh == IF Playing(project) THEN chosen ELSE [chosen EXCEPT !.model = m]
<1>1. /\ ~project.editing /\ project.active /\ project' = q /\ chosen' = nh
      /\ UNCHANGED <<editor, asked, crossed>>
  BY DEF ChooseModel, Panels
<1>2. m \in Pointers
  BY ChooseModelTypes
<1>3. /\ q.state = project.state /\ q.last = project.last /\ q.models = project.models
      /\ q.model = m /\ q.saved = project.saved
      /\ q.editing = project.editing /\ q.active = project.active /\ q.loop = project.loop
  BY <1>1, <1>2, ChosenModelTypes DEF TypeOK
<1>4. nh.model = (IF Playing(project) THEN chosen.model ELSE m) /\ nh.loop = chosen.loop
  BY DEF TypeOK
<1> HIDE DEF q, nh
<1>5. Sound(project', editor, asked, chosen', crossed)
  BY <1>1, <1>3, <1>4, SoundChooses DEF Whole
<1>6. QED BY <1>1, <1>3, <1>5, PanelsWhole DEF StaysHidden

LEMMA SeekTimelineWhole ==
  ASSUME TypeOK, Whole, NEW f \in Frames, SeekTimeline(f)
  PROVE  Whole' /\ StaysHidden
<1> DEFINE q == [project EXCEPT !.frame = f]
<1>1. /\ project.active /\ project' = q /\ UNCHANGED <<editor, asked, chosen, crossed>>
  BY DEF SeekTimeline, Panels
<1>2. /\ q.state = project.state /\ q.last = project.last /\ q.models = project.models
      /\ q.model = project.model /\ q.saved = project.saved /\ q.loop = project.loop
      /\ q.editing = project.editing /\ q.active = project.active
  BY FramedProject DEF TypeOK
<1> HIDE DEF q
<1>3. Sound(project', editor, asked, chosen, crossed)
  BY <1>1, <1>2, SoundSame DEF Whole
<1>4. QED BY <1>1, <1>2, <1>3, PanelsWhole DEF StaysHidden

LEMMA AnswerWhole ==
  ASSUME TypeOK, Whole, NEW accepted \in BOOLEAN, Answer(accepted)
  PROVE  Whole' /\ StaysHidden
<1> DEFINE m == Head(asked)
           removes == accepted /\ ~Playing(project)
           q == RemoveModel(project, m)
<1>1. asked # <<>> /\ asked \in Seq(Models)
  BY DEF TypeOK, Answer
<1>2. m \in Models /\ Answers(asked, asked')
  BY <1>1, HeadTailProperties, TailAnswers DEF Answer
<1>3. /\ project' = IF removes THEN q ELSE project
      /\ chosen' = IF removes /\ chosen.model = m THEN [chosen EXCEPT !.model = NoModel] ELSE chosen
      /\ Crossing("deleted", removes /\ project.editing)
      /\ UNCHANGED <<editor, hiding>>
  BY DEF Answer
<1>4. /\ q.state = project.state /\ q.last = project.last
      /\ q.models = project.models \ {m} /\ q.saved = project.saved /\ q.active = project.active
      /\ q.loop = project.loop /\ q.editing = project.editing
      /\ q.model = IF project.model = m /\ ~project.editing THEN NoModel ELSE project.model
  BY <1>2, RemoveModelWhere DEF TypeOK
<1>5. /\ [chosen EXCEPT !.model = NoModel].model = NoModel
      /\ [chosen EXCEPT !.model = NoModel].loop = chosen.loop
  BY DEF TypeOK
<1> HIDE DEF m, q
<1>6. crossed \subseteq crossed' /\ (removes /\ project.editing => "deleted" \in crossed')
  BY <1>3, CrossingGrows
<1>7. CASE removes
  <2>1. chosen'.loop = chosen.loop
        /\ chosen'.model = IF chosen.model = m THEN NoModel ELSE chosen.model
    BY <1>3, <1>5, <1>7
  <2>2. Sound(project', editor, asked', chosen', crossed')
    BY <1>2, <1>3, <1>4, <1>6, <1>7, <2>1, SoundRemoves DEF Whole
  <2>3. Hidden(project', hiding, crossed')
    BY <1>3, <1>4, <1>6, <1>7 DEF Whole, Hidden, Playing, WasPlaying
  <2>4. QED BY <1>3, <1>4, <1>7, <2>2, <2>3 DEF Whole, StaysHidden
<1>8. CASE ~removes
  <2>1. Sound(project, editor, asked', chosen, crossed')
    BY <1>2, <1>6, SoundDismisses DEF Whole
  <2>2. Hidden(project, hiding, crossed')
    BY <1>6 DEF Whole, Hidden
  <2>3. project' = project /\ chosen' = chosen
    BY <1>3, <1>8
  <2>4. QED BY <1>3, <2>1, <2>2, <2>3 DEF Whole, StaysHidden
<1>9. QED BY <1>7, <1>8

LEMMA CloseEditorWhole ==
  ASSUME TypeOK, Whole, CloseEditor
  PROVE  Whole' /\ StaysHidden
<1>1. Closed
  BY WholeStartsOnce, CloseEditorTypes
<1>2. editor # NoState /\ UNCHANGED <<asked, chosen, hiding, crossed>>
  BY DEF CloseEditor, Keep
<1>3. Sound(project', NoState, asked, chosen, crossed)
  BY <1>1, <1>2, SoundCloses DEF Whole, Closed
<1>4. Hidden(project', hiding, crossed)
  BY <1>1 DEF Whole, Hidden, Closed, Playing, WasPlaying
<1>5. QED BY <1>1, <1>2, <1>3, <1>4 DEF Whole, StaysHidden, Closed

-----------------------------------------------------------------------------
(* The invariant and what follows from it.                                 *)

IInv == TypeOK /\ Whole

LEMMA InitWhole ==
  ASSUME Init
  PROVE  IInv
<1>1. PICK m \in Pointers :
        /\ project = [state |-> "stop", last |-> "stop", frame |-> 0,
                      models |-> Models, model |-> m, saved |-> NoState,
                      loop |-> FALSE, editing |-> FALSE, active |-> TRUE]
        /\ chosen = [model |-> m, loop |-> FALSE]
  BY DEF Init
<1>2. /\ project.state = "stop" /\ project.models = Models /\ project.model = m
      /\ project.saved = NoState /\ project.loop = FALSE /\ project.editing = FALSE
      /\ project.active = TRUE /\ chosen.model = m /\ chosen.loop = FALSE
  BY <1>1
<1>3. editor = NoState /\ asked = <<>> /\ Len(asked) = 0 /\ DOMAIN asked = {}
  BY DEF Init
<1>4. Session(project, crossed)
  BY <1>2 DEF Session, Playing
<1>5. Editing(project, editor, crossed)
  BY <1>3 DEF Editing
<1>6. Alive(project, editor, asked, crossed)
  <2>1. Len(asked) <= 1
    BY <1>3
  <2>2. project.model \in project.models \cup {NoModel}
    BY <1>2 DEF Pointers
  <2>3. QED BY <1>2, <1>3, <2>1, <2>2 DEF Alive
<1>7. Chosen(project, chosen, crossed)
  BY <1>2 DEF Chosen
<1>8. Hidden(project, hiding, crossed)
  BY <1>2 DEF Hidden
<1>9. QED BY <1>4, <1>5, <1>6, <1>7, <1>8, InitTypes DEF IInv, Whole, Sound

LEMMA StayingShows ==
  ASSUME StaysHidden
  PROVE  Shown
BY DEF StaysHidden, Shown

LEMMA MenuWhole ==
  ASSUME IInv, Menu
  PROVE  IInv' /\ StaysHidden
<1>1. (\E c \in Commands : Send(c)) \/ HandleEvent
  BY DEF Menu, ClickPlay, ClickStop, ClickMenu, HideWindow, ShowWindow, Commands
<1>2. ASSUME NEW c \in Commands, Send(c) PROVE IInv' /\ StaysHidden
  BY <1>2, SendTypes, SendWhole DEF IInv
<1>3. CASE HandleEvent
  BY <1>3, HandleEventTypes, HandleEventWhole DEF IInv
<1>4. QED BY <1>1, <1>2, <1>3

LEMMA ReceiveWhole ==
  ASSUME IInv, ReceiveAny
  PROVE  IInv' /\ Shown
<1>0. StartsOnce
  BY WholeStartsOnce DEF IInv
<1>1. CASE ReceivePlay
  BY <1>1, ReceivePlayTypes, ReceivePlayWhole, StayingShows DEF IInv
<1>2. CASE ReceiveStop
  BY <1>2, ReceiveStopTypes, ReceiveStopWhole, StayingShows DEF IInv
<1>3. CASE ReceiveClearAudio
  BY <1>3, ReceiveClearAudioTypes, ReceiveClearAudioWhole, StayingShows DEF IInv
<1>4. CASE ReceiveActivate
  BY <1>0, <1>4, ReceiveActivateTypes, ReceiveActivateWhole DEF IInv
<1>5. CASE ReceiveDeactivate
  BY <1>0, <1>5, ReceiveDeactivateTypes, ReceiveDeactivateWhole, StayingShows DEF IInv
<1>6. CASE ReceiveEdit
  BY <1>6, ReceiveEditTypes, ReceiveEditWhole, StayingShows DEF IInv
<1>7. CASE ReceiveDelete
  <2>1. AskDelete
    BY <1>7 DEF ReceiveDelete
  <2>2. QED BY <1>7, <2>1, ReceiveDeleteTypes, AskDeleteWhole, StayingShows DEF IInv
<1>8. QED BY <1>1, <1>2, <1>3, <1>4, <1>5, <1>6, <1>7 DEF ReceiveAny

LEMMA PanelWhole ==
  ASSUME IInv, Panel
  PROVE  IInv' /\ StaysHidden
<1>1. CASE PressPause
  BY <1>1, PressPauseTypes, PressPauseWhole DEF IInv
<1>2. CASE PressResume
  BY <1>2, PressResumeTypes, PressResumeWhole DEF IInv
<1>3. CASE PressPlay
  BY <1>3, PressPlayTypes, PressPlayWhole DEF IInv
<1>4. CASE ToggleLoop
  BY <1>4, ToggleLoopTypes, ToggleLoopWhole DEF IInv
<1>5. CASE PressDelete
  <2>1. AskDelete
    BY <1>5 DEF PressDelete
  <2>2. QED BY <1>5, <2>1, PressDeleteTypes, AskDeleteWhole DEF IInv
<1>6. ASSUME NEW m \in project.models \cup {NoModel}, ChooseModel(m) PROVE IInv' /\ StaysHidden
  BY <1>6, ChooseModelTypes, ChooseModelWhole DEF IInv
<1>7. ASSUME NEW f \in Frames, SeekTimeline(f) PROVE IInv' /\ StaysHidden
  BY <1>7, SeekTimelineTypes, SeekTimelineWhole DEF IInv
<1>8. QED BY <1>1, <1>2, <1>3, <1>4, <1>5, <1>6, <1>7 DEF Panel

LEMMA NextWhole ==
  ASSUME IInv, [Next]_vars
  PROVE  IInv' /\ Shown
<1>1. CASE Menu
  BY <1>1, MenuWhole, StayingShows
<1>2. CASE ReceiveAny
  BY <1>2, ReceiveWhole
<1>3. CASE Update
  BY <1>3, UpdateTypes, UpdateWhole, StayingShows DEF IInv
<1>4. CASE Panel
  BY <1>4, PanelWhole, StayingShows
<1>5. CASE CloseEditor
  <2>1. EditorState
    BY WholeStartsOnce DEF IInv
  <2>2. QED BY <1>5, <2>1, CloseEditorTypes, CloseEditorWhole, StayingShows DEF IInv
<1>6. ASSUME NEW accepted \in BOOLEAN, Answer(accepted) PROVE IInv' /\ Shown
  BY <1>6, AnswerTypes, AnswerWhole, StayingShows DEF IInv
<1>7. CASE UNCHANGED vars
  BY <1>7 DEF vars, IInv, TypeOK, Whole, Shown
<1>8. QED BY <1>1, <1>2, <1>3, <1>4, <1>5, <1>6, <1>7 DEF Next

\* The invariant holds in every state that playback reaches.
LEMMA InvariantHolds == Spec => []IInv
<1>1. IInv /\ [Next]_vars => IInv'
  BY NextWhole
<1>2. QED BY InitWhole, <1>1, PTL DEF Spec

\* The project, its editor, the open questions, the two queues and the menu
\* hold values of their types in every state (Project, ApplicationMenuBuilder).
THEOREM TypesHold == Spec => []TypeOK
<1>1. IInv => TypeOK
  BY DEF IInv
<1>2. QED BY <1>1, InvariantHolds, PTL

\* Whatever the models, the bounds and the crossings: no pointer that the
\* project, its saved state, the editor or an open question holds outlives its
\* model, but for the crossings that PointersAlive names (Project::removeModel).
THEOREM PointersStayAlive == Spec => []PointersAlive
<1>1. IInv => PointersAlive
  <2>1. SUFFICES ASSUME IInv, ~Unless({"cleared", "edited", "deleted", "asked twice"})
        PROVE  LET held == {project.model}
                      \cup (IF project.saved = NoState THEN {} ELSE {project.saved.model})
                      \cup (IF editor = NoState THEN {} ELSE {editor.model})
                      \cup {asked[i] : i \in DOMAIN asked}
               IN  held \subseteq project.models \cup {NoModel}
    BY DEF PointersAlive
  <2>2. /\ project.model \in project.models \cup {NoModel}
        /\ project.saved # NoState => project.saved.model \in project.models \cup {NoModel}
        /\ editor # NoState => editor.model \in project.models \cup {NoModel}
        /\ \A i \in DOMAIN asked : asked[i] \in project.models \cup {NoModel}
    BY <2>1 DEF IInv, Whole, Sound, Alive, Unless
  <2>3. QED BY <2>2
<1>2. QED BY <1>1, InvariantHolds, PTL

\* Every way out of playback gives the selection and the flags back: a state is
\* saved exactly while the project plays, and it holds what the user chose last
\* (Project::play, stop, pause and continuesPlaying).
THEOREM SelectionAlwaysSurvives == Spec => []SelectionSurvives
<1>1. IInv => SelectionSurvives
  <2>1. SUFFICES ASSUME IInv PROVE SelectionSurvives
    OBVIOUS
  <2>2. Unless({"cleared"}) \/ (project.saved # NoState <=> Playing(project))
    BY <2>1 DEF IInv, Whole, Sound, Session, Unless
  <2>3. \/ Unless({"replayed", "cleared", "edited", "deleted", "looped"})
        \/ IF project.saved = NoState
           THEN project.model = chosen.model /\ project.loop = chosen.loop
           ELSE /\ project.saved.model = chosen.model
                /\ project.saved.loop = chosen.loop
    BY <2>1 DEF IInv, Whole, Sound, Chosen, Unless
  <2>4. QED BY <2>2, <2>3 DEF SelectionSurvives
<1>2. QED BY <1>1, InvariantHolds, PTL

\* A model is never edited while the project plays, however the commands of the
\* menu, the panel, the window and the two queues interleave (Project::play,
\* resume and setActive; openModelParameterDialog).
THEOREM NeverEditsWhilePlaying == Spec => []EditingExcludesPlayback
<1>1. IInv => EditingExcludesPlayback
  BY DEF IInv, Whole, Sound, Session, Unless, EditingExcludesPlayback
<1>2. QED BY <1>1, InvariantHolds, PTL

\* Showing the window resumes the playback that hiding it interrupted, and never
\* starts another one (Project::setActive with the player's last state).
THEOREM ShowingResumes == Spec => ShowingResumesWhatHidingStopped
<1>1. IInv /\ [Next]_vars
        => [~project.active /\ project'.active
              => /\ hiding = "playing" => Playing(project') \/ project.editing
                 /\ ~Playing(project) /\ Playing(project')
                      => hiding = "playing" \/ Unless({"hidden", "cleared"})]_vars
  <2>1. SUFFICES ASSUME IInv, [Next]_vars
        PROVE  ~project.active /\ project'.active
                 => /\ hiding = "playing" => Playing(project') \/ project.editing
                    /\ ~Playing(project) /\ Playing(project')
                         => hiding = "playing" \/ Unless({"hidden", "cleared"})
    OBVIOUS
  <2>2. Shown
    BY <2>1, NextWhole
  <2>3. QED BY <2>2 DEF Shown, Unless
<1>2. IInv /\ [Next]_vars => IInv'
  BY NextWhole
<1>3. QED BY InitWhole, <1>1, <1>2, PTL DEF Spec, ShowingResumesWhatHidingStopped

-----------------------------------------------------------------------------
(* What the events on their way tell the menu.                             *)

\* Events that open or close the cover of a dialog; the other ones tell of the
\* playback and of the editor.
Dialogs == {"dialog", "clear"}
Relevant == {"play", "stop", "pause", "resume", "editing", "edited"}

\* When the menu comes to event i of queue q, no dialog covers it; c is what is
\* covered now.
OpenAt(q, c, i) ==
  /\ \A k \in 1 .. i - 1 :
       q[k] \in Dialogs /\ (\A j \in k + 1 .. i - 1 : q[j] \notin Dialogs) => q[k] = "clear"
  /\ (\A k \in 1 .. i - 1 : q[k] \notin Dialogs) => c = NoState

LEMMA OpenPrefix ==
  ASSUME NEW q, NEW r, NEW c, NEW i \in Nat, OpenAt(q, c, i),
         \A k \in 1 .. i - 1 : r[k] = q[k]
  PROVE  OpenAt(r, c, i)
BY DEF OpenAt

LEMMA OpenMore ==
  ASSUME NEW q, NEW r, NEW c, NEW n \in Nat, NEW m \in Nat, n <= m, OpenAt(q, c, n + 1),
         \A k \in 1 .. n : r[k] = q[k],
         \A k \in n + 1 .. m : r[k] \notin Dialogs
  PROVE  OpenAt(r, c, m + 1)
<1>1. ASSUME NEW k \in 1 .. m, r[k] \in Dialogs, \A j \in k + 1 .. m : r[j] \notin Dialogs
      PROVE  r[k] = "clear"
  <2>1. k \in 1 .. n
    BY <1>1
  <2>2. q[k] \in Dialogs /\ \A j \in k + 1 .. n : q[j] \notin Dialogs
    BY <1>1, <2>1
  <2>3. n + 1 - 1 = n
    OBVIOUS
  <2>4. q[k] = "clear"
    BY <2>1, <2>2, <2>3 DEF OpenAt
  <2>5. QED BY <2>1, <2>4
<1>2. ASSUME \A k \in 1 .. m : r[k] \notin Dialogs PROVE c = NoState
  <2>1. \A k \in 1 .. n : q[k] \notin Dialogs
    BY <1>2
  <2>2. n + 1 - 1 = n
    OBVIOUS
  <2>3. QED BY <2>1, <2>2 DEF OpenAt
<1>3. m + 1 - 1 = m
  OBVIOUS
<1>4. QED BY <1>1, <1>2, <1>3 DEF OpenAt

LEMMA OpenClear ==
  ASSUME NEW r, NEW c, NEW m \in Nat \ {0}, r[m] = "clear"
  PROVE  OpenAt(r, c, m + 1)
<1>1. m + 1 - 1 = m /\ m \in 1 .. m /\ r[m] \in Dialogs
  BY DEF Dialogs
<1>2. ASSUME NEW k \in 1 .. m, r[k] \in Dialogs, \A j \in k + 1 .. m : r[j] \notin Dialogs
      PROVE  r[k] = "clear"
  <2>1. k = m
    BY <1>1, <1>2
  <2>2. QED BY <2>1
<1>3. QED BY <1>1, <1>2 DEF OpenAt

LEMMA OpenTail ==
  ASSUME NEW q, NEW r, NEW c, NEW d, NEW i \in Nat \ {0}, OpenAt(q, c, i + 1),
         \A k \in 1 .. i - 1 : r[k] = q[k + 1],
         q[1] = "clear" => d = NoState, q[1] \notin Dialogs => d = c
  PROVE  OpenAt(r, d, i)
<1>0. i + 1 - 1 = i
  OBVIOUS
<1>1. ASSUME NEW k \in 1 .. i - 1, r[k] \in Dialogs, \A j \in k + 1 .. i - 1 : r[j] \notin Dialogs
      PROVE  r[k] = "clear"
  <2>1. k + 1 \in 1 .. i /\ q[k + 1] \in Dialogs /\ r[k] = q[k + 1]
    BY <1>1
  <2>2. ASSUME NEW j \in k + 2 .. i PROVE q[j] \notin Dialogs
    <3>1. j - 1 \in k + 1 .. i - 1 /\ j - 1 \in 1 .. i - 1 /\ (j - 1) + 1 = j
      OBVIOUS
    <3>2. r[j - 1] \notin Dialogs /\ r[j - 1] = q[j]
      BY <1>1, <3>1
    <3>3. QED BY <3>2
  <2>3. (k + 1) + 1 = k + 2
    OBVIOUS
  <2>4. q[k + 1] = "clear"
    BY <1>0, <2>1, <2>2, <2>3 DEF OpenAt
  <2>5. QED BY <2>1, <2>4
<1>2. ASSUME \A k \in 1 .. i - 1 : r[k] \notin Dialogs PROVE d = NoState
  <2>1. ASSUME NEW j \in 2 .. i PROVE q[j] \notin Dialogs
    <3>1. j - 1 \in 1 .. i - 1 /\ (j - 1) + 1 = j
      OBVIOUS
    <3>2. r[j - 1] \notin Dialogs /\ r[j - 1] = q[j]
      BY <1>2, <3>1
    <3>3. QED BY <3>2
  <2>2. CASE q[1] \in Dialogs
    <3>1. 1 \in 1 .. i /\ 1 + 1 = 2
      OBVIOUS
    <3>2. q[1] = "clear"
      BY <1>0, <2>1, <2>2, <3>1 DEF OpenAt
    <3>3. QED BY <3>2
  <2>3. CASE q[1] \notin Dialogs
    <3>1. \A k \in 1 .. i : q[k] \notin Dialogs
      BY <2>1, <2>3
    <3>2. c = NoState
      BY <1>0, <3>1 DEF OpenAt
    <3>3. QED BY <2>3, <3>2
  <2>4. QED BY <2>2, <2>3
<1>3. QED BY <1>1, <1>2 DEF OpenAt

\* The editor is reported closed only to an uncovered menu, and without an open
\* question the events to read leave no cover.
Uncovered(q, c, qs, cr) ==
  /\ \/ "cleared" \in cr \/ "edited" \in cr
     \/ \A i \in DOMAIN q : q[i] = "edited" => OpenAt(q, c, i)
  /\ qs = <<>> => OpenAt(q, c, Len(q) + 1)

\* The last event to read that tells of the playback tells how it is now (b:
\* it plays; s: it rests); without one the items show it, or it was missed.
Announced(q, base, ms, b, s, cr) ==
  \/ "cleared" \in cr \/ "edited" \in cr
  \/ /\ \A i \in DOMAIN q :
          q[i] \in Relevant /\ (\A j \in DOMAIN q : j > i => q[j] \notin Relevant)
            => (b => q[i] \in {"play", "resume"}) /\ (s => q[i] \in {"stop", "pause", "edited"})
     /\ (\A i \in DOMAIN q : q[i] \notin Relevant)
          => ms \/ ((b => base.stop /\ ~base.play) /\ (s => base.play))

LEMMA AnnouncedSame ==
  ASSUME NEW q, NEW base, NEW ms, NEW b, NEW s, NEW cr, NEW c, NEW t, NEW dr,
         Announced(q, base, ms, b, s, cr), cr \subseteq dr,
         "cleared" \in dr \/ "edited" \in dr \/ ((c => b) /\ (t => s))
  PROVE  Announced(q, base, ms, c, t, dr)
BY DEF Announced

LEMMA UncoveredSame ==
  ASSUME NEW q, NEW c, NEW qs, NEW rs, NEW cr, NEW dr, Uncovered(q, c, qs, cr), cr \subseteq dr,
         rs = <<>> => qs = <<>>
  PROVE  Uncovered(q, c, rs, dr)
BY DEF Uncovered

\* Queue r is q with what a playback operation tells at last, e.
Told(q, r, e) ==
  /\ Len(r) \in Nat /\ Len(q) \in Nat /\ Len(q) < Len(r)
  /\ DOMAIN q = 1 .. Len(q) /\ DOMAIN r = 1 .. Len(r)
  /\ \A i \in 1 .. Len(q) : r[i] = q[i]
  /\ \A i \in Len(q) + 1 .. Len(r) :
       r[i] \in Relevant /\ (r[i] = "edited" => e = "edited" /\ i = Len(q) + 1)
  /\ r[Len(r)] = e

LEMMA AnnouncedTold ==
  ASSUME NEW q, NEW r, NEW e, Told(q, r, e), NEW base, NEW ms, NEW b, NEW s, NEW dr,
         \/ "cleared" \in dr \/ "edited" \in dr
         \/ (b => e \in {"play", "resume"}) /\ (s => e \in {"stop", "pause", "edited"})
  PROVE  Announced(r, base, ms, b, s, dr)
<1>1. Len(r) \in DOMAIN r /\ r[Len(r)] = e /\ e \in Relevant
  BY DEF Told
<1>2. ASSUME NEW i \in DOMAIN r, \A j \in DOMAIN r : j > i => r[j] \notin Relevant
      PROVE  i = Len(r)
  <2>1. i \in Nat /\ i <= Len(r) /\ Len(r) \in Nat
    BY DEF Told
  <2>2. ~(Len(r) > i)
    BY <1>1, <1>2
  <2>3. QED BY <2>1, <2>2
<1>3. QED BY <1>1, <1>2 DEF Announced

LEMMA UncoveredTold ==
  ASSUME NEW q, NEW r, NEW e, Told(q, r, e), NEW c, NEW qs, NEW cr, NEW dr,
         Uncovered(q, c, qs, cr), cr \subseteq dr,
         e = "edited" => qs = <<>> \/ "cleared" \in dr \/ "edited" \in dr
  PROVE  Uncovered(r, c, qs, dr)
<1> DEFINE n == Len(q)
           m == Len(r)
<1>1. /\ n \in Nat /\ m \in Nat /\ n < m /\ DOMAIN q = 1 .. n /\ DOMAIN r = 1 .. m
      /\ \A i \in 1 .. n : r[i] = q[i]
      /\ \A i \in n + 1 .. m : r[i] \in Relevant /\ (r[i] = "edited" => e = "edited" /\ i = n + 1)
  BY DEF Told
<1>0. n = Len(q) /\ m = Len(r)
  OBVIOUS
<1> HIDE DEF n, m
<1>2. \A x \in Relevant : x \notin Dialogs
  BY DEF Relevant, Dialogs
<1>3. ASSUME qs = <<>> PROVE OpenAt(r, c, m + 1)
  <2>1. OpenAt(q, c, n + 1)
    BY <1>0, <1>3 DEF Uncovered
  <2>2. \A i \in n + 1 .. m : r[i] \notin Dialogs
    BY <1>1, <1>2
  <2>3. QED BY <1>1, <2>1, <2>2, OpenMore
<1>4. ASSUME "cleared" \notin dr, "edited" \notin dr, NEW i \in DOMAIN r, r[i] = "edited"
      PROVE  OpenAt(r, c, i)
  <2>1. CASE i \in 1 .. n
    <3>1. OpenAt(q, c, i)
      BY <1>1, <1>4, <2>1 DEF Uncovered
    <3>2. i \in Nat /\ \A k \in 1 .. i - 1 : r[k] = q[k]
      BY <1>1, <2>1
    <3>3. QED BY <3>1, <3>2, OpenPrefix
  <2>2. CASE i \in n + 1 .. m
    <3>1. i = n + 1 /\ qs = <<>>
      BY <1>1, <1>4, <2>2
    <3>2. OpenAt(q, c, n + 1)
      BY <1>0, <3>1 DEF Uncovered
    <3>3. i \in Nat /\ \A k \in 1 .. i - 1 : r[k] = q[k]
      BY <1>1, <3>1
    <3>4. QED BY <3>1, <3>2, <3>3, OpenPrefix
  <2>3. QED BY <1>1, <1>4, <2>1, <2>2
<1>5. QED BY <1>0, <1>3, <1>4 DEF Uncovered

-----------------------------------------------------------------------------
(* Events that are added to the queue, and read from it.                   *)

\* Queue r is q with the event of a dialog, d.
Dialogued(q, r, d) ==
  /\ Len(q) \in Nat /\ Len(r) = Len(q) + 1
  /\ DOMAIN q = 1 .. Len(q) /\ DOMAIN r = 1 .. Len(r)
  /\ \A i \in 1 .. Len(q) : r[i] = q[i]
  /\ r[Len(q) + 1] = d /\ d \in Dialogs

LEMMA AppendDialogues ==
  ASSUME NEW q \in Seq(Events), NEW d \in Dialogs
  PROVE  Dialogued(q, Append(q, d), d)
<1> DEFINE r == Append(q, d)
<1>1. r = Append(q, d) /\ d \in Events
  BY DEF Dialogs, Events
<1> HIDE DEF r
<1>2. /\ r \in Seq(Events) /\ Len(r) = Len(q) + 1 /\ \A i \in 1 .. Len(q) : r[i] = q[i]
      /\ r[Len(q) + 1] = d
  BY <1>1, AppendProperties
<1>3. Len(q) \in Nat /\ DOMAIN q = 1 .. Len(q) /\ DOMAIN r = 1 .. Len(r)
  BY <1>2, LenProperties
<1>4. QED BY <1>1, <1>2, <1>3 DEF Dialogued

LEMMA AnnouncedDialogued ==
  ASSUME NEW q, NEW r, NEW d, Dialogued(q, r, d), NEW base, NEW ms, NEW b, NEW s, NEW c, NEW t,
         NEW cr, NEW dr, Announced(q, base, ms, b, s, cr), cr \subseteq dr,
         "cleared" \in dr \/ "edited" \in dr \/ ((c => b) /\ (t => s))
  PROVE  Announced(r, base, ms, c, t, dr)
<1> DEFINE n == Len(q)
<1>1. /\ n \in Nat /\ DOMAIN q = 1 .. n /\ DOMAIN r = 1 .. n + 1
      /\ \A i \in 1 .. n : r[i] = q[i]
      /\ r[n + 1] \notin Relevant
  BY DEF Dialogued, Dialogs, Relevant
<1> HIDE DEF n
<1>2. SUFFICES ASSUME "cleared" \notin dr, "edited" \notin dr PROVE Announced(r, base, ms, c, t, dr)
  BY DEF Announced
<1>3. ASSUME NEW i \in DOMAIN r, r[i] \in Relevant, \A j \in DOMAIN r : j > i => r[j] \notin Relevant
      PROVE  (c => r[i] \in {"play", "resume"}) /\ (t => r[i] \in {"stop", "pause", "edited"})
  <2>1. i \in 1 .. n /\ r[i] = q[i]
    BY <1>1, <1>3
  <2>2. \A j \in DOMAIN q : j > i => q[j] \notin Relevant
    BY <1>1, <1>3
  <2>3. QED BY <1>1, <1>2, <1>3, <2>1, <2>2 DEF Announced
<1>4. ASSUME \A i \in DOMAIN r : r[i] \notin Relevant
      PROVE  ms \/ ((c => base.stop /\ ~base.play) /\ (t => base.play))
  <2>1. \A i \in DOMAIN q : q[i] \notin Relevant
    BY <1>1, <1>4
  <2>2. QED BY <1>2, <2>1 DEF Announced
<1>5. QED BY <1>3, <1>4 DEF Announced

LEMMA UncoveredDialogued ==
  ASSUME NEW q, NEW r, NEW d, Dialogued(q, r, d), NEW c, NEW qs, NEW rs, NEW cr, NEW dr,
         Uncovered(q, c, qs, cr), cr \subseteq dr, rs = <<>> => d = "clear"
  PROVE  Uncovered(r, c, rs, dr)
<1> DEFINE n == Len(q)
<1>1. /\ n \in Nat /\ DOMAIN q = 1 .. n /\ DOMAIN r = 1 .. n + 1 /\ Len(r) = n + 1
      /\ \A i \in 1 .. n : r[i] = q[i]
      /\ r[n + 1] = d /\ d # "edited"
  BY DEF Dialogued, Dialogs
<1> HIDE DEF n
<1>2. ASSUME rs = <<>> PROVE OpenAt(r, c, Len(r) + 1)
  <2>1. n + 1 \in Nat \ {0} /\ r[n + 1] = "clear"
    BY <1>1, <1>2
  <2>2. QED BY <1>1, <2>1, OpenClear
<1>3. ASSUME "cleared" \notin dr, "edited" \notin dr, NEW i \in DOMAIN r, r[i] = "edited"
      PROVE  OpenAt(r, c, i)
  <2>1. i \in 1 .. n
    BY <1>1, <1>3
  <2>2. OpenAt(q, c, i)
    BY <1>1, <1>3, <2>1 DEF Uncovered
  <2>3. i \in Nat /\ \A k \in 1 .. i - 1 : r[k] = q[k]
    BY <1>1, <2>1
  <2>4. QED BY <2>2, <2>3, OpenPrefix
<1>4. QED BY <1>2, <1>3 DEF Uncovered

\* Queue r is q without its first event, e.
Read(q, r, e) ==
  /\ Len(r) \in Nat /\ Len(q) = Len(r) + 1 /\ q[1] = e
  /\ DOMAIN q = 1 .. Len(q) /\ DOMAIN r = 1 .. Len(r)
  /\ \A i \in 1 .. Len(r) : r[i] = q[i + 1]

LEMMA TailReads ==
  ASSUME NEW q \in Seq(Events), q # <<>>
  PROVE  Read(q, Tail(q), Head(q))
<1> DEFINE r == Tail(q)
<1>1. r = Tail(q) /\ Head(q) = q[1]
  OBVIOUS
<1> HIDE DEF r
<1>2. r \in Seq(Events) /\ Len(r) = Len(q) - 1 /\ \A i \in 1 .. Len(r) : r[i] = q[i + 1]
  BY <1>1, HeadTailProperties
<1>3. Len(q) \in Nat /\ DOMAIN q = 1 .. Len(q) /\ DOMAIN r = 1 .. Len(r) /\ Len(r) \in Nat
  BY <1>2, LenProperties
<1>4. QED BY <1>1, <1>2, <1>3 DEF Read

LEMMA UncoveredRead ==
  ASSUME NEW q, NEW r, NEW e, Read(q, r, e), NEW c, NEW d, NEW qs, NEW cr,
         Uncovered(q, c, qs, cr), e = "clear" => d = NoState, e \notin Dialogs => d = c
  PROVE  Uncovered(r, d, qs, cr)
<1> DEFINE n == Len(r)
<1>1. /\ n \in Nat /\ Len(q) = n + 1 /\ q[1] = e /\ DOMAIN q = 1 .. n + 1 /\ DOMAIN r = 1 .. n
      /\ \A i \in 1 .. n : r[i] = q[i + 1]
  BY DEF Read
<1>0. n = Len(r)
  OBVIOUS
<1> HIDE DEF n
<1>2. ASSUME NEW i \in 1 .. n + 1, OpenAt(q, c, i + 1) PROVE OpenAt(r, d, i)
  <2>1. i \in Nat \ {0} /\ \A k \in 1 .. i - 1 : r[k] = q[k + 1]
    BY <1>1
  <2>2. QED BY <1>1, <1>2, <2>1, OpenTail
<1>3. ASSUME qs = <<>> PROVE OpenAt(r, d, n + 1)
  <2>1. OpenAt(q, c, Len(q) + 1)
    BY <1>3 DEF Uncovered
  <2>2. OpenAt(q, c, (n + 1) + 1) /\ n + 1 \in 1 .. n + 1
    BY <1>1, <2>1
  <2>3. QED BY <1>2, <2>2
<1>4. ASSUME "cleared" \notin cr, "edited" \notin cr, NEW i \in DOMAIN r, r[i] = "edited"
      PROVE  OpenAt(r, d, i)
  <2>1. i + 1 \in DOMAIN q /\ q[i + 1] = "edited" /\ i \in 1 .. n + 1
    BY <1>1, <1>4
  <2>2. OpenAt(q, c, i + 1)
    BY <1>4, <2>1 DEF Uncovered
  <2>3. QED BY <1>2, <2>1, <2>2
<1>5. QED BY <1>0, <1>3, <1>4 DEF Uncovered

\* Reading an event shows it in the items, unless a dialog covers them.
LEMMA AnnouncedRead ==
  ASSUME NEW q, NEW r, NEW e, Read(q, r, e), NEW base, NEW next, NEW ms, NEW ns,
         NEW b, NEW s, NEW cr,
         Announced(q, base, ms, b, s, cr),
         e \notin Relevant => ns = ms /\ next = base,
         ( /\ "cleared" \notin cr /\ "edited" \notin cr /\ e \in Relevant
           /\ (b => e \in {"play", "resume"}) /\ (s => e \in {"stop", "pause", "edited"}) )
           => ns \/ ((b => next.stop /\ ~next.play) /\ (s => next.play))
  PROVE  Announced(r, next, ns, b, s, cr)
<1> DEFINE n == Len(r)
<1>1. /\ n \in Nat /\ q[1] = e /\ DOMAIN q = 1 .. n + 1 /\ DOMAIN r = 1 .. n
      /\ \A i \in 1 .. n : r[i] = q[i + 1]
  BY DEF Read
<1> HIDE DEF n
<1>2. SUFFICES ASSUME "cleared" \notin cr, "edited" \notin cr PROVE Announced(r, next, ns, b, s, cr)
  BY DEF Announced
<1>3. ASSUME NEW i \in DOMAIN r, r[i] \in Relevant, \A j \in DOMAIN r : j > i => r[j] \notin Relevant
      PROVE  (b => r[i] \in {"play", "resume"}) /\ (s => r[i] \in {"stop", "pause", "edited"})
  <2>1. i + 1 \in DOMAIN q /\ r[i] = q[i + 1]
    BY <1>1
  <2>2. ASSUME NEW j \in DOMAIN q, j > i + 1 PROVE q[j] \notin Relevant
    <3>1. j - 1 \in DOMAIN r /\ j - 1 > i /\ (j - 1) + 1 = j
      BY <1>1, <2>2
    <3>2. r[j - 1] = q[j]
      BY <1>1, <3>1
    <3>3. QED BY <1>3, <3>1, <3>2
  <2>3. QED BY <1>2, <1>3, <2>1, <2>2 DEF Announced
<1>4. ASSUME \A i \in DOMAIN r : r[i] \notin Relevant
      PROVE  ns \/ ((b => next.stop /\ ~next.play) /\ (s => next.play))
  <2>1. ASSUME NEW j \in DOMAIN q, j > 1 PROVE q[j] \notin Relevant
    <3>1. j - 1 \in DOMAIN r /\ (j - 1) + 1 = j
      BY <1>1, <2>1
    <3>2. r[j - 1] = q[j]
      BY <1>1, <3>1
    <3>3. QED BY <1>4, <3>1, <3>2
  <2>2. 1 \in DOMAIN q
    BY <1>1
  <2>3. CASE e \in Relevant
    <3>1. (b => e \in {"play", "resume"}) /\ (s => e \in {"stop", "pause", "edited"})
      BY <1>1, <1>2, <2>1, <2>2, <2>3 DEF Announced
    <3>2. QED BY <1>2, <2>3, <3>1
  <2>4. CASE e \notin Relevant
    <3>1. \A j \in DOMAIN q : q[j] \notin Relevant
      BY <1>1, <2>1, <2>4
    <3>2. QED BY <1>2, <2>4, <3>1 DEF Announced
  <2>5. QED BY <2>3, <2>4
<1>5. QED BY <1>3, <1>4 DEF Announced

LEMMA ConcatTells ==
  ASSUME NEW q \in Seq(Events), NEW e \in Relevant
  PROVE  Told(q, q \o <<e>>, e)
<1> DEFINE s == <<e>>
           r == q \o s
<1>1. s \in Seq(Events) /\ Len(s) = 1 /\ s[1] = e
  BY DEF Relevant, Events
<1>2. r = q \o s
  OBVIOUS
<1> HIDE DEF r, s
<1>3. /\ r \in Seq(Events) /\ Len(r) = Len(q) + 1
      /\ \A i \in 1 .. Len(q) + 1 : r[i] = IF i <= Len(q) THEN q[i] ELSE s[i - Len(q)]
  BY <1>1, <1>2, ConcatProperties
<1>4. Len(q) \in Nat /\ DOMAIN q = 1 .. Len(q) /\ DOMAIN r = 1 .. Len(r)
  BY <1>3, LenProperties
<1>5. (\A i \in 1 .. Len(q) : r[i] = q[i]) /\ r[Len(q) + 1] = e
  BY <1>1, <1>3, <1>4
<1>6. \A i \in Len(q) + 1 .. Len(r) : i = Len(q) + 1
  BY <1>3, <1>4
<1>7. Told(q, r, e)
  BY <1>3, <1>4, <1>5, <1>6 DEF Told
<1>8. QED BY <1>7 DEF r, s

LEMMA ConcatTellsTwice ==
  ASSUME NEW q \in Seq(Events)
  PROVE  Told(q, q \o <<"stop", "play">>, "play")
<1> DEFINE s == <<"stop", "play">>
           r == q \o s
<1>1. s \in Seq(Events) /\ Len(s) = 2 /\ s[1] = "stop" /\ s[2] = "play"
  BY DEF Events
<1>2. r = q \o s
  OBVIOUS
<1> HIDE DEF r, s
<1>3. /\ r \in Seq(Events) /\ Len(r) = Len(q) + 2
      /\ \A i \in 1 .. Len(q) + 2 : r[i] = IF i <= Len(q) THEN q[i] ELSE s[i - Len(q)]
  <2>1. s \in Seq(Events)
    BY <1>1
  <2>2. /\ r \in Seq(Events) /\ Len(r) = Len(q) + Len(s)
        /\ \A i \in 1 .. Len(q) + Len(s) : r[i] = IF i <= Len(q) THEN q[i] ELSE s[i - Len(q)]
    BY <1>2, <2>1, ConcatProperties
  <2>3. QED BY <1>1, <2>2
<1>4. Len(q) \in Nat /\ DOMAIN q = 1 .. Len(q) /\ DOMAIN r = 1 .. Len(r)
  BY <1>3, LenProperties
<1>5. (\A i \in 1 .. Len(q) : r[i] = q[i]) /\ r[Len(q) + 1] = "stop" /\ r[Len(q) + 2] = "play"
  BY <1>1, <1>3, <1>4
<1>6. \A i \in Len(q) + 1 .. Len(r) : i = Len(q) + 1 \/ i = Len(q) + 2
  BY <1>3, <1>4
<1>7. Told(q, r, "play")
  BY <1>3, <1>4, <1>5, <1>6 DEF Told, Relevant
<1>8. QED BY <1>7 DEF r, s

-----------------------------------------------------------------------------
(* The menu is informed: by reading, and by the operations of playback.    *)

\* The items under a dialog, and a project that neither plays nor is edited.
Base == IF covered = NoState THEN items ELSE covered
Resting == ~Playing(project) /\ ~project.editing /\ editor = NoState

Informed ==
  /\ Uncovered(events, covered, asked, crossed)
  /\ Announced(events, Base, missed, Playing(project), Resting, crossed)

Excused == "cleared" \in crossed \/ "edited" \in crossed

LEMMA InformedQuiet ==
  ASSUME Informed, UNCHANGED <<events, covered, items, missed>>, crossed \subseteq crossed',
         asked' = <<>> => asked = <<>>,
         Excused' \/ ((Playing(project') => Playing(project)) /\ (Resting' => Resting))
  PROVE  Informed'
<1>1. Uncovered(events, covered, asked', crossed')
  BY UncoveredSame DEF Informed
<1>2. Announced(events, Base, missed, Playing(project'), Resting', crossed')
  BY AnnouncedSame DEF Informed, Excused
<1>3. Base' = Base
  BY DEF Base
<1>4. QED BY <1>1, <1>2, <1>3 DEF Informed, Playing

LEMMA InformedTold ==
  ASSUME Informed, NEW e, Told(events, events', e), UNCHANGED <<covered, items, missed, asked>>,
         crossed \subseteq crossed',
         \/ Excused'
         \/ /\ Playing(project') => e \in {"play", "resume"}
            /\ Resting' => e \in {"stop", "pause", "edited"},
         e = "edited" => asked = <<>> \/ Excused'
  PROVE  Informed'
<1>1. Uncovered(events', covered, asked, crossed')
  BY UncoveredTold DEF Informed, Excused
<1>2. Announced(events', Base, missed, Playing(project'), Resting', crossed')
  BY AnnouncedTold DEF Excused
<1>3. Base' = Base
  BY DEF Base
<1>4. QED BY <1>1, <1>2, <1>3 DEF Informed, Playing

LEMMA InformedDialogued ==
  ASSUME Informed, NEW d, Dialogued(events, events', d), UNCHANGED <<covered, items, missed>>,
         crossed \subseteq crossed', asked' = <<>> => d = "clear",
         (Playing(project') => Playing(project)) /\ (Resting' => Resting)
  PROVE  Informed'
<1>1. Uncovered(events', covered, asked', crossed')
  BY UncoveredDialogued DEF Informed
<1>2. Announced(events', Base, missed, Playing(project'), Resting', crossed')
  BY AnnouncedDialogued DEF Informed
<1>3. Base' = Base
  BY DEF Base
<1>4. QED BY <1>1, <1>2, <1>3 DEF Informed, Playing

LEMMA HandleEventInforms ==
  ASSUME IInv, Informed, HandleEvent
  PROVE  Informed'
<1> DEFINE e == Head(events)
<1>1. /\ events # <<>> /\ events' = Tail(events)
      /\ UNCHANGED <<project, editor, asked, crossed>>
      /\ \/ /\ e = "dialog"
            /\ covered' = IF covered = NoState THEN items ELSE covered
            /\ missed' = missed
         \/ /\ e = "clear"
            /\ items' = IF covered = NoState THEN items ELSE covered
            /\ covered' = NoState
            /\ missed' = missed
         \/ /\ e \notin {"dialog", "clear"}
            /\ items' = IF covered = NoState THEN EventItems(e, items) ELSE items
            /\ missed' = IF e \in {"editing", "edited"} THEN missed ELSE covered # NoState
            /\ covered' = covered
  BY DEF HandleEvent
<1>2. events \in Seq(Events) /\ items \in Items /\ items # NoState
  BY StatesAssumption DEF IInv, TypeOK
<1>3. Read(events, events', e) /\ e \in Events
  BY <1>1, <1>2, TailReads, HeadTailProperties
<1> HIDE DEF e
<1>4. e \in Relevant <=> e \notin Dialogs
  BY <1>3 DEF Events, Relevant, Dialogs
<1>5. Uncovered(events', covered', asked, crossed)
  <2>1. (e = "clear" => covered' = NoState) /\ (e \notin Dialogs => covered' = covered)
    BY <1>1 DEF Dialogs
  <2>2. QED BY <1>3, <2>1, UncoveredRead DEF Informed
<1>6. Announced(events', Base', missed', Playing(project), Resting, crossed)
  <2>1. e \notin Relevant => missed' = missed /\ Base' = Base
    BY <1>1, <1>2, <1>4 DEF Base, Dialogs
  <2>2. ASSUME "cleared" \notin crossed, "edited" \notin crossed, e \in Relevant,
               Playing(project) => e \in {"play", "resume"},
               Resting => e \in {"stop", "pause", "edited"}
        PROVE  missed' \/ ((Playing(project) => Base'.stop /\ ~Base'.play) /\ (Resting => Base'.play))
    <3>1. e \notin {"dialog", "clear"} /\ covered' = covered
      BY <1>1, <1>4, <2>2 DEF Dialogs
    <3>2. CASE covered = NoState
      <4>1. Base' = EventItems(e, items)
        BY <1>1, <3>1, <3>2 DEF Base
      <4>2. /\ e \in {"play", "resume"} => EventItems(e, items).stop /\ ~EventItems(e, items).play
            /\ e \in {"stop", "pause", "edited"} => EventItems(e, items).play
        BY <1>2 DEF EventItems, Items
      <4>3. QED BY <2>2, <4>1, <4>2
    <3>3. CASE covered # NoState
      <4>1. CASE e \notin {"editing", "edited"}
        BY <1>1, <3>1, <3>3, <4>1
      <4>2. CASE e = "editing"
        BY <2>2, <4>2
      <4>3. CASE e = "edited"
        <5>1. 1 \in DOMAIN events /\ events[1] = "edited"
          BY <1>3, <4>3 DEF Read
        <5>2. OpenAt(events, covered, 1)
          BY <2>2, <5>1 DEF Informed, Uncovered
        <5>3. 1 .. 1 - 1 = {}
          OBVIOUS
        <5>4. covered = NoState
          BY <5>2, <5>3 DEF OpenAt
        <5>5. QED BY <3>3, <5>4
      <4>4. QED BY <4>1, <4>2, <4>3
    <3>4. QED BY <3>2, <3>3
  <2> DEFINE b == Playing(project)
             s == Resting
             shown == Base'
             ns == missed'
  <2>3. Announced(events, Base, missed, b, s, crossed)
    BY DEF Informed
  <2>4. e \notin Relevant => ns = missed /\ shown = Base
    BY <2>1
  <2>5. ( /\ "cleared" \notin crossed /\ "edited" \notin crossed /\ e \in Relevant
          /\ (b => e \in {"play", "resume"}) /\ (s => e \in {"stop", "pause", "edited"}) )
          => ns \/ ((b => shown.stop /\ ~shown.play) /\ (s => shown.play))
    BY <2>2
  <2> HIDE DEF b, s, shown, ns
  <2>6. Announced(events', shown, ns, b, s, crossed)
    BY <1>3, <2>3, <2>4, <2>5, AnnouncedRead
  <2>7. QED BY <2>6 DEF b, s, shown, ns
<1>7. project' = project /\ editor' = editor /\ asked' = asked /\ crossed' = crossed
  BY <1>1
<1>8. (Playing(project)' <=> Playing(project)) /\ (Resting' <=> Resting)
  BY <1>7 DEF Playing, Resting
<1>9. Announced(events', Base', missed', Playing(project)', Resting', crossed)
  BY <1>6, <1>8, AnnouncedSame
<1>10. QED BY <1>5, <1>7, <1>9 DEF Informed

\* An operation of playback that publishes nothing.
LEMMA QuietlyInforms ==
  ASSUME IInv, Informed, events' = events \o <<>>, UNCHANGED <<asked, covered, items, missed>>,
         crossed \subseteq crossed',
         Excused' \/ ((Playing(project') => Playing(project)) /\ (Resting' => Resting))
  PROVE  Informed'
<1>1. events' = events
  BY ConcatEmptySeq DEF IInv, TypeOK
<1>2. QED BY <1>1, InformedQuiet

\* Playback begins, or ends, and tells of it.
LEMMA BeginningInforms ==
  ASSUME IInv, Informed, NEW p, Begins(p, project'),
         \/ events' = events \o <<"play">> \/ events' = events \o <<"resume">>
         \/ events' = events \o <<"stop", "play">>,
         UNCHANGED <<asked, covered, items, missed>>, crossed \subseteq crossed'
  PROVE  Informed'
<1>1. Playing(project') /\ ~Resting'
  BY DEF Begins, Playing, Resting
<1>2. events \in Seq(Events)
  BY DEF IInv, TypeOK
<1>3. Told(events, events', "play") \/ Told(events, events', "resume")
  BY <1>2, ConcatTells, ConcatTellsTwice DEF Relevant
<1>4. QED BY <1>1, <1>3, InformedTold

LEMMA EndingInforms ==
  ASSUME IInv, Informed, NEW p, Ends(p, project'),
         events' = events \o <<"stop">> \/ events' = events \o <<"pause">>,
         UNCHANGED <<asked, covered, items, missed>>, crossed \subseteq crossed'
  PROVE  Informed'
<1>1. ~Playing(project')
  BY DEF Ends, Playing
<1>2. events \in Seq(Events)
  BY DEF IInv, TypeOK
<1>3. Told(events, events', "stop") \/ Told(events, events', "pause")
  BY <1>2, ConcatTells DEF Relevant
<1>4. QED BY <1>1, <1>3, InformedTold

-----------------------------------------------------------------------------
(* The menu is informed in every step.                                     *)

LEMMA SendInforms ==
  ASSUME Informed, NEW c, Send(c)
  PROVE  Informed'
<1>1. UNCHANGED <<project, editor, asked, events, items, covered, crossed, missed>>
  BY DEF Send, Keep
<1>2. Resting' => Resting
  BY <1>1 DEF Resting, Playing
<1>3. QED BY <1>1, <1>2, InformedQuiet

LEMMA ReceivePlayInforms ==
  ASSUME IInv, Informed, ReceivePlay
  PROVE  Informed'
<1> DEFINE r == Play(project)
<1>1. /\ project.editing => r.project = project /\ r.sent = <<>>
      /\ ~project.editing => Begins(project, r.project) /\ r.sent = <<"play">>
  BY PlayWhere DEF IInv, TypeOK
<1>2. /\ project' = r.project /\ events' = events \o r.sent /\ Starting(project)
      /\ UNCHANGED <<editor, asked, covered, items, missed>>
  BY DEF ReceivePlay, Perform
<1> HIDE DEF r
<1>3. crossed \subseteq crossed'
  BY <1>2, StartingKeeps
<1>4. CASE project.editing
  <2>1. project' = project /\ events' = events \o <<>>
    BY <1>1, <1>2, <1>4
  <2>2. Resting' => Resting
    BY <1>2, <2>1 DEF Resting, Playing
  <2>3. QED BY <1>2, <1>3, <2>1, <2>2, QuietlyInforms
<1>5. CASE ~project.editing
  <2>1. Begins(project, project') /\ events' = events \o <<"play">>
    BY <1>1, <1>2, <1>5
  <2>2. QED BY <1>2, <1>3, <2>1, BeginningInforms
<1>6. QED BY <1>4, <1>5

LEMMA ReceiveStopInforms ==
  ASSUME IInv, Informed, ReceiveStop
  PROVE  Informed'
<1> DEFINE r == Stop(project)
<1>1. Ends(project, r.project) /\ r.sent = <<"stop">>
  BY StopWhere DEF IInv, TypeOK
<1>2. /\ project' = r.project /\ events' = events \o r.sent
      /\ UNCHANGED <<asked, covered, items, missed, crossed>>
  BY DEF ReceiveStop, Perform
<1> HIDE DEF r
<1>3. Ends(project, project') /\ events' = events \o <<"stop">>
  BY <1>1, <1>2
<1>4. QED BY <1>2, <1>3, EndingInforms

LEMMA ReceiveClearAudioInforms ==
  ASSUME IInv, Informed, ReceiveClearAudio
  PROVE  Informed'
<1> DEFINE q == [project EXCEPT !.state = "stop"]
<1>1. q.state = "stop" /\ q.editing = project.editing
  BY DEF IInv, TypeOK, Projects
<1>2. /\ project' = q /\ events' = events \o <<>>
      /\ UNCHANGED <<editor, asked, covered, items, missed>>
  BY DEF ReceiveClearAudio, Perform, Quietly, ClearAudioSource
<1> HIDE DEF q
<1>3. crossed \subseteq crossed' /\ (Playing(project) => "cleared" \in crossed')
  BY CrossingGrows DEF ReceiveClearAudio
<1>4. Excused' \/ ((Playing(project') => Playing(project)) /\ (Resting' => Resting))
  BY <1>1, <1>2, <1>3 DEF Excused, Resting, Playing
<1>5. QED BY <1>2, <1>3, <1>4, QuietlyInforms

LEMMA ReceiveActivateInforms ==
  ASSUME IInv, Informed, ReceiveActivate
  PROVE  Informed'
<1> DEFINE r == SetActive(project, TRUE)
           again == WasPlaying(project) /\ ~project.editing
           q == [project EXCEPT !.active = TRUE]
<1>1. Activated(project, TRUE, r.project, r.sent)
  BY WholeStartsOnce, SetActiveWhere DEF IInv, TypeOK
<1>2. /\ project' = r.project /\ events' = events \o r.sent
      /\ UNCHANGED <<editor, asked, crossed, covered, items, missed>>
  BY DEF ReceiveActivate, Perform
<1> HIDE DEF r
<1>3. project.active \in BOOLEAN
  BY DEF IInv, TypeOK, Projects
<1>4. \/ Begins(project, project') /\ events' = events \o <<"resume">>
      \/ (project' = project \/ project' = q) /\ events' = events \o <<>>
  BY <1>1, <1>2, <1>3 DEF Activated
<1>5. q.state = project.state /\ q.editing = project.editing
  BY DEF IInv, TypeOK, Projects
<1> HIDE DEF q
<1>6. CASE Begins(project, project') /\ events' = events \o <<"resume">>
  BY <1>2, <1>6, BeginningInforms
<1>7. CASE (project' = project \/ project' = q) /\ events' = events \o <<>>
  <2>1. (Playing(project') => Playing(project)) /\ (Resting' => Resting)
    BY <1>2, <1>5, <1>7 DEF Playing, Resting
  <2>2. QED BY <1>2, <1>7, <2>1, QuietlyInforms
<1>8. QED BY <1>4, <1>6, <1>7

LEMMA ReceiveDeactivateInforms ==
  ASSUME IInv, Informed, ReceiveDeactivate
  PROVE  Informed'
<1> DEFINE r == SetActive(project, FALSE)
           q == [project EXCEPT !.last = project.state, !.state = "suspend", !.active = FALSE]
<1>1. Activated(project, FALSE, r.project, r.sent)
  BY WholeStartsOnce, SetActiveWhere DEF IInv, TypeOK
<1>2. /\ project' = r.project /\ events' = events \o r.sent
      /\ UNCHANGED <<editor, asked, crossed, covered, items, missed>>
  BY DEF ReceiveDeactivate, Perform
<1> HIDE DEF r
<1>3. project.active \in BOOLEAN
  BY DEF IInv, TypeOK, Projects
<1>4. \/ Ends(project, project') /\ events' = events \o <<"pause">>
      \/ project' = project /\ events' = events \o <<>>
      \/ project' = q /\ ~Playing(project) /\ events' = events \o <<>>
  BY <1>1, <1>2, <1>3 DEF Activated
<1>5. q.state = "suspend" /\ q.editing = project.editing
  BY DEF IInv, TypeOK, Projects
<1> HIDE DEF q
<1>6. CASE Ends(project, project') /\ events' = events \o <<"pause">>
  BY <1>2, <1>6, EndingInforms
<1>7. CASE /\ events' = events \o <<>>
           /\ project' = project \/ (project' = q /\ ~Playing(project))
  <2>1. (Playing(project') => Playing(project)) /\ (Resting' => Resting)
    BY <1>2, <1>5, <1>7 DEF Playing, Resting
  <2>2. QED BY <1>2, <1>7, <2>1, QuietlyInforms
<1>8. QED BY <1>4, <1>6, <1>7

LEMMA ReceiveEditInforms ==
  ASSUME IInv, Informed, ReceiveEdit
  PROVE  Informed'
<1>1. /\ crossed \subseteq crossed'
      /\ OpensEditor /\ Playing(project) => "edited" \in crossed'
  BY CrossingGrows DEF ReceiveEdit
<1>2. UNCHANGED <<asked, covered, items, missed>>
  BY DEF ReceiveEdit
<1>3. CASE ~OpensEditor
  <2>1. UNCHANGED <<project, editor, events>>
    BY <1>3 DEF ReceiveEdit
  <2>2. Resting' => Resting
    BY <2>1 DEF Resting, Playing
  <2>3. QED BY <1>1, <1>2, <2>1, <2>2, InformedQuiet
<1>4. CASE OpensEditor
  <2> DEFINE q == [project EXCEPT !.editing = TRUE]
  <2>1. project' = q /\ events' = events \o <<"editing">>
    BY <1>4 DEF ReceiveEdit, Perform, Telling
  <2>2. q.state = project.state /\ q.editing = TRUE
    BY DEF IInv, TypeOK, Projects
  <2> HIDE DEF q
  <2>3. Told(events, events', "editing")
    BY <2>1, ConcatTells DEF IInv, TypeOK, Relevant
  <2>4. Excused' \/ (~Playing(project') /\ ~Resting')
    BY <1>1, <1>4, <2>1, <2>2 DEF Excused, Playing, Resting
  <2>5. QED BY <1>1, <1>2, <2>3, <2>4, InformedTold
<1>5. QED BY <1>3, <1>4

LEMMA AskDeleteInforms ==
  ASSUME IInv, Informed, AskDelete
  PROVE  Informed'
<1>1. crossed \subseteq crossed' /\ UNCHANGED <<project, editor, items, covered, missed>>
  BY CrossingGrows DEF AskDelete
<1>2. (Playing(project') => Playing(project)) /\ (Resting' => Resting)
  BY <1>1 DEF Playing, Resting
<1>3. CASE project.model = NoModel
  <2>1. asked' = asked /\ events' = events
    BY <1>3 DEF AskDelete
  <2>2. QED BY <1>1, <1>2, <2>1, InformedQuiet
<1>4. CASE project.model # NoModel
  <2>1. asked' = Append(asked, project.model) /\ events' = Append(events, "dialog")
    BY <1>4 DEF AskDelete
  <2>2. asked \in Seq(Models) /\ project.model \in Models /\ events \in Seq(Events)
    BY <1>4 DEF IInv, TypeOK, Projects, Pointers
  <2>3. asked' # <<>>
    BY <2>1, <2>2, AppendProperties
  <2>4. Dialogued(events, events', "dialog")
    BY <2>1, <2>2, AppendDialogues DEF Dialogs
  <2>5. QED BY <1>1, <1>2, <2>3, <2>4, InformedDialogued
<1>5. QED BY <1>3, <1>4

LEMMA UpdateInforms ==
  ASSUME IInv, Informed, Update
  PROVE  Informed'
<1>1. Drawn
  BY UpdateWhere DEF IInv, TypeOK
<1>2. UNCHANGED <<editor, asked, items, covered, crossed, missed>>
  BY DEF Update, Keep
<1>3. CASE /\ events' = events \o <<>>
           /\ \E f \in Frames : project' = [project EXCEPT !.frame = f]
  <2>1. \A f \in Frames : /\ [project EXCEPT !.frame = f].state = project.state
                          /\ [project EXCEPT !.frame = f].editing = project.editing
    BY FramedProject DEF IInv, TypeOK
  <2>2. project'.state = project.state /\ project'.editing = project.editing
    BY <1>3, <2>1
  <2>3. (Playing(project') => Playing(project)) /\ (Resting' => Resting)
    BY <1>2, <2>2 DEF Playing, Resting
  <2>4. QED BY <1>2, <1>3, <2>3, QuietlyInforms
<1>4. CASE events' = events \o <<"stop">> /\ Ends(project, project')
  BY <1>2, <1>4, EndingInforms
<1>5. CASE /\ events' = events \o <<"stop", "play">>
           /\ \E q : Ends(project, q) /\ Begins(q, project')
  BY <1>2, <1>5, BeginningInforms
<1>6. QED BY <1>1, <1>3, <1>4, <1>5 DEF Drawn

LEMMA PressPauseInforms ==
  ASSUME IInv, Informed, PressPause
  PROVE  Informed'
<1> DEFINE r == Pause(project, TRUE)
<1>1. Ends(project, r.project) /\ r.sent = <<"pause">>
  BY PauseWhere DEF IInv, TypeOK, PressPause
<1>2. /\ project' = r.project /\ events' = events \o r.sent
      /\ UNCHANGED <<asked, covered, items, missed, crossed>>
  BY DEF PressPause, Perform, Panels
<1> HIDE DEF r
<1>3. Ends(project, project') /\ events' = events \o <<"pause">>
  BY <1>1, <1>2
<1>4. QED BY <1>2, <1>3, EndingInforms

LEMMA PressResumeInforms ==
  ASSUME IInv, Informed, PressResume
  PROVE  Informed'
<1> DEFINE r == Resume(project, TRUE)
<1>1. /\ ~Playing(project) /\ ~project.editing /\ project' = r.project
      /\ events' = events \o r.sent /\ Starting(project)
      /\ UNCHANGED <<asked, covered, items, missed>>
  BY DEF PressResume, Perform, Panels
<1>2. Begins(project, r.project) /\ r.sent = <<"resume">>
  BY <1>1, ResumeWhere DEF IInv, TypeOK
<1> HIDE DEF r
<1>3. crossed \subseteq crossed'
  BY <1>1, StartingKeeps
<1>4. Begins(project, project') /\ events' = events \o <<"resume">>
  BY <1>1, <1>2
<1>5. QED BY <1>1, <1>3, <1>4, BeginningInforms

LEMMA PressPlayInforms ==
  ASSUME IInv, Informed, PressPlay
  PROVE  Informed'
<1> DEFINE r == Play(project)
<1>1. /\ ~project.editing /\ project' = r.project
      /\ events' = events \o r.sent /\ Starting(project)
      /\ UNCHANGED <<asked, covered, items, missed>>
  BY DEF PressPlay, Perform, Panels
<1>2. Begins(project, r.project) /\ r.sent = <<"play">>
  BY <1>1, PlayWhere DEF IInv, TypeOK
<1> HIDE DEF r
<1>3. crossed \subseteq crossed'
  BY <1>1, StartingKeeps
<1>4. Begins(project, project') /\ events' = events \o <<"play">>
  BY <1>1, <1>2
<1>5. QED BY <1>1, <1>3, <1>4, BeginningInforms

\* The panels that change neither the player nor the editor.
LEMMA PanelInforms ==
  ASSUME IInv, Informed,
         ToggleLoop \/ (\E m \in project.models \cup {NoModel} : ChooseModel(m))
           \/ \E f \in Frames : SeekTimeline(f)
  PROVE  Informed'
<1>1. UNCHANGED <<editor, asked, events, items, covered, missed>>
  BY DEF ToggleLoop, ChooseModel, SeekTimeline, Panels
<1>2. crossed \subseteq crossed'
  BY CrossingGrows DEF ToggleLoop, ChooseModel, SeekTimeline
<1>3. project'.state = project.state /\ project'.editing = project.editing
  <2>1. CASE ToggleLoop
    BY <2>1 DEF ToggleLoop, IInv, TypeOK, Projects
  <2>2. ASSUME NEW m \in project.models \cup {NoModel}, ChooseModel(m)
        PROVE  project'.state = project.state /\ project'.editing = project.editing
    BY <2>2, ChooseModelTypes, ChosenModelTypes DEF ChooseModel, IInv, TypeOK
  <2>3. ASSUME NEW f \in Frames, SeekTimeline(f)
        PROVE  project'.state = project.state /\ project'.editing = project.editing
    BY <2>3 DEF SeekTimeline, IInv, TypeOK, Projects
  <2>4. QED BY <2>1, <2>2, <2>3
<1>4. (Playing(project') => Playing(project)) /\ (Resting' => Resting)
  BY <1>1, <1>3 DEF Playing, Resting
<1>5. QED BY <1>1, <1>2, <1>4, InformedQuiet

LEMMA AnswerInforms ==
  ASSUME IInv, Informed, NEW accepted \in BOOLEAN, Answer(accepted)
  PROVE  Informed'
<1> DEFINE m == Head(asked)
           q == RemoveModel(project, m)
<1>1. asked # <<>> /\ asked \in Seq(Models) /\ events \in Seq(Events)
  BY DEF IInv, TypeOK, Answer
<1>2. m \in Models
  BY <1>1, HeadTailProperties
<1>3. /\ project' = q \/ project' = project
      /\ UNCHANGED <<editor, items, covered, missed>> /\ asked' = Tail(asked)
      /\ events' = IF Tail(asked) = <<>> THEN Append(events, "clear") ELSE events
  BY DEF Answer
<1>4. q.state = project.state /\ q.editing = project.editing
  BY <1>2, RemoveModelWhere DEF IInv, TypeOK
<1> HIDE DEF m, q
<1>5. (Playing(project') => Playing(project)) /\ (Resting' => Resting)
  BY <1>3, <1>4 DEF Playing, Resting
<1>6. crossed \subseteq crossed'
  BY CrossingGrows DEF Answer
<1>7. CASE Tail(asked) = <<>>
  <2>1. Dialogued(events, events', "clear")
    BY <1>1, <1>3, <1>7, AppendDialogues DEF Dialogs
  <2>2. QED BY <1>3, <1>5, <1>6, <2>1, InformedDialogued
<1>8. CASE Tail(asked) # <<>>
  <2>1. events' = events /\ asked' # <<>>
    BY <1>3, <1>8
  <2>2. QED BY <1>3, <1>5, <1>6, <2>1, InformedQuiet
<1>9. QED BY <1>7, <1>8

LEMMA CloseEditorInforms ==
  ASSUME IInv, Informed, CloseEditor
  PROVE  Informed'
<1>1. Closed
  BY WholeStartsOnce, CloseEditorTypes DEF IInv
<1>2. /\ UNCHANGED <<asked, items, covered, missed, crossed>>
      /\ editor # NoState /\ (asked = <<>> \/ project.model = NoModel)
  BY DEF CloseEditor, Keep
<1>3. project'.state = project.state
  BY <1>1 DEF Closed
<1>4. CASE project'.editing
  <2>1. events' = events \o <<>> /\ (Playing(project') => Playing(project)) /\ ~Resting'
    BY <1>1, <1>3, <1>4 DEF Closed, Playing, Resting
  <2>2. QED BY <1>2, <2>1, QuietlyInforms
<1>5. CASE ~project'.editing
  <2>1. events' = events \o <<"edited">>
    BY <1>1, <1>5 DEF Closed
  <2>2. Told(events, events', "edited")
    BY <2>1, ConcatTells DEF IInv, TypeOK, Relevant
  <2>3. Excused \/ project.editing
    BY <1>2 DEF IInv, Whole, Sound, Editing, Excused
  <2>4. Excused \/ ~Playing(project')
    BY <1>3, <2>3 DEF IInv, Whole, Sound, Session, Excused, Playing
  <2>5. Excused \/ asked = <<>>
    BY <1>1, <1>2, <1>5, <2>3 DEF Closed
  <2>6. Excused' = Excused
    BY <1>2 DEF Excused
  <2>7. QED BY <1>2, <2>2, <2>4, <2>5, <2>6, InformedTold
<1>6. QED BY <1>4, <1>5

LEMMA InitInforms ==
  ASSUME Init
  PROVE  Informed
<1>1. /\ events = <<>> /\ Len(events) = 0 /\ DOMAIN events = {} /\ covered = NoState
      /\ items = [play |-> TRUE, stop |-> FALSE]
  BY DEF Init
<1>2. project.state = "stop"
  BY DEF Init
<1>3. 1 .. 0 + 1 - 1 = {}
  OBVIOUS
<1>4. OpenAt(events, covered, Len(events) + 1)
  BY <1>1, <1>3 DEF OpenAt
<1>5. Uncovered(events, covered, asked, crossed)
  BY <1>1, <1>4 DEF Uncovered
<1>6. Base.play = TRUE /\ ~Playing(project)
  BY <1>1, <1>2 DEF Base, Playing
<1>7. Announced(events, Base, missed, Playing(project), Resting, crossed)
  BY <1>1, <1>6 DEF Announced
<1>8. QED BY <1>5, <1>7 DEF Informed

LEMMA NextInforms ==
  ASSUME IInv, Informed, [Next]_vars
  PROVE  Informed'
<1>1. CASE Menu
  <2>1. (\E c \in Commands : Send(c)) \/ HandleEvent
    BY <1>1 DEF Menu, ClickPlay, ClickStop, ClickMenu, HideWindow, ShowWindow, Commands
  <2>2. QED BY <2>1, SendInforms, HandleEventInforms
<1>2. CASE ReceiveAny
  BY <1>2, ReceivePlayInforms, ReceiveStopInforms, ReceiveClearAudioInforms,
     ReceiveActivateInforms, ReceiveDeactivateInforms, ReceiveEditInforms, AskDeleteInforms
     DEF ReceiveAny, ReceiveDelete
<1>3. CASE Update
  BY <1>3, UpdateInforms
<1>4. CASE Panel
  BY <1>4, PressPauseInforms, PressResumeInforms, PressPlayInforms, PanelInforms, AskDeleteInforms
     DEF Panel, PressDelete
<1>5. CASE CloseEditor
  BY <1>5, CloseEditorInforms
<1>6. ASSUME NEW accepted \in BOOLEAN, Answer(accepted) PROVE Informed'
  BY <1>6, AnswerInforms
<1>7. CASE UNCHANGED vars
  <2>1. UNCHANGED <<project, editor, asked, events, items, covered, crossed, missed>>
    BY <1>7 DEF vars
  <2>2. Resting' => Resting
    BY <2>1 DEF Resting, Playing
  <2>3. QED BY <2>1, <2>2, InformedQuiet
<1>8. QED BY <1>1, <1>2, <1>3, <1>4, <1>5, <1>6, <1>7 DEF Next

\* For every bound of the queues: once the menu has read what was published, and
\* no dialog covers it or swallowed an event, it offers to stop a playing project
\* and to play a stopped one (ApplicationMenuBuilder's handling of the events).
THEOREM MenuFollows == Spec => []MenuFollowsPlayback
<1>1. Informed => MenuFollowsPlayback
  <2>1. SUFFICES ASSUME Informed, events = <<>>, covered = NoState, ~missed,
                        ~Unless({"cleared", "edited"})
        PROVE  /\ Playing(project) => items.stop /\ ~items.play
               /\ project.state = "stop" /\ ~project.editing /\ editor = NoState => items.play
    BY DEF MenuFollowsPlayback
  <2>2. DOMAIN events = {} /\ Base = items
    BY <2>1 DEF Base
  <2>3. "cleared" \notin crossed /\ "edited" \notin crossed
    BY <2>1 DEF Unless
  <2>4. (Playing(project) => items.stop /\ ~items.play) /\ (Resting => items.play)
    BY <2>1, <2>2, <2>3 DEF Informed, Announced
  <2>5. QED BY <2>4 DEF Resting, Playing
<1>2. (IInv /\ Informed) /\ [Next]_vars => (IInv /\ Informed)'
  BY NextWhole, NextInforms
<1>3. Init => IInv /\ Informed
  BY InitWhole, InitInforms
<1>4. QED BY <1>1, <1>2, <1>3, PTL DEF Spec
=============================================================================
