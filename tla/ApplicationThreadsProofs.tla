---------------------- MODULE ApplicationThreadsProofs ----------------------
(***************************************************************************)
(* Proofs about ApplicationThreads.  For any number of close requests, any *)
(* length of the streams and everything that may happen, the libraries     *)
(* terminate only after the project that uses them is destroyed.  For one  *)
(* close request and edits that mark the project, quitting throws changes  *)
(* away only when the user chose to.                                       *)
(*                                                                         *)
(* The last part is about CancelWorker, the thread that the other two      *)
(* share: for any number of operations and any depth of nesting, it tells  *)
(* no Progress object that is gone, and the sheet of the window follows    *)
(* the operations.                                                         *)
(***************************************************************************)
EXTENDS ApplicationThreads, CancelWorker, TLAPS

\* The types without the bounds of the model.
LooseClient ==
  [phase : {"starting", "running", "stuck", "closing", "done"},
   minimized : BOOLEAN, closes : Nat, metrics : BOOLEAN, confirm : BOOLEAN,
   saved : Nat, destroy : Nat, terminate : Nat]

LooseTypes ==
  /\ client \in LooseClient
  /\ service \in Service
  /\ commands \in Seq(Command)
  /\ events \in Seq(Event)
  /\ replay \in [left : Nat, waiting : BOOLEAN]

Occurs(message, stream) == \E i \in 1 .. Len(stream) : stream[i] = message

\* Until INITIALIZE is handled nothing else is sent either way.
Booting ==
  /\ client.phase = "starting"
  /\ commands = <<"initialize">>
  /\ events = <<>>
  /\ service.project = "none" /\ service.running
  /\ service.step \in {"draw", "receive"}

\* Afterwards there is no INITIALIZE any more, so that a project that is gone
\* stays gone; and each sign of the end comes after the destruction.
Booted ==
  /\ ~Occurs("initialize", commands)
  /\ \/ Occurs("destroyed", events)
     \/ Occurs("terminate", commands)
     \/ ~service.running
     => service.project = "none"

IInv == LooseTypes /\ (Booting \/ Booted)

-----------------------------------------------------------------------------
(* Which messages occur in a stream after it was changed.                  *)

LEMMA OccursInTail ==
  ASSUME NEW S, NEW s \in Seq(S), s # <<>>, NEW m
  PROVE  /\ Tail(s) \in Seq(S)
         /\ Occurs(m, Tail(s)) => Occurs(m, s)
         /\ Head(s) \in S
         /\ Occurs(Head(s), s)
<1>1. Tail(s) \in Seq(S) /\ Len(Tail(s)) = Len(s) - 1 /\ Head(s) = s[1] /\ Len(s) \in Nat
      /\ Len(s) > 0
  OBVIOUS
<1>2. ASSUME NEW i \in 1 .. Len(Tail(s)), Tail(s)[i] = m PROVE Occurs(m, s)
  <2>1. s[i + 1] = m
    BY <1>1, <1>2
  <2>2. i + 1 \in 1 .. Len(s)
    BY <1>1
  <2>3. QED BY <2>1, <2>2 DEF Occurs
<1>3. Occurs(m, Tail(s)) => Occurs(m, s)
  BY <1>2 DEF Occurs
<1>4. Head(s) \in S /\ Occurs(Head(s), s)
  BY <1>1 DEF Occurs
<1>5. QED BY <1>1, <1>3, <1>4

LEMMA OccursInAppend ==
  ASSUME NEW S, NEW s \in Seq(S), NEW x \in S, NEW m
  PROVE  /\ Append(s, x) \in Seq(S)
         /\ Occurs(m, Append(s, x)) => Occurs(m, s) \/ m = x
<1>1. Append(s, x) \in Seq(S) /\ Len(Append(s, x)) = Len(s) + 1 /\ Len(s) \in Nat
  OBVIOUS
<1>2. ASSUME NEW i \in 1 .. Len(Append(s, x)), Append(s, x)[i] = m
      PROVE  Occurs(m, s) \/ m = x
  <2>1. CASE i = Len(s) + 1
    BY <1>2, <2>1
  <2>2. CASE i \in 1 .. Len(s)
    <3>1. s[i] = m
      BY <1>2, <2>2
    <3>2. QED BY <2>2, <3>1 DEF Occurs
  <2>3. QED BY <1>1, <2>1, <2>2
<1>3. QED BY <1>1, <1>2 DEF Occurs

LEMMA OccursInConcatenation ==
  ASSUME NEW S, NEW s \in Seq(S), NEW t \in Seq(S), NEW m
  PROVE  /\ s \o t \in Seq(S)
         /\ Occurs(m, s \o t) => Occurs(m, s) \/ Occurs(m, t)
<1>1. /\ s \o t \in Seq(S) /\ Len(s \o t) = Len(s) + Len(t)
      /\ Len(s) \in Nat /\ Len(t) \in Nat
  OBVIOUS
<1>2. ASSUME NEW i \in 1 .. Len(s \o t), (s \o t)[i] = m
      PROVE  Occurs(m, s) \/ Occurs(m, t)
  <2>1. CASE i \in 1 .. Len(s)
    <3>1. s[i] = m
      BY <1>2, <2>1
    <3>2. QED BY <2>1, <3>1 DEF Occurs
  <2>2. CASE i > Len(s)
    <3>1. i - Len(s) \in 1 .. Len(t)
      BY <1>1, <2>2
    <3>2. t[i - Len(s)] = m
      BY <1>1, <1>2, <2>2
    <3>3. QED BY <3>1, <3>2 DEF Occurs
  <2>3. QED BY <1>1, <2>1, <2>2
<1>3. QED BY <1>1, <1>2 DEF Occurs

\* As many times the same message.
LEMMA OccursInRepetition ==
  ASSUME NEW S, NEW x \in S, NEW n \in Nat, NEW m
  PROVE  /\ [i \in 1 .. n |-> x] \in Seq(S)
         /\ Occurs(m, [i \in 1 .. n |-> x]) => m = x /\ n > 0
<1>1. [i \in 1 .. n |-> x] \in Seq(S) /\ Len([i \in 1 .. n |-> x]) = n
  OBVIOUS
<1>2. QED BY <1>1 DEF Occurs

-----------------------------------------------------------------------------
(* The types.                                                              *)

LEMMA SendDestroyTypes ==
  ASSUME LooseTypes, NEW c \in LooseClient, NEW times \in Nat,
         SendDestroy(c, times)
  PROVE  /\ client' \in LooseClient
         /\ commands' \in Seq(Command)
         /\ \A m : Occurs(m, commands') => Occurs(m, commands) \/ m = "destroy"
<1>1. Destroys(c, times) \in Nat
  BY DEF Destroys
<1>2. "destroy" \in Command
  BY DEF Command
<1>3. client' \in LooseClient
  <2> DEFINE p == IF Blocks(c, times) THEN "stuck" ELSE c.phase
             n == c.destroy + Destroys(c, times)
  <2>1. n \in Nat
    BY <1>1 DEF LooseClient
  <2>2. p \in {"starting", "running", "stuck", "closing", "done"}
    BY DEF LooseClient
  <2>3. client' = [c EXCEPT !.metrics = FALSE, !.destroy = n, !.phase = p]
    BY DEF SendDestroy
  <2> HIDE DEF n, p
  <2>4. QED BY <2>1, <2>2, <2>3 DEF LooseClient
<1>4. ASSUME NEW m
      PROVE  /\ commands' \in Seq(Command)
             /\ Occurs(m, commands') => Occurs(m, commands) \/ m = "destroy"
  <2> DEFINE t == [i \in 1 .. Destroys(c, times) |-> "destroy"]
  <2>1. t \in Seq(Command) /\ (Occurs(m, t) => m = "destroy")
    BY <1>1, <1>2, OccursInRepetition
  <2> HIDE DEF t
  <2>2. commands' = commands \o t
    BY DEF SendDestroy, t
  <2>3. commands \in Seq(Command)
    BY DEF LooseTypes
  <2>4. QED BY <2>1, <2>2, <2>3, OccursInConcatenation
<1>5. QED BY <1>3, <1>4

\* A command that is sent or handled, an event that is published or received.
LEMMA SendTypes ==
  ASSUME LooseTypes, NEW x \in Command, Send(x)
  PROVE  /\ commands' \in Seq(Command)
         /\ \A m : Occurs(m, commands') => Occurs(m, commands) \/ m = x
BY OccursInAppend DEF Send, LooseTypes

LEMMA PublishTypes ==
  ASSUME LooseTypes, NEW x \in Event, Publish(x)
  PROVE  /\ events' \in Seq(Event)
         /\ \A m : Occurs(m, events') => Occurs(m, events) \/ m = x
BY OccursInAppend DEF Publish, LooseTypes

LEMMA ReceivedTypes ==
  ASSUME LooseTypes, NEW x, Received(x)
  PROVE  /\ events' \in Seq(Event)
         /\ \A m : Occurs(m, events') => Occurs(m, events)
         /\ Occurs(x, events)
BY OccursInTail DEF Received, LooseTypes

LEMMA HandlesTypes ==
  ASSUME LooseTypes, NEW X, Handles(X)
  PROVE  /\ commands' \in Seq(Command)
         /\ \A m : Occurs(m, commands') => Occurs(m, commands)
         /\ Head(commands) \in X /\ Head(commands) \in Command
         /\ Occurs(Head(commands), commands)
BY OccursInTail DEF Handles, LooseTypes

\* Commands that the window thread sends in answer to COMPLETE_DESTRUCTION.
LEMMA OnDestroyedTypes ==
  ASSUME LooseTypes, OnDestroyed
  PROVE  /\ client' \in LooseClient
         /\ commands' \in Seq(Command)
         /\ \A m : Occurs(m, commands') => Occurs(m, commands) \/ m = "terminate"
<1>1. client.destroy \in Nat /\ client' \in LooseClient
  <2> DEFINE n == client.terminate + client.destroy
  <2>1. n \in Nat /\ client.destroy \in Nat
    BY DEF LooseTypes, LooseClient
  <2>2. client' = [client EXCEPT !.destroy = 0, !.terminate = n]
    BY DEF OnDestroyed
  <2> HIDE DEF n
  <2>3. QED BY <2>1, <2>2 DEF LooseTypes, LooseClient
<1>2. ASSUME NEW m
      PROVE  /\ commands' \in Seq(Command)
             /\ Occurs(m, commands') => Occurs(m, commands) \/ m = "terminate"
  <2> DEFINE t == [i \in 1 .. client.destroy |-> "terminate"]
  <2>1. "terminate" \in Command
    BY DEF Command
  <2>2. t \in Seq(Command) /\ (Occurs(m, t) => m = "terminate")
    BY <1>1, <2>1, OccursInRepetition
  <2> HIDE DEF t
  <2>3. commands' = commands \o t /\ commands \in Seq(Command)
    BY DEF OnDestroyed, LooseTypes, t
  <2>4. QED BY <2>2, <2>3, OccursInConcatenation
<1>3. QED BY <1>1, <1>2

\* The worker sends a record and a ping.
LEMMA ReplayRecordTypes ==
  ASSUME LooseTypes, ReplayRecord
  PROVE  /\ commands' \in Seq(Command)
         /\ \A m : Occurs(m, commands') => Occurs(m, commands) \/ m \in {"record", "ping"}
<1>1. <<"record", "ping">> \in Seq(Command)
  BY DEF Command
<1>2. ASSUME NEW m, Occurs(m, <<"record", "ping">>) PROVE m \in {"record", "ping"}
  BY <1>2 DEF Occurs
<1>3. QED BY <1>1, <1>2, OccursInConcatenation DEF ReplayRecord, LooseTypes

\* Opening a dialog and closing the last one keep a sequence of dialogs.
LEMMA DialogTypes ==
  ASSUME LooseTypes
  PROVE  /\ \A d \in Dialog : Opened(d) \in Seq(Dialog)
         /\ service.dialogs # <<>> => Closed(service.dialogs) \in Seq(Dialog)
<1>1. service.dialogs \in Seq(Dialog)
  BY DEF LooseTypes, Service
<1>2. \A d \in Dialog : Opened(d) \in Seq(Dialog)
  BY <1>1 DEF Opened
<1>3. ASSUME service.dialogs # <<>> PROVE Closed(service.dialogs) \in Seq(Dialog)
  BY <1>1, <1>3 DEF Closed, Front
<1>4. QED BY <1>2, <1>3

\* What a step of the window thread or the user leaves alone.
WindowStep ==
  /\ client' \in LooseClient
  /\ UNCHANGED <<service, replay>>
  /\ commands' \in Seq(Command)
  /\ events' \in Seq(Event)
  /\ ~Occurs("initialize", commands) => ~Occurs("initialize", commands')
  /\ Occurs("terminate", commands') =>
       Occurs("terminate", commands) \/ Occurs("destroyed", events)
  /\ Occurs("destroyed", events') => Occurs("destroyed", events)

LEMMA UserOnWindowTypes ==
  ASSUME LooseTypes, Minimize \/ Restore \/ Work \/ Close
  PROVE  WindowStep
<1>1. client \in LooseClient /\ commands \in Seq(Command) /\ events \in Seq(Event)
  BY DEF LooseTypes
<1>2. PICK x \in {"deactivate", "activate", "edit", "keyframe", "fail", "isDirty"} : Send(x)
  BY DEF Minimize, Restore, Work, Close
<1>3. /\ commands' \in Seq(Command)
      /\ \A m : Occurs(m, commands') => Occurs(m, commands) \/ m = x
  <2>1. x \in Command
    BY DEF Command
  <2>2. QED BY <1>2, <2>1, SendTypes
<1>4. client' \in LooseClient
  <2>1. CASE Minimize BY <1>1, <2>1 DEF Minimize, LooseClient
  <2>2. CASE Restore BY <1>1, <2>2 DEF Restore, LooseClient
  <2>3. CASE Work BY <1>1, <2>3 DEF Work
  <2>4. CASE Close
    <3>1. client.closes + 1 \in Nat
      BY <1>1 DEF LooseClient
    <3>2. QED BY <1>1, <2>4, <3>1 DEF Close, LooseClient
  <2>5. QED BY <2>1, <2>2, <2>3, <2>4
<1>5. UNCHANGED <<service, events, replay>>
  BY DEF Minimize, Restore, Work, Close
<1>6. QED
  BY <1>1, <1>3, <1>4, <1>5 DEF WindowStep

\* The answers that lead to sending DESTROY.
LEMMA SendDestroyStep ==
  ASSUME LooseTypes, NEW x, Received(x), NEW c \in LooseClient, NEW times \in Nat,
         SendDestroy(c, times)
  PROVE  WindowStep
BY SendDestroyTypes, ReceivedTypes DEF WindowStep, Received

\* An answer that sends one command, or none.
LEMMA AnswerStep ==
  ASSUME LooseTypes, NEW x, Received(x), client' \in LooseClient,
         NEW y \in Command \ {"initialize", "terminate"},
         Send(y) \/ UNCHANGED commands
  PROVE  WindowStep
<1>1. commands \in Seq(Command)
  BY DEF LooseTypes
<1>2. /\ commands' \in Seq(Command)
      /\ \A m : Occurs(m, commands') => Occurs(m, commands) \/ m = y
  BY <1>1, SendTypes
<1>3. QED BY <1>2, ReceivedTypes DEF WindowStep, Received

LEMMA WindowThreadTypes ==
  ASSUME LooseTypes, WindowThread
  PROVE  WindowStep
<1>1. client \in LooseClient /\ commands \in Seq(Command) /\ events \in Seq(Event)
  BY DEF LooseTypes
<1>2. CASE OnInitialized
  <2>1. client' \in LooseClient
    BY <1>1, <1>2 DEF OnInitialized, LooseClient
  <2>2. "activate" \in Command \ {"initialize", "terminate"}
    BY DEF Command
  <2>3. QED BY <1>2, <2>1, <2>2, AnswerStep DEF OnInitialized
<1>3. CASE OnDirty
  <2>1. client' \in LooseClient
    BY <1>1, <1>3 DEF OnDirty, LooseClient
  <2>2. "confirm" \in Command \ {"initialize", "terminate"}
    BY DEF Command
  <2>3. QED BY <1>3, <2>1, <2>2, AnswerStep DEF OnDirty
<1>4. CASE OnClean
  BY <1>1, <1>4, SendDestroyStep DEF OnClean
<1>5. CASE OnSave
  <2>1. client' \in LooseClient
    <3>1. client.saved + 1 \in Nat
      BY <1>1 DEF LooseClient
    <3>2. QED BY <1>1, <1>5, <3>1 DEF OnSave, LooseClient
  <2>2. "getURI" \in Command \ {"initialize", "terminate"}
    BY DEF Command
  <2>3. QED BY <1>5, <2>1, <2>2, AnswerStep DEF OnSave
<1>6. CASE OnDiscard
  <2>1. [client EXCEPT !.confirm = FALSE] \in LooseClient
    BY <1>1 DEF LooseClient
  <2>2. "getURI" \in Command \ {"initialize", "terminate"}
    BY DEF Command
  <2>3. CASE client.confirm
    BY <1>6, <2>1, <2>3, SendDestroyStep DEF OnDiscard
  <2>4. CASE ~client.confirm
    BY <1>1, <1>6, <2>2, <2>4, AnswerStep DEF OnDiscard
  <2>5. QED BY <2>3, <2>4
<1>7. CASE OnURI
  <2>1. client' \in LooseClient
    BY <1>1, <1>7 DEF OnURI, LooseClient
  <2>2. "saveFile" \in Command \ {"initialize", "terminate"}
    BY DEF Command
  <2>3. QED BY <1>7, <2>1, <2>2, AnswerStep DEF OnURI
<1>8. CASE OnSaved
  <2>1. [client EXCEPT !.saved = 0] \in LooseClient /\ client.saved \in Nat
    BY <1>1 DEF LooseClient
  <2>2. "getURI" \in Command \ {"initialize", "terminate"}
    BY DEF Command
  <2>3. CASE client.saved > 0
    BY <1>8, <2>1, <2>3, SendDestroyStep DEF OnSaved
  <2>4. CASE ~(client.saved > 0)
    BY <1>1, <1>8, <2>2, <2>4, AnswerStep DEF OnSaved
  <2>5. QED BY <2>3, <2>4
<1>9. CASE OnDestroyed
  <2>1. Received("destroyed")
    BY <1>9 DEF OnDestroyed
  <2>2. QED BY <1>9, <2>1, OnDestroyedTypes, ReceivedTypes DEF WindowStep, Received
<1>10. CASE OnTerminated
  <2>1. client' \in LooseClient
    BY <1>1, <1>10 DEF OnTerminated, LooseClient
  <2>2. "getURI" \in Command \ {"initialize", "terminate"}
    BY DEF Command
  <2>3. QED BY <1>10, <2>1, <2>2, AnswerStep DEF OnTerminated
<1>11. CASE Join
  BY <1>1, <1>11 DEF Join, LooseClient, WindowStep
<1>12. QED
  BY <1>2, <1>3, <1>4, <1>5, <1>6, <1>7, <1>8, <1>9, <1>10, <1>11 DEF WindowThread

\* What a step of the application thread, or an answer to a dialog, does.
ServiceStep ==
  /\ UNCHANGED client
  /\ service' \in Service
  /\ replay' \in [left : Nat, waiting : BOOLEAN]
  /\ commands' \in Seq(Command)
  /\ events' \in Seq(Event)
  /\ ~Occurs("initialize", commands) =>
       /\ ~Occurs("initialize", commands')
       /\ service.project = "none" => service'.project = "none"
  /\ Occurs("terminate", commands') => Occurs("terminate", commands)
  /\ Occurs("destroyed", events') =>
       Occurs("destroyed", events) \/ service'.project = "none"
  /\ ~service'.running => ~service.running \/ Occurs("terminate", commands)

\* Drawing, receiving and the dialogs change neither the project nor running.
LEMMA DialogStep ==
  ASSUME LooseTypes,
         \/ Draw \/ EndReceive \/ FinishRecovery
         \/ AnswerConfirm \/ AnswerError \/ AcceptRecovery \/ RefuseRecovery
  PROVE  ServiceStep
<1>1. /\ service \in Service /\ commands \in Seq(Command) /\ events \in Seq(Event)
      /\ replay \in [left : Nat, waiting : BOOLEAN]
  BY DEF LooseTypes
<1>2. /\ service' \in Service
      /\ service'.project = service.project /\ service'.running = service.running
  <2>1. CASE Draw BY <1>1, <2>1 DEF Draw, Service
  <2>2. CASE EndReceive BY <1>1, <2>2 DEF EndReceive, Service
  <2>3. CASE FinishRecovery
    <3> DEFINE none == <<>>
    <3>1. none \in Seq(Dialog)
      OBVIOUS
    <3>2. service' = [service EXCEPT !.step = "receive", !.dialogs = none]
      BY <2>3 DEF FinishRecovery
    <3> HIDE DEF none
    <3>3. QED BY <1>1, <3>1, <3>2 DEF Service
  <2>4. CASE AcceptRecovery BY <1>1, <2>4 DEF AcceptRecovery, Service
  <2>5. CASE AnswerConfirm \/ AnswerError \/ RefuseRecovery
    <3>1. /\ service.dialogs # <<>>
          /\ service' = [service EXCEPT !.step = "receive",
                                        !.dialogs = Closed(service.dialogs)]
      BY <2>5 DEF AnswerConfirm, AnswerError, RefuseRecovery, Answer
    <3>2. QED BY <1>1, <3>1, DialogTypes DEF Service
  <2>6. QED BY <2>1, <2>2, <2>3, <2>4, <2>5
<1>3. UNCHANGED <<client, commands, replay>>
  BY DEF Draw, EndReceive, FinishRecovery, AnswerConfirm, AnswerError, AcceptRecovery,
         RefuseRecovery, Answer
<1>4. /\ events' \in Seq(Event)
      /\ Occurs("destroyed", events') => Occurs("destroyed", events)
  <2>1. CASE UNCHANGED events
    BY <1>1, <2>1
  <2>2. CASE Publish("save") \/ Publish("discard")
    <3>1. "save" \in Event /\ "discard" \in Event
      BY DEF Event
    <3>2. QED BY <2>2, <3>1, PublishTypes
  <2>3. QED
    BY <2>1, <2>2 DEF Draw, EndReceive, FinishRecovery, AnswerConfirm, AnswerError,
                      AcceptRecovery, RefuseRecovery
<1>5. QED BY <1>1, <1>2, <1>3, <1>4 DEF ServiceStep

\* A handler that publishes events other than COMPLETE_DESTRUCTION and touches
\* at most the project's activation, its dirty flag and the dialogs.
LEMMA HandlerStep ==
  ASSUME LooseTypes, NEW X, Handles(X),
         service' \in Service, events' \in Seq(Event),
         replay' \in [left : Nat, waiting : BOOLEAN],
         service.project = "none" => service'.project = "none",
         service'.running = service.running,
         Occurs("destroyed", events') => Occurs("destroyed", events)
  PROVE  ServiceStep
BY HandlesTypes DEF ServiceStep, Handles

LEMMA HandlerTypes ==
  ASSUME LooseTypes,
         HandleActivation \/ HandleQuery \/ HandleEdit \/ HandleDialog \/ HandleSaveFile
  PROVE  ServiceStep
<1>1. /\ service \in Service /\ commands \in Seq(Command) /\ events \in Seq(Event)
      /\ replay \in [left : Nat, waiting : BOOLEAN]
  BY DEF LooseTypes
<1>2. CASE HandleActivation
  <2>1. /\ service' \in Service
        /\ service.project = "none" => service'.project = "none"
        /\ service'.running = service.running
    BY <1>1, <1>2 DEF HandleActivation, HasProject, Service
  <2>2. PICK X : Handles(X)
    BY <1>2 DEF HandleActivation
  <2>3. UNCHANGED <<events, replay>>
    BY <1>2 DEF HandleActivation
  <2>4. QED BY <1>1, <2>1, <2>2, <2>3, HandlerStep
<1>3. CASE HandleQuery
  <2>1. Answers(Head(commands)) \in Seq(Event)
        /\ ~Occurs("destroyed", Answers(Head(commands)))
    <3>1. Answers(Head(commands)) \in {<<>>, <<"uri">>, <<"dirty">>, <<"clean">>}
      BY DEF Answers
    <3>2. /\ <<>> \in Seq(Event) /\ <<"uri">> \in Seq(Event)
          /\ <<"dirty">> \in Seq(Event) /\ <<"clean">> \in Seq(Event)
      BY DEF Event
    <3>3. /\ ~Occurs("destroyed", <<>>) /\ ~Occurs("destroyed", <<"uri">>)
          /\ ~Occurs("destroyed", <<"dirty">>) /\ ~Occurs("destroyed", <<"clean">>)
      BY DEF Occurs
    <3>4. QED BY <3>1, <3>2, <3>3
  <2>2. /\ events' \in Seq(Event)
        /\ Occurs("destroyed", events') => Occurs("destroyed", events)
    <3>1. events' = events \o Answers(Head(commands))
      BY <1>3 DEF HandleQuery
    <3>2. QED BY <1>1, <2>1, <3>1, OccursInConcatenation
  <2>3. replay' \in [left : Nat, waiting : BOOLEAN]
    BY <1>1, <1>3 DEF HandleQuery
  <2>4. PICK X : Handles(X)
    BY <1>3 DEF HandleQuery
  <2>5. UNCHANGED service
    BY <1>3 DEF HandleQuery
  <2>6. QED BY <1>1, <2>2, <2>3, <2>4, <2>5, HandlerStep
<1>4. CASE HandleEdit
  <2>1. /\ service' \in Service
        /\ service'.project = service.project /\ service'.running = service.running
    BY <1>1, <1>4 DEF HandleEdit, Service
  <2>2. PICK X : Handles(X)
    BY <1>4 DEF HandleEdit
  <2>3. UNCHANGED <<events, replay>>
    BY <1>4 DEF HandleEdit
  <2>4. QED BY <1>1, <2>1, <2>2, <2>3, HandlerStep
<1>5. CASE HandleDialog
  <2>1. PICK d \in Dialog : service' = [service EXCEPT !.dialogs = Opened(d)]
    BY <1>5 DEF HandleDialog, Dialog
  <2>2. /\ service' \in Service
        /\ service'.project = service.project /\ service'.running = service.running
    BY <1>1, <2>1, DialogTypes DEF Service
  <2>3. PICK X : Handles(X)
    BY <1>5 DEF HandleDialog
  <2>4. UNCHANGED <<events, replay>>
    BY <1>5 DEF HandleDialog
  <2>5. QED BY <1>1, <2>2, <2>3, <2>4, HandlerStep
<1>6. CASE HandleSaveFile
  <2>1. "saved" \in Event /\ "error" \in Dialog
    BY DEF Event, Dialog
  <2>2. /\ events' \in Seq(Event)
        /\ Occurs("destroyed", events') => Occurs("destroyed", events)
    BY <1>6, <2>1, PublishTypes DEF HandleSaveFile
  <2>3. \/ UNCHANGED service
        \/ service' = [service EXCEPT !.dirty = FALSE]
        \/ \E dirty \in {service.dirty, FALSE} :
             service' = [service EXCEPT !.dirty = dirty, !.dialogs = Opened("error")]
    BY <1>6 DEF HandleSaveFile
  <2>4. /\ service' \in Service
        /\ service'.project = service.project /\ service'.running = service.running
    <3>1. CASE UNCHANGED service
      BY <1>1, <3>1
    <3>2. CASE service' = [service EXCEPT !.dirty = FALSE]
      BY <1>1, <3>2 DEF Service
    <3>3. ASSUME NEW dirty \in {service.dirty, FALSE},
                 service' = [service EXCEPT !.dirty = dirty, !.dialogs = Opened("error")]
          PROVE  /\ service' \in Service
                 /\ service'.project = service.project /\ service'.running = service.running
      <4>1. dirty \in BOOLEAN
        BY <1>1 DEF Service
      <4>2. Opened("error") \in Seq(Dialog)
        BY <2>1, DialogTypes
      <4>3. QED BY <1>1, <3>3, <4>1, <4>2 DEF Service
    <3>4. QED BY <2>3, <3>1, <3>2, <3>3
  <2>5. PICK X : Handles(X)
    BY <1>6 DEF HandleSaveFile
  <2>6. UNCHANGED replay
    BY <1>6 DEF HandleSaveFile
  <2>7. QED BY <1>1, <2>2, <2>4, <2>5, <2>6, HandlerStep
<1>7. QED BY <1>2, <1>3, <1>4, <1>5, <1>6

LEMMA EndTypes ==
  ASSUME LooseTypes, HandleInitialize \/ HandleDestroy \/ HandleTerminate \/ ReplayRecord
  PROVE  ServiceStep
<1>1. /\ service \in Service /\ commands \in Seq(Command) /\ events \in Seq(Event)
      /\ replay \in [left : Nat, waiting : BOOLEAN]
  BY DEF LooseTypes
<1>2. /\ "initialized" \in Event /\ "destroyed" \in Event /\ "terminated" \in Event
      /\ "recovery" \in Dialog
  BY DEF Event, Dialog
<1>3. CASE HandleInitialize
  <2>1. Head(commands) = "initialize"
    BY <1>3 DEF HandleInitialize, Handles
  <2>2. Occurs("initialize", commands)
    BY <1>3, <2>1, HandlesTypes DEF HandleInitialize
  <2>3. service' \in Service /\ service'.running = service.running
    BY <1>1, <1>2, <1>3, DialogTypes DEF HandleInitialize, Service
  <2>4. QED
    BY <1>1, <1>2, <1>3, <2>2, <2>3, HandlesTypes, PublishTypes
    DEF HandleInitialize, Handles, ServiceStep
<1>4. CASE HandleDestroy
  <2>1. service' \in Service /\ service'.running = service.running
        /\ service'.project = "none"
    BY <1>1, <1>4 DEF HandleDestroy, Service
  <2>2. QED
    BY <1>1, <1>2, <1>4, <2>1, HandlesTypes, PublishTypes
    DEF HandleDestroy, Handles, ServiceStep
<1>5. CASE HandleTerminate
  <2>1. service' \in Service /\ service'.project = service.project
    BY <1>1, <1>5 DEF HandleTerminate, Service
  <2>2. Occurs("terminate", commands)
    BY <1>5, HandlesTypes DEF HandleTerminate
  <2>3. QED
    BY <1>1, <1>2, <1>5, <2>1, <2>2, HandlesTypes, PublishTypes
    DEF HandleTerminate, Handles, ServiceStep
<1>6. CASE ReplayRecord
  <2>1. replay' \in [left : Nat, waiting : BOOLEAN]
    <3>1. replay.left \in Nat /\ replay.left > 0
      BY <1>1, <1>6 DEF ReplayRecord
    <3>2. replay.left - 1 \in Nat
      BY <3>1
    <3>3. QED BY <1>6, <3>2 DEF ReplayRecord
  <2>2. UNCHANGED <<client, service, events>>
    BY <1>6 DEF ReplayRecord
  <2>3. /\ commands' \in Seq(Command)
        /\ Occurs("initialize", commands') => Occurs("initialize", commands)
        /\ Occurs("terminate", commands') => Occurs("terminate", commands)
    BY <1>6, ReplayRecordTypes
  <2>4. QED
    BY <1>1, <2>1, <2>2, <2>3 DEF ServiceStep
<1>7. QED BY <1>3, <1>4, <1>5, <1>6

-----------------------------------------------------------------------------
(* The invariant.                                                          *)

LEMMA InitIInv == Init => IInv
<1> SUFFICES ASSUME Init PROVE IInv
  OBVIOUS
<1>1. client \in LooseClient
  BY DEF Init, LooseClient
<1>2. service \in Service
  BY DEF Init, Service
<1>3. commands \in Seq(Command) /\ events \in Seq(Event)
  BY DEF Init, Command, Event
<1>4. replay \in [left : Nat, waiting : BOOLEAN]
  <2>1. replay \in [left : 0 .. Records, waiting : {FALSE}]
    BY DEF Init
  <2>2. \A n \in 0 .. Records : n \in Nat
    BY BoundsAssumption
  <2>3. QED BY <2>1, <2>2
<1>5. Booting
  BY DEF Init, Booting
<1>6. QED BY <1>1, <1>2, <1>3, <1>4, <1>5 DEF IInv, LooseTypes

\* Only drawing and handling INITIALIZE can happen at the start.
LEMMA BootingIInv ==
  ASSUME LooseTypes, Booting, Next
  PROVE  IInv'
<1>1. Head(commands) = "initialize" /\ commands # <<>> /\ Tail(commands) = <<>>
  BY DEF Booting
<1>2. Draw \/ HandleInitialize
  BY <1>1 DEF Booting, Next, User, WindowThread, ApplicationThread, Minimize, Restore,
     Work, Close, Idle, AnswerConfirm, AnswerError, AcceptRecovery, RefuseRecovery, Answer,
     OnInitialized, OnDirty, OnClean, OnSave, OnDiscard, OnURI, OnSaved, OnDestroyed,
     OnTerminated, Join, Received, ReplayRecord, FinishRecovery, EndReceive,
     HandleActivation, HandleQuery, HandleEdit, HandleDialog, HandleSaveFile,
     HandleDestroy, HandleTerminate, Handles
<1>3. ServiceStep
  BY <1>2, DialogStep, EndTypes
<1>4. LooseTypes'
  BY <1>3 DEF ServiceStep, LooseTypes
<1>5. CASE Draw
  <2>1. service' = [service EXCEPT !.step = "receive"] /\ UNCHANGED <<client, commands, events>>
    BY <1>5 DEF Draw
  <2>2. Booting'
    BY <2>1 DEF Booting, LooseTypes, Service
  <2>3. QED BY <1>4, <2>2 DEF IInv
<1>6. CASE HandleInitialize
  <2>1. commands' = <<>> /\ events' = <<"initialized">>
    BY <1>1, <1>6 DEF HandleInitialize, Handles, Publish, Booting
  <2>2. ~Occurs("initialize", commands') /\ ~Occurs("terminate", commands')
        /\ ~Occurs("destroyed", events')
    BY <2>1 DEF Occurs
  <2>3. service'.running
    BY <1>6 DEF HandleInitialize, LooseTypes, Service, Booting
  <2>4. Booted'
    BY <2>2, <2>3 DEF Booted, Occurs
  <2>5. QED BY <1>4, <2>4 DEF IInv
<1>7. QED BY <1>2, <1>5, <1>6

LEMMA BootedIInv ==
  ASSUME LooseTypes, Booted, Next
  PROVE  IInv'
<1>1. WindowStep \/ ServiceStep
  BY UserOnWindowTypes, WindowThreadTypes, DialogStep, HandlerTypes, EndTypes
  DEF Next, User, ApplicationThread
<1>2. LooseTypes'
  BY <1>1 DEF WindowStep, ServiceStep, LooseTypes
<1>3. Booted'
  <2>1. CASE WindowStep
    BY <2>1 DEF WindowStep, Booted, Occurs
  <2>2. CASE ServiceStep
    BY <2>2 DEF ServiceStep, Booted, Occurs
  <2>3. QED BY <1>1, <2>1, <2>2
<1>4. QED BY <1>2, <1>3 DEF IInv

LEMMA NextIInv == IInv /\ [Next]_vars => IInv'
<1> SUFFICES ASSUME IInv, [Next]_vars PROVE IInv'
  OBVIOUS
<1>1. CASE Next
  BY <1>1, BootingIInv, BootedIInv DEF IInv
<1>2. CASE UNCHANGED vars
  BY <1>2 DEF vars, IInv, LooseTypes, Booting, Booted, Occurs
<1>3. QED BY <1>1, <1>2

\* The libraries are shut down (TERMINATE ends the run loop) only after the
\* project that draws with them is destroyed, whatever the user does and however
\* the two streams are interleaved.
THEOREM TerminatesAfterDestroyAlways == Spec => []TerminatesAfterDestroy
<1>1. IInv => TerminatesAfterDestroy
  BY DEF IInv, Booting, Booted, TerminatesAfterDestroy
<1>2. QED BY <1>1, InitIInv, NextIInv, PTL DEF Spec

-----------------------------------------------------------------------------
(* Quitting with unsaved changes.  The question whether to save travels as *)
(* one message at a time: a command, an event or the dialog that asks it.  *)

None(stream, X) == \A i \in 1 .. Len(stream) : stream[i] \notin X
Single(stream, X) ==
  \A i, j \in 1 .. Len(stream) : stream[i] \in X /\ stream[j] \in X => i = j
\* Every edit is ahead of the request to quit.
EditsLead(stream) ==
  \A i, j \in 1 .. Len(stream) : stream[i] = "edit" /\ stream[j] = "isDirty" => i < j

Edit == {"edit"}
Request == {"isDirty"}
Questions == {"isDirty", "confirm", "getURI", "saveFile"}
Late == {"confirm", "getURI", "saveFile", "destroy"}
Destruction == {"destroy"}
Foreign == {"initialize", "fail", "keyframe", "record"}
Replies == {"dirty", "save", "uri"}
Outcomes == {"clean", "discard", "saved"}
Sorts == {Edit, Request, Questions, Late, Destruction, Foreign, Replies, Outcomes}
Asking == <<"confirm">>

\* The question is in one place at most.
OneQuestion ==
  /\ Single(commands, Questions) /\ Single(events, Replies)
  /\ service.dialogs \in {<<>>, Asking}
  /\ \/ None(events, Replies) /\ service.dialogs = <<>>
     \/ None(commands, Questions) /\ service.dialogs = <<>>
     \/ None(commands, Questions) /\ None(events, Replies)

\* Until the user asks to quit, and until the edits are handled that were made
\* before, nobody has asked and nothing was decided.
Unasked ==
  /\ None(commands, Late) /\ None(events, Replies) /\ None(events, Outcomes)
  /\ service.dialogs = <<>> /\ HasProject
EditsFirst ==
  /\ client.closes = 0 => None(commands, Request)
  /\ client.closes = 0 \/ ~None(commands, Edit) => Unasked
  /\ EditsLead(commands)

\* Once it is decided nothing is lost but by choice.
Decided == ~None(events, Outcomes) \/ ~None(commands, Destruction) \/ ~HasProject
Settled == Decided => ~unsaved \/ discarded

Undisturbed == None(commands, Foreign) /\ service.step # "recover"
Marked == unsaved => service.dirty

Quitting == OneQuestion /\ EditsFirst /\ Settled /\ Undisturbed /\ Marked
Fresh == Booting /\ client.closes = 0 /\ service.dialogs = <<>> /\ ~unsaved
QInv == LooseTypes /\ (Fresh \/ Quitting)

-----------------------------------------------------------------------------
(* How a stream's messages change when it grows or shrinks.                *)

Fewer(s, t) ==
  /\ \A X \in Sorts : (None(s, X) => None(t, X)) /\ (Single(s, X) => Single(t, X))
  /\ EditsLead(s) => EditsLead(t)
Quiet(x) == \A X \in Sorts : x \notin X

LEMMA FewerInTail ==
  ASSUME NEW S, NEW s \in Seq(S), s # <<>>
  PROVE  /\ Fewer(s, Tail(s))
         /\ \A X : Head(s) \in X => ~None(s, X)
         /\ \A X : Head(s) \in X /\ Single(s, X) => None(Tail(s), X)
         /\ Head(s) = "isDirty" /\ EditsLead(s) => None(s, Edit)
<1> DEFINE t == Tail(s)
<1>1. /\ Len(t) = Len(s) - 1 /\ Len(s) \in Nat /\ Len(s) > 0 /\ Head(s) = s[1]
      /\ \A i \in 1 .. Len(t) : t[i] = s[i + 1]
  OBVIOUS
<1> HIDE DEF t
<1>2. \A i \in 1 .. Len(t) : i + 1 \in 1 .. Len(s) /\ i + 1 # 1
  BY <1>1
<1>3. \A X : (None(s, X) => None(t, X)) /\ (Single(s, X) => Single(t, X))
  <2> TAKE X
  <2>1. None(s, X) => None(t, X)
    BY <1>1, <1>2 DEF None
  <2>2. ASSUME Single(s, X), NEW i \in 1 .. Len(t), NEW j \in 1 .. Len(t),
               t[i] \in X, t[j] \in X
        PROVE  i = j
    <3>1. i + 1 = j + 1
      BY <1>1, <1>2, <2>2 DEF Single
    <3>2. QED BY <1>1, <3>1
  <2>3. QED BY <2>1, <2>2 DEF Single
<1>4. EditsLead(s) => EditsLead(t)
  <2> SUFFICES ASSUME EditsLead(s), NEW i \in 1 .. Len(t), NEW j \in 1 .. Len(t),
                      t[i] = "edit", t[j] = "isDirty"
               PROVE  i < j
    BY DEF EditsLead
  <2>1. i + 1 < j + 1
    BY <1>1, <1>2 DEF EditsLead
  <2>2. QED BY <1>1, <2>1
<1>5. 1 \in 1 .. Len(s)
  BY <1>1
<1>6. \A X : Head(s) \in X => ~None(s, X)
  BY <1>1, <1>5 DEF None
<1>7. \A X : Head(s) \in X /\ Single(s, X) => None(t, X)
  BY <1>1, <1>2, <1>5 DEF None, Single
<1>8. Head(s) = "isDirty" /\ EditsLead(s) => None(s, Edit)
  <2> SUFFICES ASSUME Head(s) = "isDirty", EditsLead(s), NEW i \in 1 .. Len(s), s[i] = "edit"
               PROVE  FALSE
    BY DEF None, Edit
  <2>1. i < 1
    BY <1>1, <1>5 DEF EditsLead
  <2>2. QED BY <1>1, <2>1
<1>9. QED BY <1>3, <1>4, <1>6, <1>7, <1>8 DEF Fewer, t

LEMMA NoneInAppend ==
  ASSUME NEW S, NEW s \in Seq(S), NEW x
  PROVE  /\ \A X : None(Append(s, x), X) <=> None(s, X) /\ x \notin X
         /\ \A X : None(s, X) \/ (Single(s, X) /\ x \notin X) => Single(Append(s, x), X)
         /\ EditsLead(s) /\ (x = "edit" => None(s, Request)) => EditsLead(Append(s, x))
<1> DEFINE t == Append(s, x)
           n == Len(s)
<1>1. /\ Len(t) = n + 1 /\ n \in Nat /\ t[n + 1] = x
      /\ \A i \in 1 .. n : t[i] = s[i]
  OBVIOUS
<1>2. 1 .. Len(s) = 1 .. n
  OBVIOUS
<1> HIDE DEF t, n
<1>3. \A i \in 1 .. Len(t) : i \in 1 .. n \/ i = n + 1
  BY <1>1
<1>4. \A i \in 1 .. n : i \in 1 .. Len(t) /\ i < n + 1
  BY <1>1
<1>5. n + 1 \in 1 .. Len(t)
  BY <1>1
<1>6. \A X : None(t, X) <=> None(s, X) /\ x \notin X
  <2> TAKE X
  <2>1. None(t, X) => None(s, X) /\ x \notin X
    BY <1>1, <1>2, <1>4, <1>5 DEF None
  <2>2. None(s, X) /\ x \notin X => None(t, X)
    BY <1>1, <1>2, <1>3 DEF None
  <2>3. QED BY <2>1, <2>2
<1>7. \A X : None(s, X) \/ (Single(s, X) /\ x \notin X) => Single(t, X)
  <2> SUFFICES ASSUME NEW X, None(s, X) \/ (Single(s, X) /\ x \notin X),
                      NEW i \in 1 .. Len(t), NEW j \in 1 .. Len(t), t[i] \in X, t[j] \in X
               PROVE  i = j
    BY DEF Single
  <2>1. CASE None(s, X)
    BY <1>1, <1>2, <1>3, <2>1 DEF None
  <2>2. CASE Single(s, X) /\ x \notin X
    BY <1>1, <1>2, <1>3, <2>2 DEF Single
  <2>3. QED BY <2>1, <2>2
<1>8. EditsLead(s) /\ (x = "edit" => None(s, Request)) => EditsLead(t)
  <2> SUFFICES ASSUME EditsLead(s), x = "edit" => None(s, Request),
                      NEW i \in 1 .. Len(t), NEW j \in 1 .. Len(t),
                      t[i] = "edit", t[j] = "isDirty"
               PROVE  i < j
    BY DEF EditsLead
  <2>1. CASE i \in 1 .. n /\ j \in 1 .. n
    BY <1>1, <1>2, <2>1 DEF EditsLead
  <2>2. CASE i \in 1 .. n /\ j = n + 1
    BY <1>4, <2>2
  <2>3. CASE i = n + 1 /\ j \in 1 .. n
    BY <1>1, <1>2, <2>3 DEF None, Request
  <2>4. CASE i = n + 1 /\ j = n + 1
    BY <1>1, <2>4
  <2>5. QED BY <1>3, <2>1, <2>2, <2>3, <2>4
<1>9. QED BY <1>6, <1>7, <1>8 DEF t

Repeated(x, n) == [i \in 1 .. n |-> x]

\* A message that is neither an edit nor the request, as often as it comes.
LEMMA NoneInRepetition ==
  ASSUME NEW S, NEW s \in Seq(S), NEW x \in S, x # "edit", NEW n \in Nat,
         NEW t, t = s \o Repeated(x, n)
  PROVE  /\ \A X : None(s, X) /\ x \notin X => None(t, X)
         /\ \A X : Single(s, X) /\ x \notin X => Single(t, X)
         /\ EditsLead(s) => EditsLead(t)
<1> DEFINE r == Repeated(x, n)
           m == Len(s)
<1>0. r \in Seq(S) /\ Len(r) = n
  BY DEF Repeated
<1>1. t = s \o r
  BY DEF Repeated
<1>2. \A i \in 1 .. n : r[i] = x
  BY DEF Repeated
<1> HIDE DEF r
<1>3. /\ Len(t) = m + n /\ m \in Nat
      /\ \A i \in 1 .. Len(t) : (i \in 1 .. m /\ t[i] = s[i]) \/ (i > m /\ t[i] = r[i - m])
  <2> DEFINE u == s \o r
  <2>1. /\ Len(u) = m + n /\ m \in Nat
        /\ \A i \in 1 .. Len(u) : (i \in 1 .. m /\ u[i] = s[i]) \/ (i > m /\ u[i] = r[i - m])
    BY ONLY <1>0, s \in Seq(S), n \in Nat
  <2>2. u = t
    BY <1>1
  <2> HIDE DEF u
  <2>3. QED BY <2>1, <2>2
<1>4. 1 .. Len(s) = 1 .. m
  OBVIOUS
<1> HIDE DEF m
<1>5. \A i \in 1 .. Len(t) : (i \in 1 .. m /\ t[i] = s[i]) \/ (i > m /\ t[i] = x)
  <2> TAKE i \in 1 .. Len(t)
  <2>1. i > m => i - m \in 1 .. n
    BY <1>3
  <2>2. QED BY <1>2, <1>3, <2>1
<1>6. \A X : None(s, X) /\ x \notin X => None(t, X)
  BY <1>4, <1>5 DEF None
<1>7. \A X : Single(s, X) /\ x \notin X => Single(t, X)
  BY <1>4, <1>5 DEF Single
<1>8. EditsLead(s) => EditsLead(t)
  <2> SUFFICES ASSUME EditsLead(s), NEW i \in 1 .. Len(t), NEW j \in 1 .. Len(t),
                      t[i] = "edit", t[j] = "isDirty"
               PROVE  i < j
    BY DEF EditsLead
  <2>1. i \in 1 .. m /\ t[i] = s[i]
    BY <1>5
  <2>2. CASE j \in 1 .. m /\ t[j] = s[j]
    BY <1>4, <2>1, <2>2 DEF EditsLead
  <2>3. CASE j > m
    BY <1>3, <2>1, <2>3
  <2>4. QED BY <1>5, <2>2, <2>3
<1>9. QED BY <1>6, <1>7, <1>8

LEMMA SortsKnown ==
  /\ "edit" \in Edit /\ "edit" \notin Request /\ "edit" \notin Questions /\ "edit" \notin Late
  /\ "edit" \notin Destruction /\ "edit" \notin Foreign
  /\ "isDirty" \in Request /\ "isDirty" \in Questions /\ "isDirty" \notin Edit
  /\ "isDirty" \notin Late /\ "isDirty" \notin Destruction /\ "isDirty" \notin Foreign
  /\ \A x \in {"confirm", "getURI", "saveFile"} :
       /\ x \in Questions /\ x \in Late /\ x \notin Edit /\ x \notin Request /\ x \notin Destruction
       /\ x \notin Foreign
  /\ "destroy" \in Destruction /\ "destroy" \in Late /\ "destroy" \notin Edit
  /\ "destroy" \notin Request /\ "destroy" \notin Questions /\ "destroy" \notin Foreign
  /\ \A x \in {"dirty", "save", "uri"} : x \in Replies /\ x \notin Outcomes
  /\ \A x \in {"clean", "discard", "saved"} : x \in Outcomes /\ x \notin Replies
  /\ \A x \in {"initialize", "fail", "keyframe", "record"} : x \in Foreign
  /\ \A x \in {"activate", "deactivate", "terminate", "ping", "destroyed", "terminated"} : Quiet(x)
BY DEF Edit, Request, Questions, Late, Destruction, Foreign, Replies, Outcomes, Sorts, Quiet

LEMMA SortsListed ==
  /\ Edit \in Sorts /\ Request \in Sorts /\ Questions \in Sorts /\ Late \in Sorts
  /\ Destruction \in Sorts /\ Foreign \in Sorts /\ Replies \in Sorts /\ Outcomes \in Sorts
BY DEF Sorts

\* What is said of the narrower sorts follows from the wider ones.
LEMMA SortsNested ==
  ASSUME NEW S, NEW s \in Seq(S)
  PROVE  /\ None(s, Late) => None(s, Destruction)
         /\ None(s, Questions) => None(s, Request)
         /\ None(s, Late) /\ None(s, Request) => None(s, Questions)
BY DEF None, Late, Destruction, Questions, Request

\* A quiet message changes nothing of a stream that matters.
LEMMA FewerInAppend ==
  ASSUME NEW S, NEW s \in Seq(S), NEW x, Quiet(x)
  PROVE  Fewer(s, Append(s, x))
<1>1. x # "edit"
  BY SortsKnown, SortsListed DEF Quiet
<1>2. QED BY <1>1, NoneInAppend DEF Fewer, Quiet
LEMMA FewerInRepetition ==
  ASSUME NEW S, NEW s \in Seq(S), NEW x \in S, Quiet(x), NEW n \in Nat,
         NEW t, t = s \o Repeated(x, n)
  PROVE  Fewer(s, t)
<1>1. x # "edit"
  BY SortsKnown, SortsListed DEF Quiet
<1>2. QED BY <1>1, NoneInRepetition DEF Fewer, Quiet
LEMMA FewerInSame == \A s : Fewer(s, s)
BY DEF Fewer

-----------------------------------------------------------------------------
(* Each step keeps the question in one place.                              *)

\* A step that asks, answers and decides nothing.
LEMMA QuietStep ==
  ASSUME Quitting, Fewer(commands, commands'), Fewer(events, events'),
         UNCHANGED service.dialogs, UNCHANGED client.closes, UNCHANGED unsaved,
         discarded => discarded', service.dirty = service'.dirty,
         HasProject <=> HasProject', service'.step # "recover"
  PROVE  Quitting'
<1>1. \A X \in Sorts : /\ (None(commands, X) => None(commands', X))
                       /\ (Single(commands, X) => Single(commands', X))
                       /\ (None(events, X) => None(events', X))
                       /\ (Single(events, X) => Single(events', X))
  BY DEF Fewer
<1>2. OneQuestion'
  BY <1>1, SortsListed DEF Quitting, OneQuestion
<1>3. EditsFirst'
  BY <1>1, SortsListed DEF Quitting, EditsFirst, Unasked, Fewer
<1>4. Settled'
  BY <1>1, SortsListed DEF Quitting, Settled, Decided
<1>5. Undisturbed' /\ Marked'
  BY <1>1, SortsListed DEF Quitting, Undisturbed, Marked
<1>6. QED BY <1>2, <1>3, <1>4, <1>5 DEF Quitting

\* A reply is answered by a question.
LEMMA ReplyAnswered ==
  ASSUME LooseTypes, Quitting, NEW reply \in Replies, Received(reply),
         NEW question \in {"confirm", "getURI", "saveFile"}, Send(question),
         UNCHANGED client.closes
  PROVE  Quitting'
<1>1. /\ commands \in Seq(Command) /\ events \in Seq(Event) /\ events # <<>>
      /\ Head(events) = reply /\ events' = Tail(events)
      /\ commands' = Append(commands, question)
      /\ UNCHANGED <<service, unsaved, discarded>>
  BY DEF LooseTypes, Received, Send
<1>2. /\ question \in Questions /\ question \notin Foreign /\ question \notin Destruction
      /\ question \notin Edit /\ question # "edit" /\ reply \notin Outcomes
  BY SortsKnown DEF Replies
<1>3. ~None(events, Replies) /\ Fewer(events, events')
      /\ (Single(events, Replies) => None(events', Replies))
  BY <1>1, FewerInTail
<1>4. /\ Single(events, Replies) /\ None(commands, Questions) /\ service.dialogs = <<>>
      /\ client.closes # 0 /\ None(commands, Edit) /\ EditsLead(commands)
  BY <1>3 DEF Quitting, OneQuestion, EditsFirst, Unasked
<1>5. /\ None(events', Replies) /\ Single(events', Replies)
      /\ None(events, Outcomes) => None(events', Outcomes)
  BY <1>3, <1>4, SortsListed DEF Fewer
<1>6. /\ \A X : None(commands', X) <=> None(commands, X) /\ question \notin X
      /\ Single(commands', Questions) /\ EditsLead(commands')
  BY <1>1, <1>2, <1>4, NoneInAppend
<1>7. OneQuestion'
  BY <1>1, <1>4, <1>5, <1>6 DEF OneQuestion
<1>8. EditsFirst'
  BY <1>2, <1>4, <1>6 DEF EditsFirst
<1>9. Settled'
  BY <1>1, <1>2, <1>5, <1>6 DEF Settled, Decided, Quitting, HasProject
<1>10. Undisturbed' /\ Marked'
  BY <1>1, <1>2, <1>6 DEF Undisturbed, Marked, Quitting
<1>11. QED BY <1>7, <1>8, <1>9, <1>10 DEF Quitting

\* An outcome is answered by the destruction.
LEMMA OutcomeAnswered ==
  ASSUME LooseTypes, Quitting, NEW outcome \in Outcomes, Received(outcome),
         NEW c \in LooseClient, NEW times \in Nat, SendDestroy(c, times),
         c.closes = client.closes
  PROVE  Quitting'
<1>1. /\ commands \in Seq(Command) /\ events \in Seq(Event) /\ events # <<>>
      /\ Head(events) = outcome /\ events' = Tail(events)
      /\ UNCHANGED <<service, unsaved, discarded>>
  BY DEF LooseTypes, Received
<1>2. client'.closes = client.closes
  BY DEF SendDestroy, LooseClient
<1>3. Destroys(c, times) \in Nat /\ "destroy" \in Command \ {"edit"}
  BY DEF Destroys, Command
<1>4. /\ \A X : None(commands, X) /\ "destroy" \notin X => None(commands', X)
      /\ \A X : Single(commands, X) /\ "destroy" \notin X => Single(commands', X)
      /\ EditsLead(commands) => EditsLead(commands')
  <2>1. PICK n \in Nat : n = Destroys(c, times)
    BY <1>3
  <2>2. PICK t : t = commands'
    OBVIOUS
  <2>3. t = commands \o Repeated("destroy", n)
    BY <2>1, <2>2 DEF SendDestroy, Repeated
  <2>4. "destroy" \in Command /\ "destroy" # "edit"
    BY <1>3
  <2>5. /\ \A X : None(commands, X) /\ "destroy" \notin X => None(t, X)
        /\ \A X : Single(commands, X) /\ "destroy" \notin X => Single(t, X)
        /\ EditsLead(commands) => EditsLead(t)
    BY <1>1, <2>3, <2>4, NoneInRepetition
  <2>6. QED BY <2>2, <2>5
<1>5. ~None(events, Outcomes) /\ Fewer(events, events')
  BY <1>1, FewerInTail
<1>6. /\ client.closes # 0 /\ None(commands, Edit) /\ EditsLead(commands)
      /\ (~unsaved \/ discarded)
  BY <1>5 DEF Quitting, EditsFirst, Unasked, Settled, Decided
<1>7. /\ (Single(events, Replies) => Single(events', Replies))
      /\ (None(events, Replies) => None(events', Replies))
  BY <1>5, SortsListed DEF Fewer
<1>8. /\ (Single(commands, Questions) => Single(commands', Questions))
      /\ (None(commands, Questions) => None(commands', Questions))
      /\ (None(commands, Foreign) => None(commands', Foreign))
      /\ None(commands', Edit) /\ EditsLead(commands')
  BY <1>4, <1>6, SortsKnown
<1>9. OneQuestion'
  BY <1>1, <1>7, <1>8 DEF OneQuestion, Quitting
<1>10. EditsFirst' /\ Settled'
  BY <1>1, <1>2, <1>6, <1>8 DEF EditsFirst, Settled
<1>11. Undisturbed' /\ Marked'
  BY <1>1, <1>8 DEF Undisturbed, Marked, Quitting
<1>12. QED BY <1>9, <1>10, <1>11 DEF Quitting

\* What the user does.
LEMMA UserQuits ==
  ASSUME LooseTypes, Quitting, MaxClose \in {0, 1}, Happens \subseteq {"edit", "minimize"},
         Minimize \/ Restore \/ Work \/ Close
  PROVE  Quitting'
<1>1. /\ commands \in Seq(Command) /\ client \in LooseClient /\ service.step # "recover"
      /\ UNCHANGED <<service, events, unsaved, discarded>>
  BY DEF LooseTypes, Minimize, Restore, Work, Close, Quitting, Undisturbed
<1>2. CASE Minimize \/ Restore
  <2>1. PICK x \in {"activate", "deactivate"} : commands' = Append(commands, x)
    BY <1>2 DEF Minimize, Restore, Send
  <2>2. Fewer(commands, commands') /\ Fewer(events, events')
    BY <1>1, <2>1, SortsKnown, FewerInAppend, FewerInSame
  <2>3. UNCHANGED client.closes
    BY <1>1, <1>2 DEF Minimize, Restore, LooseClient
  <2>4. QED BY <1>1, <2>2, <2>3, QuietStep DEF HasProject
<1>3. CASE Work
  <2>1. client.closes = 0 /\ commands' = Append(commands, "edit") /\ UNCHANGED client
    BY <1>3 DEF Work, Send
  <2>2. Unasked /\ None(commands, Request) /\ EditsLead(commands)
    BY <2>1 DEF Quitting, EditsFirst
  <2>3. None(commands, Questions) /\ None(commands, Destruction)
    BY <1>1, <2>2, SortsNested DEF Unasked
  <2>4. /\ \A X : None(commands', X) <=> None(commands, X) /\ "edit" \notin X
        /\ Single(commands', Questions) /\ EditsLead(commands')
    BY <1>1, <2>1, <2>2, <2>3, NoneInAppend
  <2>5. OneQuestion'
    BY <1>1, <2>3, <2>4, SortsKnown DEF OneQuestion, Quitting
  <2>6. EditsFirst'
    BY <1>1, <2>1, <2>2, <2>4, SortsKnown DEF EditsFirst, Unasked, HasProject
  <2>7. Settled'
    BY <1>1, <2>2, <2>3, <2>4, SortsKnown DEF Settled, Decided, Unasked, HasProject
  <2>8. Undisturbed' /\ Marked'
    BY <1>1, <2>4, SortsKnown DEF Undisturbed, Marked, Quitting
  <2>9. QED BY <2>5, <2>6, <2>7, <2>8 DEF Quitting
<1>4. CASE Close
  <2>1. client.closes = 0 /\ client'.closes # 0 /\ commands' = Append(commands, "isDirty")
    BY <1>1, <1>4 DEF Close, Send, LooseClient
  <2>2. Unasked /\ None(commands, Request) /\ EditsLead(commands)
    BY <2>1 DEF Quitting, EditsFirst
  <2>3. None(commands, Questions) /\ None(commands, Destruction)
    BY <1>1, <2>2, SortsNested DEF Unasked
  <2>4. /\ \A X : None(commands', X) <=> None(commands, X) /\ "isDirty" \notin X
        /\ Single(commands', Questions) /\ EditsLead(commands')
    BY <1>1, <2>1, <2>2, <2>3, NoneInAppend
  <2>5. OneQuestion'
    BY <1>1, <2>2, <2>4 DEF OneQuestion, Quitting, Unasked
  <2>6. EditsFirst'
    BY <1>1, <2>1, <2>2, <2>4, SortsKnown DEF EditsFirst, Unasked, HasProject
  <2>7. Settled'
    BY <1>1, <2>2, <2>3, <2>4, SortsKnown DEF Settled, Decided, Unasked, HasProject
  <2>8. Undisturbed' /\ Marked'
    BY <1>1, <2>4, SortsKnown DEF Undisturbed, Marked, Quitting
  <2>9. QED BY <2>5, <2>6, <2>7, <2>8 DEF Quitting
<1>5. QED BY <1>2, <1>3, <1>4

\* An event that is received and answered by nothing that matters.
LEMMA QuietlyAnswered ==
  ASSUME LooseTypes, Quitting, NEW event, Received(event), Fewer(commands, commands'),
         UNCHANGED client.closes
  PROVE  Quitting'
<1>1. /\ events \in Seq(Event) /\ events # <<>> /\ events' = Tail(events)
      /\ UNCHANGED <<service, unsaved, discarded>> /\ service.step # "recover"
  BY DEF LooseTypes, Received, Quitting, Undisturbed
<1>2. Fewer(events, events')
  BY <1>1, FewerInTail
<1>3. QED BY <1>1, <1>2, QuietStep DEF HasProject

LEMMA WindowQuits ==
  ASSUME LooseTypes, Quitting, WindowThread
  PROVE  Quitting'
<1>1. client \in LooseClient /\ commands \in Seq(Command) /\ client.closes \in Nat
  BY DEF LooseTypes, LooseClient
<1>2. CASE OnInitialized
  <2>1. UNCHANGED client.closes /\ commands' = Append(commands, "activate")
    BY <1>1, <1>2 DEF OnInitialized, Send, LooseClient
  <2>2. Fewer(commands, commands')
    BY <1>1, <2>1, SortsKnown, FewerInAppend
  <2>3. QED BY <1>2, <2>1, <2>2, QuietlyAnswered DEF OnInitialized
<1>3. CASE OnDirty
  <2>1. UNCHANGED client.closes
    BY <1>1, <1>3 DEF OnDirty, LooseClient
  <2>2. QED BY <1>3, <2>1, SortsKnown, ReplyAnswered DEF OnDirty
<1>4. CASE OnClean
  BY <1>1, <1>4, SortsKnown, OutcomeAnswered DEF OnClean
<1>5. CASE OnSave
  <2>1. CASE client.confirm
    <3>1. UNCHANGED client.closes
      BY <1>1, <1>5 DEF OnSave, LooseClient
    <3>2. QED BY <1>5, <2>1, <3>1, SortsKnown, ReplyAnswered DEF OnSave
  <2>2. CASE ~client.confirm
    BY <1>5, <2>2, FewerInSame, QuietlyAnswered DEF OnSave
  <2>3. QED BY <2>1, <2>2
<1>6. CASE OnDiscard
  <2>1. CASE client.confirm
    <3> DEFINE c == [client EXCEPT !.confirm = FALSE]
    <3>1. c \in LooseClient /\ c.closes = client.closes
      BY <1>1 DEF LooseClient
    <3>2. SendDestroy(c, 1) /\ Received("discard")
      BY <1>6, <2>1 DEF OnDiscard
    <3> HIDE DEF c
    <3>3. QED BY <3>1, <3>2, SortsKnown, OutcomeAnswered
  <2>2. CASE ~client.confirm
    BY <1>6, <2>2, FewerInSame, QuietlyAnswered DEF OnDiscard
  <2>3. QED BY <2>1, <2>2
<1>7. CASE OnURI
  <2>1. UNCHANGED client.closes
    BY <1>1, <1>7 DEF OnURI, LooseClient
  <2>2. CASE Send("saveFile")
    BY <1>7, <2>1, <2>2, SortsKnown, ReplyAnswered DEF OnURI
  <2>3. CASE UNCHANGED commands
    BY <1>7, <2>1, <2>3, FewerInSame, QuietlyAnswered DEF OnURI
  <2>4. QED BY <1>7, <2>2, <2>3 DEF OnURI
<1>8. CASE OnSaved
  <2>1. CASE client.saved > 0
    <3> DEFINE c == [client EXCEPT !.saved = 0]
    <3>1. c \in LooseClient /\ c.closes = client.closes /\ client.saved \in Nat
      BY <1>1 DEF LooseClient
    <3>2. SendDestroy(c, client.saved) /\ Received("saved")
      BY <1>8, <2>1 DEF OnSaved
    <3> HIDE DEF c
    <3>3. QED BY <3>1, <3>2, SortsKnown, OutcomeAnswered
  <2>2. CASE ~(client.saved > 0)
    BY <1>8, <2>2, FewerInSame, QuietlyAnswered DEF OnSaved
  <2>3. QED BY <2>1, <2>2
<1>9. CASE OnDestroyed
  <2>1. UNCHANGED client.closes /\ client.destroy \in Nat /\ "terminate" \in Command
    BY <1>1, <1>9 DEF OnDestroyed, LooseClient, Command
  <2>2. Fewer(commands, commands')
    <3>1. commands' = commands \o Repeated("terminate", client.destroy)
      BY <1>9 DEF OnDestroyed, Repeated
    <3>2. PICK t : t = commands'
      OBVIOUS
    <3>3. PICK n \in Nat : n = client.destroy
      BY <2>1
    <3>4. t = commands \o Repeated("terminate", n)
      BY <3>1, <3>2, <3>3
    <3>5. Fewer(commands, t)
      BY <1>1, <2>1, <3>4, SortsKnown, FewerInRepetition
    <3>6. QED BY <3>2, <3>5
  <2>3. QED BY <1>9, <2>1, <2>2, QuietlyAnswered DEF OnDestroyed
<1>10. CASE OnTerminated
  <2>1. UNCHANGED client.closes
    BY <1>1, <1>10 DEF OnTerminated, LooseClient
  <2>2. QED BY <1>10, <2>1, FewerInSame, QuietlyAnswered DEF OnTerminated
<1>11. CASE Join
  <2>1. UNCHANGED client.closes /\ service.step # "recover"
    BY <1>1, <1>11 DEF Join, LooseClient
  <2>2. QED BY <1>11, <2>1, FewerInSame, QuietStep DEF Join, HasProject
<1>12. QED
  BY <1>2, <1>3, <1>4, <1>5, <1>6, <1>7, <1>8, <1>9, <1>10, <1>11 DEF WindowThread

-----------------------------------------------------------------------------
(* The application thread, and the theorem.                                *)

\* What handling a command does to the command stream.
LEMMA HandledQuits ==
  ASSUME LooseTypes, Quitting, NEW X, Handles(X)
  PROVE  /\ Fewer(commands, commands')
         /\ \A Y : Head(commands) \in Y => ~None(commands, Y)
         /\ \A Y : Head(commands) \in Y /\ Single(commands, Y) => None(commands', Y)
         /\ (Head(commands) = "isDirty" /\ EditsLead(commands) => None(commands, Edit))
         /\ Head(commands) \in X /\ service.step # "recover"
         /\ UNCHANGED <<client, discarded>>
BY FewerInTail DEF Handles, LooseTypes, Quitting, Undisturbed

\* Nobody answers a dialog but the question whether to save.
LEMMA AnswersQuit ==
  ASSUME LooseTypes, Quitting,
         AnswerConfirm \/ AnswerError \/ AcceptRecovery \/ RefuseRecovery
  PROVE  Quitting'
<1>1. AnswerConfirm /\ service.dialogs = Asking
  <2>1. /\ service.dialogs # <<>> /\ service.dialogs \in {<<>>, Asking}
        /\ Head(service.dialogs) \in {"confirm", "error", "recovery"}
    BY DEF AnswerConfirm, AnswerError, AcceptRecovery, RefuseRecovery, Answer, Quitting,
           OneQuestion
  <2>2. Head(Asking) = "confirm"
    BY DEF Asking
  <2>3. QED
    BY <2>1, <2>2 DEF AnswerConfirm, AnswerError, AcceptRecovery, RefuseRecovery, Answer
<1>2. /\ service \in Service /\ events \in Seq(Event)
      /\ UNCHANGED <<client, commands, unsaved>> /\ (discarded => discarded')
  BY <1>1 DEF LooseTypes, AnswerConfirm, Answer
<1>3. /\ service'.dialogs = <<>> /\ service'.step = "receive"
      /\ service'.project = service.project /\ service'.dirty = service.dirty
  <2>1. Closed(Asking) = <<>>
    BY DEF Closed, Asking, Front
  <2>2. service' = [service EXCEPT !.step = "receive", !.dialogs = Closed(service.dialogs)]
    BY <1>1 DEF AnswerConfirm
  <2> DEFINE d == Closed(service.dialogs)
  <2>3. d = <<>>
    BY <1>1, <2>1
  <2> HIDE DEF d
  <2>4. service' = [service EXCEPT !.step = "receive", !.dialogs = d]
    BY <2>2 DEF d
  <2>5. service'.dialogs = d /\ service'.step = "receive"
        /\ service'.project = service.project /\ service'.dirty = service.dirty
    BY <1>2, <2>4 DEF Service
  <2>6. QED BY <2>3, <2>5
<1>4. service.dialogs # <<>>
  BY <1>1 DEF Asking
<1>5. /\ None(commands, Questions) /\ None(events, Replies) /\ EditsLead(commands)
      /\ client.closes # 0 /\ None(commands, Edit) /\ Single(commands, Questions)
      /\ Single(events, Replies)
  BY <1>4 DEF Quitting, OneQuestion, EditsFirst, Unasked
<1>6. EditsFirst'
  BY <1>2, <1>5 DEF EditsFirst
<1>7. Undisturbed' /\ Marked'
  BY <1>2, <1>3 DEF Undisturbed, Marked, Quitting
<1>8. CASE UNCHANGED events
  <2>1. OneQuestion'
    BY <1>2, <1>3, <1>5, <1>8 DEF OneQuestion
  <2>2. Settled'
    BY <1>2, <1>3, <1>8 DEF Settled, Decided, Quitting, HasProject
  <2>3. QED BY <1>6, <1>7, <2>1, <2>2 DEF Quitting
<1>9. CASE Publish("save")
  <2>1. /\ None(events', Outcomes) <=> None(events, Outcomes)
        /\ Single(events', Replies)
    BY <1>2, <1>5, <1>9, NoneInAppend, SortsKnown DEF Publish
  <2>2. OneQuestion'
    BY <1>2, <1>3, <1>5, <2>1 DEF OneQuestion
  <2>3. Settled'
    BY <1>2, <1>3, <2>1 DEF Settled, Decided, Quitting, HasProject
  <2>4. QED BY <1>6, <1>7, <2>2, <2>3 DEF Quitting
<1>10. CASE Publish("discard") /\ discarded' = TRUE
  <2>1. None(events', Replies) /\ Single(events', Replies)
    BY <1>2, <1>5, <1>10, NoneInAppend, SortsKnown DEF Publish
  <2>2. OneQuestion'
    BY <1>2, <1>3, <1>5, <2>1 DEF OneQuestion
  <2>3. Settled'
    BY <1>10 DEF Settled
  <2>4. QED BY <1>6, <1>7, <2>2, <2>3 DEF Quitting
<1>11. QED BY <1>1, <1>8, <1>9, <1>10 DEF AnswerConfirm

\* Handlers that neither ask nor decide.
LEMMA QuietHandlers ==
  ASSUME LooseTypes, Quitting,
         Draw \/ EndReceive \/ HandleActivation \/ HandleTerminate
  PROVE  Quitting'
<1>1. service \in Service /\ commands \in Seq(Command) /\ events \in Seq(Event)
      /\ service.step # "recover"
  BY DEF LooseTypes, Quitting, Undisturbed
<1>2. CASE Draw \/ EndReceive
  <2>1. /\ service'.dialogs = service.dialogs /\ service'.project = service.project
        /\ service'.dirty = service.dirty /\ service'.step # "recover"
        /\ UNCHANGED <<client, commands, events, unsaved, discarded>>
    BY <1>1, <1>2 DEF Draw, EndReceive, Service
  <2>2. QED BY <2>1, FewerInSame, QuietStep DEF HasProject
<1>3. CASE HandleActivation
  <2>1. Handles({"activate", "deactivate"}) /\ UNCHANGED <<events, unsaved>>
    BY <1>3 DEF HandleActivation
  <2>2. /\ service'.dialogs = service.dialogs /\ (HasProject <=> HasProject')
        /\ service'.dirty = service.dirty /\ service'.step = service.step
    BY <1>1, <1>3 DEF HandleActivation, HasProject, Service
  <2>3. QED BY <1>1, <2>1, <2>2, HandledQuits, FewerInSame, QuietStep
<1>4. CASE HandleTerminate
  <2>1. Handles({"terminate"}) /\ events' = Append(events, "terminated") /\ UNCHANGED unsaved
    BY <1>4 DEF HandleTerminate, Publish
  <2>2. /\ service'.dialogs = service.dialogs /\ service'.project = service.project
        /\ service'.dirty = service.dirty /\ service'.step = service.step
    BY <1>1, <1>4 DEF HandleTerminate, Service
  <2>3. Fewer(events, events')
    BY <1>1, <2>1, SortsKnown, FewerInAppend
  <2>4. QED BY <1>1, <2>1, <2>2, <2>3, HandledQuits, QuietStep DEF HasProject
<1>5. QED BY <1>2, <1>3, <1>4

\* IsDirty and getURI are answered only after every edit.
LEMMA QueryQuits ==
  ASSUME LooseTypes, Quitting, HandleQuery
  PROVE  Quitting'
<1> DEFINE head == Head(commands)
<1>1. /\ service \in Service /\ commands \in Seq(Command) /\ events \in Seq(Event)
      /\ UNCHANGED <<service, client, unsaved, discarded>> /\ service.step # "recover"
      /\ Handles({"isDirty", "getURI", "ping"}) /\ head \in {"isDirty", "getURI", "ping"}
      /\ events' = events \o Answers(head)
  BY HandledQuits DEF LooseTypes, HandleQuery
<1>2. /\ Fewer(commands, commands')
      /\ \A Y : head \in Y => ~None(commands, Y)
      /\ \A Y : head \in Y /\ Single(commands, Y) => None(commands', Y)
      /\ head = "isDirty" /\ EditsLead(commands) => None(commands, Edit)
  BY <1>1, HandledQuits
<1> HIDE DEF head
<1>3. CASE head = "ping" \/ ~HasProject
  <2>1. Answers(head) = <<>>
    BY <1>3 DEF Answers
  <2>2. events' = events
    BY <1>1, <2>1
  <2>3. QED BY <1>1, <1>2, <2>2, FewerInSame, QuietStep DEF HasProject
<1>4. CASE head \in {"isDirty", "getURI"} /\ HasProject
  <2>1. head \in Questions /\ (head = "getURI" => head \in Late)
    BY <1>4, SortsKnown
  <2>2. /\ None(events, Replies) /\ service.dialogs = <<>>
        /\ None(commands', Questions) /\ Single(commands', Questions)
        /\ EditsLead(commands') /\ EditsLead(commands)
    BY <1>2, <2>1, SortsListed DEF Quitting, OneQuestion, EditsFirst, Fewer
  <2>3. client.closes # 0 /\ None(commands, Edit) /\ None(commands', Edit)
    <3>1. CASE head = "getURI"
      <4>1. ~None(commands, Late)
        BY <1>2, <2>1, <3>1
      <4>2. client.closes # 0 /\ None(commands, Edit)
        BY <4>1 DEF Quitting, EditsFirst, Unasked
      <4>3. QED BY <1>2, <4>2, SortsListed DEF Fewer
    <3>2. CASE head = "isDirty"
      <4>1. ~None(commands, Request)
        BY <1>2, <3>2, SortsKnown
      <4>2. client.closes # 0
        BY <4>1 DEF Quitting, EditsFirst
      <4>3. QED BY <1>2, <2>2, <3>2, <4>2, SortsListed DEF Fewer
    <3>3. QED BY <1>4, <3>1, <3>2
  <2>4. EditsFirst' /\ Undisturbed' /\ Marked'
    BY <1>1, <1>2, <2>2, <2>3, SortsListed DEF EditsFirst, Undisturbed, Marked, Quitting, Fewer
  <2>5. None(commands, Destruction) => None(commands', Destruction)
    BY <1>2, SortsListed DEF Fewer
  <2>6. PICK x : x = IF head = "getURI" THEN "uri"
                     ELSE IF service.dirty /\ service.dialogs = <<>> THEN "dirty" ELSE "clean"
    OBVIOUS
  <2>7. events' = Append(events, x)
    <3>1. Answers(head) = <<x>>
      BY <1>4, <2>6 DEF Answers
    <3>2. events' = events \o <<x>>
      BY <1>1, <3>1
    <3>3. QED BY <1>1, <3>2
  <2>8. /\ \A X : None(events', X) <=> None(events, X) /\ x \notin X
        /\ Single(events', Replies)
    BY <1>1, <2>2, <2>7, NoneInAppend
  <2>9. OneQuestion'
    BY <1>1, <2>2, <2>8 DEF OneQuestion
  <2>10. Settled'
    <3>1. CASE x \in {"uri", "dirty"}
      <4>1. None(events, Outcomes) => None(events', Outcomes)
        BY <2>8, <3>1, SortsKnown
      <4>2. QED BY <1>1, <2>5, <4>1 DEF Settled, Decided, Quitting, HasProject
    <3>2. CASE x = "clean"
      <4>1. ~service.dirty
        BY <1>4, <2>2, <2>6, <3>2
      <4>2. QED BY <1>1, <4>1 DEF Settled, Marked, Quitting
    <3>3. QED BY <2>6, <3>1, <3>2
  <2>11. QED BY <2>4, <2>9, <2>10 DEF Quitting
<1>5. QED BY <1>1, <1>3, <1>4

\* An edit is made before anything is asked.
LEMMA EditQuits ==
  ASSUME LooseTypes, Quitting, HandleEdit
  PROVE  Quitting'
<1>1. /\ service \in Service /\ UNCHANGED <<client, events, discarded>>
      /\ Fewer(commands, commands') /\ service.step # "recover"
      /\ Head(commands) \in {"edit", "keyframe", "record"}
      /\ \A Y : Head(commands) \in Y => ~None(commands, Y)
  BY HandledQuits DEF LooseTypes, HandleEdit
<1>2. Head(commands) = "edit"
  BY <1>1, SortsKnown DEF Quitting, Undisturbed
<1>3. Unasked /\ ~None(commands, Edit)
  BY <1>1, <1>2, SortsKnown DEF Quitting, EditsFirst
<1>4. /\ service'.dialogs = service.dialogs /\ service'.project = service.project
      /\ service'.step = service.step /\ unsaved' = (unsaved \/ Edits)
      /\ service'.dirty = (service.dirty \/ Edits)
  BY <1>1, <1>2 DEF HandleEdit, Service
<1>5. \A X \in Sorts : /\ (None(commands, X) => None(commands', X))
                       /\ (Single(commands, X) => Single(commands', X))
  BY <1>1 DEF Fewer
<1>6. OneQuestion'
  BY <1>1, <1>4, <1>5, SortsListed DEF Quitting, OneQuestion
<1>7. EditsFirst'
  BY <1>1, <1>3, <1>4, <1>5, SortsListed DEF Quitting, EditsFirst, Unasked, HasProject, Fewer
<1>8. Settled'
  <2>1. None(commands, Destruction)
    BY <1>3, SortsNested DEF Unasked, LooseTypes
  <2>2. ~Decided'
    BY <1>1, <1>3, <1>4, <1>5, <2>1, SortsListed DEF Unasked, Decided, HasProject
  <2>3. QED BY <2>2 DEF Settled
<1>9. Undisturbed'
  BY <1>1, <1>4, <1>5, SortsListed DEF Quitting, Undisturbed
<1>10. Marked'
  BY <1>4 DEF Quitting, Marked
<1>11. QED BY <1>6, <1>7, <1>8, <1>9, <1>10 DEF Quitting

\* The dialog asks; saving and destroying decide.
LEMMA DecisionQuits ==
  ASSUME LooseTypes, Quitting, Happens \subseteq {"edit", "minimize"},
         HandleDialog \/ HandleSaveFile \/ HandleDestroy
  PROVE  Quitting'
<1> DEFINE head == Head(commands)
<1>1. /\ service \in Service /\ commands \in Seq(Command) /\ events \in Seq(Event)
      /\ UNCHANGED <<client, discarded>> /\ Fewer(commands, commands')
      /\ \A Y : head \in Y => ~None(commands, Y)
      /\ \A Y : head \in Y /\ Single(commands, Y) => None(commands', Y)
      /\ service.step # "recover" /\ head \in {"confirm", "fail", "saveFile", "destroy"}
  BY HandledQuits DEF LooseTypes, HandleDialog, HandleSaveFile, HandleDestroy
<1> HIDE DEF head
<1>2. head \in {"confirm", "saveFile", "destroy"} /\ head \in Late
  BY <1>1, SortsKnown DEF Quitting, Undisturbed
<1>3. /\ client.closes # 0 /\ None(commands, Edit) /\ EditsLead(commands)
  BY <1>1, <1>2 DEF Quitting, EditsFirst, Unasked
<1>4. \A X \in Sorts : /\ (None(commands, X) => None(commands', X))
                       /\ (Single(commands, X) => Single(commands', X))
  BY <1>1 DEF Fewer
<1>5. EditsFirst'
  BY <1>1, <1>3, <1>4, SortsListed DEF EditsFirst, Fewer
<1>6. head \in {"confirm", "saveFile"} =>
        /\ None(events, Replies) /\ service.dialogs = <<>>
        /\ None(commands', Questions) /\ Single(commands', Questions)
        /\ Single(events, Replies)
  BY <1>1, <1>4, SortsKnown, SortsListed DEF Quitting, OneQuestion
<1>7. CASE HandleDialog
  <2>1. head = "confirm" /\ UNCHANGED <<events, unsaved>>
    BY <1>2, <1>7 DEF HandleDialog, Handles, head
  <2>2. /\ service'.dialogs = Asking /\ service'.project = service.project
        /\ service'.dirty = service.dirty /\ service'.step = service.step
    <3>1. Opened("confirm") = Asking
      <4>0. Opened("confirm") = Asking \o service.dialogs
        BY Zenon DEF Opened, Asking
      <4>1. Asking \in Seq(Dialog)
        BY DEF Asking, Dialog
      <4>2. \A s \in Seq(Dialog) : s \o <<>> = s
        OBVIOUS
      <4>3. QED BY <1>6, <2>1, <4>0, <4>1, <4>2
    <3>2. service' = [service EXCEPT !.dialogs = Opened("confirm")]
      BY <1>7, <2>1 DEF HandleDialog, head
    <3>3. service' = [service EXCEPT !.dialogs = Asking]
      BY <3>1, <3>2
    <3>4. QED BY <1>1, <3>3 DEF Service
  <2>3. OneQuestion'
    BY <1>6, <2>1, <2>2 DEF OneQuestion
  <2>4. Settled'
    BY <1>1, <1>4, <2>1, <2>2, SortsListed DEF Settled, Decided, HasProject, Quitting
  <2>5. Undisturbed' /\ Marked'
    BY <1>1, <1>4, <2>1, <2>2, SortsListed DEF Undisturbed, Marked, Quitting
  <2>6. QED BY <1>5, <2>3, <2>4, <2>5 DEF Quitting
<1>8. CASE HandleSaveFile
  <2>1. head = "saveFile" /\ events' = Append(events, "saved")
    BY <1>8 DEF HandleSaveFile, Handles, Publish, head
  <2>2. /\ service'.dialogs = service.dialogs /\ service'.project = service.project
        /\ service'.step = service.step /\ (unsaved' => unsaved)
        /\ (unsaved' => service'.dirty)
        /\ (HasProject => ~unsaved')
    <3>1. \/ ~HasProject /\ UNCHANGED <<service, unsaved>>
          \/ HasProject /\ service' = [service EXCEPT !.dirty = FALSE] /\ unsaved' = FALSE
      BY <1>6, <1>8, <2>1 DEF HandleSaveFile
    <3>2. CASE ~HasProject /\ UNCHANGED <<service, unsaved>>
      BY <3>2 DEF Quitting, Marked
    <3>3. CASE HasProject /\ service' = [service EXCEPT !.dirty = FALSE] /\ unsaved' = FALSE
      BY <1>1, <3>3 DEF Service
    <3>4. QED BY <3>1, <3>2, <3>3
  <2>3. None(events', Replies) /\ Single(events', Replies)
    BY <1>1, <1>6, <2>1, NoneInAppend, SortsKnown
  <2>4. OneQuestion'
    BY <1>6, <2>1, <2>2, <2>3 DEF OneQuestion
  <2>5. Settled'
    BY <1>1, <2>2 DEF Settled, Decided, Quitting
  <2>6. Undisturbed' /\ Marked'
    BY <1>1, <1>4, <2>1, <2>2, SortsListed DEF Undisturbed, Marked, Quitting
  <2>7. QED BY <1>5, <2>4, <2>5, <2>6 DEF Quitting
<1>9. CASE HandleDestroy
  <2>1. head = "destroy" /\ events' = Append(events, "destroyed") /\ UNCHANGED unsaved
    BY <1>9 DEF HandleDestroy, Handles, Publish, head
  <2>2. /\ service'.dialogs = service.dialogs /\ service'.step = service.step
        /\ service'.dirty = service.dirty
    BY <1>1, <1>9 DEF HandleDestroy, Service
  <2>3. ~unsaved \/ discarded
    BY <1>1, <2>1, SortsKnown DEF Quitting, Settled, Decided
  <2>4. Fewer(events, events')
    BY <1>1, <2>1, SortsKnown, FewerInAppend
  <2>5. OneQuestion'
    BY <1>4, <2>2, <2>4, SortsListed DEF OneQuestion, Quitting, Fewer
  <2>6. Settled'
    BY <1>1, <2>1, <2>3 DEF Settled
  <2>7. Undisturbed' /\ Marked'
    BY <1>1, <1>4, <2>1, <2>2, SortsListed DEF Undisturbed, Marked, Quitting
  <2>8. QED BY <1>5, <2>5, <2>6, <2>7 DEF Quitting
<1>10. QED BY <1>7, <1>8, <1>9

\* INITIALIZE was handled, and nothing recovers.
LEMMA NothingElse ==
  ASSUME LooseTypes, Quitting
  PROVE  ~HandleInitialize /\ ~ReplayRecord /\ ~FinishRecovery
<1>1. ~HandleInitialize
  <2> SUFFICES ASSUME HandleInitialize PROVE FALSE
    OBVIOUS
  <2>1. Head(commands) = "initialize" /\ ~None(commands, Foreign)
    BY HandledQuits, SortsKnown DEF HandleInitialize
  <2>2. QED BY <2>1 DEF Quitting, Undisturbed
<1>2. QED BY <1>1 DEF Quitting, Undisturbed, ReplayRecord, FinishRecovery

-----------------------------------------------------------------------------
LEMMA FreshQuits ==
  ASSUME LooseTypes, Fresh, Next, Happens \subseteq {"edit", "minimize"}
  PROVE  Fresh' \/ Quitting'
<1>1. Draw \/ HandleInitialize
  BY DEF Fresh, Booting, Next, User, WindowThread, ApplicationThread, Minimize, Restore,
     Work, Close, Idle, AnswerConfirm, AnswerError, AcceptRecovery, RefuseRecovery, Answer,
     OnInitialized, OnDirty, OnClean, OnSave, OnDiscard, OnURI, OnSaved, OnDestroyed,
     OnTerminated, Join, Received, ReplayRecord, FinishRecovery, EndReceive,
     HandleActivation, HandleQuery, HandleEdit, HandleDialog, HandleSaveFile,
     HandleDestroy, HandleTerminate, Handles
<1>2. service \in Service
  BY DEF LooseTypes
<1>3. CASE Draw
  <2>1. /\ service' = [service EXCEPT !.step = "receive"]
        /\ UNCHANGED <<client, commands, events, unsaved>>
    BY <1>3 DEF Draw
  <2>2. QED BY <1>2, <2>1 DEF Fresh, Booting, Service
<1>4. CASE HandleInitialize
  <2>1. commands' = <<>> /\ events' = <<"initialized">> /\ UNCHANGED <<client, unsaved>>
    BY <1>4 DEF HandleInitialize, Handles, Publish, Fresh, Booting
  <2>2. /\ service'.project = "inactive" /\ service'.dialogs = <<>>
        /\ service'.step = "receive"
    <3>1. "crashed" \notin Happens
      OBVIOUS
    <3>2. service' = [service EXCEPT !.project = "inactive", !.dialogs = service.dialogs]
      BY <1>4, <3>1 DEF HandleInitialize
    <3>3. service.step = "receive" /\ service.dialogs = <<>>
      BY <1>4 DEF HandleInitialize, Handles, Fresh
    <3>4. service'.project = "inactive" /\ service'.dialogs = service.dialogs
          /\ service'.step = service.step
      BY <1>2, <3>2 DEF Service
    <3>5. QED BY <3>3, <3>4
  <2>3. \A X : None(commands', X) /\ Single(commands', X)
    BY <2>1 DEF None, Single
  <2>4. None(events', Replies) /\ None(events', Outcomes) /\ Single(events', Replies)
    BY <2>1 DEF None, Single, Replies, Outcomes
  <2>5. EditsLead(commands')
    BY <2>1 DEF EditsLead
  <2>6. ~unsaved'
    BY <2>1 DEF Fresh
  <2>7. QED
    BY <2>2, <2>3, <2>4, <2>5, <2>6 DEF Quitting, OneQuestion, EditsFirst, Unasked, Settled,
       Undisturbed, Marked, HasProject
<1>5. QED BY <1>1, <1>3, <1>4

\* The user is asked about unsaved changes, and quitting throws them away only
\* after "discard": for any length of the streams, any interleaving of the two
\* threads and any number of edits.  Nothing fails meanwhile, the edits are ones
\* that mark the project, and the window is closed once: otherwise it can fail.
THEOREM QuittingAlwaysAsks ==
  ASSUME MaxClose \in {0, 1}, Happens \subseteq {"edit", "minimize"}
  PROVE  Spec => []DiscardsByChoice
<1>1. Init => QInv
  <2>1. Init => LooseTypes /\ Booting
    <3>1. Init => IInv
      BY InitIInv
    <3>2. Init => Booting
      BY DEF Init, Booting
    <3>3. QED BY <3>1, <3>2 DEF IInv
  <2>2. Init => client.closes = 0 /\ service.dialogs = <<>> /\ ~unsaved
    BY DEF Init
  <2>3. QED BY <2>1, <2>2 DEF QInv, Fresh
<1>2. ASSUME QInv, [Next]_vars PROVE QInv'
  <2>1. CASE UNCHANGED vars
    BY <1>2, <2>1 DEF vars, QInv, LooseTypes, Fresh, Booting, Quitting, OneQuestion,
       EditsFirst, Unasked, Settled, Decided, Undisturbed, Marked, HasProject
  <2>2. ASSUME Next, Fresh PROVE QInv'
    <3>1. Fresh' \/ Quitting'
      BY <1>2, <2>2, FreshQuits DEF QInv
    <3>2. LooseTypes'
      BY <1>2, <2>2, BootingIInv DEF QInv, Fresh, IInv
    <3>3. QED BY <3>1, <3>2 DEF QInv
  <2>3. ASSUME Next, Quitting PROVE QInv'
    <3>1. LooseTypes
      BY <1>2 DEF QInv
    <3>2. WindowStep \/ ServiceStep
      BY <2>3, <3>1, UserOnWindowTypes, WindowThreadTypes, DialogStep, HandlerTypes, EndTypes
      DEF Next, User, ApplicationThread
    <3>3. LooseTypes'
      BY <3>1, <3>2 DEF WindowStep, ServiceStep, LooseTypes
    <3>4. Quitting'
      BY <2>3, <3>1, UserQuits, WindowQuits, AnswersQuit, QuietHandlers, QueryQuits,
         EditQuits, DecisionQuits, NothingElse DEF Next, User, ApplicationThread
    <3>5. QED BY <3>3, <3>4 DEF QInv
  <2>4. QED BY <1>2, <2>1, <2>2, <2>3 DEF QInv
<1>3. QInv => DiscardsByChoice
  BY DEF QInv, Fresh, Quitting, Settled, Decided, HasProject, DiscardsByChoice
<1>4. QED BY <1>1, <1>2, <1>3, PTL DEF Spec

-----------------------------------------------------------------------------
(* The worker thread that cancels.                                        *)

\* An object that is going has left the set, and the worker tells members of the set
\* only, and only while it holds the mutex.
SubscribersIInv ==
  /\ stack \in Seq(Nat) /\ begun \in Nat
  /\ phase # "idle" => stack # <<>>
  /\ subscribers \subseteq ToSet(stack)
  /\ phase = "stopping" => Top \notin subscribers
  /\ visit \subseteq subscribers
  /\ visit # {} => Locked

\* The operations of a stack to which one is added, or from which the last is taken.
LEMMA StackFacts ==
  ASSUME NEW s \in Seq(Nat)
  PROVE  /\ s # <<>> => s[Len(s)] \in ToSet(s)
         /\ s # <<>> => Front(s) \in Seq(Nat) /\ ToSet(s) \ {s[Len(s)]} \subseteq ToSet(Front(s))
         /\ s # <<>> /\ Len(s) # 1 => Front(s) # <<>>
         /\ \A n \in Nat : /\ Append(s, n) \in Seq(Nat) /\ Append(s, n) # <<>>
                           /\ ToSet(s) \subseteq ToSet(Append(s, n))
<1>1. s # <<>> => Len(s) \in Nat \ {0} /\ DOMAIN s = 1 .. Len(s)
  OBVIOUS
<1>2. s # <<>> => s[Len(s)] \in ToSet(s)
  BY <1>1 DEF ToSet
<1>3. ASSUME s # <<>>
      PROVE  Front(s) \in Seq(Nat) /\ ToSet(s) \ {s[Len(s)]} \subseteq ToSet(Front(s))
  <2>1. /\ Front(s) \in Seq(Nat) /\ Len(Front(s)) = Len(s) - 1
        /\ \A i \in 1 .. Len(s) - 1 : Front(s)[i] = s[i]
    BY <1>1, <1>3 DEF Front
  <2>2. DOMAIN Front(s) = 1 .. Len(Front(s))
    BY <2>1
  <2>3. ASSUME NEW x \in ToSet(s), x # s[Len(s)] PROVE x \in ToSet(Front(s))
    <3>1. PICK i \in 1 .. Len(s) : x = s[i]
      BY <1>1, <1>3 DEF ToSet
    <3>2. i \in 1 .. Len(s) - 1 /\ x = Front(s)[i]
      BY <1>1, <1>3, <2>1, <2>3, <3>1
    <3>3. i \in DOMAIN Front(s)
      BY <1>1, <1>3, <2>1, <2>2, <3>2
    <3>4. QED BY <3>2, <3>3 DEF ToSet
  <2>4. QED BY <2>1, <2>3
<1>4. s # <<>> /\ Len(s) # 1 => Front(s) # <<>>
  <2>1. ASSUME s # <<>>, Len(s) # 1 PROVE Len(Front(s)) # 0
    BY <1>1, <2>1 DEF Front
  <2>2. QED BY <2>1
<1>5. ASSUME NEW n \in Nat
      PROVE  /\ Append(s, n) \in Seq(Nat) /\ Append(s, n) # <<>>
             /\ ToSet(s) \subseteq ToSet(Append(s, n))
  <2>1. /\ Append(s, n) \in Seq(Nat) /\ Len(Append(s, n)) = Len(s) + 1
        /\ \A i \in 1 .. Len(s) : Append(s, n)[i] = s[i]
    OBVIOUS
  <2>2. DOMAIN s = 1 .. Len(s) /\ DOMAIN Append(s, n) = 1 .. Len(s) + 1
    BY <2>1
  <2>3. QED BY <2>1, <2>2 DEF ToSet
<1>6. QED BY <1>2, <1>3, <1>4, <1>5

LEMMA SubscribersInit == CancelInit => SubscribersIInv
BY DEF CancelInit, SubscribersIInv, ToSet

LEMMA SubscribersNext == SubscribersIInv /\ [CancelNext]_cancelVars => SubscribersIInv'
<1> SUFFICES ASSUME SubscribersIInv, [CancelNext]_cancelVars PROVE SubscribersIInv'
  OBVIOUS
<1> USE DEF SubscribersIInv, Locked
<1>1. CASE Begin
  <2>1. begun + 1 \in Nat
    OBVIOUS
  <2>2. QED BY <1>1, <2>1, StackFacts DEF Begin, thread
<1>2. CASE TryLoadingItem \/ LoadItem
  BY <1>2 DEF TryLoadingItem, LoadItem, thread, Top
<1>3. CASE Subscribe
  <2>1. Top \in ToSet(stack) /\ visit = {}
    BY <1>3, StackFacts DEF Subscribe, Top
  <2>2. QED BY <1>3, <2>1 DEF Subscribe
<1>4. CASE Unsubscribe
  <2>1. visit = {} /\ Top' = Top
    BY <1>4 DEF Unsubscribe, Top
  <2>2. QED BY <1>4, <2>1 DEF Unsubscribe, thread
<1>5. CASE Destroy
  <2>1. /\ stack # <<>> /\ stack' = Front(stack) /\ UNCHANGED <<begun, subscribers, visit, worker>>
        /\ phase' = IF Len(stack) = 1 THEN "idle" ELSE "loading"
    BY <1>5 DEF Destroy, thread
  <2>2. subscribers \subseteq ToSet(stack) \ {stack[Len(stack)]}
    BY <1>5 DEF Destroy, Top
  <2>3. QED BY <2>1, <2>2, StackFacts
<1>6. CASE StopWorker \/ SendStop \/ JoinWorker
  BY <1>6 DEF StopWorker, SendStop, JoinWorker, app, thread, Top
<1>7. ASSUME UNCHANGED <<app, subscribers>>, visit' \subseteq subscribers,
             visit' # {} => worker' = "telling"
      PROVE  SubscribersIInv'
  BY <1>7 DEF app, Top
<1>8. CASE Connect \/ Receive
  BY <1>7, <1>8 DEF Connect, Receive, Goto
<1>9. CASE Lock
  BY <1>7, <1>9 DEF Lock, Goto
<1>10. CASE Tell
  BY <1>7, <1>10 DEF Tell
<1>11. CASE Unlock
  BY <1>7, <1>11 DEF Unlock, Goto
<1>12. CASE HandleEvent \/ PressCancel \/ UNCHANGED cancelVars
  BY <1>7, <1>12 DEF HandleEvent, PressCancel, cancelVars, thread
<1>13. QED BY <1>1, <1>2, <1>3, <1>4, <1>5, <1>6, <1>8, <1>9, <1>10, <1>11, <1>12
       DEF CancelNext, Worker

\* The worker never marks an operation whose Progress object is gone, however its steps,
\* those of the application and those of the window are interleaved.
THEOREM ToldWhileAlive == CancelSpec => []TellsOnlyTheLiving
<1>1. SubscribersIInv => TellsOnlyTheLiving
  BY DEF SubscribersIInv, TellsOnlyTheLiving
<1>2. QED BY <1>1, SubscribersInit, SubscribersNext, PTL DEF CancelSpec

-----------------------------------------------------------------------------
(* The sheet of the window, which hears of operations by events.            *)
\* d says how many operations run after each of the events: it leads from what the sheet
\* counts to what the stack holds.
Leads(d, from, to, evs) ==
  /\ d \in [0 .. Len(evs) -> Nat] /\ d[0] = from /\ d[Len(evs)] = to
  /\ \A i \in 1 .. Len(evs) :
       d[i] = (IF evs[i] = "start" THEN d[i - 1] + 1 ELSE d[i - 1] - 1)

\* The events on their way make up for what the sheet has not counted yet.
SheetIInv ==
  /\ sheet \in [count : Nat, shown : BOOLEAN, pressed : BOOLEAN]
  /\ sheet.shown <=> sheet.count > 0
  /\ notices \in Seq({"start", "stop"})
  /\ \E d : Leads(d, sheet.count, Len(stack), notices)

\* One more event is sent.
LEMMA EventSent ==
  ASSUME NEW evs \in Seq({"start", "stop"}), NEW e \in {"start", "stop"}, NEW from, NEW to \in Nat,
         NEW then \in Nat, then = (IF e = "start" THEN to + 1 ELSE to - 1), NEW d, Leads(d, from, to, evs)
  PROVE  Append(evs, e) \in Seq({"start", "stop"}) /\ \E f : Leads(f, from, then, Append(evs, e))
<1> DEFINE n == Len(evs)
           new == Append(evs, e)
           f == [i \in 0 .. n + 1 |-> IF i = n + 1 THEN then ELSE d[i]]
<1>1. n \in Nat /\ new \in Seq({"start", "stop"}) /\ Len(new) = n + 1 /\ new[n + 1] = e
      /\ \A i \in 1 .. n : new[i] = evs[i]
  OBVIOUS
<1>2. d \in [0 .. n -> Nat] /\ d[0] = from /\ d[n] = to
      /\ \A i \in 1 .. n : d[i] = (IF evs[i] = "start" THEN d[i - 1] + 1 ELSE d[i - 1] - 1)
  BY DEF Leads
<1> HIDE DEF n, new
<1>3. f \in [0 .. n + 1 -> Nat] /\ f[0] = from /\ f[n + 1] = then
  BY <1>1, <1>2
<1>4. ASSUME NEW i \in 1 .. n + 1
      PROVE  f[i] = (IF new[i] = "start" THEN f[i - 1] + 1 ELSE f[i - 1] - 1)
  <2>1. CASE i = n + 1
    <3>1. i - 1 = n /\ i - 1 \in 0 .. n + 1 /\ n # n + 1
      BY <1>1, <2>1
    <3>2. f[i] = then /\ f[i - 1] = to /\ new[i] = e
      BY <1>1, <1>2, <2>1, <3>1
    <3>3. QED BY <3>2
  <2>2. CASE i # n + 1
    <3>1. i \in 1 .. n /\ i - 1 \in 0 .. n /\ i - 1 # n + 1 /\ i - 1 \in 0 .. n + 1
      BY <1>1, <2>2
    <3>2. f[i] = d[i] /\ f[i - 1] = d[i - 1] /\ new[i] = evs[i]
      BY <1>1, <2>2, <3>1
    <3>3. QED BY <1>2, <3>1, <3>2
  <2>3. QED BY <2>1, <2>2
<1> HIDE DEF f
<1>5. Leads(f, from, then, new)
  BY <1>1, <1>3, <1>4 DEF Leads
<1>6. QED BY <1>1, <1>5 DEF new

\* The first event is handled.
LEMMA EventHandled ==
  ASSUME NEW evs \in Seq({"start", "stop"}), evs # <<>>, NEW from \in Nat, NEW to, NEW d, Leads(d, from, to, evs)
  PROVE  LET then == IF Head(evs) = "start" THEN from + 1 ELSE from - 1
         IN  then \in Nat /\ Tail(evs) \in Seq({"start", "stop"}) /\ \E f : Leads(f, then, to, Tail(evs))
<1> DEFINE n == Len(Tail(evs))
           rest == Tail(evs)
           then == IF Head(evs) = "start" THEN from + 1 ELSE from - 1
           f == [i \in 0 .. n |-> d[i + 1]]
<1>1. n \in Nat /\ Len(evs) = n + 1 /\ rest \in Seq({"start", "stop"}) /\ Len(rest) = n
      /\ Head(evs) = evs[1] /\ \A i \in 1 .. n : rest[i] = evs[i + 1]
  OBVIOUS
<1>2. d \in [0 .. n + 1 -> Nat] /\ d[0] = from /\ d[n + 1] = to
      /\ \A i \in 1 .. n + 1 : d[i] = (IF evs[i] = "start" THEN d[i - 1] + 1 ELSE d[i - 1] - 1)
  BY <1>1 DEF Leads
<1>3. d[1] = then /\ d[1] \in Nat
  <2>1. 1 \in 1 .. n + 1 /\ 1 \in 0 .. n + 1 /\ 1 - 1 = 0
    BY <1>1
  <2>2. d[1] = (IF evs[1] = "start" THEN d[1 - 1] + 1 ELSE d[1 - 1] - 1)
    BY <1>2, <2>1
  <2>3. QED BY <1>1, <1>2, <2>1, <2>2
<1> HIDE DEF n, rest, then
<1>4. f \in [0 .. n -> Nat] /\ f[0] = then /\ f[n] = to
  BY <1>1, <1>2, <1>3
<1>5. ASSUME NEW i \in 1 .. n
      PROVE  f[i] = (IF rest[i] = "start" THEN f[i - 1] + 1 ELSE f[i - 1] - 1)
  <2>1. i + 1 \in 1 .. n + 1 /\ i + 1 - 1 = i /\ i - 1 \in 0 .. n /\ i - 1 + 1 = i /\ i \in 0 .. n
    BY <1>1
  <2>2. f[i] = d[i + 1] /\ f[i - 1] = d[i] /\ rest[i] = evs[i + 1]
    BY <1>1, <2>1
  <2>3. d[i + 1] = (IF evs[i + 1] = "start" THEN d[i + 1 - 1] + 1 ELSE d[i + 1 - 1] - 1)
    BY <1>2, <2>1
  <2>4. QED BY <2>1, <2>2, <2>3
<1> HIDE DEF f
<1>6. Leads(f, then, to, rest)
  BY <1>1, <1>4, <1>5 DEF Leads
<1>7. QED BY <1>1, <1>3, <1>6 DEF rest, then

LEMMA FrontIsShorter ==
  ASSUME NEW s \in Seq(Nat), s # <<>>
  PROVE  Len(s) \in Nat /\ Len(Front(s)) = Len(s) - 1 /\ Len(s) - 1 \in Nat
<1>1. Len(s) \in Nat \ {0} /\ DOMAIN s = 1 .. Len(s)
  OBVIOUS
<1>2. QED BY <1>1 DEF Front

LEMMA SheetInit == CancelInit => SheetIInv
<1> SUFFICES ASSUME CancelInit PROVE SheetIInv
  OBVIOUS
<1>1. sheet = NoSheet /\ notices = <<>> /\ stack = <<>>
  BY DEF CancelInit
<1> DEFINE d == [i \in 0 .. 0 |-> 0]
<1>2. d \in [0 .. 0 -> Nat] /\ d[0] = 0
  OBVIOUS
<1>3. Len(<<>>) = 0 /\ 1 .. 0 = {} /\ <<>> \in Seq({"start", "stop"})
  OBVIOUS
<1> HIDE DEF d
<1>4. Leads(d, 0, 0, <<>>)
  BY <1>2, <1>3 DEF Leads
<1>5. NoSheet \in [count : Nat, shown : BOOLEAN, pressed : BOOLEAN] /\ NoSheet.count = 0 /\ ~NoSheet.shown
  BY DEF NoSheet
<1>6. QED BY <1>1, <1>3, <1>4, <1>5 DEF SheetIInv

\* An event makes the sheet count one more or one less.
LEMMA SheetCounts ==
  ASSUME sheet \in [count : Nat, shown : BOOLEAN, pressed : BOOLEAN], sheet.shown <=> sheet.count > 0,
         NEW e \in {"start", "stop"}, NEW then \in Nat,
         then = (IF e = "start" THEN sheet.count + 1 ELSE sheet.count - 1)
  PROVE  LET new == AfterEvent(e)
         IN  /\ new \in [count : Nat, shown : BOOLEAN, pressed : BOOLEAN]
             /\ (new.shown <=> new.count > 0) /\ new.count = then
<1>1. CASE e = "start"
  BY <1>1 DEF AfterEvent, SheetOpened
<1>2. CASE e # "start"
  <2>1. sheet.count >= 1 /\ then = sheet.count - 1
    BY <1>2
  <2>2. QED BY <1>2, <2>1 DEF AfterEvent, NoSheet
<1>3. QED BY <1>1, <1>2

LEMMA SheetNext == SubscribersIInv /\ SheetIInv /\ [CancelNext]_cancelVars => SheetIInv'
<1> SUFFICES ASSUME SubscribersIInv, SheetIInv, [CancelNext]_cancelVars PROVE SheetIInv'
  OBVIOUS
<1> USE DEF SheetIInv
<1>1. PICK d : Leads(d, sheet.count, Len(stack), notices)
  OBVIOUS
<1>2. CASE Begin
  <2>1. stack' = Append(stack, begun + 1) /\ notices' = Append(notices, "start") /\ sheet' = sheet
    BY <1>2 DEF Begin
  <2>2. Len(stack) \in Nat /\ Len(stack') = Len(stack) + 1
    BY <2>1 DEF SubscribersIInv
  <2>3. notices' \in Seq({"start", "stop"}) /\ \E f : Leads(f, sheet.count, Len(stack'), notices')
    <3> DEFINE from == sheet.count
               to == Len(stack)
               then == Len(stack')
    <3>1. to \in Nat /\ then \in Nat /\ then = to + 1 /\ Leads(d, from, to, notices)
      BY <1>1, <2>2
    <3> HIDE DEF from, to, then
    <3>2. Append(notices, "start") \in Seq({"start", "stop"}) /\ \E f : Leads(f, from, then, Append(notices, "start"))
      BY <3>1, EventSent
    <3>3. QED BY <2>1, <3>2 DEF from, then
  <2>4. QED BY <2>1, <2>3
<1>3. CASE Destroy
  <2>1. stack # <<>> /\ stack' = Front(stack) /\ notices' = Append(notices, "stop") /\ sheet' = sheet
    BY <1>3 DEF Destroy, SubscribersIInv
  <2>2. Len(stack) \in Nat /\ Len(stack') = Len(stack) - 1 /\ Len(stack') \in Nat
    <3>1. stack \in Seq(Nat)
      BY DEF SubscribersIInv
    <3>2. QED BY <2>1, <3>1, FrontIsShorter
  <2>3. notices' \in Seq({"start", "stop"}) /\ \E f : Leads(f, sheet.count, Len(stack'), notices')
    <3> DEFINE from == sheet.count
               to == Len(stack)
               then == Len(stack')
    <3>1. to \in Nat /\ then \in Nat /\ then = to - 1 /\ Leads(d, from, to, notices)
      BY <1>1, <2>2
    <3> HIDE DEF from, to, then
    <3>2. Append(notices, "stop") \in Seq({"start", "stop"}) /\ \E f : Leads(f, from, then, Append(notices, "stop"))
      BY <3>1, EventSent
    <3>3. QED BY <2>1, <3>2 DEF from, then
  <2>4. QED BY <2>1, <2>3
<1>4. CASE HandleEvent
  <2>1. notices # <<>> /\ sheet' = AfterEvent(Head(notices)) /\ notices' = Tail(notices) /\ stack' = stack
        /\ Head(notices) \in {"start", "stop"}
    BY <1>4 DEF HandleEvent, app
  <2> DEFINE from == sheet.count
             to == Len(stack)
             e == Head(notices)
             then == IF e = "start" THEN from + 1 ELSE from - 1
  <2>2. from \in Nat /\ Leads(d, from, to, notices)
    BY <1>1
  <2> HIDE DEF from, to
  <2>3. then \in Nat /\ Tail(notices) \in Seq({"start", "stop"}) /\ \E f : Leads(f, then, to, Tail(notices))
    BY <2>1, <2>2, EventHandled
  <2>4. then = (IF e = "start" THEN sheet.count + 1 ELSE sheet.count - 1) /\ e \in {"start", "stop"}
    BY <2>1 DEF from
  <2> HIDE DEF e, then
  <2>5. /\ AfterEvent(e) \in [count : Nat, shown : BOOLEAN, pressed : BOOLEAN]
        /\ AfterEvent(e).shown <=> AfterEvent(e).count > 0
        /\ AfterEvent(e).count = then
    BY <2>3, <2>4, SheetCounts
  <2>6. sheet' = AfterEvent(e)
    BY <2>1 DEF e
  <2>7. QED BY <2>1, <2>3, <2>5, <2>6 DEF to
<1>5. CASE PressCancel
  <2>1. sheet' = [sheet EXCEPT !.pressed = TRUE] /\ UNCHANGED <<stack, notices>>
    BY <1>5 DEF PressCancel, app
  <2>2. sheet' \in [count : Nat, shown : BOOLEAN, pressed : BOOLEAN] /\ sheet'.count = sheet.count
        /\ sheet'.shown = sheet.shown
    BY <2>1
  <2>3. QED BY <1>1, <2>1, <2>2
<1>6. CASE \/ TryLoadingItem \/ LoadItem \/ Subscribe \/ Unsubscribe \/ StopWorker \/ SendStop \/ JoinWorker
           \/ Worker \/ UNCHANGED cancelVars
  <2>1. UNCHANGED <<sheet, notices, stack>>
    BY <1>6 DEF TryLoadingItem, LoadItem, Subscribe, Unsubscribe, StopWorker, SendStop, JoinWorker, Worker,
       Connect, Receive, Lock, Tell, Unlock, Goto, app, window, cancelVars
  <2>2. QED BY <2>1
<1>7. QED BY <1>2, <1>3, <1>4, <1>5, <1>6 DEF CancelNext

\* For any number and nesting of operations and any delay of the events, the sheet of a
\* window that has caught up is there exactly while an operation runs, and counts them.
THEOREM SheetAlwaysFollows == CancelSpec => []SheetFollowsOperations
<1>1. SheetIInv /\ SubscribersIInv => SheetFollowsOperations
  <2> SUFFICES ASSUME SheetIInv, SubscribersIInv, notices = <<>>
               PROVE  sheet.count = Len(stack) /\ (sheet.shown <=> stack # <<>>)
    BY DEF SheetFollowsOperations
  <2>1. sheet.count = Len(stack)
    <3>1. PICK d : Leads(d, sheet.count, Len(stack), notices)
      BY DEF SheetIInv
    <3>2. Len(notices) = 0
      OBVIOUS
    <3>3. QED BY <3>1, <3>2 DEF Leads
  <2>2. Len(stack) > 0 <=> stack # <<>>
    BY DEF SubscribersIInv
  <2>3. QED BY <2>1, <2>2 DEF SheetIInv
<1>2. QED BY <1>1, SubscribersInit, SubscribersNext, SheetInit, SheetNext, PTL DEF CancelSpec
=============================================================================
