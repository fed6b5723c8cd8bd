------------------------- MODULE ApplicationThreads -------------------------
(***************************************************************************)
(* The two threads of nanoem and how the application quits.  The window    *)
(* thread (ThreadedApplicationClient under MainWindow) and the application *)
(* thread (ThreadedApplicationService) share nothing but two nanomsg       *)
(* streams: commands one way, events the other.  The application thread    *)
(* alternates drawing with receiving all commands; it waits in nn_recvmsg  *)
(* while the window is minimised, and recovers from a redo log inline.     *)
(***************************************************************************)
EXTENDS Naturals, Sequences, SequencesExt

CONSTANTS MaxClose,   \* bound on the user's requests to close the window
          MaxQueue,   \* the user does nothing while so many commands wait
          MaxDialog,  \* bound on the dialogs open when a command fails
          Records,    \* records of the redo log that a recovery replays
          Semaphore,  \* whether quitting waits for the metrics thread (macOS)
          Happens     \* what the user, the disk and the last session do

ASSUME BoundsAssumption ==
  MaxClose \in Nat /\ MaxQueue \in Nat \ {0} /\ MaxDialog \in Nat
  /\ Records \in Nat /\ Semaphore \in BOOLEAN
ASSUME HappensAssumption ==
  Happens \subseteq {"minimize", "edit", "keyframe", "lateEdit", "fail",
                     "saveFails", "crashed"}

VARIABLES client,     \* the window thread: phase, once-listeners, metrics thread
          service,    \* the application thread and the project it owns
          commands,   \* the command stream
          events,     \* the event stream
          replay,     \* the recovery worker: records left, waiting for a pong
          unsaved,    \* (auxiliary) the project differs from its saved file
          discarded   \* (auxiliary) the user chose to discard the changes

vars == <<client, service, commands, events, replay, unsaved, discarded>>

Command == {"initialize", "activate", "deactivate", "isDirty", "confirm",
            "getURI", "saveFile", "edit", "keyframe", "record", "ping", "fail",
            "destroy", "terminate"}
Event == {"initialized", "dirty", "clean", "save", "discard", "uri", "saved",
          "destroyed", "terminated"}
Dialog == {"confirm", "error", "recovery"}

Client == [phase : {"starting", "running", "stuck", "closing", "done"},
           minimized : BOOLEAN, closes : 0 .. MaxClose, metrics : BOOLEAN,
           confirm : BOOLEAN, saved : 0 .. MaxClose,
           destroy : 0 .. MaxClose, terminate : 0 .. MaxClose]
Service == [step : {"draw", "receive", "recover", "exited"}, running : BOOLEAN,
            nonblocking : BOOLEAN, project : {"none", "active", "inactive"},
            dialogs : Seq(Dialog), dirty : BOOLEAN]

Init ==
  /\ client = [phase |-> "starting", minimized |-> FALSE, closes |-> 0,
               metrics |-> TRUE, confirm |-> FALSE, saved |-> 0, destroy |-> 0,
               terminate |-> 0]
  /\ service = [step |-> "draw", running |-> TRUE, nonblocking |-> TRUE,
                project |-> "none", dialogs |-> <<>>, dirty |-> FALSE]
  /\ commands = <<"initialize">>
  /\ events = <<>>
  /\ replay \in [left : 0 .. Records, waiting : {FALSE}]
  /\ unsaved = FALSE
  /\ discarded = FALSE

-----------------------------------------------------------------------------
(* The window thread: what the user does.                                  *)

Send(command) == commands' = Append(commands, command)
Idle == client.phase = "running" /\ Len(commands) < MaxQueue

Minimize ==
  /\ Idle /\ "minimize" \in Happens /\ ~client.minimized
  /\ client' = [client EXCEPT !.minimized = TRUE]
  /\ Send("deactivate")
  /\ UNCHANGED <<service, events, replay, unsaved, discarded>>

Restore ==
  /\ Idle /\ client.minimized
  /\ client' = [client EXCEPT !.minimized = FALSE]
  /\ Send("activate")
  /\ UNCHANGED <<service, events, replay, unsaved, discarded>>

(* A property of a model is edited, a keyframe is registered, or a command *)
(* fails.  The user works before asking to quit, unless "lateEdit".        *)
Work ==
  /\ Idle
  /\ \/ /\ "lateEdit" \in Happens \/ client.closes = 0
        /\ \E command \in {"edit", "keyframe"} \cap Happens : Send(command)
     \/ /\ "fail" \in Happens /\ Len(service.dialogs) < MaxDialog
        /\ Send("fail")
  /\ UNCHANGED <<client, service, events, replay, unsaved, discarded>>

Close ==
  /\ Idle /\ client.closes < MaxClose
  /\ client' = [client EXCEPT !.closes = @ + 1]
  /\ Send("isDirty")
  /\ UNCHANGED <<service, events, replay, unsaved, discarded>>

-----------------------------------------------------------------------------
(* The window thread: the events it receives.  Listeners are once-         *)
(* listeners: an event runs those registered for it and erases them.       *)

Received(event) ==
  /\ client.phase \in {"starting", "running"}
  /\ events # <<>> /\ Head(events) = event
  /\ events' = Tail(events)
  /\ UNCHANGED <<service, replay, unsaved, discarded>>

(* sendDestroyMessage, once for each of `times` listeners.  On macOS it    *)
(* takes the semaphore that the metrics thread signals once, at its end.   *)
Blocks(c, times) == Semaphore /\ (times > 1 \/ ~c.metrics)
Destroys(c, times) == IF Semaphore THEN IF c.metrics THEN 1 ELSE 0 ELSE times

SendDestroy(c, times) ==
  /\ client' = [c EXCEPT !.metrics = FALSE, !.destroy = @ + Destroys(c, times),
                         !.phase = IF Blocks(c, times) THEN "stuck" ELSE @]
  /\ commands' = commands \o [i \in 1 .. Destroys(c, times) |-> "destroy"]

OnInitialized ==
  /\ Received("initialized")
  /\ client' = [client EXCEPT !.phase = "running"]
  /\ Send("activate")

OnDirty ==
  /\ Received("dirty")
  /\ client' = [client EXCEPT !.confirm = TRUE]
  /\ Send("confirm")

MutOnClean == Received("clean") /\ client' = [client EXCEPT !.terminate = 1] /\ Send("terminate")
OnClean == Received("clean") /\ SendDestroy(client, 1)

MutOnSave ==
  /\ Received("save")
  /\ IF client.confirm
     THEN SendDestroy([client EXCEPT !.confirm = FALSE], 1)
     ELSE UNCHANGED <<client, commands>>
OnSave ==
  /\ Received("save")
  /\ IF client.confirm
     THEN /\ client' = [client EXCEPT !.confirm = FALSE, !.saved = @ + 1]
          /\ Send("getURI")
     ELSE UNCHANGED <<client, commands>>

OnDiscard ==
  /\ Received("discard")
  /\ IF client.confirm
     THEN SendDestroy([client EXCEPT !.confirm = FALSE], 1)
     ELSE UNCHANGED <<client, commands>>

(* An untitled project asks for a file, and the user may give none. *)
OnURI ==
  /\ Received("uri")
  /\ \/ Send("saveFile") /\ UNCHANGED client
     \/ client' = [client EXCEPT !.saved = 0] /\ UNCHANGED commands

OnSaved ==
  /\ Received("saved")
  /\ IF client.saved > 0
     THEN SendDestroy([client EXCEPT !.saved = 0], client.saved)
     ELSE UNCHANGED <<client, commands>>

OnDestroyed ==
  /\ Received("destroyed")
  /\ client' = [client EXCEPT !.destroy = 0, !.terminate = @ + client.destroy]
  /\ commands' = commands \o [i \in 1 .. client.destroy |-> "terminate"]

OnTerminated ==
  /\ Received("terminated")
  /\ client' = [client EXCEPT !.terminate = 0,
                              !.phase = IF client.terminate > 0 THEN "closing" ELSE @]
  /\ UNCHANGED commands

(* service.stop() joins the application thread. *)
Join ==
  /\ client.phase = "closing" /\ service.step = "exited"
  /\ client' = [client EXCEPT !.phase = "done"]
  /\ UNCHANGED <<service, commands, events, replay, unsaved, discarded>>

WindowThread ==
  OnInitialized \/ OnDirty \/ OnClean \/ OnSave \/ OnDiscard \/ OnURI
  \/ OnSaved \/ OnDestroyed \/ OnTerminated \/ Join

-----------------------------------------------------------------------------
(* The application thread: a run unit draws, then receives all commands.   *)

Opened(dialog) == <<dialog>> \o service.dialogs
Publish(event) == events' = Append(events, event)

Draw ==
  /\ service.step = "draw"
  /\ service' = [service EXCEPT !.step = "receive"]
  /\ UNCHANGED <<client, commands, events, replay, unsaved, discarded>>

(* swapModalDialog deletes the last dialog; the answered one is the first. *)
Closed(dialogs) == Front(dialogs)

Answer(dialog) ==
  /\ service.step = "draw" /\ service.project = "active"
  /\ service.dialogs # <<>> /\ Head(service.dialogs) = dialog
  /\ UNCHANGED <<client, commands, unsaved>>

AnswerConfirm ==
  /\ Answer("confirm")
  /\ service' = [service EXCEPT !.step = "receive", !.dialogs = Closed(@)]
  /\ \/ Publish("save") /\ UNCHANGED discarded
     \/ Publish("discard") /\ discarded' = TRUE
     \/ UNCHANGED <<events, discarded>>
  /\ UNCHANGED replay

AnswerError ==
  /\ Answer("error")
  /\ service' = [service EXCEPT !.step = "receive", !.dialogs = Closed(@)]
  /\ UNCHANGED <<events, replay, discarded>>

AcceptRecovery ==
  /\ Answer("recovery")
  /\ service' = [service EXCEPT !.step = "recover"]
  /\ UNCHANGED <<events, replay, discarded>>

RefuseRecovery ==
  /\ Answer("recovery")
  /\ service' = [service EXCEPT !.step = "receive", !.dialogs = Closed(@)]
  /\ UNCHANGED <<events, replay, discarded>>

(* Redo::loadAllAsync runs on the application thread: run_and_wait calls   *)
(* the worker, which sends a record and a ping and spins for the pong.     *)
ReplayRecord ==
  /\ service.step = "recover" /\ replay.left > 0 /\ ~replay.waiting
  /\ commands' = commands \o <<"record", "ping">>
  /\ replay' = [left |-> replay.left - 1, waiting |-> TRUE]
  /\ UNCHANGED <<client, service, events, unsaved, discarded>>

FinishRecovery ==
  /\ service.step = "recover" /\ replay.left = 0 /\ ~replay.waiting
  /\ service' = [service EXCEPT !.step = "receive", !.dialogs = <<>>]
  /\ UNCHANGED <<client, commands, events, replay, unsaved, discarded>>

Handles(handled) ==
  /\ service.step = "receive"
  /\ commands # <<>> /\ Head(commands) \in handled
  /\ commands' = Tail(commands)
  /\ UNCHANGED <<client, discarded>>
HasProject == service.project # "none"

HandleInitialize ==
  /\ Handles({"initialize"})
  /\ service' = [service EXCEPT !.project = "inactive",
                   !.dialogs = IF "crashed" \in Happens THEN Opened("recovery") ELSE @]
  /\ Publish("initialized")
  /\ UNCHANGED <<replay, unsaved>>

(* Without a project neither command changes how the thread receives. *)
HandleActivation ==
  /\ Handles({"activate", "deactivate"})
  /\ service' = IF ~HasProject THEN service
                ELSE [service EXCEPT
                        !.project = IF Head(commands) = "activate" THEN "active" ELSE "inactive",
                        !.nonblocking = Head(commands) = "activate"]
  /\ UNCHANGED <<events, replay, unsaved>>

Answers(command) ==
  CASE command = "ping" \/ ~HasProject -> <<>>
    [] command = "getURI" /\ HasProject -> <<"uri">>
    [] OTHER -> <<IF service.dirty /\ service.dialogs = <<>> THEN "dirty" ELSE "clean">>

HandleQuery ==
  /\ Handles({"isDirty", "getURI", "ping"})
  /\ events' = events \o Answers(Head(commands))
  /\ replay' = [replay EXCEPT !.waiting = @ /\ Head(commands) # "ping"]
  /\ UNCHANGED <<service, unsaved>>

(* Registering keyframes marks the motion, which isDirty does not ask. *)
Edits == HasProject /\ (Head(commands) = "record" \/ service.dialogs = <<>>)

HandleEdit ==
  /\ Handles({"edit", "keyframe", "record"})
  /\ service' = [service EXCEPT !.dirty = @ \/ (Edits /\ Head(commands) = "edit")]
  /\ unsaved' = (unsaved \/ Edits)
  /\ UNCHANGED <<events, replay>>

HandleDialog ==
  /\ Handles({"confirm", "fail"})
  /\ service' = [service EXCEPT
                   !.dialogs = Opened(IF Head(commands) = "confirm" THEN "confirm" ELSE "error")]
  /\ UNCHANGED <<events, replay, unsaved>>

(* The event is sent whether the file was written or not. *)
HandleSaveFile ==
  /\ Handles({"saveFile"})
  /\ \/ /\ service.dialogs # <<>> \/ ~HasProject
        /\ UNCHANGED <<service, unsaved>>
     \/ /\ service.dialogs = <<>> /\ HasProject
        /\ service' = [service EXCEPT !.dirty = FALSE]
        /\ unsaved' = FALSE
     \/ /\ service.dialogs = <<>> /\ HasProject /\ "saveFails" \in Happens
        /\ \E dirty \in {service.dirty, FALSE} :
             service' = [service EXCEPT !.dirty = dirty, !.dialogs = Opened("error")]
        /\ UNCHANGED unsaved
  /\ Publish("saved")
  /\ UNCHANGED replay

HandleDestroy ==
  /\ Handles({"destroy"})
  /\ service' = [service EXCEPT !.project = "none"]
  /\ Publish("destroyed")
  /\ UNCHANGED <<replay, unsaved>>

MutHandleTerminate ==
  Handles({"terminate"}) /\ Publish("terminated") /\ UNCHANGED <<service, replay, unsaved>>
HandleTerminate ==
  /\ Handles({"terminate"})
  /\ service' = [service EXCEPT !.running = FALSE]
  /\ Publish("terminated")
  /\ UNCHANGED <<replay, unsaved>>

(* nn_recvmsg returns EAGAIN on an empty stream only with NN_DONTWAIT. *)
EndReceive ==
  /\ service.step = "receive" /\ commands = <<>> /\ service.nonblocking
  /\ service' = [service EXCEPT !.step = IF service.running THEN "draw" ELSE "exited"]
  /\ UNCHANGED <<client, commands, events, replay, unsaved, discarded>>

ApplicationThread ==
  Draw \/ ReplayRecord \/ FinishRecovery \/ EndReceive
  \/ HandleInitialize \/ HandleActivation \/ HandleQuery \/ HandleEdit
  \/ HandleDialog \/ HandleSaveFile \/ HandleDestroy \/ HandleTerminate

User ==
  Minimize \/ Restore \/ Work \/ Close
  \/ AnswerConfirm \/ AnswerError \/ AcceptRecovery \/ RefuseRecovery

Next == User \/ WindowThread \/ ApplicationThread

Spec == Init /\ [][Next]_vars
(* Both threads run; the user owes nothing. *)
FairSpec == Spec /\ WF_vars(WindowThread) /\ WF_vars(ApplicationThread)

-----------------------------------------------------------------------------
TypeOK ==
  /\ client \in Client
  /\ service \in Service
  /\ commands \in Seq(Command)
  /\ events \in Seq(Event)
  /\ replay \in [left : 0 .. Records, waiting : BOOLEAN]
  /\ unsaved \in BOOLEAN /\ discarded \in BOOLEAN

(* The graphics library is shut down (TERMINATE) only after the project    *)
(* that uses it is destroyed, over every interleaving of the two threads.  *)
TerminatesAfterDestroy == ~service.running => service.project = "none"

(* Quitting throws changes away only if the user chose to: with unsaved    *)
(* changes the question is asked, and "save" saves before exiting.         *)
DiscardsByChoice == unsaved /\ service.project = "none" => discarded

(* Once the window thread sends DESTROY the application ends: the project  *)
(* is destroyed, the libraries terminate and the threads are joined.  The  *)
(* thread that waits while the window is minimised may miss it.            *)
QuitCompletesUnlessMinimized ==
  (client.destroy > 0) ~> (client.phase = "done" \/ ~service.nonblocking)

(* A recovery that the user accepted ends, and the application goes on. *)
RecoveryFinishes == (service.step = "recover") ~> (service.step # "recover")
=============================================================================
