---------------------------- MODULE CancelWorker ----------------------------
(***************************************************************************)
(* Cancelling what the application loads.  An operation of the application *)
(* thread, and one nested in it, owns a Progress object, which tells the   *)
(* window when it starts and stops.  The window shows one sheet with a     *)
(* Cancel button (MainWindow::openProgressWindow); the button sends a      *)
(* token to a worker thread (CancelPublisherWorker), which marks every     *)
(* object that subscribed.  Stopping the worker sends it a token as well.  *)
(***************************************************************************)
EXTENDS Naturals, Sequences, FiniteSets, SequencesExt

CONSTANTS
  MaxProgress,   \* bound of the operations of a session
  MaxNested      \* operations that are nested in each other

ASSUME CancelAssumption == MaxProgress \in Nat \ {0} /\ MaxNested \in Nat \ {0}

Operations == 1 .. MaxProgress

VARIABLES
  stack,         \* the operations that own a Progress object, outermost first
  phase,         \* what the application thread does with the last of them
  subscribers,   \* m_subscribers
  cancelled,     \* the operations whose m_cancelled is set
  begun,         \* how many operations have begun
  worker,        \* where the worker thread is
  visit,         \* the subscribers it has still to tell, while it holds the mutex
  running,       \* m_running
  tokens,        \* the tokens in the worker's socket
  stop,          \* where CancelPublisherWorker::stop is
  notices,       \* the events on their way to the window
  sheet,         \* m_progressWindow and whether its button was pressed
  asked,         \* history: the operations that a press was to cancel
  lost           \* history: whether the token of stop found no listener

app == <<stack, phase, begun>>
thread == <<worker, visit>>
window == <<notices, sheet, asked>>
cancelVars == <<app, subscribers, cancelled, thread, running, tokens, stop, window, lost>>

Top == stack[Len(stack)]
Locked == worker = "telling"
Listening == worker \in {"waiting", "locking", "telling"}
NoSheet == [count |-> 0, shown |-> FALSE, pressed |-> FALSE]

CancelTypeOK ==
  /\ stack \in Seq(Operations) /\ Len(stack) <= MaxNested
  /\ phase \in {"idle", "subscribing", "loading", "item", "stopping"}
  /\ begun \in 0 .. MaxProgress
  /\ subscribers \subseteq ToSet(stack) /\ cancelled \subseteq 1 .. begun
  /\ worker \in {"none", "started", "bound", "waiting", "locking", "telling", "ended"}
  /\ visit \subseteq Operations /\ (visit # {} => Locked)
  /\ running \in BOOLEAN /\ tokens \in 0 .. MaxProgress + 1
  /\ stop \in {"no", "sending", "joining", "done"}
  /\ notices \in Seq({"start", "stop"})
  /\ sheet \in [count : 0 .. MaxNested, shown : BOOLEAN, pressed : BOOLEAN]
  /\ asked \subseteq Operations /\ lost \in BOOLEAN

-----------------------------------------------------------------------------
(* The application thread.                                                 *)

\* tryLoadingItem lets an operation go on with its next item.
TryLoadingItem ==
  /\ phase = "loading" /\ Top \notin cancelled /\ phase' = "item"
  /\ UNCHANGED <<stack, begun, subscribers, cancelled, thread, running, tokens, stop, window, lost>>

LoadItem ==
  /\ phase = "item" /\ phase' = "loading"
  /\ UNCHANGED <<stack, begun, subscribers, cancelled, thread, running, tokens, stop, window, lost>>

\* An item of an operation may be an operation of its own, although the outer one
\* may have been cancelled since it asked.
Begin ==
  /\ stop = "no" /\ begun < MaxProgress /\ Len(stack) < MaxNested
  /\ phase \in {"idle", "item"}
  /\ stack' = Append(stack, begun + 1) /\ begun' = begun + 1
  /\ phase' = "subscribing"
  /\ notices' = Append(notices, "start")
  /\ UNCHANGED <<subscribers, cancelled, thread, running, tokens, stop, sheet, asked, lost>>

\* The first operation makes the worker and starts its thread.
Subscribe ==
  /\ phase = "subscribing" /\ ~Locked
  /\ subscribers' = subscribers \cup {Top}
  /\ worker' = IF worker = "none" THEN "started" ELSE worker
  /\ phase' = "loading"
  /\ UNCHANGED <<stack, begun, cancelled, visit, running, tokens, stop, window, lost>>

\* ~Progress: the object leaves the set before it goes.
MutUnsubscribe ==
  /\ phase = "loading"
  /\ subscribers' = subscribers \ {Top} /\ phase' = "stopping"
  /\ UNCHANGED <<stack, begun, cancelled, thread, running, tokens, stop, window, lost>>
Unsubscribe ==
  /\ phase = "loading" /\ ~Locked
  /\ subscribers' = subscribers \ {Top} /\ phase' = "stopping"
  /\ UNCHANGED <<stack, begun, cancelled, thread, running, tokens, stop, window, lost>>

Destroy ==
  /\ phase = "stopping"
  /\ stack' = Front(stack) /\ phase' = IF Len(stack) = 1 THEN "idle" ELSE "loading"
  /\ notices' = Append(notices, "stop")
  /\ UNCHANGED <<begun, subscribers, cancelled, thread, running, tokens, stop, sheet, asked, lost>>

\* requestCancel: only a bound and subscribed socket gets the token.
SendToken == tokens' = IF Listening THEN tokens + 1 ELSE tokens

\* CancelPublisherWorker::stop, at the end of the service.
StopWorker ==
  /\ phase = "idle" /\ stop = "no" /\ worker # "none"
  /\ running' = FALSE /\ stop' = "sending"
  /\ UNCHANGED <<app, subscribers, cancelled, thread, tokens, window, lost>>

SendStop ==
  /\ stop = "sending" /\ stop' = "joining" /\ SendToken
  /\ lost' = (worker \in {"started", "bound"})
  /\ UNCHANGED <<app, subscribers, cancelled, thread, running, window>>

JoinWorker ==
  /\ stop = "joining" /\ worker = "ended" /\ stop' = "done"
  /\ UNCHANGED <<app, subscribers, cancelled, thread, running, tokens, window, lost>>

-----------------------------------------------------------------------------
(* The worker thread.                                                      *)

Goto(from, to) ==
  /\ worker = from /\ worker' = to
  /\ UNCHANGED <<app, subscribers, cancelled, running, stop, window, lost>>

\* Connecting may fail, and receiving fails then.
Connect ==
  /\ \/ Goto("started", "bound") \/ Goto("bound", "waiting")
     \/ Goto("started", "ended") \/ Goto("bound", "ended")
  /\ UNCHANGED <<visit, tokens>>

Receive ==
  /\ tokens > 0 /\ Goto("waiting", "locking") /\ tokens' = tokens - 1
  /\ UNCHANGED visit

Lock ==
  /\ Goto("locking", "telling") /\ visit' = subscribers /\ UNCHANGED tokens

MutTell ==
  \E o \in visit :
    /\ worker = "telling" /\ visit' = {}
    /\ cancelled' = cancelled \cup {o}
    /\ UNCHANGED <<app, subscribers, worker, running, tokens, stop, window, lost>>
Tell ==
  \E o \in visit :
    /\ worker = "telling" /\ visit' = visit \ {o}
    /\ cancelled' = cancelled \cup {o}
    /\ UNCHANGED <<app, subscribers, worker, running, tokens, stop, window, lost>>

MutUnlock ==
  /\ visit = {}
  /\ Goto("telling", "waiting") /\ UNCHANGED <<visit, tokens>>
Unlock ==
  /\ visit = {}
  /\ Goto("telling", IF running THEN "waiting" ELSE "ended")
  /\ UNCHANGED <<visit, tokens>>

-----------------------------------------------------------------------------
(* The window thread.                                                      *)

SheetOpened == [count |-> 1, shown |-> TRUE, pressed |-> FALSE]
MutAfterEvent(e) ==
  IF e = "start" THEN SheetOpened
  ELSE IF sheet.count <= 1 THEN NoSheet ELSE [sheet EXCEPT !.count = @ - 1]
AfterEvent(e) ==
  IF e = "start"
  THEN IF sheet.count > 0 THEN [sheet EXCEPT !.count = @ + 1] ELSE SheetOpened
  ELSE IF sheet.count <= 1 THEN NoSheet ELSE [sheet EXCEPT !.count = @ - 1]

HandleEvent ==
  /\ notices # <<>>
  /\ sheet' = AfterEvent(Head(notices)) /\ notices' = Tail(notices)
  /\ UNCHANGED <<app, subscribers, cancelled, thread, running, tokens, stop, asked, lost>>

\* A click ends the sheet, so that it is the only one.
PressCancel ==
  /\ sheet.shown /\ ~sheet.pressed /\ SendToken
  /\ sheet' = [sheet EXCEPT !.pressed = TRUE]
  /\ asked' = asked \cup (IF Listening THEN subscribers ELSE {})
  /\ UNCHANGED <<app, subscribers, cancelled, thread, running, stop, notices, lost>>

-----------------------------------------------------------------------------
CancelInit ==
  /\ stack = <<>> /\ phase = "idle" /\ begun = 0
  /\ subscribers = {} /\ cancelled = {}
  /\ worker = "none" /\ visit = {} /\ running = TRUE /\ tokens = 0 /\ stop = "no"
  /\ notices = <<>> /\ sheet = NoSheet /\ asked = {} /\ lost = FALSE

Worker == Connect \/ Receive \/ Lock \/ Tell \/ Unlock
CancelNext ==
  \/ Begin \/ TryLoadingItem \/ LoadItem \/ Subscribe \/ Unsubscribe \/ Destroy
  \/ StopWorker \/ SendStop \/ JoinWorker
  \/ Worker \/ HandleEvent \/ PressCancel

\* An operation ends when tryLoadingItem refuses its next item; a nested one, which
\* loads the parts of one item, ends in any case.
Ends == stack # <<>> /\ (Top \in cancelled \/ Len(stack) > 1) /\ Unsubscribe

CancelSpec == CancelInit /\ [][CancelNext]_cancelVars
CancelFairSpec ==
  /\ CancelSpec
  /\ WF_cancelVars(Worker) /\ WF_cancelVars(Subscribe) /\ WF_cancelVars(LoadItem)
  /\ SF_cancelVars(Ends) /\ WF_cancelVars(Destroy)
  /\ WF_cancelVars(SendStop) /\ WF_cancelVars(JoinWorker)
-----------------------------------------------------------------------------
(* Properties.                                                             *)

\* The worker tells no object that is gone: ~Progress takes the mutex that
\* CancelPublisherWorker::dispatch holds while it goes through the set.
TellsOnlyTheLiving == visit \subseteq ToSet(stack)

\* When the window has caught up, the sheet is up exactly while an operation runs
\* and counts the nested ones (MainWindow::openProgressWindow, closeProgressWindow).
SheetFollowsOperations ==
  notices = <<>> => sheet.count = Len(stack) /\ (sheet.shown <=> stack # <<>>)

\* A press that found the worker listening ends every operation that ran then,
\* even when an item of it starts one that the worker did not see.
CancelEnds == \A o \in Operations : (o \in asked) ~> (o \notin ToSet(stack))

\* Stopping the worker ends, unless its token was sent before the worker listened.
StopEnds == (stop = "joining") ~> (stop = "done" \/ lost)
=============================================================================
