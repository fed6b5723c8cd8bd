----------------------------- MODULE EditHistory -----------------------------
(***************************************************************************)
(* What an undo stack promises its user: a history of edits with a cursor, *)
(* of which at most Limit are kept, and a document that is always the      *)
(* result of the edits before the cursor.  An edit after some undos makes  *)
(* the undone edits unreachable (docs/menu.rst: after A, B, undo, C the    *)
(* edit B is lost).                                                        *)
(***************************************************************************)
EXTENDS Naturals, Sequences

CONSTANTS Edit,    \* edits, each of which makes the version of its name
          Limit    \* number of edits that can be undone

VARIABLES history,   \* the edits kept, oldest first
          cursor,    \* how many of them are applied
          origin,    \* the version before the oldest edit kept
          version    \* the document

vars == <<history, cursor, origin, version>>

Init ==
  /\ history = <<>>
  /\ cursor = 0
  /\ origin = 0
  /\ version = 0

\* The version after the first n edits of a history.
VersionAt(n) == IF n = 0 THEN origin ELSE history[n]

NewEdit(e) ==
  LET kept == Append(SubSeq(history, 1, cursor), e)
  IN  /\ \A i \in 1 .. Len(history) : history[i] # e
      /\ IF Len(kept) <= Limit
         THEN history' = kept /\ origin' = origin
         ELSE history' = Tail(kept) /\ origin' = Head(kept)
      /\ cursor' = Len(history')
      /\ version' = e

Undo ==
  /\ cursor > 0
  /\ cursor' = cursor - 1
  /\ version' = VersionAt(cursor - 1)
  /\ UNCHANGED <<history, origin>>

Redo ==
  /\ cursor < Len(history)
  /\ cursor' = cursor + 1
  /\ version' = VersionAt(cursor + 1)
  /\ UNCHANGED <<history, origin>>

\* Forgetting the history keeps the document.
Forget ==
  /\ history' = <<>>
  /\ cursor' = 0
  /\ origin' = version
  /\ UNCHANGED version

Next ==
  \/ \E e \in Edit : NewEdit(e)
  \/ Undo
  \/ Redo
  \/ Forget

Spec == Init /\ [][Next]_vars
=============================================================================
