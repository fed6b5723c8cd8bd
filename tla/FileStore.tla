----------------------------- MODULE FileStore -----------------------------
(***************************************************************************)
(* What saving promises: a file is absent or holds one whole version, and  *)
(* changes in one step to another whole version, whatever fails and        *)
(* whenever the program stops in between.                                  *)
(***************************************************************************)
CONSTANTS Paths, Versions, NoFile

VARIABLE store     \* the version that each file holds

Init == store \in [Paths -> Versions \cup {NoFile}]

Replace(p, v) == store' = [store EXCEPT ![p] = v]

Next == \E p \in Paths, v \in Versions : Replace(p, v)

Spec == Init /\ [][Next]_store
=============================================================================
