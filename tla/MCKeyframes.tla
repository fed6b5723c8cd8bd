---------------------------- MODULE MCKeyframes ----------------------------
EXTENDS Keyframes, TLC

MCLoaded == {0 :> "rest" @@ 1 :> "bent"}
MCSymmetry == Permutations(Key)
=============================================================================
