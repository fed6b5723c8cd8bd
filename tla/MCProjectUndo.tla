---------------------------- MODULE MCProjectUndo ----------------------------
EXTENDS ProjectUndo, TLC
CONSTANTS mA, mB
MCCommand == 1 .. 3
MCSymmetry == Permutations(Model)
MCAll == {"transform", "keyframe", "snapshot", "move", "switch", "play"}
=============================================================================
