---------------------------- MODULE MCUndoStack ----------------------------
EXTENDS UndoStack
MCCommand == 1 .. 6
=============================================================================
