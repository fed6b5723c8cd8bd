------------------------------ MODULE MCRedoLog ------------------------------
EXTENDS RedoLog
MCSession == {"save", "open", "new", "crash"}
=============================================================================
