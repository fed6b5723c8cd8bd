----------------------------- MODULE MCFileSave -----------------------------
EXTENDS FileSave
=============================================================================
