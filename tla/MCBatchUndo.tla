----------------------------- MODULE MCBatchUndo -----------------------------
EXTENDS BatchUndo
MCMotion == {"camera", "light", "model"}
MCAll == {"move", "edit", "scale"}
=============================================================================
