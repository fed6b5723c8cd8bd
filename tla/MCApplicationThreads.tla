----------------------- MODULE MCApplicationThreads -----------------------
EXTENDS ApplicationThreads

MCAll == {"minimize", "edit", "keyframe", "lateEdit", "fail", "saveFails", "crashed"}
MCAsk == {"edit", "minimize"}
MCCrashed == {"crashed"}
=============================================================================
