--------------------------- MODULE MCCancelWorker ---------------------------
EXTENDS CancelWorker
=============================================================================
