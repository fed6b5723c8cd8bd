---------------------------- MODULE MCCapturing ----------------------------
EXTENDS Capturing
=============================================================================
