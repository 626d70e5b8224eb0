--------------------------- MODULE MCStreamCapture --------------------------
(* Instance of StreamCapture for TLC.                                      *)
EXTENDS StreamCapture
=============================================================================
