----------------------------- MODULE MCFrameTap -----------------------------
(* The tap with the web server's threads as model values.                  *)
EXTENDS FrameTap
=============================================================================
