------------------------------ MODULE MCBridge ------------------------------
(* The bridge with the handler threads as model values.                    *)
EXTENDS Bridge
=============================================================================
