----------------------- MODULE MCKeyboardController -------------------------
(* Keys with one- and two-byte scancodes, and guests with the whole         *)
(* repertoire of the keyboard or of the controller.                        *)
EXTENDS KeyboardController

KeyLength == [k \in Keys |-> IF k = "a" THEN 2 ELSE 1]

KeyboardBytes == DataBytes \union KbdCommands

AllButReadRam == Commands \ {"ReadRam"}
=============================================================================
