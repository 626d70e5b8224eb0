---------------------------- MODULE MCLuaScript -----------------------------
(* Texts of one shifted stroke, and of an unshifted and a shifted one.     *)
EXTENDS LuaScript

ShortTexts == {<<4>>, <<2, 4>>}
=============================================================================
