----------------------------- MODULE MCBacklight -----------------------------
(***************************************************************************)
(* Backlight with two columns of one cell and brightness modulo 3.     *)
(***************************************************************************)
EXTENDS Backlight
=============================================================================
