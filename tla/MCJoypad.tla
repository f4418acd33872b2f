------------------------------- MODULE MCJoypad -------------------------------
(* The instance of Joypad that the MCJoypad*.cfg files describe. *)
EXTENDS Joypad
==============================================================================
