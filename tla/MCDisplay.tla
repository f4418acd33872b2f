------------------------------ MODULE MCDisplay ------------------------------
(* Two video items, of the window and of one viewer, and three frames.     *)
EXTENDS Display
==============================================================================
