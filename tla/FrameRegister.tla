----------------------------- MODULE FrameRegister -----------------------------
(***************************************************************************)
(* What the display promises: a register that holds the latest frame.      *)
(* Frames are put into it in the order they are made, each video item that *)
(* is painted shows the frame that is the latest at that moment, and so no *)
(* item shows a frame in pieces or goes back to an earlier one.            *)
(***************************************************************************)
EXTENDS Naturals

CONSTANT Items   (* The video items *)

VARIABLES
  latest,   (* The number of the latest frame; 0 before the first. *)
  shown     (* The frame each item shows.                          *)

register_vars == <<latest, shown>>

Init ==
  /\ latest = 0
  /\ shown = [item \in Items |-> 0]

Put ==
  /\ latest' = latest + 1
  /\ UNCHANGED shown

Show(item) ==
  /\ shown' = [shown EXCEPT ![item] = latest]
  /\ UNCHANGED latest

(* The window of the item is closed. *)
Forget(item) ==
  /\ shown' = [shown EXCEPT ![item] = 0]
  /\ UNCHANGED latest

Next == Put \/ \E item \in Items : Show(item) \/ Forget(item)

Spec == Init /\ [][Next]_register_vars
================================================================================
