----------------------------- MODULE LcdContract -----------------------------
(***************************************************************************)
(* What the PPU promises the screen and the game: a clock of a fixed       *)
(* number of dots to a frame.  At the end of each visible line the line is *)
(* shown; at the end of the last one the frame is complete and the         *)
(* vertical blank is requested.  Switching the LCD off gives up the frame. *)
(***************************************************************************)
EXTENDS Integers

CONSTANTS
  LineDots, VisibleLines, Lines   (* As in Ppu.                          *)

VARIABLES
  on,
  dot,      (* Dots since the frame began.                               *)
  screen,   (* The lines of this frame shown so far.                     *)
  vblank    (* The vertical blank is requested.                          *)

vars == <<on, dot, screen, vblank>>

FrameDots   == LineDots * Lines
VisibleDots == LineDots * VisibleLines
OnDot       == 2

Init ==
  /\ on = TRUE
  /\ dot = 0
  /\ screen = {}
  /\ vblank = TRUE

(* Time passes within a line. *)
Advance ==
  /\ on
  /\ dot' \in dot + 1 .. dot + LineDots - (dot % LineDots) - 1
  /\ UNCHANGED <<on, screen, vblank>>

(* Time passes to the end of the line. *)
EndLine ==
  LET end == dot + LineDots - (dot % LineDots)
  IN  /\ on
      /\ dot' = end % FrameDots
      /\ UNCHANGED on
      /\ \/ end < VisibleDots /\ screen' = 0 .. dot \div LineDots /\ UNCHANGED vblank
         \/ end = VisibleDots /\ screen' = {} /\ vblank' = TRUE
         \/ end > VisibleDots /\ UNCHANGED <<screen, vblank>>

Switch ==
  \/ ~on /\ on' = TRUE /\ UNCHANGED <<dot, screen, vblank>>
  \/ on /\ on' = FALSE /\ dot' = OnDot /\ screen' = {} /\ UNCHANGED vblank

Acknowledge == vblank /\ vblank' = FALSE /\ UNCHANGED <<on, dot, screen>>

Next == Advance \/ EndLine \/ Switch \/ Acknowledge

Spec == Init /\ [][Next]_vars
==============================================================================
