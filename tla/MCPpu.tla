-------------------------------- MODULE MCPpu --------------------------------
(* The instance of Ppu that MCPpu.cfg describes: frames of three visible   *)
(* lines and two of blank, LYC on a visible line, on a blank line, on the  *)
(* first line and on the value that stands for no line.                    *)
EXTENDS Ppu

MCLycValues == {0, 1, 4, NoLine}
==============================================================================
