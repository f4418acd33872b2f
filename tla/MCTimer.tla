------------------------------- MODULE MCTimer -------------------------------
(* The instance of Timer that MCTimer.cfg describes: three selectable      *)
(* divider bits and a 2-bit TIMA.                                          *)
EXTENDS Timer
==============================================================================
