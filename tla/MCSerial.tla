------------------------------- MODULE MCSerial -------------------------------
(* The instance of Serial that MCSerial.cfg describes: three bits of four  *)
(* T-cycles.                                                               *)
EXTENDS Serial
==============================================================================
