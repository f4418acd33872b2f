----------------------------- MODULE MCCpuRunner -----------------------------
(* A small instance of CpuRunner: two interrupts, and an address space of  *)
(* four bytes in two pages.                                                *)
EXTENDS CpuRunner

MCHandlers == [i \in {1, 2} |-> i + 1]
==============================================================================
