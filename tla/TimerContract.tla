---------------------------- MODULE TimerContract ----------------------------
(***************************************************************************)
(* What the timer promises a game, without the divider or any countdown:   *)
(* TIMA counts up; when it wraps it stays at zero until either the reload  *)
(* from TMA, which requests the interrupt, or a write of TIMA, which calls *)
(* the reload off; right after the reload a write of TIMA is ignored and a *)
(* write of TMA goes through to TIMA.                                      *)
(***************************************************************************)
EXTENDS Integers

CONSTANT TimaMax

VARIABLES counter, modulo, phase, requested

vars == <<counter, modulo, phase, requested>>

Phases == {"counting", "overflowed", "reloading"}

Init ==
  /\ counter = 0
  /\ modulo = 0
  /\ phase = "counting"
  /\ requested = FALSE

(* TIMA counts one edge; the reload phase may be over at the same time. *)
Count ==
  /\ phase # "overflowed"
  /\ counter < TimaMax
  /\ counter' = counter + 1
  /\ phase' \in {phase, "counting"}
  /\ UNCHANGED <<modulo, requested>>

Overflow ==
  /\ phase # "overflowed"
  /\ counter = TimaMax
  /\ counter' = 0
  /\ phase' = "overflowed"
  /\ UNCHANGED <<modulo, requested>>

(* The overflow a write that disables the timer causes: the interrupt      *)
(* comes at once and TIMA is not reloaded.                                 *)
OverflowAtDisable ==
  /\ phase # "overflowed"
  /\ counter = TimaMax
  /\ counter' = 0
  /\ requested' = TRUE
  /\ UNCHANGED <<modulo, phase>>

Reload ==
  /\ phase = "overflowed"
  /\ counter' = modulo
  /\ requested' = TRUE
  /\ phase' = "reloading"
  /\ UNCHANGED modulo

EndReload ==
  /\ phase = "reloading"
  /\ phase' = "counting"
  /\ UNCHANGED <<counter, modulo, requested>>

SetCounter ==
  /\ phase # "reloading"
  /\ counter' \in 0 .. TimaMax
  /\ phase' = "counting"
  /\ UNCHANGED <<modulo, requested>>

SetModulo ==
  /\ modulo' \in 0 .. TimaMax
  /\ counter' = IF phase = "reloading" THEN modulo' ELSE counter
  /\ UNCHANGED <<phase, requested>>

Acknowledge ==
  /\ requested' = FALSE
  /\ UNCHANGED <<counter, modulo, phase>>

Next ==
  \/ Count \/ Overflow \/ OverflowAtDisable
  \/ Reload \/ EndReload
  \/ SetCounter \/ SetModulo
  \/ Acknowledge

Spec == Init /\ [][Next]_vars
==============================================================================
