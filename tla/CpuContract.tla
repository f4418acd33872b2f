----------------------------- MODULE CpuContract -----------------------------
(***************************************************************************)
(* What the CPU promises a program about interrupts, without cycles,       *)
(* opcodes or the lookahead of the runner: interrupts come only between    *)
(* two instructions, EI takes effect one instruction later, a dispatch     *)
(* keeps the address it will return to, and HALT ends when an interrupt is *)
(* pending.  A prefixed instruction counts as begun when the instruction   *)
(* before it ends.                                                         *)
(***************************************************************************)
EXTENDS Integers

CONSTANTS PcMod, Interrupts, handler_address

VARIABLES
  pc,         (* The next instruction; unspecified while one executes.   *)
  mode,
  ime,        (* "arming" between EI and the end of the next instruction *)
  requested,
  enabled,
  accepted    (* The interrupt last accepted, or 0.                      *)

vars == <<pc, mode, ime, requested, enabled, accepted>>

Pc == 0 .. PcMod - 1

Pending == enabled \cap requested
First   == CHOOSE i \in Pending : \A j \in Pending : i <= j

Init ==
  /\ pc \in Pc
  /\ mode = "ready"
  /\ ime = "off"
  /\ requested \subseteq Interrupts
  /\ enabled = {}
  /\ accepted = 0

Request ==
  /\ \E i \in Interrupts : requested' = requested \cup {i}
  /\ UNCHANGED <<pc, mode, ime, enabled, accepted>>

(* A write to IE or to IF, or anywhere else. *)
Write ==
  /\ requested' \subseteq Interrupts
  /\ enabled' \subseteq Interrupts
  /\ requested' = requested \/ enabled' = enabled

(* An instruction begins unless an interrupt has to be taken first. *)
Begin ==
  /\ mode = "ready"
  /\ ~(ime = "on" /\ Pending # {})
  /\ mode' = "busy"
  /\ pc' \in Pc
  /\ UNCHANGED <<ime, requested, enabled, accepted>>

(* An instruction makes progress, or ends with a prefixed one following. *)
Run ==
  /\ mode = "busy" /\ mode' = "busy"
  /\ pc' \in Pc
  /\ ime' \in {"off", "arming", "on"}
  /\ ime' = "arming" => ime # "on"
  /\ Write
  /\ UNCHANGED accepted

(* An instruction ends.  Whatever it is, it leaves no EI of the            *)
(* instruction before it without effect.                                   *)
Retire ==
  /\ mode = "busy" /\ mode' \in {"ready", "halted"}
  /\ pc' \in Pc
  /\ ime' \in {"off", "arming", "on"}
  /\ ime' = "arming" => ime = "off" /\ mode' = "ready"
  /\ Write
  /\ UNCHANGED accepted

Accept ==
  /\ mode \in {"ready", "halted"}
  /\ ime = "on"
  /\ Pending # {}
  /\ mode' = "dispatching"
  /\ accepted' = First
  /\ UNCHANGED <<pc, ime, requested, enabled>>

(* HALT ends without a dispatch. *)
Wake ==
  /\ mode = "halted"
  /\ ime = "off"
  /\ Pending # {}
  /\ \/ mode' = "ready" /\ UNCHANGED pc
     \/ mode' = "busy" /\ pc' \in Pc
  /\ UNCHANGED <<ime, requested, enabled, accepted>>

(* A dispatch clears IME and pushes the return address, which may write    *)
(* over IE or IF.                                                          *)
Save ==
  /\ mode = "dispatching" /\ mode' = "dispatching"
  /\ ime' = "off"
  /\ Write
  /\ UNCHANGED <<pc, accepted>>

(* It ends at the handler of the interrupt it accepted, whose request it   *)
(* clears; if the pushes disabled that interrupt, at the first one pending *)
(* now, and at address zero if there is none.                              *)
Vector ==
  /\ mode = "dispatching"
  /\ ime = "off"
  /\ mode' = "ready"
  /\ \/ \E i \in Interrupts :
          /\ i = accepted \/ (Pending # {} /\ i = First)
          /\ pc' = handler_address[i]
          /\ requested' = requested \ {i}
     \/ Pending = {} /\ pc' = 0 /\ UNCHANGED requested
  /\ UNCHANGED <<ime, enabled, accepted>>

Next ==
  \/ Request
  \/ Begin \/ Run \/ Retire
  \/ Accept \/ Wake \/ Save \/ Vector

Spec == Init /\ [][Next]_vars
==============================================================================
