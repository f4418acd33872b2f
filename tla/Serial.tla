-------------------------------- MODULE Serial --------------------------------
(***************************************************************************)
(* serial::link (serial_link.cppm) with its two registers                  *)
(* (serial_memory.cppm): a byte is exchanged with the other side bit by    *)
(* bit, on the internal clock of a master or on clock edges from outside.  *)
(*                                                                         *)
(* A bit of the data register is represented by where it comes from.  A    *)
(* tick may be as long as the batch the component offers; in the engine    *)
(* the timer keeps it shorter (UnitBatch of module Timer).                 *)
(***************************************************************************)
EXTENDS Integers

CONSTANTS
  Bits,         (* 8 bits to a byte.                                     *)
  ClockSteps    (* serial_master_clock_steps: 512 T-cycles to a bit.     *)

ASSUME BitsAssumption       == Bits \in Nat \ {0}
ASSUME ClockStepsAssumption == ClockSteps \in Nat \ {0}

VARIABLES
  transfer_data,          (* Bit 1 is sent next.                         *)
  transfer_enabled,
  master,
  num_bits_transferred,
  cycle_accumulator,
  requested,              (* The serial interrupt is requested.          *)
  disturbed               (* The program wrote the data register after   *)
                          (* the first bit; what the properties exclude. *)

control_vars == <<transfer_enabled, master>>
count_vars   == <<num_bits_transferred, cycle_accumulator>>
vars == <<transfer_data, control_vars, count_vars, requested, disturbed>>

active == transfer_enabled /\ master

tick_batch == (Bits - num_bits_transferred) * ClockSteps

-----------------------------------------------------------------------------
(* Seeded fault: a byte is done one bit early. *)
TransferBitsShort(n) ==
  /\ transfer_data' = [i \in 1 .. Bits |->
                         IF i + n <= Bits THEN transfer_data[i + n] ELSE "received"]
  /\ IF num_bits_transferred + n >= Bits - 1
     THEN /\ transfer_enabled' = FALSE
          /\ num_bits_transferred' = 0
          /\ requested' = TRUE
          /\ disturbed' = FALSE
     ELSE /\ num_bits_transferred' = num_bits_transferred + n
          /\ UNCHANGED <<transfer_enabled, requested, disturbed>>

(* Seeded fault: the end of a byte does not end the transfer. *)
TransferBitsEndless(n) ==
  /\ transfer_data' = [i \in 1 .. Bits |->
                         IF i + n <= Bits THEN transfer_data[i + n] ELSE "received"]
  /\ num_bits_transferred' = (num_bits_transferred + n) % Bits
  /\ IF num_bits_transferred + n >= Bits
     THEN requested' = TRUE /\ disturbed' = FALSE
     ELSE UNCHANGED <<requested, disturbed>>
  /\ UNCHANGED transfer_enabled

(* n calls of transfer_bit.  The last bit of a byte ends the transfer; a   *)
(* bit after it would be counted for the next one.                         *)
TransferBits(n) ==
  /\ transfer_data' = [i \in 1 .. Bits |->
                         IF i + n <= Bits THEN transfer_data[i + n] ELSE "received"]
  /\ num_bits_transferred' = (num_bits_transferred + n) % Bits
  /\ IF num_bits_transferred + n >= Bits
     THEN transfer_enabled' = FALSE /\ requested' = TRUE /\ disturbed' = FALSE
     ELSE UNCHANGED <<transfer_enabled, requested, disturbed>>

(* Seeded fault: one bit at most is transferred, the rest stays due. *)
TickOneBit(ticks) ==
  /\ active
  /\ ticks \in 1 .. tick_batch
  /\ IF cycle_accumulator + ticks >= ClockSteps
     THEN cycle_accumulator' = cycle_accumulator + ticks - ClockSteps /\ TransferBits(1)
     ELSE cycle_accumulator' = cycle_accumulator + ticks /\ TransferBits(0)
  /\ UNCHANGED master

(* link::tick *)
Tick(ticks) ==
  /\ active
  /\ ticks \in 1 .. tick_batch
  /\ cycle_accumulator' = (cycle_accumulator + ticks) % ClockSteps
  /\ TransferBits((cycle_accumulator + ticks) \div ClockSteps)
  /\ UNCHANGED master

(* link::external_tick: a clock edge of the other side. *)
ExternalTick ==
  /\ transfer_enabled /\ ~master
  /\ TransferBits(1)
  /\ UNCHANGED <<master, cycle_accumulator>>

-----------------------------------------------------------------------------
(* A CPU write to SB. *)
WriteData ==
  /\ transfer_data' = [i \in 1 .. Bits |-> "written"]
  /\ disturbed' = (num_bits_transferred # 0)
  /\ UNCHANGED <<control_vars, count_vars, requested>>

(* A CPU write to SC.  The bits and the T-cycles counted so far are kept,  *)
(* also those of a transfer it calls off.                                  *)
WriteControl(enabled, internal_clock) ==
  /\ transfer_enabled' = enabled
  /\ master' = internal_clock
  /\ UNCHANGED <<transfer_data, count_vars, requested, disturbed>>

(* The CPU dispatches the interrupt. *)
Acknowledge ==
  /\ requested
  /\ requested' = FALSE
  /\ UNCHANGED <<transfer_data, control_vars, count_vars, disturbed>>

-----------------------------------------------------------------------------
Init ==
  /\ transfer_data = [i \in 1 .. Bits |-> "written"]
  /\ transfer_enabled = FALSE
  /\ master = FALSE
  /\ num_bits_transferred = 0
  /\ cycle_accumulator = 0
  /\ requested = FALSE
  /\ disturbed = FALSE

AnyTick == \E ticks \in 1 .. tick_batch : Tick(ticks)

Next ==
  \/ AnyTick \/ ExternalTick
  \/ WriteData
  \/ \E enabled, internal_clock \in BOOLEAN : WriteControl(enabled, internal_clock)
  \/ Acknowledge

(* The scheduler loop never stops; the other side may be silent. *)
Spec == Init /\ [][Next]_vars /\ WF_vars(AnyTick)

-----------------------------------------------------------------------------
(* Types; fewer bits than a byte and fewer T-cycles than a bit are left    *)
(* over between ticks, also by a transfer that was called off.             *)
TypeOK ==
  /\ transfer_data \in [1 .. Bits -> {"written", "received"}]
  /\ transfer_enabled \in BOOLEAN
  /\ master \in BOOLEAN
  /\ num_bits_transferred \in 0 .. Bits - 1
  /\ cycle_accumulator \in Nat
  /\ requested \in BOOLEAN
  /\ disturbed \in BOOLEAN

(* The loop of tick goes on while T-cycles are left, without a look at     *)
(* transfer_enabled, and the batch it is given takes no account of the     *)
(* T-cycles left over: still no tick shifts a bit beyond the byte.         *)
BatchEndsWithByte ==
  (cycle_accumulator + tick_batch) \div ClockSteps <= Bits - num_bits_transferred

(* The bits in front of the register are those not sent yet: whatever      *)
(* transfers were called off or changed sides, the interrupt comes with a  *)
(* byte of which every bit was received, unless the program wrote SB in    *)
(* the middle.                                                             *)
InterruptBringsByte ==
  [][~requested /\ requested' /\ ~disturbed =>
       \A i \in 1 .. Bits : transfer_data'[i] = "received"]_vars

(* A transfer on the internal clock ends. *)
TransferEnds == active ~> ~active
==============================================================================
