-------------------------------- MODULE Timer --------------------------------
(***************************************************************************)
(* The timer of the emulator: timer::timer_system (timer_system.cppm) and  *)
(* the register handlers of timer_memory.cppm.                             *)
(*                                                                         *)
(* The engine thread owns the timer.  In every pass of the scheduler loop  *)
(* the CPU runs first and may write one timer register; the timer is then  *)
(* advanced by the batch.  An action is one register write, one advance of *)
(* the timer, or the acknowledgement of its interrupt.                     *)
(***************************************************************************)
EXTENDS Integers

CONSTANTS
  DivMod,   (* 2^16: the divider counts modulo this number.             *)
  DivPage,  (* 2^8: ticks per increment of the visible DIV register.    *)
  TimaMax,  (* 255: the largest value of the 8-bit TIMA and TMA.        *)
  Clocks    (* Weights of the divider bits TAC can select: 8, 32, 128,  *)
            (* 512 (bits 3, 5, 7 and 9).                                *)

ASSUME DivModAssumption  == DivMod \in Nat \ {0}
ASSUME DivPageAssumption == DivPage \in Nat \ {0}
ASSUME TimaMaxAssumption == TimaMax \in Nat \ {0}
ASSUME ClocksAssumption  ==
  /\ Clocks \subseteq Nat \ {0}
  /\ Clocks # {}
  /\ \A w \in Clocks : w % 8 = 0 /\ DivMod % (2 * w) = 0

VARIABLES
  divider_register,
  timer_counter,
  timer_modulo,
  timer_control,      (* [enabled, clock]                               *)
  overflow_detected,
  ticks_until_interrupt,
  tma_overwrite_performed_this_cycle,
  remaining_ticks_in_tma_overwrite_cycle,
  timer_requested,    (* bit 2 of IF, in the interrupt controller       *)
  ticks_since_access  (* T-cycles since the CPU last wrote a register   *)
                      (* of the timer, counted up to LongGap            *)

pending_vars   == <<overflow_detected, ticks_until_interrupt>>
overwrite_vars == <<tma_overwrite_performed_this_cycle,
                    remaining_ticks_in_tma_overwrite_cycle>>
vars == <<divider_register, timer_counter, timer_modulo, timer_control,
          pending_vars, overwrite_vars, timer_requested, ticks_since_access>>

(* T-cycles of an M-cycle: the delay from an overflow to the reload, and   *)
(* the time for which the reload overrides a CPU write.                    *)
MCycle == 4

(* cpu_runner performs at most one memory access every MCycle T-cycles, on *)
(* a grid that only leaving HALT can shift; entering and leaving HALT      *)
(* takes it past LongGap T-cycles.                                         *)
LongGap == 2 * MCycle

Byte == 0 .. TimaMax

Min2(a, b) == IF a <= b THEN a ELSE b

-----------------------------------------------------------------------------
(* The pure helpers of timer_system.cppm. *)

(* The divider bit of weight w is set. *)
BitSet(div, w) == (div \div w) % 2 = 1

(* (div & prev_mask) > (div & current_mask), the test set_control_clock    *)
(* makes: it compares the masked VALUES.                                   *)
ClockEdge(div, prev, current) ==
  (IF BitSet(div, prev) THEN prev ELSE 0) > (IF BitSet(div, current) THEN current ELSE 0)

number_of_ticks_for_tima_increment(div, w) == (2 * w) - (div % (2 * w))

number_of_ticks_for_div_increment(div) == DivPage - (div % DivPage)

number_of_ticks_for_div_clock_bit_set(div, w) == Min2(1, w - (div % w))

(* With no pending interrupt or no enabled clock the code's bound is the   *)
(* largest uint32, so that term drops out of the minimum.                  *)
tick_batch ==
  LET running == Min2(number_of_ticks_for_div_clock_bit_set(divider_register, timer_control.clock),
                      number_of_ticks_for_div_increment(divider_register))
      counting == IF timer_control.enabled
                  THEN Min2(running, number_of_ticks_for_tima_increment(
                                        divider_register, timer_control.clock))
                  ELSE running
  IN  IF overflow_detected THEN Min2(ticks_until_interrupt, counting) ELSE counting

-----------------------------------------------------------------------------
(* timer_counter.tick() followed by the assignments every caller but       *)
(* set_control_enabled makes: TIMA wraps to zero and the interrupt is      *)
(* pending for one M-cycle.                                                *)
TickCounter ==
  \/ /\ timer_counter = TimaMax
     /\ timer_counter' = 0
     /\ overflow_detected' = TRUE
     /\ ticks_until_interrupt' = MCycle
  \/ /\ timer_counter # TimaMax
     /\ timer_counter' = timer_counter + 1
     /\ overflow_detected' = FALSE
     /\ ticks_until_interrupt' = 0

(* Where the CPU may write: one M-cycle after its last access, or any time *)
(* later.                                                                  *)
CpuAccess ==
  /\ ticks_since_access \in {MCycle, LongGap}
  /\ ticks_since_access' = 0

(* Seeded fault: the flag is assigned whether or not the write causes a    *)
(* falling edge.                                                           *)
WriteDivAssigns ==
  /\ CpuAccess
  /\ divider_register' = 0
  /\ IF timer_control.enabled /\ BitSet(divider_register, timer_control.clock)
     THEN TickCounter
     ELSE /\ overflow_detected' = FALSE
          /\ ticks_until_interrupt' = 0
          /\ UNCHANGED timer_counter
  /\ UNCHANGED <<timer_modulo, timer_control, overwrite_vars, timer_requested>>

(* write_div_address: set_divider(0x00). *)
WriteDiv ==
  /\ CpuAccess
  /\ divider_register' = 0
  /\ IF timer_control.enabled /\ BitSet(divider_register, timer_control.clock)
     THEN TickCounter
     ELSE UNCHANGED <<timer_counter, pending_vars>>
  /\ UNCHANGED <<timer_modulo, timer_control, overwrite_vars, timer_requested>>

(* write_tima_address: set_counter(value). *)
WriteTima(value) ==
  /\ CpuAccess
  /\ \/ /\ overflow_detected /\ ticks_until_interrupt <= MCycle
        /\ timer_counter' = value
        /\ overflow_detected' = FALSE
        /\ ticks_until_interrupt' = 0
     \/ /\ ~(overflow_detected /\ ticks_until_interrupt <= MCycle)
        /\ timer_counter' = IF tma_overwrite_performed_this_cycle THEN timer_counter ELSE value
        /\ UNCHANGED pending_vars
  /\ UNCHANGED <<divider_register, timer_modulo, timer_control, overwrite_vars, timer_requested>>

(* Seeded fault: the overwrite window is ignored. *)
WriteTmaOutsideWindow(value) ==
  /\ CpuAccess
  /\ timer_modulo' = value
  /\ UNCHANGED <<divider_register, timer_counter, timer_control, pending_vars,
                 overwrite_vars, timer_requested>>

(* write_tma_address: set_modulo(value). *)
WriteTma(value) ==
  /\ CpuAccess
  /\ timer_modulo' = value
  /\ timer_counter' = IF tma_overwrite_performed_this_cycle THEN value ELSE timer_counter
  /\ UNCHANGED <<divider_register, timer_control, pending_vars, overwrite_vars, timer_requested>>

(* write_tac_address with the enable bit clear: set_control_enabled(false) *)
(* may tick TIMA and, on an overflow, requests the interrupt at once;      *)
(* set_control_clock finds the timer disabled and only stores the clock.   *)
FallsAtDisable == timer_control.enabled /\ BitSet(divider_register, timer_control.clock)
WriteTacDisabled(clock) ==
  /\ CpuAccess
  /\ timer_control' = [enabled |-> FALSE, clock |-> clock]
  /\ \/ /\ FallsAtDisable
        /\ timer_counter = TimaMax
        /\ timer_counter' = 0
        /\ timer_requested' = TRUE
     \/ /\ FallsAtDisable
        /\ timer_counter # TimaMax
        /\ timer_counter' = timer_counter + 1
        /\ UNCHANGED timer_requested
     \/ /\ ~FallsAtDisable
        /\ UNCHANGED <<timer_counter, timer_requested>>
  /\ UNCHANGED <<divider_register, timer_modulo, pending_vars, overwrite_vars>>

(* write_tac_address with the enable bit set: set_control_clock compares   *)
(* the old clock's bit with the new one's, whether or not the timer was    *)
(* enabled before the write.                                               *)
WriteTacEnabled(clock) ==
  /\ CpuAccess
  /\ timer_control' = [enabled |-> TRUE, clock |-> clock]
  /\ IF ClockEdge(divider_register, timer_control.clock, clock)
     THEN TickCounter
     ELSE UNCHANGED <<timer_counter, pending_vars>>
  /\ UNCHANGED <<divider_register, timer_modulo, overwrite_vars, timer_requested>>

-----------------------------------------------------------------------------
(* Seeded fault: a disabled timer stops the countdown too. *)
AdvancePendingWhileEnabled(n) ==
  /\ overflow_detected
  /\ \/ /\ timer_control.enabled
        /\ n >= ticks_until_interrupt
        /\ ticks_until_interrupt' = 0
        /\ timer_counter' = timer_modulo
        /\ overflow_detected' = FALSE
        /\ timer_requested' = TRUE
     \/ /\ timer_control.enabled
        /\ n < ticks_until_interrupt
        /\ ticks_until_interrupt' = ticks_until_interrupt - n
        /\ UNCHANGED <<timer_counter, overflow_detected, timer_requested>>
     \/ /\ ~timer_control.enabled
        /\ UNCHANGED <<timer_counter, pending_vars, timer_requested>>

(* The part of advance() that runs while an overflow is pending. *)
AdvancePending(n) ==
  /\ overflow_detected
  /\ \/ /\ n >= ticks_until_interrupt
        /\ ticks_until_interrupt' = 0
        /\ timer_counter' = timer_modulo
        /\ overflow_detected' = FALSE
        /\ timer_requested' = TRUE
     \/ /\ n < ticks_until_interrupt
        /\ ticks_until_interrupt' = ticks_until_interrupt - n
        /\ UNCHANGED <<timer_counter, overflow_detected, timer_requested>>

(* Seeded fault: the batch that sets all bits up to the selected one       *)
(* already counts as the carry.                                            *)
AdvanceCountingEarly(n) ==
  /\ ~overflow_detected
  /\ IF /\ timer_control.enabled
        /\ (divider_register % (2 * timer_control.clock)) + n >= (2 * timer_control.clock) - 1
     THEN TickCounter
     ELSE UNCHANGED <<timer_counter, pending_vars>>
  /\ UNCHANGED timer_requested

(* The part of advance() that runs otherwise: TIMA ticks if the batch      *)
(* carries out of the selected bit.                                        *)
AdvanceCounting(n) ==
  /\ ~overflow_detected
  /\ IF /\ timer_control.enabled
        /\ (divider_register % (2 * timer_control.clock)) + n > (2 * timer_control.clock) - 1
     THEN TickCounter
     ELSE UNCHANGED <<timer_counter, pending_vars>>
  /\ UNCHANGED timer_requested

(* The reload opens the TMA-overwrite window; any other batch shrinks it.  *)
AdvanceOverwriteWindow(n) ==
  LET left == remaining_ticks_in_tma_overwrite_cycle
                - Min2(remaining_ticks_in_tma_overwrite_cycle, n)
      reload == overflow_detected /\ ticks_until_interrupt <= n
  IN  /\ remaining_ticks_in_tma_overwrite_cycle' = IF reload THEN MCycle ELSE left
      /\ tma_overwrite_performed_this_cycle' = (remaining_ticks_in_tma_overwrite_cycle' > 0)

(* timer_system::advance, called by tick() with a batch the scheduler      *)
(* bounds by tick_batch().                                                 *)
Advance(n) ==
  /\ AdvanceOverwriteWindow(n)
  /\ AdvancePending(n) \/ AdvanceCounting(n)
  /\ divider_register' = (divider_register + n) % DivMod
  /\ ticks_since_access' = Min2(LongGap, ticks_since_access + n)
  /\ UNCHANGED <<timer_modulo, timer_control>>

Tick == \E n \in 1 .. tick_batch : Advance(n)

(* The interrupt dispatcher, or a CPU write of IF, clears the request.     *)
Acknowledge ==
  /\ timer_requested
  /\ timer_requested' = FALSE
  /\ UNCHANGED <<divider_register, timer_counter, timer_modulo, timer_control,
                 pending_vars, overwrite_vars, ticks_since_access>>

-----------------------------------------------------------------------------
(* The registers at power on; the engine sets the divider while the timer  *)
(* is disabled, with a value that is not a multiple of the M-cycle.        *)
Init ==
  /\ divider_register \in 0 .. DivMod - 1
  /\ timer_counter = 0
  /\ timer_modulo = 0
  /\ \E clock \in Clocks :
       /\ \A other \in Clocks : other <= clock
       /\ timer_control = [enabled |-> FALSE, clock |-> clock]
  /\ overflow_detected = FALSE
  /\ ticks_until_interrupt = 0
  /\ tma_overwrite_performed_this_cycle = FALSE
  /\ remaining_ticks_in_tma_overwrite_cycle = 0
  /\ timer_requested = FALSE
  /\ ticks_since_access = LongGap

CpuWrite ==
  \/ WriteDiv
  \/ \E value \in Byte : WriteTima(value) \/ WriteTma(value)
  \/ \E clock \in Clocks : WriteTacDisabled(clock) \/ WriteTacEnabled(clock)

Next == Tick \/ CpuWrite \/ Acknowledge

(* The scheduler loop never stops advancing the timer while the engine     *)
(* runs.                                                                   *)
Spec == Init /\ [][Next]_vars /\ WF_vars(Tick)

-----------------------------------------------------------------------------
(* Type invariant: the registers keep their widths and the two windows     *)
(* never exceed one M-cycle.                                               *)
TypeOK ==
  /\ divider_register \in 0 .. DivMod - 1
  /\ timer_counter \in Byte
  /\ timer_modulo \in Byte
  /\ timer_control \in [enabled: BOOLEAN, clock: Clocks]
  /\ overflow_detected \in BOOLEAN
  /\ ticks_until_interrupt \in 0 .. MCycle
  /\ tma_overwrite_performed_this_cycle \in BOOLEAN
  /\ remaining_ticks_in_tma_overwrite_cycle \in 0 .. MCycle
  /\ timer_requested \in BOOLEAN
  /\ ticks_since_access \in 0 .. LongGap

(* While an overflow is pending TIMA reads zero ("TIMA stays at zero for a *)
(* whole m-cycle", timer_system.test.cpp), and an overflow is pending      *)
(* exactly while its countdown runs.  A TMA write reaching TIMA through    *)
(* the overwrite window, or a disable ticking it, would break this; both   *)
(* need the CPU to write inside the M-cycle.                               *)
PendingCountsFromZero ==
  /\ overflow_detected <=> ticks_until_interrupt > 0
  /\ overflow_detected => timer_counter = 0

(* Why the CPU never meets a pending overflow it could disturb.  A pending *)
(* overflow either follows a CPU write so closely that it ends before the  *)
(* next one, or was caused by the divider, and then the selected bit has   *)
(* just fallen.  div % 8 locates the divider inside the shortest run of a  *)
(* constant selectable bit.                                                *)
PendingWindow ==
  overflow_detected =>
    /\ \/ ticks_since_access + ticks_until_interrupt = MCycle
       \/ divider_register % 8 = MCycle - ticks_until_interrupt
       \/ /\ divider_register % 8 = ticks_since_access
          /\ ticks_since_access + ticks_until_interrupt <= MCycle
    /\ \/ ticks_since_access + ticks_until_interrupt <= MCycle
       \/ timer_control.enabled /\ ~BitSet(divider_register, timer_control.clock)

(* The same for the TMA-overwrite window that follows a reload: the        *)
(* divider causes no overflow in it, except after one a CPU write caused,  *)
(* and then the CPU makes no access until both windows are closed.         *)
OverwriteWindow ==
  LET left == remaining_ticks_in_tma_overwrite_cycle
  IN  /\ tma_overwrite_performed_this_cycle <=> left > 0
      /\ left > 0 =>
           \/ divider_register % 8 = 8 - left
           \/ ticks_since_access + left <= MCycle
           \/ ticks_since_access >= MCycle /\ ticks_since_access + left <= LongGap
           \/ divider_register % 8 = ticks_since_access /\ ticks_since_access + left <= LongGap
      /\ left > 0 /\ overflow_detected =>
           \/ ticks_since_access + ticks_until_interrupt <= MCycle
           \/ ticks_since_access + left <= MCycle
           \/ ticks_since_access > MCycle /\ ticks_since_access + left <= LongGap

(* The two windows together: what makes the other properties inductive.    *)
WindowsDoNotInterfere == PendingWindow /\ OverwriteWindow

(* The timer always offers the scheduler a batch of exactly one tick.  A   *)
(* batch of zero would spin batch_schedule for ever; and the CPU relies on *)
(* not getting a longer one: cpu_runner::step counts EI's delay down by    *)
(* the whole batch before it looks for an interrupt.                       *)
UnitBatch == tick_batch = 1

(* A pending overflow ends only by the reload with its interrupt, or by a  *)
(* CPU write of TIMA.  set_divider and set_control_clock assign            *)
(* overflow_detected from a new TIMA tick, so a falling edge they produce  *)
(* inside the window would drop the interrupt.                             *)
Reloads == Tick /\ timer_counter' = timer_modulo /\ timer_requested'
PendingNeverDropped ==
  [][overflow_detected /\ ~overflow_detected' =>
       Reloads \/ \E value \in Byte : WriteTima(value)]_vars

(* advance() looks for no edge of the selected divider bit while an        *)
(* overflow is pending.  The only edges lost to that are in the M-cycle    *)
(* right after a CPU write which itself made TIMA overflow: the pending    *)
(* window of an overflow the divider caused never contains another edge.   *)
FallingEdge ==
  /\ timer_control.enabled
  /\ BitSet(divider_register, timer_control.clock)
  /\ ~BitSet(divider_register', timer_control.clock)
EdgesLostOnlyAfterWriteOverflow ==
  [][Tick /\ FallingEdge /\ overflow_detected =>
       ticks_since_access + ticks_until_interrupt = MCycle]_vars

(* The timer keeps the promises of TimerContract. *)
Phase ==
  CASE overflow_detected -> "overflowed"
    [] tma_overwrite_performed_this_cycle /\ ~overflow_detected -> "reloading"
    [] OTHER -> "counting"
Contract == INSTANCE TimerContract
              WITH counter <- timer_counter, modulo <- timer_modulo,
                   phase <- Phase, requested <- timer_requested
ImplementsContract == Contract!Spec

(* A pending overflow is resolved.                                         *)
PendingResolves == overflow_detected ~> ~overflow_detected

==============================================================================
