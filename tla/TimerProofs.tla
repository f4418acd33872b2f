----------------------------- MODULE TimerProofs -----------------------------
(***************************************************************************)
(* Proofs about Timer, for every divider width, TIMA width and set of      *)
(* selectable clocks that meets the assumptions of that module.            *)
(***************************************************************************)
EXTENDS Timer, TLAPS

-----------------------------------------------------------------------------
(* Division by a positive number. *)

(* A natural number is its quotient times the divisor plus its remainder.  *)
LEMMA DivisionFacts ==
  ASSUME NEW a \in Nat, NEW b \in Nat \ {0}
  PROVE  /\ a = (b * (a \div b)) + (a % b)
         /\ a % b \in 0 .. b - 1
         /\ a \div b \in Nat
  OBVIOUS

(* Quotient and remainder are determined by that equation. *)
LEMMA UniqueQuotient ==
  ASSUME NEW b \in Nat \ {0}, NEW q \in Nat, NEW r \in 0 .. b - 1
  PROVE  /\ ((b * q) + r) \div b = q
         /\ ((b * q) + r) % b = r
  OBVIOUS

(* Counting up by one leaves a divider bit whose weight is a multiple of 8 *)
(* alone, unless the three bits below it are all set.                      *)
LEMMA BitIsStable ==
  ASSUME NEW d \in Nat, NEW w \in Nat \ {0}, w % 8 = 0, d % 8 # 7
  PROVE  (d + 1) \div w = d \div w
<1> DEFINE q == d \div w
           r == d % w
           c == w \div 8
<1>1. d = (w * q) + r /\ r \in 0 .. w - 1 /\ q \in Nat
  BY DivisionFacts
<1>2. w = 8 * c /\ c \in Nat \ {0}
  BY DivisionFacts
<1> HIDE DEF q, r, c
<1>3. r # w - 1
  <2>1. SUFFICES ASSUME r = w - 1 PROVE d % 8 = 7
    OBVIOUS
  <2>2. w * q = 8 * (c * q)
    BY <1>1, <1>2
  <2>3. d = (8 * ((c * q) + c - 1)) + 7
    BY <1>1, <1>2, <2>1, <2>2
  <2>4. (c * q) + c - 1 \in Nat
    BY <1>1, <1>2
  <2>5. QED
    BY <2>3, <2>4
<1>4. d + 1 = (w * q) + (r + 1) /\ r + 1 \in 0 .. w - 1
  BY <1>1, <1>3
<1>5. (d + 1) \div w = q
  BY <1>1, <1>4, UniqueQuotient
<1>6. QED
  BY <1>5 DEF q

(* A count that carries out of the bit of weight w finds all lower bits    *)
(* set, and leaves the bit clear.                                          *)
LEMMA CarryClearsBit ==
  ASSUME NEW d \in Nat, NEW w \in Nat \ {0}, w % 8 = 0,
         (d % (2 * w)) + 1 > (2 * w) - 1
  PROVE  /\ d % 8 = 7
         /\ ((d + 1) \div w) % 2 = 0
<1> DEFINE q == d \div (2 * w)
           c == w \div 8
<1>1. 2 * w \in Nat \ {0}
  OBVIOUS
<1> DEFINE m == 2 * w
<1>2. d = (m * q) + (m - 1) /\ q \in Nat
  <2>1. d = (m * q) + (d % m) /\ d % m \in 0 .. m - 1 /\ q \in Nat
    BY <1>1, DivisionFacts
  <2>2. d % m = m - 1
    BY <1>1, <2>1
  <2>3. QED
    BY <2>1, <2>2
<1>3. w = 8 * c /\ c \in Nat \ {0}
  BY DivisionFacts
<1> HIDE DEF q, c
<1>4. d % 8 = 7
  <2>1. (2 * w) * q = 8 * (2 * (c * q))
    BY <1>2, <1>3
  <2>2. d = (8 * ((2 * (c * q)) + (2 * c) - 1)) + 7
    BY <1>2, <1>3, <2>1
  <2>3. (2 * (c * q)) + (2 * c) - 1 \in Nat
    BY <1>2, <1>3
  <2>4. QED
    BY <2>2, <2>3
<1>5. d + 1 = (w * (2 * (q + 1))) + 0
  BY <1>2
<1>6. (d + 1) \div w = 2 * (q + 1)
  <2>1. 2 * (q + 1) \in Nat /\ 0 \in 0 .. w - 1
    BY <1>2
  <2>2. QED
    BY <1>5, <2>1, UniqueQuotient
<1>7. QED
  BY <1>2, <1>4, <1>6

(* The divider width is a multiple of 8, because a selectable bit's is. *)
LEMMA DivModIsMultipleOf8 == DivMod % 8 = 0
<1>1. PICK w \in Clocks : TRUE
  BY ClocksAssumption
<1> DEFINE c == w \div 8
           k == DivMod \div (2 * w)
<1>2. w \in Nat \ {0} /\ w % 8 = 0 /\ DivMod % (2 * w) = 0
  BY <1>1, ClocksAssumption
<1>3. w = 8 * c /\ c \in Nat
  BY <1>2, DivisionFacts
<1>4. 2 * w \in Nat \ {0}
  BY <1>2
<1>5. DivMod = ((2 * w) * k) + 0 /\ k \in Nat
  BY <1>2, <1>4, DivModAssumption, DivisionFacts
<1> HIDE DEF c, k
<1>6. DivMod = 8 * (2 * (c * k)) /\ 2 * (c * k) \in Nat
  BY <1>2, <1>3, <1>5
<1>7. QED
  BY <1>6

(* What one tick does to the divider and to its bit of weight w. *)
LEMMA DividerStep ==
  ASSUME NEW d \in 0 .. DivMod - 1, NEW e, e = (d + 1) % DivMod
  PROVE  /\ e \in 0 .. DivMod - 1
         /\ e % 8 = IF d % 8 = 7 THEN 0 ELSE (d % 8) + 1
         /\ \A w \in Clocks :
              /\ d % 8 # 7 => (BitSet(e, w) <=> BitSet(d, w))
              /\ (d % (2 * w)) + 1 > (2 * w) - 1 => d % 8 = 7 /\ ~BitSet(e, w)
<1> USE DivModAssumption
<1>1. CASE d + 1 < DivMod
  <2>1. e = d + 1
    BY <1>1
  <2>2. e % 8 = IF d % 8 = 7 THEN 0 ELSE (d % 8) + 1
    BY <2>1
  <2>3. ASSUME NEW w \in Clocks
        PROVE  /\ d % 8 # 7 => (BitSet(e, w) <=> BitSet(d, w))
               /\ (d % (2 * w)) + 1 > (2 * w) - 1 => d % 8 = 7 /\ ~BitSet(e, w)
    <3>1. d \in Nat /\ w \in Nat \ {0} /\ w % 8 = 0
      BY ClocksAssumption
    <3>2. d % 8 # 7 => (BitSet(e, w) <=> BitSet(d, w))
      BY <2>1, <3>1, BitIsStable DEF BitSet
    <3>3. (d % (2 * w)) + 1 > (2 * w) - 1 => d % 8 = 7 /\ ~BitSet(e, w)
      <4>1. ASSUME (d % (2 * w)) + 1 > (2 * w) - 1
            PROVE  d % 8 = 7 /\ ((d + 1) \div w) % 2 = 0
        BY <3>1, <4>1, CarryClearsBit
      <4>2. QED
        BY <2>1, <4>1 DEF BitSet
    <3>4. QED
      BY <3>2, <3>3
  <2>4. QED
    BY <1>1, <2>1, <2>2, <2>3
<1>2. CASE d + 1 = DivMod
  <2>1. e = 0
    BY <1>2
  <2>2. d % 8 = 7
    BY <1>2, DivModIsMultipleOf8
  <2>3. ASSUME NEW w \in Clocks PROVE ~BitSet(0, w)
    <3>1. w \in Nat \ {0}
      BY ClocksAssumption
    <3>2. 0 = (w * 0) + 0
      BY <3>1
    <3>3. 0 \div w = 0
      BY <3>1, <3>2, UniqueQuotient
    <3>4. QED
      BY <3>3 DEF BitSet
  <2>4. QED
    BY <2>1, <2>2, <2>3
<1>3. QED
  BY <1>1, <1>2

-----------------------------------------------------------------------------
(* The inductive invariant: the windows open by an overflow and by a       *)
(* reload, located relative to the divider and to the last CPU write.      *)
IInv == TypeOK /\ PendingCountsFromZero /\ PendingWindow /\ OverwriteWindow

(* The batch the timer offers the scheduler is one tick, never zero. *)
LEMMA BatchIsOne ==
  ASSUME TypeOK, PendingCountsFromZero
  PROVE  tick_batch = 1
<1> DEFINE d == divider_register
           w == timer_control.clock
<1>1. d \in Nat /\ w \in Nat \ {0} /\ 2 * w \in Nat \ {0} /\ DivPage \in Nat \ {0}
  <2>1. d \in Nat /\ w \in Clocks
    BY DivModAssumption DEF TypeOK
  <2>2. w \in Nat \ {0}
    BY <2>1, ClocksAssumption
  <2>3. QED
    BY <2>1, <2>2, DivPageAssumption
<1>2. /\ d % w \in 0 .. w - 1
      /\ d % (2 * w) \in 0 .. (2 * w) - 1
      /\ d % DivPage \in 0 .. DivPage - 1
  BY <1>1, DivisionFacts
<1>3. number_of_ticks_for_div_clock_bit_set(d, w) = 1
  BY <1>1, <1>2 DEF number_of_ticks_for_div_clock_bit_set, Min2
<1>4. number_of_ticks_for_tima_increment(d, w) \in Nat \ {0}
  BY <1>1, <1>2 DEF number_of_ticks_for_tima_increment
<1>5. number_of_ticks_for_div_increment(d) \in Nat \ {0}
  BY <1>1, <1>2 DEF number_of_ticks_for_div_increment
<1>6. overflow_detected => ticks_until_interrupt \in Nat \ {0}
  BY DEF TypeOK, PendingCountsFromZero, MCycle
<1>7. QED
  BY <1>3, <1>4, <1>5, <1>6 DEF tick_batch, Min2

LEMMA TickIsOneStep ==
  ASSUME TypeOK, PendingCountsFromZero, Tick
  PROVE  Advance(1)
BY BatchIsOne DEF Tick

LEMMA InitEstablishesInvariant ==
  ASSUME Init PROVE IInv
<1>1. timer_control \in [enabled: BOOLEAN, clock: Clocks]
  BY DEF Init
<1>2. TypeOK
  <2>1. timer_counter \in Byte /\ timer_modulo \in Byte
    BY TimaMaxAssumption DEF Init, Byte
  <2>2. /\ divider_register \in 0 .. DivMod - 1
        /\ ticks_until_interrupt \in 0 .. MCycle
        /\ remaining_ticks_in_tma_overwrite_cycle \in 0 .. MCycle
        /\ ticks_since_access \in 0 .. LongGap
    BY DEF Init, MCycle, LongGap
  <2>3. /\ overflow_detected \in BOOLEAN
        /\ tma_overwrite_performed_this_cycle \in BOOLEAN
        /\ timer_requested \in BOOLEAN
    BY DEF Init
  <2>4. QED
    BY <1>1, <2>1, <2>2, <2>3 DEF TypeOK
<1>3. PendingCountsFromZero /\ PendingWindow /\ OverwriteWindow
  BY DEF Init, PendingCountsFromZero, PendingWindow, OverwriteWindow
<1>4. QED
  BY <1>2, <1>3 DEF IInv

(* A CPU write meets no pending overflow except one the divider caused,    *)
(* whose selected bit is low, and then no open overwrite window.           *)
Quiet ==
  overflow_detected =>
    /\ timer_control.enabled
    /\ ~BitSet(divider_register, timer_control.clock)
    /\ ~tma_overwrite_performed_this_cycle
LEMMA AccessFindsWindowsQuiet ==
  ASSUME IInv, ticks_since_access \in {MCycle, LongGap}
  PROVE  Quiet
BY DEF Quiet, IInv, TypeOK, PendingCountsFromZero, PendingWindow, OverwriteWindow, MCycle, LongGap

LEMMA WriteDivKeepsInvariant ==
  ASSUME IInv, WriteDiv PROVE IInv'
<1> USE DEF WriteDiv, CpuAccess, pending_vars, overwrite_vars, MCycle, LongGap
<1>1. TypeOK /\ PendingCountsFromZero /\ PendingWindow /\ OverwriteWindow
  BY DEF IInv
<1>2. Quiet
  BY AccessFindsWindowsQuiet
<1>3. TypeOK'
  <2>1. /\ (divider_register \in 0 .. DivMod - 1)'
        /\ (timer_counter \in Byte)'
        /\ (timer_modulo \in Byte)'
        /\ (ticks_until_interrupt \in 0 .. MCycle)'
        /\ (remaining_ticks_in_tma_overwrite_cycle \in 0 .. MCycle)'
        /\ (ticks_since_access \in 0 .. LongGap)'
    BY <1>1, DivModAssumption, TimaMaxAssumption DEF TypeOK, TickCounter, Byte
  <2>2. (timer_control \in [enabled: BOOLEAN, clock: Clocks])'
    BY <1>1 DEF TypeOK
  <2>3. /\ (overflow_detected \in BOOLEAN)'
        /\ (tma_overwrite_performed_this_cycle \in BOOLEAN)'
        /\ (timer_requested \in BOOLEAN)'
    BY <1>1 DEF TypeOK, TickCounter, Byte
  <2>4. QED
    BY <2>1, <2>2, <2>3 DEF TypeOK
<1>4. PendingCountsFromZero'
  BY <1>1, <1>2 DEF Quiet, TypeOK, PendingCountsFromZero, TickCounter
<1>5. PendingWindow'
  <2>1. CASE TickCounter
    <3>1. overflow_detected' => ticks_since_access' + ticks_until_interrupt' = MCycle
      BY <2>1 DEF TickCounter
    <3>2. QED
      BY <3>1 DEF PendingWindow
  <2>2. CASE UNCHANGED pending_vars
    <3>1. divider_register' % 8 = divider_register % 8 \/ divider_register' % 8 = 0
      OBVIOUS
    <3>2. QED
      BY <1>1, <2>2, <3>1 DEF TypeOK, PendingCountsFromZero, PendingWindow
  <2>3. QED
    BY <2>1, <2>2
<1>6. OverwriteWindow'
  BY <1>1, <1>2 DEF Quiet, TypeOK, OverwriteWindow, TickCounter
<1>7. QED
  BY <1>3, <1>4, <1>5, <1>6 DEF IInv

LEMMA WriteTimaKeepsInvariant ==
  ASSUME IInv, NEW value \in Byte, WriteTima(value) PROVE IInv'
<1> USE DEF WriteTima, CpuAccess, pending_vars, overwrite_vars, MCycle, LongGap
<1>1. TypeOK /\ PendingCountsFromZero /\ PendingWindow /\ OverwriteWindow
  BY DEF IInv
<1>2. Quiet
  BY AccessFindsWindowsQuiet
<1>3. TypeOK'
  <2>1. /\ (divider_register \in 0 .. DivMod - 1)'
        /\ (timer_counter \in Byte)'
        /\ (timer_modulo \in Byte)'
        /\ (ticks_until_interrupt \in 0 .. MCycle)'
        /\ (remaining_ticks_in_tma_overwrite_cycle \in 0 .. MCycle)'
        /\ (ticks_since_access \in 0 .. LongGap)'
    BY <1>1 DEF TypeOK
  <2>2. (timer_control \in [enabled: BOOLEAN, clock: Clocks])'
    BY <1>1 DEF TypeOK
  <2>3. /\ (overflow_detected \in BOOLEAN)'
        /\ (tma_overwrite_performed_this_cycle \in BOOLEAN)'
        /\ (timer_requested \in BOOLEAN)'
    BY <1>1 DEF TypeOK
  <2>4. QED
    BY <2>1, <2>2, <2>3 DEF TypeOK
<1>4. PendingCountsFromZero' /\ ~overflow_detected'
  BY <1>1 DEF TypeOK, PendingCountsFromZero
<1>5. PendingWindow'
  BY <1>4 DEF PendingWindow
<1>6. OverwriteWindow'
  BY <1>1, <1>4 DEF TypeOK, OverwriteWindow
<1>7. QED
  BY <1>3, <1>4, <1>5, <1>6 DEF IInv

LEMMA WriteTmaKeepsInvariant ==
  ASSUME IInv, NEW value \in Byte, WriteTma(value) PROVE IInv'
<1> USE DEF WriteTma, CpuAccess, pending_vars, overwrite_vars, MCycle, LongGap
<1>1. TypeOK /\ PendingCountsFromZero /\ PendingWindow /\ OverwriteWindow
  BY DEF IInv
<1>2. Quiet
  BY AccessFindsWindowsQuiet
<1>3. TypeOK'
  <2>1. /\ (divider_register \in 0 .. DivMod - 1)'
        /\ (timer_counter \in Byte)'
        /\ (timer_modulo \in Byte)'
        /\ (ticks_until_interrupt \in 0 .. MCycle)'
        /\ (remaining_ticks_in_tma_overwrite_cycle \in 0 .. MCycle)'
        /\ (ticks_since_access \in 0 .. LongGap)'
    BY <1>1 DEF TypeOK
  <2>2. (timer_control \in [enabled: BOOLEAN, clock: Clocks])'
    BY <1>1 DEF TypeOK
  <2>3. /\ (overflow_detected \in BOOLEAN)'
        /\ (tma_overwrite_performed_this_cycle \in BOOLEAN)'
        /\ (timer_requested \in BOOLEAN)'
    BY <1>1 DEF TypeOK
  <2>4. QED
    BY <2>1, <2>2, <2>3 DEF TypeOK
<1>4. PendingCountsFromZero'
  BY <1>1, <1>2 DEF Quiet, TypeOK, PendingCountsFromZero
<1>5. PendingWindow'
  <2>1. CASE TickCounter
    <3>1. overflow_detected' => ticks_since_access' + ticks_until_interrupt' = MCycle
      BY <2>1 DEF TickCounter
    <3>2. QED
      BY <3>1 DEF PendingWindow
  <2>2. CASE UNCHANGED pending_vars
    <3>1. divider_register' % 8 = divider_register % 8 \/ divider_register' % 8 = 0
      OBVIOUS
    <3>2. QED
      BY <1>1, <2>2, <3>1 DEF TypeOK, PendingCountsFromZero, PendingWindow
  <2>3. QED
    BY <2>1, <2>2
<1>6. OverwriteWindow'
  BY <1>1, <1>2 DEF Quiet, TypeOK, OverwriteWindow
<1>7. QED
  BY <1>3, <1>4, <1>5, <1>6 DEF IInv

LEMMA WriteTacDisabledKeepsInvariant ==
  ASSUME IInv, NEW clock \in Clocks, WriteTacDisabled(clock) PROVE IInv'
<1> USE DEF WriteTacDisabled, FallsAtDisable, CpuAccess, pending_vars, overwrite_vars, MCycle, LongGap
<1>1. TypeOK /\ PendingCountsFromZero /\ PendingWindow /\ OverwriteWindow
  BY DEF IInv
<1>2. Quiet
  BY AccessFindsWindowsQuiet
<1>3. TypeOK'
  <2>1. /\ (divider_register \in 0 .. DivMod - 1)'
        /\ (timer_counter \in Byte)'
        /\ (timer_modulo \in Byte)'
        /\ (ticks_until_interrupt \in 0 .. MCycle)'
        /\ (remaining_ticks_in_tma_overwrite_cycle \in 0 .. MCycle)'
        /\ (ticks_since_access \in 0 .. LongGap)'
    BY <1>1, TimaMaxAssumption DEF TypeOK, Byte
  <2>2. (timer_control \in [enabled: BOOLEAN, clock: Clocks])'
    BY <1>1 DEF TypeOK
  <2>3. /\ (overflow_detected \in BOOLEAN)'
        /\ (tma_overwrite_performed_this_cycle \in BOOLEAN)'
        /\ (timer_requested \in BOOLEAN)'
    BY <1>1 DEF TypeOK, Byte
  <2>4. QED
    BY <2>1, <2>2, <2>3 DEF TypeOK
<1>4. PendingCountsFromZero'
  BY <1>1, <1>2 DEF Quiet, TypeOK, PendingCountsFromZero
<1>5. PendingWindow'
  <2>1. CASE TickCounter
    <3>1. overflow_detected' => ticks_since_access' + ticks_until_interrupt' = MCycle
      BY <2>1 DEF TickCounter
    <3>2. QED
      BY <3>1 DEF PendingWindow
  <2>2. CASE UNCHANGED pending_vars
    <3>1. divider_register' % 8 = divider_register % 8 \/ divider_register' % 8 = 0
      OBVIOUS
    <3>2. QED
      BY <1>1, <2>2, <3>1 DEF TypeOK, PendingCountsFromZero, PendingWindow
  <2>3. QED
    BY <2>1, <2>2
<1>6. OverwriteWindow'
  BY <1>1, <1>2 DEF Quiet, TypeOK, OverwriteWindow
<1>7. QED
  BY <1>3, <1>4, <1>5, <1>6 DEF IInv

LEMMA WriteTacEnabledKeepsInvariant ==
  ASSUME IInv, NEW clock \in Clocks, WriteTacEnabled(clock) PROVE IInv'
<1> USE DEF WriteTacEnabled, CpuAccess, pending_vars, overwrite_vars, MCycle, LongGap
<1>1. TypeOK /\ PendingCountsFromZero /\ PendingWindow /\ OverwriteWindow
  BY DEF IInv
<1>2. Quiet
  BY AccessFindsWindowsQuiet
<1>3. TypeOK'
  <2>1. /\ (divider_register \in 0 .. DivMod - 1)'
        /\ (timer_counter \in Byte)'
        /\ (timer_modulo \in Byte)'
        /\ (ticks_until_interrupt \in 0 .. MCycle)'
        /\ (remaining_ticks_in_tma_overwrite_cycle \in 0 .. MCycle)'
        /\ (ticks_since_access \in 0 .. LongGap)'
    BY <1>1, TimaMaxAssumption DEF TypeOK, TickCounter, Byte
  <2>2. (timer_control \in [enabled: BOOLEAN, clock: Clocks])'
    BY <1>1 DEF TypeOK
  <2>3. /\ (overflow_detected \in BOOLEAN)'
        /\ (tma_overwrite_performed_this_cycle \in BOOLEAN)'
        /\ (timer_requested \in BOOLEAN)'
    BY <1>1 DEF TypeOK, TickCounter, Byte
  <2>4. QED
    BY <2>1, <2>2, <2>3 DEF TypeOK
<1>4. PendingCountsFromZero'
  BY <1>1, <1>2 DEF Quiet, TypeOK, PendingCountsFromZero, TickCounter
<1>5. PendingWindow'
  <2>1. CASE TickCounter
    <3>1. overflow_detected' => ticks_since_access' + ticks_until_interrupt' = MCycle
      BY <2>1 DEF TickCounter
    <3>2. QED
      BY <3>1 DEF PendingWindow
  <2>2. CASE UNCHANGED pending_vars
    <3>1. divider_register' % 8 = divider_register % 8 \/ divider_register' % 8 = 0
      OBVIOUS
    <3>2. QED
      BY <1>1, <2>2, <3>1 DEF TypeOK, PendingCountsFromZero, PendingWindow
  <2>3. QED
    BY <2>1, <2>2
<1>6. OverwriteWindow'
  BY <1>1, <1>2 DEF Quiet, TypeOK, OverwriteWindow, TickCounter
<1>7. QED
  BY <1>3, <1>4, <1>5, <1>6 DEF IInv

LEMMA AcknowledgeKeepsInvariant ==
  ASSUME IInv, Acknowledge PROVE IInv'
<1> USE DEF Acknowledge, pending_vars, overwrite_vars
<1>1. TypeOK'
  BY DEF IInv, TypeOK
<1>2. PendingCountsFromZero' /\ PendingWindow' /\ OverwriteWindow'
  BY DEF IInv, PendingCountsFromZero, PendingWindow, OverwriteWindow
<1>3. QED
  BY <1>1, <1>2 DEF IInv

(* The four ways one tick of advance() can go, and what it does to the     *)
(* overwrite window and to the access clock.                               *)
CountsDown ==
  /\ overflow_detected /\ ticks_until_interrupt > 1
  /\ ticks_until_interrupt' = ticks_until_interrupt - 1
  /\ UNCHANGED <<timer_counter, overflow_detected, timer_requested>>
ReloadsNow ==
  /\ overflow_detected /\ ticks_until_interrupt = 1
  /\ ticks_until_interrupt' = 0
  /\ timer_counter' = timer_modulo
  /\ overflow_detected' = FALSE
  /\ timer_requested' = TRUE
CountsEdge ==
  /\ ~overflow_detected
  /\ timer_control.enabled
  /\ (divider_register % (2 * timer_control.clock)) + 1 > (2 * timer_control.clock) - 1
  /\ TickCounter
  /\ UNCHANGED timer_requested
CountsNothing ==
  /\ ~overflow_detected
  /\ UNCHANGED <<timer_counter, pending_vars, timer_requested>>
WindowOpens == remaining_ticks_in_tma_overwrite_cycle' = MCycle
WindowShrinks ==
  remaining_ticks_in_tma_overwrite_cycle' =
    IF remaining_ticks_in_tma_overwrite_cycle = 0 THEN 0
    ELSE remaining_ticks_in_tma_overwrite_cycle - 1
TimePasses ==
  ticks_since_access' = IF ticks_since_access = LongGap THEN LongGap ELSE ticks_since_access + 1

LEMMA AdvanceCases ==
  ASSUME TypeOK, PendingCountsFromZero, Advance(1)
  PROVE  /\ TimePasses
         /\ \/ CountsDown /\ WindowShrinks
            \/ ReloadsNow /\ WindowOpens
            \/ CountsEdge /\ WindowShrinks
            \/ CountsNothing /\ WindowShrinks
         /\ tma_overwrite_performed_this_cycle' \in BOOLEAN
         /\ tma_overwrite_performed_this_cycle' <=> remaining_ticks_in_tma_overwrite_cycle' > 0
<1> USE DEF Advance, Min2, MCycle, LongGap
<1>1. overflow_detected <=> ticks_until_interrupt > 0
  BY DEF PendingCountsFromZero
<1>2. TimePasses
  BY DEF TypeOK, TimePasses
<1>3. IF overflow_detected /\ ticks_until_interrupt = 1 THEN WindowOpens ELSE WindowShrinks
  BY <1>1 DEF TypeOK, AdvanceOverwriteWindow, WindowOpens, WindowShrinks
<1>4. /\ tma_overwrite_performed_this_cycle' \in BOOLEAN
      /\ tma_overwrite_performed_this_cycle' <=> remaining_ticks_in_tma_overwrite_cycle' > 0
  <2>1. tma_overwrite_performed_this_cycle' = (remaining_ticks_in_tma_overwrite_cycle' > 0)
    BY DEF AdvanceOverwriteWindow
  <2>2. remaining_ticks_in_tma_overwrite_cycle' \in 0 .. MCycle
    BY <1>3 DEF TypeOK, WindowOpens, WindowShrinks
  <2>3. tma_overwrite_performed_this_cycle' \in BOOLEAN
    BY <2>1
  <2>4. tma_overwrite_performed_this_cycle' <=> remaining_ticks_in_tma_overwrite_cycle' > 0
    BY <2>1, <2>2
  <2>5. QED
    BY <2>3, <2>4
<1>5. CASE AdvancePending(1)
  <2>1. ticks_until_interrupt \in 1 .. MCycle
    BY <1>1, <1>5 DEF AdvancePending, TypeOK
  <2>2. CASE ticks_until_interrupt = 1
    <3>1. 1 >= ticks_until_interrupt /\ ~(1 < ticks_until_interrupt)
      BY <2>2
    <3>2. ReloadsNow
      BY <1>5, <2>2, <3>1, Zenon DEF AdvancePending, ReloadsNow
    <3>3. QED
      BY <1>2, <1>3, <1>4, <2>2, <3>2 DEF ReloadsNow
  <2>3. CASE ticks_until_interrupt > 1
    <3>1. 1 < ticks_until_interrupt /\ ~(1 >= ticks_until_interrupt)
      BY <2>1, <2>3
    <3>2. CountsDown
      BY <1>5, <2>3, <3>1, Zenon DEF AdvancePending, CountsDown
    <3>3. WindowShrinks
      BY <1>3, <2>3
    <3>4. QED
      BY <1>2, <1>4, <3>2, <3>3
  <2>4. QED
    BY <2>1, <2>2, <2>3
<1>6. CASE AdvanceCounting(1)
  <2>1. ~overflow_detected /\ WindowShrinks
    BY <1>3, <1>6 DEF AdvanceCounting
  <2>2. CountsEdge \/ CountsNothing
    BY <1>6, Zenon DEF AdvanceCounting, CountsEdge, CountsNothing
  <2>3. QED
    BY <1>2, <1>4, <2>1, <2>2
<1>7. QED
  BY <1>5, <1>6

LEMMA TickKeepsInvariant ==
  ASSUME IInv, Tick PROVE IInv'
<1> DEFINE d == divider_register
           w == timer_control.clock
<1>1. TypeOK /\ PendingCountsFromZero /\ PendingWindow /\ OverwriteWindow
  BY DEF IInv
<1>2. Advance(1)
  BY <1>1, TickIsOneStep
<1>3. /\ timer_control' = timer_control
      /\ timer_modulo' = timer_modulo
      /\ d' = (d + 1) % DivMod
      /\ d \in 0 .. DivMod - 1
      /\ w \in Clocks
  BY <1>1, <1>2 DEF Advance, TypeOK
<1>4. /\ d' \in 0 .. DivMod - 1
      /\ d' % 8 = IF d % 8 = 7 THEN 0 ELSE (d % 8) + 1
      /\ d % 8 # 7 => (BitSet(d', w) <=> BitSet(d, w))
      /\ (d % (2 * w)) + 1 > (2 * w) - 1 => d % 8 = 7 /\ ~BitSet(d', w)
  BY <1>3, DividerStep
<1>5. /\ TimePasses
      /\ \/ CountsDown /\ WindowShrinks
         \/ ReloadsNow /\ WindowOpens
         \/ CountsEdge /\ WindowShrinks
         \/ CountsNothing /\ WindowShrinks
      /\ tma_overwrite_performed_this_cycle' \in BOOLEAN
      /\ tma_overwrite_performed_this_cycle' <=> remaining_ticks_in_tma_overwrite_cycle' > 0
  BY <1>1, <1>2, AdvanceCases
<1>6. TypeOK'
  <2>1. /\ timer_counter' \in Byte
        /\ timer_modulo' \in Byte
        /\ ticks_until_interrupt' \in 0 .. MCycle
        /\ remaining_ticks_in_tma_overwrite_cycle' \in 0 .. MCycle
        /\ ticks_since_access' \in 0 .. LongGap
    BY <1>1, <1>3, <1>5, TimaMaxAssumption
       DEF TypeOK, TimePasses, CountsDown, ReloadsNow, CountsEdge, CountsNothing, TickCounter,
           WindowOpens, WindowShrinks, pending_vars, Byte, MCycle, LongGap
  <2>2. overflow_detected' \in BOOLEAN
    BY <1>1, <1>5
       DEF TypeOK, CountsDown, ReloadsNow, CountsEdge, CountsNothing, TickCounter, pending_vars
  <2>3. timer_requested' \in BOOLEAN
    BY <1>1, <1>5 DEF TypeOK, CountsDown, ReloadsNow, CountsEdge, CountsNothing
  <2>4. QED
    BY <1>1, <1>3, <1>4, <1>5, <2>1, <2>2, <2>3 DEF TypeOK
<1>7. PendingCountsFromZero'
  BY <1>1, <1>5
     DEF TypeOK, PendingCountsFromZero, CountsDown, ReloadsNow, CountsEdge, CountsNothing,
         TickCounter, pending_vars, MCycle
<1>8. PendingWindow'
  <2>1. CASE CountsDown
    BY <1>1, <1>3, <1>4, <1>5, <2>1
       DEF TypeOK, PendingWindow, TimePasses, CountsDown, MCycle, LongGap
  <2>2. CASE ReloadsNow \/ CountsNothing
    <3>1. ~overflow_detected'
      BY <2>2 DEF ReloadsNow, CountsNothing, pending_vars
    <3>2. QED
      BY <3>1 DEF PendingWindow
  <2>3. CASE CountsEdge
    <3>1. overflow_detected' => ticks_until_interrupt' = MCycle
      BY <2>3 DEF CountsEdge, TickCounter
    <3>2. d' % 8 = 0 /\ timer_control.enabled /\ ~BitSet(d', w)
      BY <1>3, <1>4, <2>3 DEF CountsEdge
    <3>3. QED
      BY <1>3, <3>1, <3>2 DEF PendingWindow, MCycle
  <2>4. QED
    BY <1>5, <2>1, <2>2, <2>3
<1>9. OverwriteWindow'
  BY <1>1, <1>3, <1>4, <1>5
     DEF TypeOK, PendingCountsFromZero, PendingWindow, OverwriteWindow, TimePasses, CountsDown,
         ReloadsNow, CountsEdge, CountsNothing, TickCounter, WindowOpens, WindowShrinks,
         pending_vars, MCycle, LongGap
<1>10. QED
  BY <1>6, <1>7, <1>8, <1>9 DEF IInv

LEMMA StepKeepsInvariant ==
  ASSUME IInv, [Next]_vars PROVE IInv'
<1>1. CASE Tick
  BY <1>1, TickKeepsInvariant
<1>2. CASE WriteDiv
  BY <1>2, WriteDivKeepsInvariant
<1>3. ASSUME NEW value \in Byte, WriteTima(value) \/ WriteTma(value)
      PROVE  IInv'
  BY <1>3, WriteTimaKeepsInvariant, WriteTmaKeepsInvariant
<1>4. ASSUME NEW clock \in Clocks, WriteTacDisabled(clock) \/ WriteTacEnabled(clock)
      PROVE  IInv'
  BY <1>4, WriteTacDisabledKeepsInvariant, WriteTacEnabledKeepsInvariant
<1>5. CASE Acknowledge
  BY <1>5, AcknowledgeKeepsInvariant
<1>6. CASE UNCHANGED vars
  <2>1. TypeOK'
    BY <1>6 DEF IInv, TypeOK, vars, pending_vars, overwrite_vars
  <2>2. PendingCountsFromZero' /\ PendingWindow' /\ OverwriteWindow'
    BY <1>6 DEF IInv, PendingCountsFromZero, PendingWindow, OverwriteWindow, vars, pending_vars, overwrite_vars
  <2>3. QED
    BY <2>1, <2>2 DEF IInv
<1>7. QED
  BY <1>1, <1>2, <1>3, <1>4, <1>5, <1>6 DEF Next, CpuWrite

(* The windows of the timer never interfere: the invariant holds in every  *)
(* state the timer reaches.                                                *)
THEOREM Invariance == Spec => []IInv
<1>1. Init => IInv
  BY InitEstablishesInvariant
<1>2. IInv /\ [Next]_vars => IInv'
  BY StepKeepsInvariant
<1>3. QED
  BY <1>1, <1>2, PTL DEF Spec

(* The registers keep their widths. *)
THEOREM TypeCorrect == Spec => []TypeOK
<1>1. IInv => TypeOK
  BY DEF IInv
<1>2. QED
  BY <1>1, Invariance, PTL

(* TIMA reads zero for as long as an overflow is pending, and the overflow *)
(* is pending exactly while its countdown runs.                            *)
THEOREM PendingCountsFromZeroAlways == Spec => []PendingCountsFromZero
<1>1. IInv => PendingCountsFromZero
  BY DEF IInv
<1>2. QED
  BY <1>1, Invariance, PTL

(* A pending overflow and the window of the TMA reload lie where the CPU   *)
(* and the divider cannot disturb them.                                    *)
THEOREM WindowsNeverInterfere == Spec => []WindowsDoNotInterfere
<1>1. IInv => WindowsDoNotInterfere
  BY DEF IInv, WindowsDoNotInterfere
<1>2. QED
  BY <1>1, Invariance, PTL

(* The scheduler gets a batch of exactly one tick from the timer: neither  *)
(* its loop nor that of timer_system::tick spins, and the CPU advances one *)
(* T-cycle at a time.                                                      *)
THEOREM SchedulerAdvancesByOne == Spec => []UnitBatch
<1>1. IInv => UnitBatch
  BY BatchIsOne DEF IInv, UnitBatch
<1>2. QED
  BY <1>1, Invariance, PTL

(* No write a game can make loses a pending interrupt: it ends in the      *)
(* reload with its interrupt, or in the write of TIMA that calls it off.   *)
THEOREM PendingIsNeverDropped == Spec => PendingNeverDropped
<1> DEFINE A == overflow_detected /\ ~overflow_detected' =>
                  Reloads \/ \E value \in Byte : WriteTima(value)
<1>1. ASSUME IInv, [Next]_vars PROVE [A]_vars
  <2>1. SUFFICES ASSUME overflow_detected, ~overflow_detected', Next
                 PROVE  A
    BY <1>1
  <2>2. TypeOK /\ PendingCountsFromZero
    BY <1>1 DEF IInv
  <2>3. CASE Tick
    <3>1. ReloadsNow
      <4>1. Advance(1)
        BY <2>2, <2>3, TickIsOneStep
      <4>2. ReloadsNow \/ CountsDown
        BY <2>1, <2>2, <4>1, AdvanceCases DEF CountsEdge, CountsNothing
      <4>3. QED
        BY <2>1, <4>2 DEF CountsDown
    <3>2. QED
      BY <2>3, <3>1 DEF Reloads, ReloadsNow
  <2>4. CASE \E value \in Byte : WriteTima(value)
    BY <2>4
  <2>5. ASSUME ticks_since_access \in {MCycle, LongGap} PROVE Quiet
    BY <1>1, <2>5, AccessFindsWindowsQuiet
  <2>6. CASE WriteDiv
    BY <2>1, <2>5, <2>6 DEF WriteDiv, CpuAccess, Quiet, pending_vars
  <2>7. CASE \E value \in Byte : WriteTma(value)
    BY <2>1, <2>7 DEF WriteTma, pending_vars
  <2>8. CASE \E clock \in Clocks : WriteTacDisabled(clock)
    BY <2>1, <2>8 DEF WriteTacDisabled, pending_vars
  <2>9. ASSUME NEW clock \in Clocks, WriteTacEnabled(clock) PROVE A
    <3>1. clock \in Nat /\ Quiet
      BY <2>5, <2>9, ClocksAssumption DEF WriteTacEnabled, CpuAccess
    <3>2. ~ClockEdge(divider_register, timer_control.clock, clock)
      BY <2>1, <3>1 DEF ClockEdge, Quiet
    <3>3. QED
      BY <2>1, <2>9, <3>2 DEF WriteTacEnabled, pending_vars
  <2>10. CASE Acknowledge
    BY <2>1, <2>10 DEF Acknowledge, pending_vars
  <2>11. QED
    BY <2>1, <2>3, <2>4, <2>6, <2>7, <2>8, <2>9, <2>10 DEF Next, CpuWrite
<1>2. QED
  BY <1>1, Invariance, PTL DEF Spec, PendingNeverDropped

(* advance() overlooks an edge of the selected divider bit only right      *)
(* after a CPU write that itself made TIMA overflow.                       *)
THEOREM EdgesAreCounted == Spec => EdgesLostOnlyAfterWriteOverflow
<1> DEFINE A == Tick /\ FallingEdge /\ overflow_detected =>
                  ticks_since_access + ticks_until_interrupt = MCycle
<1>1. ASSUME IInv, [Next]_vars PROVE [A]_vars
  <2>1. SUFFICES ASSUME Tick, FallingEdge, overflow_detected
                 PROVE  ticks_since_access + ticks_until_interrupt = MCycle
    OBVIOUS
  <2>2. TypeOK /\ PendingCountsFromZero /\ PendingWindow
    BY <1>1 DEF IInv
  <2>3. Advance(1)
    BY <2>1, <2>2, TickIsOneStep
  <2>4. /\ divider_register' = (divider_register + 1) % DivMod
        /\ divider_register \in 0 .. DivMod - 1
        /\ timer_control.clock \in Clocks
        /\ timer_control' = timer_control
    BY <2>2, <2>3 DEF Advance, TypeOK
  <2>5. divider_register % 8 = 7
    BY <2>1, <2>4, DividerStep DEF FallingEdge
  <2>6. QED
    BY <2>1, <2>2, <2>5 DEF TypeOK, PendingCountsFromZero, PendingWindow, MCycle, LongGap
<1>2. QED
  BY <1>1, Invariance, PTL DEF Spec, EdgesLostOnlyAfterWriteOverflow

-----------------------------------------------------------------------------
(* The refinement: which step of the contract each action takes.           *)

LEMMA PhaseCases ==
  /\ overflow_detected => Phase = "overflowed"
  /\ ~overflow_detected /\ tma_overwrite_performed_this_cycle => Phase = "reloading"
  /\ ~overflow_detected /\ ~tma_overwrite_performed_this_cycle => Phase = "counting"
BY DEF Phase

LEMMA PhaseCasesNext ==
  /\ overflow_detected' => Phase' = "overflowed"
  /\ ~overflow_detected' /\ tma_overwrite_performed_this_cycle' => Phase' = "reloading"
  /\ ~overflow_detected' /\ ~tma_overwrite_performed_this_cycle' => Phase' = "counting"
BY DEF Phase

(* TIMA counts outside a pending overflow, and the overwrite window does   *)
(* not open: the contract counts or overflows.                             *)
LEMMA TickCounterCounts ==
  ASSUME TypeOK, ~overflow_detected, TickCounter,
         timer_modulo' = timer_modulo, timer_requested' = timer_requested,
         tma_overwrite_performed_this_cycle' => tma_overwrite_performed_this_cycle
  PROVE  Contract!Next
<1>1. Phase # "overflowed"
  BY PhaseCases
<1>2. CASE timer_counter = TimaMax
  <2>1. timer_counter' = 0 /\ overflow_detected'
    BY <1>2 DEF TickCounter
  <2>2. Phase' = "overflowed"
    BY <2>1, PhaseCasesNext
  <2>3. Contract!Overflow
    BY <1>1, <1>2, <2>1, <2>2 DEF Contract!Overflow
  <2>4. QED
    BY <2>3 DEF Contract!Next
<1>3. CASE timer_counter # TimaMax
  <2>1. timer_counter' = timer_counter + 1 /\ ~overflow_detected'
    BY <1>3 DEF TickCounter
  <2>2. timer_counter < TimaMax
    BY <1>3, TimaMaxAssumption DEF TypeOK, Byte
  <2>3. Phase' \in {Phase, "counting"}
    BY <2>1, PhaseCases, PhaseCasesNext
  <2>4. Contract!Count
    BY <1>1, <2>1, <2>2, <2>3 DEF Contract!Count
  <2>5. QED
    BY <2>4 DEF Contract!Next
<1>4. QED
  BY <1>2, <1>3

LEMMA TickRefines ==
  ASSUME IInv, Tick
  PROVE  Contract!Next \/ UNCHANGED Contract!vars
<1>1. TypeOK /\ PendingCountsFromZero /\ OverwriteWindow
  BY DEF IInv
<1>2. Advance(1)
  BY <1>1, TickIsOneStep
<1>3. timer_modulo' = timer_modulo
  BY <1>2 DEF Advance
<1>4. /\ tma_overwrite_performed_this_cycle' <=> remaining_ticks_in_tma_overwrite_cycle' > 0
      /\ \/ CountsDown /\ WindowShrinks
         \/ ReloadsNow /\ WindowOpens
         \/ CountsEdge /\ WindowShrinks
         \/ CountsNothing /\ WindowShrinks
  BY <1>1, <1>2, AdvanceCases
<1>5. WindowShrinks => (tma_overwrite_performed_this_cycle' => tma_overwrite_performed_this_cycle)
  BY <1>1, <1>4 DEF TypeOK, OverwriteWindow, WindowShrinks, MCycle
<1>6. CASE CountsDown
  <2>1. overflow_detected /\ overflow_detected'
    BY <1>6 DEF CountsDown
  <2>2. Phase' = Phase
    BY <2>1, PhaseCases, PhaseCasesNext
  <2>3. QED
    BY <1>3, <1>6, <2>2 DEF CountsDown, Contract!vars
<1>7. CASE ReloadsNow /\ WindowOpens
  <2>1. Phase = "overflowed"
    BY <1>7, PhaseCases DEF ReloadsNow
  <2>2. ~overflow_detected' /\ tma_overwrite_performed_this_cycle'
    BY <1>4, <1>7 DEF ReloadsNow, WindowOpens, MCycle
  <2>3. Phase' = "reloading"
    BY <2>2, PhaseCasesNext
  <2>4. Contract!Reload
    BY <1>3, <1>7, <2>1, <2>3 DEF ReloadsNow, Contract!Reload
  <2>5. QED
    BY <2>4 DEF Contract!Next
<1>8. CASE CountsEdge /\ WindowShrinks
  BY <1>1, <1>3, <1>5, <1>8, TickCounterCounts DEF CountsEdge
<1>9. CASE CountsNothing /\ WindowShrinks
  <2>1. ~overflow_detected /\ ~overflow_detected'
    BY <1>9 DEF CountsNothing, pending_vars
  <2>2. Phase' = Phase \/ (Phase = "reloading" /\ Phase' = "counting")
    BY <1>5, <1>9, <2>1, PhaseCases, PhaseCasesNext
  <2>3. CASE Phase' = Phase
    BY <1>3, <1>9, <2>3 DEF CountsNothing, Contract!vars
  <2>4. CASE Phase = "reloading" /\ Phase' = "counting"
    <3>1. Contract!EndReload
      BY <1>3, <1>9, <2>4 DEF CountsNothing, Contract!EndReload
    <3>2. QED
      BY <3>1 DEF Contract!Next
  <2>5. QED
    BY <2>2, <2>3, <2>4
<1>10. QED
  BY <1>4, <1>6, <1>7, <1>8, <1>9

(* A write that leaves TIMA, TMA, both windows and IF alone is a stutter. *)
LEMMA UnchangedPhase ==
  ASSUME overflow_detected' = overflow_detected,
         tma_overwrite_performed_this_cycle' = tma_overwrite_performed_this_cycle
  PROVE  Phase' = Phase
BY DEF Phase

LEMMA WriteDivRefines ==
  ASSUME IInv, WriteDiv
  PROVE  Contract!Next \/ UNCHANGED Contract!vars
<1>1. TypeOK /\ Quiet
  BY AccessFindsWindowsQuiet DEF IInv, WriteDiv, CpuAccess
<1>2. CASE timer_control.enabled /\ BitSet(divider_register, timer_control.clock)
  <2>1. ~overflow_detected
    BY <1>1, <1>2 DEF Quiet
  <2>2. QED
    BY <1>1, <1>2, <2>1, TickCounterCounts DEF WriteDiv, overwrite_vars
<1>3. CASE ~(timer_control.enabled /\ BitSet(divider_register, timer_control.clock))
  BY <1>3, UnchangedPhase DEF WriteDiv, pending_vars, overwrite_vars, Contract!vars
<1>4. QED
  BY <1>2, <1>3

LEMMA WriteTimaRefines ==
  ASSUME IInv, NEW value \in Byte, WriteTima(value)
  PROVE  Contract!Next \/ UNCHANGED Contract!vars
<1>1. TypeOK /\ Quiet
  BY AccessFindsWindowsQuiet DEF IInv, WriteTima, CpuAccess
<1>2. ~overflow_detected'
  BY <1>1 DEF WriteTima, pending_vars, TypeOK
<1>3. tma_overwrite_performed_this_cycle' = tma_overwrite_performed_this_cycle
  BY DEF WriteTima, overwrite_vars
<1>4. CASE overflow_detected \/ ~tma_overwrite_performed_this_cycle
  <2>1. Phase # "reloading" /\ Phase' = "counting"
    BY <1>1, <1>2, <1>3, <1>4, PhaseCases, PhaseCasesNext DEF Quiet
  <2>2. timer_counter' = value
    BY <1>1, <1>4 DEF WriteTima, TypeOK
  <2>3. Contract!SetCounter
    BY <2>1, <2>2 DEF WriteTima, Contract!SetCounter, Byte
  <2>4. QED
    BY <2>3 DEF Contract!Next
<1>5. CASE ~overflow_detected /\ tma_overwrite_performed_this_cycle
  <2>1. Phase' = Phase
    BY <1>2, <1>3, <1>5, PhaseCases, PhaseCasesNext
  <2>2. timer_counter' = timer_counter
    BY <1>5 DEF WriteTima
  <2>3. QED
    BY <2>1, <2>2 DEF WriteTima, Contract!vars
<1>6. QED
  BY <1>4, <1>5

LEMMA WriteTmaRefines ==
  ASSUME IInv, NEW value \in Byte, WriteTma(value)
  PROVE  Contract!Next \/ UNCHANGED Contract!vars
<1>1. TypeOK /\ Quiet
  BY AccessFindsWindowsQuiet DEF IInv, WriteTma, CpuAccess
<1>2. Phase' = Phase
  BY UnchangedPhase DEF WriteTma, pending_vars, overwrite_vars
<1>3. (Phase = "reloading") <=> tma_overwrite_performed_this_cycle
  BY <1>1, PhaseCases DEF Quiet
<1>4. Contract!SetModulo
  BY <1>2, <1>3 DEF WriteTma, Contract!SetModulo, Byte
<1>5. QED
  BY <1>4 DEF Contract!Next

LEMMA WriteTacDisabledRefines ==
  ASSUME IInv, NEW clock \in Clocks, WriteTacDisabled(clock)
  PROVE  Contract!Next \/ UNCHANGED Contract!vars
<1>1. TypeOK /\ Quiet
  BY AccessFindsWindowsQuiet DEF IInv, WriteTacDisabled, CpuAccess
<1>2. Phase' = Phase /\ timer_modulo' = timer_modulo
  BY UnchangedPhase DEF WriteTacDisabled, pending_vars, overwrite_vars
<1>3. CASE FallsAtDisable /\ timer_counter = TimaMax
  <2>1. Phase # "overflowed"
    BY <1>1, <1>3, PhaseCases DEF Quiet, FallsAtDisable
  <2>2. Contract!OverflowAtDisable
    BY <1>2, <1>3, <2>1 DEF WriteTacDisabled, Contract!OverflowAtDisable
  <2>3. QED
    BY <2>2 DEF Contract!Next
<1>4. CASE FallsAtDisable /\ timer_counter # TimaMax
  <2>1. Phase # "overflowed"
    BY <1>1, <1>4, PhaseCases DEF Quiet, FallsAtDisable
  <2>2. timer_counter < TimaMax
    BY <1>1, <1>4, TimaMaxAssumption DEF TypeOK, Byte
  <2>3. Contract!Count
    BY <1>2, <1>4, <2>1, <2>2 DEF WriteTacDisabled, Contract!Count
  <2>4. QED
    BY <2>3 DEF Contract!Next
<1>5. CASE ~FallsAtDisable
  BY <1>2, <1>5 DEF WriteTacDisabled, Contract!vars
<1>6. QED
  BY <1>3, <1>4, <1>5

LEMMA WriteTacEnabledRefines ==
  ASSUME IInv, NEW clock \in Clocks, WriteTacEnabled(clock)
  PROVE  Contract!Next \/ UNCHANGED Contract!vars
<1>1. TypeOK /\ Quiet /\ clock \in Nat
  BY AccessFindsWindowsQuiet, ClocksAssumption DEF IInv, WriteTacEnabled, CpuAccess
<1>2. CASE ClockEdge(divider_register, timer_control.clock, clock)
  <2>1. ~overflow_detected
    BY <1>1, <1>2 DEF Quiet, ClockEdge
  <2>2. QED
    BY <1>1, <1>2, <2>1, TickCounterCounts DEF WriteTacEnabled, overwrite_vars
<1>3. CASE ~ClockEdge(divider_register, timer_control.clock, clock)
  BY <1>3, UnchangedPhase DEF WriteTacEnabled, pending_vars, overwrite_vars, Contract!vars
<1>4. QED
  BY <1>2, <1>3

LEMMA AcknowledgeRefines ==
  ASSUME Acknowledge
  PROVE  Contract!Next
<1>1. Phase' = Phase
  BY UnchangedPhase DEF Acknowledge, pending_vars, overwrite_vars
<1>2. Contract!Acknowledge
  BY <1>1 DEF Acknowledge, Contract!Acknowledge
<1>3. QED
  BY <1>2 DEF Contract!Next

(* The timer implements its contract: hidden behind the divider and the    *)
(* countdowns, every step is a step of TimerContract or changes nothing a  *)
(* game can see of TIMA, TMA and the interrupt.                            *)
THEOREM TimerImplementsContract == Spec => ImplementsContract
<1>1. Init => Contract!Init
  BY DEF Init, Contract!Init, Phase
<1>2. IInv /\ [Next]_vars => [Contract!Next]_(Contract!vars)
  <2>1. SUFFICES ASSUME IInv, [Next]_vars
                 PROVE  Contract!Next \/ UNCHANGED Contract!vars
    OBVIOUS
  <2>2. CASE Tick
    BY <2>1, <2>2, TickRefines
  <2>3. CASE WriteDiv
    BY <2>1, <2>3, WriteDivRefines
  <2>4. ASSUME NEW value \in Byte, WriteTima(value) \/ WriteTma(value)
        PROVE  Contract!Next \/ UNCHANGED Contract!vars
    BY <2>1, <2>4, WriteTimaRefines, WriteTmaRefines
  <2>5. ASSUME NEW clock \in Clocks, WriteTacDisabled(clock) \/ WriteTacEnabled(clock)
        PROVE  Contract!Next \/ UNCHANGED Contract!vars
    BY <2>1, <2>5, WriteTacDisabledRefines, WriteTacEnabledRefines
  <2>6. CASE Acknowledge
    BY <2>6, AcknowledgeRefines
  <2>7. CASE UNCHANGED vars
    BY <2>7, UnchangedPhase DEF vars, pending_vars, overwrite_vars, Contract!vars
  <2>8. QED
    BY <2>1, <2>2, <2>3, <2>4, <2>5, <2>6, <2>7 DEF Next, CpuWrite
<1>3. QED
  BY <1>1, <1>2, Invariance, PTL DEF Spec, ImplementsContract, Contract!Spec
==============================================================================
