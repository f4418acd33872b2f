--------------------------- MODULE CpuProofs -----------------------------------
(***************************************************************************)
(* Proofs about the CPU.  Those about CpuRunner hold for every number of   *)
(* interrupts, every width of the program counter and every placement of   *)
(* the handlers; those about Alu, in the second half, for all bytes and    *)
(* words and every set of operands.                                        *)
(***************************************************************************)
EXTENDS CpuRunner, Alu, TLAPS, WellFoundedInduction

(* The position in the current M-cycle.                                    *)
PhaseInMCycle ==
  IF current_state \in {"fetch_decode", "fetch_decode_prefixed"}
  THEN MCycle - remaining_cycles_in_state
  ELSE current_execution_cycle % MCycle

(* The accesses of the CPU are on the grid of its M-cycles, or the last    *)
(* one was before a halt state, more than an M-cycle ago.                  *)
AccessesOnGrid ==
  /\ current_state = "halt" => ticks_since_access >= MCycle
  /\ current_state # "halt" =>
       \/ ticks_since_access % MCycle = PhaseInMCycle
       \/ ticks_since_access >= PhaseInMCycle + MCycle

(* The bytes a dispatch has pushed so far are those of its return address. *)
StackedSoFar ==
  current_state = "interrupt" =>
    /\ current_execution_cycle >= 2 * MCycle => stacked.msb = pc \div PageSize
    /\ current_execution_cycle >= 3 * MCycle => stacked.lsb = pc % PageSize

IInv ==
  /\ TypeOK
  /\ CountersAgree
  /\ EiCountdownOnGrid
  /\ HaltFlagFresh
  /\ NoNestedDispatch
  /\ AccessesOnGrid
  /\ StackedSoFar

-----------------------------------------------------------------------------
LEMMA NumStepsRange ==
  ASSUME NEW op
  PROVE  num_steps(op) \in 1 .. 6
BY DEF num_steps

LEMMA ImeNowType ==
  ASSUME TypeOK
  PROVE  /\ ImeNow \in [enabled: BOOLEAN, ticks_until_enabled: 0 .. EiDelay]
         /\ ime.ticks_until_enabled = 0 => ImeNow = ime
         /\ ime.ticks_until_enabled = 1 =>
              ImeNow = [enabled |-> TRUE, ticks_until_enabled |-> 0]
         /\ ime.ticks_until_enabled > 1 =>
              /\ ~ImeNow.enabled
              /\ ImeNow.ticks_until_enabled = ime.ticks_until_enabled - 1
<1>1. ime \in [enabled: BOOLEAN, ticks_until_enabled: 0 .. EiDelay]
  BY DEF TypeOK
<1>2. CASE ime.ticks_until_enabled = 0
  <2>1. ImeNow = ime
    BY <1>2 DEF ImeNow
  <2>2. QED
    BY <1>1, <1>2, <2>1
<1>3. CASE ime.ticks_until_enabled = 1
  <2>1. ImeNow = [enabled |-> TRUE, ticks_until_enabled |-> 0]
    BY <1>3 DEF ImeNow
  <2>2. QED
    BY <1>3, <2>1 DEF EiDelay
<1>4. CASE ime.ticks_until_enabled > 1
  <2>1. ImeNow = [enabled |-> FALSE,
                  ticks_until_enabled |-> ime.ticks_until_enabled - 1]
    BY <1>1, <1>4 DEF ImeNow, EiDelay
  <2>2. QED
    BY <1>1, <1>4, <2>1 DEF EiDelay
<1>5. QED
  BY <1>1, <1>2, <1>3, <1>4 DEF EiDelay

LEMMA InitEstablishesInvariant ==
  ASSUME Init PROVE IInv
<1> USE DEF Init, MCycle, LongGap, EiDelay, None, NoBytes
<1>1. TypeOK
  <2>1. requested \subseteq Interrupts
    BY InterruptsAssumption DEF Interrupts
  <2>2. ime \in [enabled: BOOLEAN, ticks_until_enabled: 0 .. EiDelay]
    OBVIOUS
  <2>3. halt \in [enabled: BOOLEAN, ime_flag_set: BOOLEAN]
    OBVIOUS
  <2>4. stacked \in [msb: Nat, lsb: Nat]
    OBVIOUS
  <2>5. /\ current_state \in States
        /\ current_opcode \in Opcodes \cup PrefixedOpcodes
    BY DEF States, Opcodes
  <2>6. /\ current_execution_cycle \in 0 .. 6 * MCycle
        /\ remaining_cycles_in_state \in (1 .. 6 * MCycle) \cup {Forever}
        /\ ticks_since_access \in 0 .. LongGap
        /\ current_interrupt \in Interrupts \cup {None}
    OBVIOUS
  <2>7. pc \in Pc /\ upcoming \in Pc /\ interrupt_cancelled \in BOOLEAN /\ enabled \subseteq Interrupts
    OBVIOUS
  <2>8. QED
    BY ONLY <2>1, <2>2, <2>3, <2>4, <2>5, <2>6, <2>7 DEF TypeOK
<1>2. CountersAgree
  BY DEF CountersAgree
<1>3. EiCountdownOnGrid /\ HaltFlagFresh /\ NoNestedDispatch
  BY DEF EiCountdownOnGrid, HaltFlagFresh, NoNestedDispatch
<1>4. AccessesOnGrid /\ StackedSoFar
  BY DEF AccessesOnGrid, PhaseInMCycle, StackedSoFar
<1>5. QED
  BY <1>1, <1>2, <1>3, <1>4 DEF IInv

-----------------------------------------------------------------------------
(* What a fetch leaves, whatever ran before it. *)
LEMMA FetchFacts ==
  ASSUME NEW next \in Pc, Fetch(next)
  PROVE  /\ pc' \in Pc /\ upcoming' \in Pc
         /\ current_opcode' \in Opcodes
         /\ current_execution_cycle' = 0
         /\ remaining_cycles_in_state' \in 1 .. 6 * MCycle
         /\ CountersAgree'
         /\ \/ /\ current_state' = "execute"
               /\ PhaseInMCycle' = 0
            \/ /\ current_state' = "fetch_decode_prefixed"
               /\ remaining_cycles_in_state' = MCycle
               /\ PhaseInMCycle' = 0
<1> USE DEF Fetch, MCycle
<1>1. pc' \in Pc /\ upcoming' \in Pc
  BY PcModAssumption DEF Pc
<1>2. CASE current_opcode' = "prefix"
  BY <1>1, <1>2 DEF CountersAgree, PhaseInMCycle
<1>3. CASE current_opcode' # "prefix"
  <2>1. num_steps(current_opcode') \in 1 .. 6
    BY NumStepsRange
  <2>2. /\ current_state' = "execute"
        /\ remaining_cycles_in_state' = num_steps(current_opcode') * MCycle
    BY <1>3
  <2>3. CountersAgree'
    BY <1>3, <2>1, <2>2 DEF CountersAgree
  <2>4. PhaseInMCycle' = 0
    BY <2>2 DEF PhaseInMCycle
  <2>5. QED
    BY <1>1, <2>1, <2>2, <2>3, <2>4
<1>4. QED
  BY <1>2, <1>3

(* Ticks of the access grid. *)
LEMMA NoAccessFacts ==
  ASSUME TypeOK, NoAccess
  PROVE  /\ ticks_since_access' \in 0 .. LongGap
         /\ ticks_since_access < LongGap => ticks_since_access' = ticks_since_access + 1
         /\ ticks_since_access = LongGap => ticks_since_access' = LongGap
BY DEF TypeOK, NoAccess, LongGap, MCycle

LEMMA FetchDecodeKeepsInvariant ==
  ASSUME IInv, FetchDecode PROVE IInv'
<1> USE DEF FetchDecode, dispatch_vars, interrupt_vars
<1>1. /\ TypeOK /\ CountersAgree /\ EiCountdownOnGrid
      /\ HaltFlagFresh /\ NoNestedDispatch /\ AccessesOnGrid
  BY DEF IInv
<1>2. /\ ime' = ime
      /\ ~ime.enabled
      /\ ime.ticks_until_enabled = 0
  <2>1. ~ime.enabled /\ ime.ticks_until_enabled = 0
    BY <1>1 DEF NoNestedDispatch
  <2>2. QED
    BY <1>1, <2>1, ImeNowType
<1>3. NoAccess /\ ~halt.enabled
  BY <1>1 DEF HaltFlagFresh
<1>4. CASE remaining_cycles_in_state > 1
  <2>1. /\ remaining_cycles_in_state' = remaining_cycles_in_state - 1
        /\ UNCHANGED <<pc, current_state, current_execution_cycle, current_opcode, upcoming>>
    BY <1>4
  <2>2. remaining_cycles_in_state \in 2 .. MCycle
    BY <1>1, <1>4, ForeverAssumption DEF CountersAgree, TypeOK, MCycle
  <2>3. TypeOK'
    BY <1>1, <1>2, <1>3, <2>1, <2>2, NoAccessFacts DEF TypeOK, MCycle
  <2>4. CountersAgree' /\ StackedSoFar'
    BY <2>1, <2>2 DEF CountersAgree, StackedSoFar, MCycle
  <2>5. EiCountdownOnGrid' /\ HaltFlagFresh' /\ NoNestedDispatch'
    BY <1>2, <1>3, <2>1 DEF EiCountdownOnGrid, HaltFlagFresh, NoNestedDispatch
  <2>6. AccessesOnGrid'
    BY <1>1, <1>3, <2>1, <2>2, NoAccessFacts
       DEF AccessesOnGrid, PhaseInMCycle, MCycle, LongGap, TypeOK
  <2>7. QED
    BY <2>3, <2>4, <2>5, <2>6 DEF IInv
<1>5. CASE remaining_cycles_in_state = 1
  <2>1. Fetch(pc) /\ pc \in Pc
    BY <1>1, <1>5 DEF TypeOK
  <2>2. TypeOK'
    BY <1>1, <1>2, <1>3, <2>1, FetchFacts, NoAccessFacts DEF TypeOK, MCycle, States
  <2>3. CountersAgree'
    BY <2>1, FetchFacts
  <2>4. EiCountdownOnGrid' /\ HaltFlagFresh' /\ NoNestedDispatch' /\ StackedSoFar'
    BY <1>2, <1>3, <2>1, FetchFacts
       DEF EiCountdownOnGrid, HaltFlagFresh, NoNestedDispatch, StackedSoFar
  <2>5. AccessesOnGrid'
    BY <1>1, <1>3, <1>5, <2>1, FetchFacts, NoAccessFacts
       DEF AccessesOnGrid, PhaseInMCycle, MCycle, LongGap, TypeOK
  <2>6. QED
    BY <2>2, <2>3, <2>4, <2>5 DEF IInv
<1>6. QED
  BY <1>4, <1>5

LEMMA FetchDecodePrefixedKeepsInvariant ==
  ASSUME IInv, FetchDecodePrefixed PROVE IInv'
<1> USE DEF FetchDecodePrefixed, dispatch_vars, interrupt_vars
<1>1. /\ TypeOK /\ CountersAgree /\ EiCountdownOnGrid
      /\ HaltFlagFresh /\ NoNestedDispatch /\ AccessesOnGrid
  BY DEF IInv
<1>2. ime' \in [enabled: BOOLEAN, ticks_until_enabled: 0 .. EiDelay]
  BY <1>1, ImeNowType
<1>3. NoAccess /\ ~halt.enabled
  BY <1>1 DEF HaltFlagFresh
<1>4. CASE remaining_cycles_in_state > 1
  <2>1. /\ remaining_cycles_in_state' = remaining_cycles_in_state - 1
        /\ UNCHANGED <<pc, current_state, current_execution_cycle, current_opcode>>
    BY <1>4
  <2>2. remaining_cycles_in_state \in 2 .. MCycle
    BY <1>1, <1>4, ForeverAssumption DEF CountersAgree, TypeOK, MCycle
  <2>3. TypeOK'
    BY <1>1, <1>2, <1>3, <2>1, <2>2, NoAccessFacts DEF TypeOK, MCycle
  <2>4. CountersAgree' /\ StackedSoFar' /\ HaltFlagFresh' /\ NoNestedDispatch'
    BY <1>3, <2>1, <2>2
       DEF CountersAgree, StackedSoFar, MCycle, HaltFlagFresh, NoNestedDispatch
  <2>5. EiCountdownOnGrid'
    <3>1. ime.ticks_until_enabled \in {0, remaining_cycles_in_state}
      BY <1>1 DEF EiCountdownOnGrid, TypeOK, EiDelay
    <3>2. CASE ime.ticks_until_enabled = 0
      BY <1>1, <3>2, ImeNowType DEF EiCountdownOnGrid
    <3>3. CASE ime.ticks_until_enabled = remaining_cycles_in_state
      BY <1>1, <2>1, <2>2, <3>3, ImeNowType DEF EiCountdownOnGrid
    <3>4. QED
      BY <3>1, <3>2, <3>3
  <2>6. AccessesOnGrid'
    BY <1>1, <1>3, <2>1, <2>2, NoAccessFacts
       DEF AccessesOnGrid, PhaseInMCycle, MCycle, LongGap, TypeOK
  <2>7. QED
    BY <2>3, <2>4, <2>5, <2>6 DEF IInv
<1>5. CASE remaining_cycles_in_state = 1
  <2>1. /\ pc' = (pc + 1) % PcMod
        /\ current_opcode' \in PrefixedOpcodes
        /\ current_state' = "execute_prefixed"
        /\ remaining_cycles_in_state' = num_steps(current_opcode') * MCycle
        /\ current_execution_cycle' = 0
    BY <1>5
  <2>2. pc' \in Pc
    BY <1>1, <2>1, PcModAssumption DEF TypeOK, Pc
  <2>3. num_steps(current_opcode') \in 1 .. 6
    BY NumStepsRange
  <2>4. TypeOK'
    BY <1>1, <1>2, <1>3, <2>1, <2>2, <2>3, NoAccessFacts DEF TypeOK, MCycle, States
  <2>5. CountersAgree'
    BY <2>1, <2>3 DEF CountersAgree, MCycle
  <2>6. HaltFlagFresh' /\ NoNestedDispatch' /\ StackedSoFar'
    BY <1>3, <2>1 DEF HaltFlagFresh, NoNestedDispatch, StackedSoFar
  <2>7. EiCountdownOnGrid'
    <3>1. ime.ticks_until_enabled \in {0, 1}
      BY <1>1, <1>5 DEF EiCountdownOnGrid, TypeOK, EiDelay
    <3>2. ime'.ticks_until_enabled = 0
      BY <1>1, <3>1, ImeNowType
    <3>3. QED
      BY <3>2 DEF EiCountdownOnGrid
  <2>8. AccessesOnGrid'
    BY <1>1, <1>3, <1>5, <2>1, NoAccessFacts
       DEF AccessesOnGrid, PhaseInMCycle, MCycle, LongGap, TypeOK
  <2>9. QED
    BY <2>4, <2>5, <2>6, <2>7, <2>8 DEF IInv
<1>6. QED
  BY <1>4, <1>5

-----------------------------------------------------------------------------
LEMMA FirstPending ==
  ASSUME enabled \subseteq Interrupts, is_any_pending
  PROVE  /\ get_first_pending \in enabled \cap requested
         /\ get_first_pending \in Interrupts
         /\ get_first_pending # None
<1> DEFINE S == enabled \cap requested
<1>1. S \subseteq Nat /\ S # {}
  <2>1. \A i \in S : i \in Nat
    BY InterruptsAssumption DEF Interrupts
  <2>2. S # {}
    BY DEF is_any_pending
  <2>3. QED
    BY <2>1, <2>2
<1>2. \E i \in S : \A j \in S : ~(<<j, i>> \in OpToRel(<, Nat))
  BY <1>1, NatLessThanWellFounded, WFMin
<1>3. \E i \in S : \A j \in S : i <= j
  <2>1. PICK i \in S : \A j \in S : ~(<<j, i>> \in OpToRel(<, Nat))
    BY <1>2
  <2>2. \A j \in S : i <= j
    <3>1. SUFFICES ASSUME NEW j \in S PROVE i <= j
      OBVIOUS
    <3>2. i \in Nat /\ j \in Nat
      BY <1>1
    <3>3. j < i => <<j, i>> \in OpToRel(<, Nat)
      BY <3>2 DEF OpToRel
    <3>4. QED
      <4>1. ~(j < i)
        BY <2>1, <3>3
      <4>2. QED
        BY <3>2, <4>1
  <2>3. QED
    BY <2>2
<1>4. get_first_pending \in S
  BY <1>3 DEF get_first_pending
<1>5. QED
  BY <1>1, <1>4, InterruptsAssumption DEF Interrupts, None

(* The first cycle of a dispatch. *)
LEMMA BeginDispatchFacts ==
  ASSUME TypeOK, is_any_pending, BeginDispatch
  PROVE  /\ current_state' = "interrupt"
         /\ current_execution_cycle' = 1
         /\ remaining_cycles_in_state' = 15
         /\ current_interrupt' \in Interrupts
         /\ CountersAgree'
         /\ StackedSoFar'
         /\ PhaseInMCycle' = 1
         /\ NoAccess
<1>1. /\ get_first_pending \in Interrupts
      /\ get_first_pending # None
  BY FirstPending DEF TypeOK
<1>2. /\ current_state' = "interrupt"
      /\ current_execution_cycle' = 1
      /\ remaining_cycles_in_state' = 15
      /\ current_interrupt' = get_first_pending
      /\ NoAccess
  BY DEF BeginDispatch, num_steps_dispatch, MCycle
<1>3. CountersAgree'
  BY <1>1, <1>2 DEF CountersAgree, num_steps_dispatch, MCycle
<1>4. StackedSoFar' /\ PhaseInMCycle' = 1
  BY <1>2 DEF StackedSoFar, PhaseInMCycle, MCycle
<1>5. QED
  BY <1>1, <1>2, <1>3, <1>4

LEMMA PreemptInstructionKeepsInvariant ==
  ASSUME IInv, PreemptInstruction PROVE IInv'
<1>1. /\ TypeOK /\ CountersAgree /\ EiCountdownOnGrid
      /\ HaltFlagFresh /\ NoNestedDispatch /\ AccessesOnGrid
  BY DEF IInv
<1>2. /\ is_any_pending /\ BeginDispatch
      /\ current_state = "execute" /\ current_execution_cycle = 0
      /\ ImeNow.enabled /\ ime' = ImeNow
      /\ UNCHANGED <<pc, halt, current_opcode, interrupt_cancelled, stacked, requested, enabled,
                     upcoming>>
  BY DEF PreemptInstruction, Preempted, BeginDispatch, interrupt_vars
<1>3. ime.ticks_until_enabled \in {0, EiDelay}
  BY <1>1, <1>2 DEF EiCountdownOnGrid, TypeOK, EiDelay
<1>4. ime.ticks_until_enabled = 0 /\ ime' = ime
  BY <1>1, <1>2, <1>3, ImeNowType DEF EiDelay
<1>5. TypeOK'
  <2>1. NoAccess
    BY <1>1, <1>2, BeginDispatchFacts
  <2>2. ticks_since_access' \in 0 .. LongGap
    BY <1>1, <2>1, NoAccessFacts
  <2>3. QED
    BY <1>1, <1>2, <1>4, <2>2, BeginDispatchFacts DEF TypeOK, States, MCycle
<1>6. CountersAgree' /\ StackedSoFar'
  BY <1>1, <1>2, BeginDispatchFacts
<1>7. EiCountdownOnGrid' /\ HaltFlagFresh' /\ NoNestedDispatch'
  BY <1>1, <1>2, <1>4, BeginDispatchFacts
     DEF EiCountdownOnGrid, HaltFlagFresh, NoNestedDispatch, MCycle
<1>8. AccessesOnGrid'
  <2>1. NoAccess /\ PhaseInMCycle = 0 /\ PhaseInMCycle' = 1 /\ current_state' = "interrupt"
    BY <1>1, <1>2, BeginDispatchFacts DEF PhaseInMCycle, MCycle
  <2>2. QED
    BY <1>1, <1>2, <2>1, NoAccessFacts DEF AccessesOnGrid, MCycle, LongGap, TypeOK
<1>9. QED
  BY <1>5, <1>6, <1>7, <1>8 DEF IInv

LEMMA HaltedKeepsInvariant ==
  ASSUME IInv, Halted PROVE IInv'
<1>1. /\ TypeOK /\ CountersAgree /\ EiCountdownOnGrid
      /\ HaltFlagFresh /\ NoNestedDispatch /\ AccessesOnGrid /\ StackedSoFar
  BY DEF IInv
<1>2. /\ NoAccess /\ current_state = "halt"
      /\ UNCHANGED <<pc, halt, runner_vars, dispatch_vars, interrupt_vars>>
  BY DEF Halted
<1>3. ime' = ime
  BY <1>1, <1>2, ImeNowType DEF HaltFlagFresh, Halted
<1>4. TypeOK'
  BY <1>1, <1>2, <1>3, NoAccessFacts
     DEF TypeOK, runner_vars, dispatch_vars, interrupt_vars
<1>5. /\ CountersAgree' /\ EiCountdownOnGrid' /\ HaltFlagFresh'
      /\ NoNestedDispatch' /\ StackedSoFar'
  BY <1>1, <1>2, <1>3
     DEF CountersAgree, EiCountdownOnGrid, HaltFlagFresh, NoNestedDispatch, StackedSoFar,
         runner_vars, dispatch_vars
<1>6. AccessesOnGrid'
  BY <1>1, <1>2, NoAccessFacts DEF AccessesOnGrid, runner_vars, TypeOK, MCycle, LongGap
<1>7. QED
  BY <1>4, <1>5, <1>6 DEF IInv

LEMMA WakeToDispatchKeepsInvariant ==
  ASSUME IInv, WakeToDispatch PROVE IInv'
<1>1. /\ TypeOK /\ CountersAgree /\ EiCountdownOnGrid
      /\ HaltFlagFresh /\ NoNestedDispatch /\ AccessesOnGrid
  BY DEF IInv
<1>2. /\ is_any_pending /\ BeginDispatch
      /\ current_state = "halt" /\ halt.ime_flag_set
      /\ halt' = [halt EXCEPT !.enabled = FALSE]
      /\ pc' = (pc + 1) % PcMod
      /\ UNCHANGED <<current_opcode, interrupt_cancelled, stacked, requested, enabled,
                     upcoming>>
  BY DEF WakeToDispatch, BeginDispatch, interrupt_vars
<1>3. ime.enabled /\ ime.ticks_until_enabled = 0 /\ ime' = ime
  BY <1>1, <1>2, ImeNowType DEF HaltFlagFresh, WakeToDispatch
<1>4. pc' \in Pc
  BY <1>1, <1>2, PcModAssumption DEF TypeOK, Pc
<1>5. NoAccess /\ PhaseInMCycle' = 1 /\ current_state' = "interrupt"
  BY <1>1, <1>2, BeginDispatchFacts
<1>6. halt' \in [enabled: BOOLEAN, ime_flag_set: BOOLEAN] /\ ~halt'.enabled
  BY <1>1, <1>2 DEF TypeOK
<1>7. TypeOK'
  <2>1. ticks_since_access' \in 0 .. LongGap
    BY <1>1, <1>5, NoAccessFacts
  <2>2. QED
    BY <1>1, <1>2, <1>3, <1>4, <1>6, <2>1, BeginDispatchFacts DEF TypeOK, States, MCycle
<1>8. CountersAgree' /\ StackedSoFar'
  BY <1>1, <1>2, BeginDispatchFacts
<1>9. EiCountdownOnGrid' /\ HaltFlagFresh' /\ NoNestedDispatch'
  BY <1>1, <1>2, <1>3, <1>6, BeginDispatchFacts
     DEF EiCountdownOnGrid, HaltFlagFresh, NoNestedDispatch, MCycle
<1>10. AccessesOnGrid'
  BY <1>1, <1>2, <1>5, NoAccessFacts DEF AccessesOnGrid, MCycle, LongGap, TypeOK
<1>11. QED
  BY <1>7, <1>8, <1>9, <1>10 DEF IInv

LEMMA WakeToFetchKeepsInvariant ==
  ASSUME IInv, WakeToFetch PROVE IInv'
<1>1. /\ TypeOK /\ CountersAgree /\ EiCountdownOnGrid
      /\ HaltFlagFresh /\ NoNestedDispatch /\ AccessesOnGrid
  BY DEF IInv
<1>2. /\ current_state = "halt"
      /\ halt' = [halt EXCEPT !.enabled = FALSE]
      /\ Fetch(pc) /\ pc \in Pc
      /\ NoAccess
      /\ UNCHANGED <<current_interrupt, interrupt_cancelled, stacked, requested, enabled>>
  BY <1>1 DEF WakeToFetch, dispatch_vars, interrupt_vars, TypeOK
<1>3. ime.ticks_until_enabled = 0 /\ ime' = ime
  BY <1>1, <1>2, ImeNowType DEF HaltFlagFresh, WakeToFetch
<1>4. halt' \in [enabled: BOOLEAN, ime_flag_set: BOOLEAN] /\ ~halt'.enabled
  BY <1>1, <1>2 DEF TypeOK
<1>5. TypeOK'
  <2>1. ticks_since_access' \in 0 .. LongGap
    BY <1>1, <1>2, NoAccessFacts
  <2>2. QED
    BY <1>1, <1>2, <1>3, <1>4, <2>1, FetchFacts DEF TypeOK, States, MCycle
<1>6. CountersAgree'
  BY <1>2, FetchFacts
<1>7. EiCountdownOnGrid' /\ HaltFlagFresh' /\ NoNestedDispatch' /\ StackedSoFar'
  BY <1>2, <1>3, <1>4, FetchFacts
     DEF EiCountdownOnGrid, HaltFlagFresh, NoNestedDispatch, StackedSoFar
<1>8. AccessesOnGrid'
  BY <1>1, <1>2, FetchFacts, NoAccessFacts DEF AccessesOnGrid, MCycle, LongGap, TypeOK
<1>9. QED
  BY <1>5, <1>6, <1>7, <1>8 DEF IInv

-----------------------------------------------------------------------------
LEMMA RequestKeepsInvariant ==
  ASSUME IInv, NEW i \in Interrupts, Request(i) PROVE IInv'
<1> USE DEF Request, runner_vars, dispatch_vars
<1>1. /\ TypeOK /\ CountersAgree /\ EiCountdownOnGrid
      /\ HaltFlagFresh /\ NoNestedDispatch /\ AccessesOnGrid /\ StackedSoFar
  BY DEF IInv
<1>2. TypeOK'
  BY <1>1 DEF TypeOK
<1>3. CountersAgree' /\ EiCountdownOnGrid' /\ HaltFlagFresh' /\ NoNestedDispatch'
  BY <1>1 DEF CountersAgree, EiCountdownOnGrid, HaltFlagFresh, NoNestedDispatch
<1>4. AccessesOnGrid' /\ StackedSoFar'
  BY <1>1 DEF AccessesOnGrid, PhaseInMCycle, StackedSoFar
<1>5. QED
  BY <1>2, <1>3, <1>4 DEF IInv

(* What the counters say of a cycle of an instruction. *)
LEMMA ExecutingFacts ==
  ASSUME TypeOK, CountersAgree, Executing
  PROVE  /\ current_execution_cycle \in 0 .. 23
         /\ remaining_cycles_in_state \in 1 .. 24
         /\ current_opcode \in Opcodes \cup PrefixedOpcodes
         /\ current_opcode # "prefix"
         /\ current_execution_cycle + remaining_cycles_in_state
              = num_steps(current_opcode) * 4
         /\ num_steps(current_opcode) \in 1 .. 6
<1>1. num_steps(current_opcode) \in 1 .. 6
  BY NumStepsRange
<1>2. /\ current_execution_cycle + remaining_cycles_in_state
              = num_steps(current_opcode) * 4
      /\ current_opcode \in Opcodes \cup PrefixedOpcodes
      /\ current_opcode # "prefix"
  BY DEF Executing, CountersAgree, MCycle, Opcodes, PrefixedOpcodes
<1>3. remaining_cycles_in_state \in Nat \ {0} /\ current_execution_cycle \in Nat
  BY ForeverAssumption DEF TypeOK, MCycle
<1>4. QED
  BY <1>1, <1>2, <1>3

(* The countdown, seen from inside an instruction. *)
LEMMA CountdownWhileExecuting ==
  ASSUME TypeOK, EiCountdownOnGrid, Executing
  PROVE  /\ ime.ticks_until_enabled > 0 =>
              /\ current_state = "execute"
              /\ current_execution_cycle + ime.ticks_until_enabled = EiDelay
         /\ (current_execution_cycle + 1) % MCycle = 0 => ImeNow.ticks_until_enabled = 0
         /\ (current_execution_cycle + 1) % MCycle # 0 /\ ImeNow.ticks_until_enabled > 0 =>
                /\ current_state = "execute"
                /\ ~ImeNow.enabled
                /\ current_execution_cycle + 1 + ImeNow.ticks_until_enabled = EiDelay
<1>1. ime.ticks_until_enabled > 0 =>
        /\ current_state = "execute"
        /\ current_execution_cycle + ime.ticks_until_enabled = EiDelay
  BY DEF EiCountdownOnGrid, Executing
<1>2. ime.ticks_until_enabled \in 0 .. 4 /\ current_execution_cycle \in Nat
  BY DEF TypeOK, EiDelay
<1>3. CASE ime.ticks_until_enabled = 0
  BY <1>1, <1>3, ImeNowType
<1>4. CASE ime.ticks_until_enabled = 1
  BY <1>1, <1>4, ImeNowType
<1>5. CASE ime.ticks_until_enabled > 1
  BY <1>1, <1>2, <1>5, ImeNowType DEF MCycle, EiDelay
<1>6. QED
  BY <1>2, <1>3, <1>4, <1>5

LEMMA ExecuteCycleKeepsInvariant ==
  ASSUME IInv, ExecuteCycle PROVE IInv'
<1>1. /\ TypeOK /\ CountersAgree /\ EiCountdownOnGrid
      /\ HaltFlagFresh /\ NoNestedDispatch /\ AccessesOnGrid
  BY DEF IInv
<1>2. /\ Executing /\ NoAccess
      /\ (current_execution_cycle + 1) % 4 # 0
      /\ current_execution_cycle' = current_execution_cycle + 1
      /\ remaining_cycles_in_state' = remaining_cycles_in_state - 1
      /\ ime' = ImeNow
      /\ UNCHANGED <<pc, halt, current_state, current_opcode, current_interrupt,
                     interrupt_cancelled, stacked, requested, enabled, upcoming>>
  BY DEF ExecuteCycle, MCycle, dispatch_vars, interrupt_vars
<1>3. current_state \in {"execute", "execute_prefixed"}
  BY <1>2 DEF Executing
<1>4. /\ current_execution_cycle \in 0 .. 22
      /\ remaining_cycles_in_state \in 2 .. 24
  BY <1>1, <1>2, ExecutingFacts
<1>5. ime' \in [enabled: BOOLEAN, ticks_until_enabled: 0 .. EiDelay]
  BY <1>1, <1>2, ImeNowType
<1>6. ticks_since_access' \in 0 .. LongGap
  BY <1>1, <1>2, NoAccessFacts
<1>7. TypeOK'
  BY <1>1, <1>2, <1>4, <1>5, <1>6 DEF TypeOK, MCycle
<1>8. CountersAgree' /\ HaltFlagFresh' /\ NoNestedDispatch' /\ StackedSoFar'
  BY <1>1, <1>2, <1>3, <1>4
     DEF CountersAgree, HaltFlagFresh, NoNestedDispatch, StackedSoFar
<1>9. EiCountdownOnGrid'
  BY <1>1, <1>2, CountdownWhileExecuting DEF EiCountdownOnGrid, MCycle
<1>10. AccessesOnGrid'
  BY <1>1, <1>2, <1>3, <1>4, NoAccessFacts
     DEF AccessesOnGrid, PhaseInMCycle, MCycle, LongGap, TypeOK
<1>11. QED
  BY <1>7, <1>8, <1>9, <1>10 DEF IInv

(* Every program counter an instruction can leave is in range. *)
LEMMA PcAfterRange ==
  ASSUME pc \in Pc, NEW op, NEW step, NEW next \in PcAfter(op, step)
  PROVE  next \in Pc
<1>1. (pc + 1) % PcMod \in Pc
  BY PcModAssumption DEF Pc
<1>2. QED
  BY <1>1 DEF PcAfter

(* What an instruction does to IME at the end of an M-cycle: only ei       *)
(* starts a countdown.                                                     *)
LEMMA ImeAfterFacts ==
  ASSUME NEW op, NEW step,
         NEW flag \in [enabled: BOOLEAN, ticks_until_enabled: 0 .. EiDelay],
         flag.ticks_until_enabled = 0
  PROVE  /\ ImeAfter(op, step, flag) \in
              [enabled: BOOLEAN, ticks_until_enabled: 0 .. EiDelay]
         /\ ImeAfter(op, step, flag).ticks_until_enabled > 0 =>
              /\ op = "ei"
              /\ ~ImeAfter(op, step, flag).enabled
              /\ ImeAfter(op, step, flag).ticks_until_enabled = EiDelay
         /\ op = "halt" => ImeAfter(op, step, flag) = flag
<1>1. CASE op = "ei" /\ ~flag.enabled
  <2>1. ImeAfter(op, step, flag) = [enabled |-> FALSE, ticks_until_enabled |-> EiDelay]
    BY <1>1 DEF ImeAfter
  <2>2. ImeAfter(op, step, flag) \in [enabled: BOOLEAN, ticks_until_enabled: 0 .. EiDelay]
    BY <2>1 DEF EiDelay
  <2>3. /\ ~ImeAfter(op, step, flag).enabled
        /\ ImeAfter(op, step, flag).ticks_until_enabled = EiDelay
    BY <2>1
  <2>4. QED
    BY <1>1, <2>2, <2>3
<1>2. CASE op = "di"
  <2>1. ImeAfter(op, step, flag) = [enabled |-> FALSE, ticks_until_enabled |-> 0]
    BY <1>2 DEF ImeAfter
  <2>2. ImeAfter(op, step, flag) \in [enabled: BOOLEAN, ticks_until_enabled: 0 .. EiDelay]
    BY <2>1 DEF EiDelay
  <2>3. /\ ~ImeAfter(op, step, flag).enabled
        /\ ImeAfter(op, step, flag).ticks_until_enabled = 0
    BY <2>1
  <2>4. QED
    BY <1>2, <2>2, <2>3
<1>3. CASE op = "reti" /\ step = 0
  <2>1. ImeAfter(op, step, flag) = [enabled |-> TRUE, ticks_until_enabled |-> 0]
    BY <1>3 DEF ImeAfter
  <2>2. ImeAfter(op, step, flag) \in [enabled: BOOLEAN, ticks_until_enabled: 0 .. EiDelay]
    BY <2>1 DEF EiDelay
  <2>3. /\ ImeAfter(op, step, flag).enabled
        /\ ImeAfter(op, step, flag).ticks_until_enabled = 0
    BY <2>1
  <2>4. QED
    BY <1>3, <2>2, <2>3
<1>4. CASE ~(op = "ei" /\ ~flag.enabled) /\ op # "di" /\ ~(op = "reti" /\ step = 0)
  <2>1. ImeAfter(op, step, flag) = flag
    BY <1>4 DEF ImeAfter
  <2>2. QED
    BY <2>1
<1>5. QED
  BY <1>1, <1>2, <1>3, <1>4

(* The facts about a step of an instruction that all its outcomes share.   *)
StepEffects(step) ==
  /\ Executing
  /\ (current_execution_cycle + 1) % 4 = 0
  /\ ime' = ImeAfter(current_opcode, step, ImeNow)
  /\ halt' = HaltAfter(current_opcode, ImeNow)
  /\ \/ ticks_since_access' = 0 \/ NoAccess
  /\ current_opcode = "halt" => NoAccess
  /\ requested' \subseteq Interrupts
  /\ enabled' \subseteq Interrupts
  /\ UNCHANGED <<current_interrupt, interrupt_cancelled, stacked>>

Continues(next) ==
  /\ remaining_cycles_in_state > 1
  /\ pc' = next
  /\ current_execution_cycle' = current_execution_cycle + 1
  /\ remaining_cycles_in_state' = remaining_cycles_in_state - 1
  /\ UNCHANGED <<current_state, current_opcode, upcoming>>

Halts(next) ==
  /\ remaining_cycles_in_state = 1
  /\ halt'.enabled
  /\ pc' = next
  /\ upcoming' = next
  /\ current_execution_cycle' = current_execution_cycle + 1
  /\ current_state' = "halt"
  /\ remaining_cycles_in_state' = Forever
  /\ UNCHANGED current_opcode

Fetches(next) ==
  /\ remaining_cycles_in_state = 1
  /\ ~halt'.enabled
  /\ Fetch(next)

(* A write of the CPU leaves the two registers with bits of interrupts.    *)
LEMMA WriteRange ==
  ASSUME requested \subseteq Interrupts, enabled \subseteq Interrupts,
         MemoryWrite \/ UNCHANGED interrupt_vars
  PROVE  requested' \subseteq Interrupts /\ enabled' \subseteq Interrupts
BY DEF MemoryWrite, interrupt_vars

LEMMA ExecuteStepOutcomes ==
  ASSUME IInv, ExecuteStep
  PROVE  \E step \in Nat, next \in Pc :
           StepEffects(step) /\ (Continues(next) \/ Halts(next) \/ Fetches(next))
<1> DEFINE step == ((current_execution_cycle + 1) \div MCycle) - 1
<1>1. TypeOK /\ CountersAgree
  BY DEF IInv
<1>2. Executing
  BY DEF ExecuteStep
<1>3. step \in Nat
  <2>1. current_execution_cycle \in 0 .. 23
    BY <1>1, <1>2, ExecutingFacts
  <2>2. (current_execution_cycle + 1) % 4 = 0
    BY DEF ExecuteStep, MCycle
  <2>3. QED
    BY <2>1, <2>2 DEF MCycle
<1>4. StepEffects(step)
  <2>1. requested' \subseteq Interrupts /\ enabled' \subseteq Interrupts
    <3>1. MemoryWrite \/ UNCHANGED interrupt_vars
      BY DEF ExecuteStep
    <3>2. QED
      BY <1>1, <3>1, WriteRange DEF TypeOK
  <2>2. ticks_since_access' = 0 \/ NoAccess
    BY DEF ExecuteStep, Access
  <2>3. current_opcode = "halt" => NoAccess
    BY DEF ExecuteStep, Writes
  <2>4. QED
    BY <1>2, <2>1, <2>2, <2>3 DEF StepEffects, ExecuteStep, MCycle, dispatch_vars
<1>5. \E next \in PcAfter(current_opcode, step) :
        Continues(next) \/ Halts(next) \/ Fetches(next)
  BY DEF ExecuteStep, Continues, Halts, Fetches
<1>6. \A next \in PcAfter(current_opcode, step) : next \in Pc
  BY <1>1, PcAfterRange DEF TypeOK
<1>7. QED
  BY <1>3, <1>4, <1>5, <1>6

(* What a step leaves of IME, HALT and the access grid.                    *)
LEMMA StepEffectsFacts ==
  ASSUME IInv, NEW step \in Nat, StepEffects(step)
  PROVE  /\ ime' \in [enabled: BOOLEAN, ticks_until_enabled: 0 .. EiDelay]
         /\ ime'.ticks_until_enabled > 0 =>
              /\ current_opcode = "ei"
              /\ ~ime'.enabled
              /\ ime'.ticks_until_enabled = EiDelay
         /\ halt' \in [enabled: BOOLEAN, ime_flag_set: BOOLEAN]
         /\ halt'.enabled => /\ current_opcode = "halt"
                             /\ halt'.ime_flag_set <=> ime'.enabled
                             /\ ime'.ticks_until_enabled = 0
         /\ current_opcode \in {"halt", "ei"} => remaining_cycles_in_state = 1
         /\ ticks_since_access' \in 0 .. LongGap
         /\ \/ ticks_since_access' % MCycle = 0
            \/ ticks_since_access' >= MCycle
         /\ halt'.enabled => ticks_since_access' >= MCycle
<1>1. /\ TypeOK /\ CountersAgree /\ EiCountdownOnGrid
      /\ HaltFlagFresh /\ AccessesOnGrid
  BY DEF IInv
<1>2. /\ Executing
      /\ (current_execution_cycle + 1) % 4 = 0
      /\ ime' = ImeAfter(current_opcode, step, ImeNow)
      /\ halt' = HaltAfter(current_opcode, ImeNow)
      /\ \/ ticks_since_access' = 0 \/ NoAccess
      /\ current_opcode = "halt" => NoAccess
  BY DEF StepEffects
<1>3. /\ ImeNow \in [enabled: BOOLEAN, ticks_until_enabled: 0 .. EiDelay]
      /\ ImeNow.ticks_until_enabled = 0
  BY <1>1, <1>2, ImeNowType, CountdownWhileExecuting DEF MCycle
<1>4. /\ ime' \in [enabled: BOOLEAN, ticks_until_enabled: 0 .. EiDelay]
      /\ ime'.ticks_until_enabled > 0 =>
           /\ current_opcode = "ei"
           /\ ~ime'.enabled
           /\ ime'.ticks_until_enabled = EiDelay
      /\ current_opcode = "halt" => ime' = ImeNow
  BY <1>2, <1>3, ImeAfterFacts
<1>5. current_state # "halt" /\ ~halt.enabled
  BY <1>1, <1>2 DEF Executing, HaltFlagFresh
<1>6. CASE current_opcode = "halt"
  <2>1. halt' = [enabled |-> TRUE, ime_flag_set |-> ImeNow.enabled]
    BY <1>2, <1>6 DEF HaltAfter
  <2>2. halt' \in [enabled: BOOLEAN, ime_flag_set: BOOLEAN]
    BY <1>3, <2>1
  <2>3. /\ halt'.ime_flag_set <=> ime'.enabled
        /\ ime'.ticks_until_enabled = 0
    BY <1>3, <1>4, <1>6, <2>1
  <2>4. num_steps(current_opcode) = 1
    BY <1>6 DEF num_steps
  <2>5. remaining_cycles_in_state = 1
    BY <1>1, <1>2, <2>4, ExecutingFacts
  <2>6. /\ ticks_since_access' \in 0 .. LongGap
        /\ ticks_since_access' >= MCycle
    <3>1. ticks_since_access % 4 = 3 \/ ticks_since_access >= 7
      BY <1>1, <1>2, <1>5, ExecutingFacts
         DEF AccessesOnGrid, PhaseInMCycle, MCycle, Executing
    <3>2. QED
      BY <1>1, <1>2, <1>6, <3>1, NoAccessFacts DEF TypeOK, MCycle, LongGap
  <2>7. QED
    BY <1>4, <1>6, <2>2, <2>3, <2>5, <2>6
<1>7. CASE current_opcode # "halt"
  <2>1. halt' = halt
    BY <1>2, <1>7 DEF HaltAfter
  <2>2. current_opcode = "ei" => remaining_cycles_in_state = 1
    <3>1. current_opcode = "ei" => num_steps(current_opcode) = 1
      BY DEF num_steps
    <3>2. QED
      BY <1>1, <1>2, <3>1, ExecutingFacts
  <2>3. /\ ticks_since_access' \in 0 .. LongGap
        /\ ticks_since_access' % MCycle = 0 \/ ticks_since_access' >= MCycle
    <3>1. ticks_since_access % 4 = 3 \/ ticks_since_access >= 7
      BY <1>1, <1>2, <1>5, ExecutingFacts
         DEF AccessesOnGrid, PhaseInMCycle, MCycle, Executing
    <3>2. QED
      BY <1>1, <1>2, <3>1, NoAccessFacts DEF TypeOK, MCycle, LongGap
  <2>4. halt' \in [enabled: BOOLEAN, ime_flag_set: BOOLEAN] /\ ~halt'.enabled
    BY <1>1, <1>5, <2>1 DEF TypeOK
  <2>5. QED
    BY <1>4, <1>7, <2>2, <2>3, <2>4
<1>8. QED
  BY <1>6, <1>7

LEMMA ContinuesKeepsInvariant ==
  ASSUME IInv, NEW step \in Nat, NEW next \in Pc, StepEffects(step), Continues(next)
  PROVE  IInv'
<1>1. TypeOK /\ CountersAgree /\ HaltFlagFresh
  BY DEF IInv
<1>2. /\ Executing /\ (current_execution_cycle + 1) % 4 = 0
      /\ requested' \subseteq Interrupts /\ enabled' \subseteq Interrupts
      /\ UNCHANGED <<current_interrupt, interrupt_cancelled, stacked>>
  BY DEF StepEffects
<1>3. /\ remaining_cycles_in_state > 1
      /\ pc' = next
      /\ current_execution_cycle' = current_execution_cycle + 1
      /\ remaining_cycles_in_state' = remaining_cycles_in_state - 1
      /\ UNCHANGED <<current_state, current_opcode, upcoming>>
  BY DEF Continues
<1>4. current_state \in {"execute", "execute_prefixed"}
  BY <1>2 DEF Executing
<1>5. /\ current_execution_cycle \in 0 .. 22
      /\ remaining_cycles_in_state \in 2 .. 24
  BY <1>1, <1>2, <1>3, ExecutingFacts
<1>6. /\ ime' \in [enabled: BOOLEAN, ticks_until_enabled: 0 .. EiDelay]
      /\ halt' \in [enabled: BOOLEAN, ime_flag_set: BOOLEAN]
      /\ ticks_since_access' \in 0 .. LongGap
      /\ ~halt'.enabled
      /\ ime'.ticks_until_enabled = 0
  <2>1. current_opcode \notin {"halt", "ei"}
    BY <1>3, StepEffectsFacts
  <2>2. QED
    BY <2>1, StepEffectsFacts DEF EiDelay
<1>7. TypeOK'
  BY <1>1, <1>2, <1>3, <1>5, <1>6 DEF TypeOK, MCycle
<1>8. CountersAgree' /\ NoNestedDispatch' /\ StackedSoFar'
  BY <1>1, <1>3, <1>4, <1>5 DEF CountersAgree, NoNestedDispatch, StackedSoFar
<1>9. EiCountdownOnGrid' /\ HaltFlagFresh'
  BY <1>3, <1>4, <1>6 DEF EiCountdownOnGrid, HaltFlagFresh
<1>10. AccessesOnGrid'
  <2>1. PhaseInMCycle' = 0
    BY <1>2, <1>3, <1>4 DEF PhaseInMCycle, MCycle
  <2>2. QED
    BY <1>3, <1>4, <2>1, StepEffectsFacts DEF AccessesOnGrid, MCycle
<1>11. QED
  BY <1>7, <1>8, <1>9, <1>10 DEF IInv

LEMMA HaltsKeepsInvariant ==
  ASSUME IInv, NEW step \in Nat, NEW next \in Pc, StepEffects(step), Halts(next)
  PROVE  IInv'
<1>1. TypeOK /\ CountersAgree
  BY DEF IInv
<1>2. /\ Executing
      /\ requested' \subseteq Interrupts /\ enabled' \subseteq Interrupts
      /\ UNCHANGED <<current_interrupt, interrupt_cancelled, stacked>>
  BY DEF StepEffects
<1>3. /\ halt'.enabled
      /\ pc' = next /\ upcoming' = next
      /\ current_execution_cycle' = current_execution_cycle + 1
      /\ current_state' = "halt"
      /\ remaining_cycles_in_state' = Forever
      /\ UNCHANGED current_opcode
  BY DEF Halts
<1>4. current_execution_cycle \in 0 .. 23
  BY <1>1, <1>2, ExecutingFacts
<1>5. TypeOK'
  BY <1>1, <1>2, <1>3, <1>4, StepEffectsFacts DEF TypeOK, MCycle, States
<1>6. CountersAgree' /\ NoNestedDispatch' /\ StackedSoFar'
  BY <1>3 DEF CountersAgree, NoNestedDispatch, StackedSoFar
<1>7. EiCountdownOnGrid' /\ HaltFlagFresh'
  BY <1>3, StepEffectsFacts DEF EiCountdownOnGrid, HaltFlagFresh
<1>8. AccessesOnGrid'
  BY <1>3, StepEffectsFacts DEF AccessesOnGrid
<1>9. QED
  BY <1>5, <1>6, <1>7, <1>8 DEF IInv

LEMMA FetchesKeepsInvariant ==
  ASSUME IInv, NEW step \in Nat, NEW next \in Pc, StepEffects(step), Fetches(next)
  PROVE  IInv'
<1>1. TypeOK
  BY DEF IInv
<1>2. /\ requested' \subseteq Interrupts /\ enabled' \subseteq Interrupts
      /\ UNCHANGED <<current_interrupt, interrupt_cancelled, stacked>>
  BY DEF StepEffects
<1>3. ~halt'.enabled /\ Fetch(next)
  BY DEF Fetches
<1>4. TypeOK'
  BY <1>1, <1>2, <1>3, StepEffectsFacts, FetchFacts DEF TypeOK, MCycle, States
<1>5. CountersAgree' /\ NoNestedDispatch' /\ StackedSoFar' /\ HaltFlagFresh'
  BY <1>3, FetchFacts DEF NoNestedDispatch, StackedSoFar, HaltFlagFresh
<1>6. EiCountdownOnGrid'
  BY <1>3, StepEffectsFacts, FetchFacts DEF EiCountdownOnGrid, MCycle, EiDelay
<1>7. AccessesOnGrid'
  BY <1>3, StepEffectsFacts, FetchFacts DEF AccessesOnGrid, MCycle
<1>8. QED
  BY <1>4, <1>5, <1>6, <1>7 DEF IInv

LEMMA ExecuteStepKeepsInvariant ==
  ASSUME IInv, ExecuteStep PROVE IInv'
BY ExecuteStepOutcomes, ContinuesKeepsInvariant, HaltsKeepsInvariant, FetchesKeepsInvariant

-----------------------------------------------------------------------------
(* The cycles of a dispatch: four of them run a step.                      *)
AdvancesTo(state, left) ==
  /\ current_execution_cycle' = current_execution_cycle + 1
  /\ current_state' = state
  /\ remaining_cycles_in_state' = left
  /\ UNCHANGED <<halt, current_opcode, upcoming>>

Waits ==
  /\ (current_execution_cycle + 1) % 4 # 0
  /\ NoAccess
  /\ UNCHANGED <<ime, pc, current_interrupt, interrupt_cancelled, stacked, requested, enabled>>

LEMMA InterruptCycleOutcomes ==
  ASSUME IInv, InterruptCycle
  PROVE  /\ current_state = "interrupt"
         /\ current_execution_cycle \in 0 .. 15
         /\ remaining_cycles_in_state = 16 - current_execution_cycle
         /\ current_interrupt \in Interrupts
         /\ ime.ticks_until_enabled = 0 /\ ImeNow = ime
         /\ \/ Waits /\ AdvancesTo("interrupt", remaining_cycles_in_state - 1)
            \/ /\ current_execution_cycle = 3
               /\ AbandonFetch /\ AdvancesTo("interrupt", remaining_cycles_in_state - 1)
            \/ /\ current_execution_cycle = 7
               /\ PushUpper /\ AdvancesTo("interrupt", remaining_cycles_in_state - 1)
            \/ /\ current_execution_cycle = 11
               /\ PushLower /\ AdvancesTo("interrupt", remaining_cycles_in_state - 1)
            \/ /\ current_execution_cycle = 15
               /\ JumpToHandler /\ AdvancesTo("fetch_decode", 4)
<1>1. TypeOK /\ CountersAgree /\ EiCountdownOnGrid
  BY DEF IInv
<1>2. current_state = "interrupt"
  BY DEF InterruptCycle
<1>3. /\ current_execution_cycle \in 0 .. 15
      /\ remaining_cycles_in_state = 16 - current_execution_cycle
      /\ current_interrupt \in Interrupts
  BY <1>1, <1>2, ForeverAssumption DEF CountersAgree, TypeOK, num_steps_dispatch, MCycle
<1>4. ime.ticks_until_enabled = 0
  BY <1>1, <1>2 DEF EiCountdownOnGrid, TypeOK, EiDelay
<1>5. ImeNow = ime
  BY <1>1, <1>4, ImeNowType
<1>6. \/ /\ remaining_cycles_in_state > 1
         /\ AdvancesTo("interrupt", remaining_cycles_in_state - 1)
      \/ /\ remaining_cycles_in_state = 1
         /\ AdvancesTo("fetch_decode", 4)
  BY <1>2 DEF InterruptCycle, AdvancesTo, MCycle
<1>7. CASE (current_execution_cycle + 1) % 4 # 0
  <2>1. Waits
    BY <1>5, <1>7 DEF InterruptCycle, Waits, MCycle, dispatch_vars, interrupt_vars
  <2>2. remaining_cycles_in_state > 1
    BY <1>3, <1>7
  <2>3. QED
    BY <1>2, <1>3, <1>4, <1>5, <1>6, <2>1, <2>2
<1>8. CASE (current_execution_cycle + 1) % 4 = 0
  <2>1. DispatchStep(((current_execution_cycle + 1) \div 4) - 1)
    BY <1>8 DEF InterruptCycle, MCycle
  <2>2. current_execution_cycle \in {3, 7, 11, 15}
    BY <1>3, <1>8
  <2>3. CASE current_execution_cycle = 3
    <3>1. DispatchStep(0) /\ remaining_cycles_in_state > 1
      BY <1>3, <2>1, <2>3
    <3>2. QED
      BY <1>2, <1>3, <1>4, <1>5, <1>6, <2>3, <3>1 DEF DispatchStep
  <2>4. CASE current_execution_cycle = 7
    <3>1. DispatchStep(1) /\ remaining_cycles_in_state > 1
      BY <1>3, <2>1, <2>4
    <3>2. QED
      BY <1>2, <1>3, <1>4, <1>5, <1>6, <2>4, <3>1 DEF DispatchStep
  <2>5. CASE current_execution_cycle = 11
    <3>1. DispatchStep(2) /\ remaining_cycles_in_state > 1
      BY <1>3, <2>1, <2>5
    <3>2. QED
      BY <1>2, <1>3, <1>4, <1>5, <1>6, <2>5, <3>1 DEF DispatchStep
  <2>6. CASE current_execution_cycle = 15
    <3>1. DispatchStep(3) /\ remaining_cycles_in_state = 1
      BY <1>3, <2>1, <2>6
    <3>2. QED
      BY <1>2, <1>3, <1>4, <1>5, <1>6, <2>6, <3>1 DEF DispatchStep
  <2>7. QED
    BY <2>2, <2>3, <2>4, <2>5, <2>6
<1>9. QED
  BY <1>7, <1>8

(* What the five outcomes have in common. *)
LEMMA DispatchFrame ==
  ASSUME IInv, current_state = "interrupt", current_execution_cycle \in 0 .. 15,
         remaining_cycles_in_state = 16 - current_execution_cycle,
         \/ AdvancesTo("interrupt", remaining_cycles_in_state - 1) /\ current_execution_cycle < 15
         \/ AdvancesTo("fetch_decode", 4) /\ current_execution_cycle = 15
  PROVE  /\ current_opcode' = current_opcode /\ upcoming' = upcoming /\ halt' = halt /\ ~halt.enabled
         /\ current_state' \in {"interrupt", "fetch_decode"}
         /\ current_execution_cycle' \in 1 .. 16
         /\ remaining_cycles_in_state' \in 1 .. 16
         /\ (current_interrupt' \in Interrupts) => CountersAgree'
         /\ PhaseInMCycle' = (current_execution_cycle + 1) % 4
         /\ HaltFlagFresh'
<1>1. TypeOK /\ CountersAgree /\ HaltFlagFresh
  BY DEF IInv
<1>2. CASE AdvancesTo("interrupt", remaining_cycles_in_state - 1) /\ current_execution_cycle < 15
  <2>1. (current_interrupt' \in Interrupts) => CountersAgree'
    BY <1>2, InterruptsAssumption
       DEF AdvancesTo, CountersAgree, num_steps_dispatch, MCycle, Interrupts, None
  <2>2. HaltFlagFresh' /\ ~halt.enabled
    BY <1>1, <1>2 DEF AdvancesTo, HaltFlagFresh
  <2>3. QED
    BY <1>2, <2>1, <2>2 DEF AdvancesTo, PhaseInMCycle, MCycle
<1>3. CASE AdvancesTo("fetch_decode", 4) /\ current_execution_cycle = 15
  BY <1>1, <1>3 DEF AdvancesTo, CountersAgree, HaltFlagFresh, PhaseInMCycle, MCycle
<1>4. QED
  BY <1>2, <1>3

(* The dispatched interrupt, if any, has a handler in the address space.   *)
LEMMA JumpToHandlerFacts ==
  ASSUME TypeOK, current_interrupt \in Interrupts, JumpToHandler
  PROVE  /\ pc' \in Pc
         /\ requested' \subseteq Interrupts /\ enabled' \subseteq Interrupts
         /\ stacked' \in [msb: Nat, lsb: Nat]
<1> DEFINE dispatched == IF interrupt_cancelled THEN get_first_pending ELSE current_interrupt
<1>1. dispatched \in Interrupts \cup {None}
  <2>1. get_first_pending \in Interrupts \cup {None}
    BY FirstPending DEF TypeOK, get_first_pending
  <2>2. QED
    BY <2>1
<1>2. requested \subseteq Interrupts /\ enabled \subseteq Interrupts
  BY DEF TypeOK
<1>3. stacked' \in [msb: Nat, lsb: Nat]
  BY DEF JumpToHandler, NoBytes
<1>4. enabled' = enabled
  BY DEF JumpToHandler
<1> HIDE DEF dispatched
<1>5. CASE dispatched = None
  <2>1. pc' = 0 /\ requested' = requested
    BY <1>5 DEF JumpToHandler, dispatched
  <2>2. QED
    BY <1>2, <1>3, <1>4, <2>1, PcModAssumption DEF Pc
<1>6. CASE dispatched # None
  <2>1. pc' = handler_address[dispatched] /\ requested' = requested \ {dispatched}
    BY <1>6 DEF JumpToHandler, dispatched
  <2>2. handler_address[dispatched] \in Pc
    BY <1>1, <1>6, HandlersAssumption DEF Pc
  <2>3. QED
    BY <1>2, <1>3, <1>4, <2>1, <2>2
<1>7. QED
  BY <1>5, <1>6

LEMMA InterruptCycleKeepsInvariant ==
  ASSUME IInv, InterruptCycle PROVE IInv'
<1>1. /\ TypeOK /\ CountersAgree /\ NoNestedDispatch /\ AccessesOnGrid /\ StackedSoFar
  BY DEF IInv
<1>2. /\ current_state = "interrupt"
      /\ current_execution_cycle \in 0 .. 15
      /\ remaining_cycles_in_state = 16 - current_execution_cycle
      /\ current_interrupt \in Interrupts
      /\ ime.ticks_until_enabled = 0 /\ ImeNow = ime
  BY InterruptCycleOutcomes
<1>3. /\ pc \in Pc /\ ime \in [enabled: BOOLEAN, ticks_until_enabled: 0 .. EiDelay]
      /\ stacked \in [msb: Nat, lsb: Nat]
      /\ interrupt_cancelled \in BOOLEAN
      /\ requested \subseteq Interrupts /\ enabled \subseteq Interrupts
      /\ ticks_since_access \in 0 .. LongGap
  BY <1>1 DEF TypeOK
<1>4. /\ ime.enabled <=> current_execution_cycle < 4
      /\ ticks_since_access % 4 = current_execution_cycle % 4
           \/ ticks_since_access >= (current_execution_cycle % 4) + 4
  BY <1>1, <1>2 DEF NoNestedDispatch, AccessesOnGrid, PhaseInMCycle, MCycle
<1>5. SUFFICES
        ASSUME \/ AdvancesTo("interrupt", remaining_cycles_in_state - 1)
                    /\ current_execution_cycle < 15
               \/ AdvancesTo("fetch_decode", 4) /\ current_execution_cycle = 15,
               \/ Waits
               \/ current_execution_cycle = 3 /\ AbandonFetch
               \/ current_execution_cycle = 7 /\ PushUpper
               \/ current_execution_cycle = 11 /\ PushLower
               \/ current_execution_cycle = 15 /\ JumpToHandler
        PROVE  IInv'
  <2>1. Waits => current_execution_cycle # 15
    BY DEF Waits
  <2>2. QED
    BY <1>2, <2>1, InterruptCycleOutcomes
<1>6. /\ current_opcode' = current_opcode /\ upcoming' = upcoming /\ halt' = halt
      /\ current_state' \in {"interrupt", "fetch_decode"}
      /\ current_execution_cycle' \in 1 .. 16
      /\ remaining_cycles_in_state' \in 1 .. 16
      /\ current_interrupt' \in Interrupts => CountersAgree'
      /\ PhaseInMCycle' = (current_execution_cycle + 1) % 4
      /\ HaltFlagFresh'
  BY <1>2, <1>5, DispatchFrame
<1>7. SUFFICES
        /\ pc' \in Pc
        /\ ime' \in [enabled: BOOLEAN, ticks_until_enabled: 0 .. EiDelay]
        /\ ime'.ticks_until_enabled = 0
        /\ ime'.enabled <=> current_execution_cycle' < 4
        /\ current_interrupt' = current_interrupt
        /\ interrupt_cancelled' \in BOOLEAN
        /\ stacked' \in [msb: Nat, lsb: Nat]
        /\ requested' \subseteq Interrupts /\ enabled' \subseteq Interrupts
        /\ NoAccess \/ (current_execution_cycle \in {7, 11} /\ ticks_since_access' = 0)
        /\ StackedSoFar'
  <2>1. current_execution_cycle' = current_execution_cycle + 1
        /\ (current_state' = "fetch_decode" => current_execution_cycle' = 16)
    BY <1>5 DEF AdvancesTo
  <2>2. /\ ticks_since_access' \in 0 .. LongGap
        /\ \/ ticks_since_access' % 4 = (current_execution_cycle + 1) % 4
           \/ ticks_since_access' >= ((current_execution_cycle + 1) % 4) + 4
    <3>1. CASE NoAccess
      BY <1>1, <1>2, <1>3, <1>4, <3>1, NoAccessFacts DEF LongGap, MCycle
    <3>2. CASE current_execution_cycle \in {7, 11} /\ ticks_since_access' = 0
      BY <3>2 DEF LongGap, MCycle
    <3>3. QED
      BY <1>7, <3>1, <3>2
  <2>3. AccessesOnGrid'
    BY <1>6, <2>2 DEF AccessesOnGrid, MCycle
  <2>4. TypeOK'
    BY <1>1, <1>2, <1>6, <1>7, <2>2 DEF TypeOK, States, MCycle
  <2>5. EiCountdownOnGrid' /\ NoNestedDispatch'
    BY <1>6, <1>7, <2>1 DEF EiCountdownOnGrid, NoNestedDispatch, MCycle
  <2>6. QED
    BY <1>2, <1>6, <1>7, <2>3, <2>4, <2>5 DEF IInv
<1>8. current_execution_cycle' = current_execution_cycle + 1
      /\ (current_state' = "interrupt" => current_state = "interrupt")
  BY <1>2, <1>5 DEF AdvancesTo
<1>9. CASE Waits
  <2>1. /\ UNCHANGED <<ime, pc, current_interrupt, interrupt_cancelled, stacked, requested, enabled>>
        /\ NoAccess /\ (current_execution_cycle + 1) % 4 # 0
    BY <1>9 DEF Waits
  <2>2. StackedSoFar'
    <3>1. /\ current_execution_cycle' >= 8 => current_execution_cycle >= 8
          /\ current_execution_cycle' >= 12 => current_execution_cycle >= 12
      BY <1>2, <1>8, <2>1
    <3>2. QED
      BY <1>1, <1>2, <2>1, <3>1 DEF StackedSoFar, MCycle
  <2>3. ime'.enabled <=> current_execution_cycle' < 4
    <3>1. current_execution_cycle' < 4 <=> current_execution_cycle < 4
      BY <1>2, <1>8, <2>1
    <3>2. QED
      BY <1>4, <2>1, <3>1
  <2>4. QED
    BY <1>2, <1>3, <2>1, <2>2, <2>3
<1>10. CASE current_execution_cycle = 3 /\ AbandonFetch
  <2>1. /\ interrupt_cancelled' = FALSE
        /\ ime' = [enabled |-> FALSE, ticks_until_enabled |-> 0]
        /\ pc' = (pc - 1) % PcMod
        /\ NoAccess
        /\ UNCHANGED <<current_interrupt, stacked, requested, enabled>>
    BY <1>10 DEF AbandonFetch, interrupt_vars
  <2>2. pc' \in Pc
    BY <1>3, <2>1, PcModAssumption DEF Pc
  <2>3. StackedSoFar'
    BY <1>8, <1>10 DEF StackedSoFar, MCycle
  <2>4. /\ ime' \in [enabled: BOOLEAN, ticks_until_enabled: 0 .. EiDelay]
        /\ ime'.ticks_until_enabled = 0 /\ ~ime'.enabled
    BY <2>1 DEF EiDelay
  <2>5. interrupt_cancelled' \in BOOLEAN /\ ~(current_execution_cycle' < 4)
    <3>1. interrupt_cancelled' \in BOOLEAN
      BY <1>10, Zenon DEF AbandonFetch
    <3>2. current_execution_cycle' = 4
      BY <1>8, <1>10
    <3>3. QED
      BY <3>1, <3>2
  <2>6. /\ current_interrupt' = current_interrupt /\ stacked' = stacked
        /\ requested' = requested /\ enabled' = enabled /\ NoAccess
    BY <2>1
  <2>7. QED
    BY ONLY <1>3, <2>2, <2>3, <2>4, <2>5, <2>6
<1>11. CASE current_execution_cycle = 7 /\ PushUpper
  <2>1. /\ MemoryWrite
        /\ interrupt_cancelled' = (current_interrupt \notin enabled')
        /\ stacked' = [stacked EXCEPT !.msb = pc \div PageSize]
        /\ ticks_since_access' = 0
        /\ ime' = ime
        /\ UNCHANGED <<pc, current_interrupt>>
    BY <1>2, <1>11 DEF PushUpper, Access
  <2>2. requested' \subseteq Interrupts /\ enabled' \subseteq Interrupts
    BY <1>3, <2>1, WriteRange
  <2>3. pc \div PageSize \in Nat
    BY <1>3, PcModAssumption, PageSizeAssumption DEF Pc
  <2>4. /\ stacked' \in [msb: Nat, lsb: Nat] /\ stacked'.msb = pc \div PageSize
    BY <1>3, <2>1, <2>3
  <2>5. StackedSoFar'
    BY <1>8, <1>11, <2>1, <2>4 DEF StackedSoFar, MCycle
  <2>6. interrupt_cancelled' \in BOOLEAN
    BY <2>1
  <2>7. ~ime.enabled
    BY <1>4, <1>11
  <2>8. /\ ticks_since_access' = 0 /\ ime' = ime
        /\ current_interrupt' = current_interrupt /\ pc' = pc
    BY <2>1
  <2>9. ~ime'.enabled /\ ~(current_execution_cycle' < 4)
    BY <1>8, <1>11, <2>7, <2>8
  <2>10. QED
    BY ONLY <1>2, <1>3, <1>11, <2>2, <2>4, <2>5, <2>6, <2>8, <2>9
<1>12. CASE current_execution_cycle = 11 /\ PushLower
  <2>1. /\ MemoryWrite
        /\ stacked' = [stacked EXCEPT !.lsb = pc % PageSize]
        /\ ticks_since_access' = 0
        /\ ime' = ime
        /\ UNCHANGED <<pc, current_interrupt, interrupt_cancelled>>
    BY <1>2, <1>12 DEF PushLower, Access
  <2>2. requested' \subseteq Interrupts /\ enabled' \subseteq Interrupts
    BY <1>3, <2>1, WriteRange
  <2>3. pc % PageSize \in Nat
    BY <1>3, PcModAssumption, PageSizeAssumption DEF Pc
  <2>4. /\ stacked' \in [msb: Nat, lsb: Nat]
        /\ stacked'.lsb = pc % PageSize /\ stacked'.msb = stacked.msb
    BY <1>3, <2>1, <2>3
  <2>5. stacked.msb = pc \div PageSize
    BY <1>1, <1>2, <1>12 DEF StackedSoFar, MCycle
  <2>6. StackedSoFar'
    BY <1>8, <1>12, <2>1, <2>4, <2>5 DEF StackedSoFar, MCycle
  <2>7. ~ime.enabled
    BY <1>4, <1>12
  <2>8. QED
    BY <1>2, <1>3, <1>8, <1>12, <2>1, <2>2, <2>4, <2>6, <2>7
<1>13. CASE current_execution_cycle = 15 /\ JumpToHandler
  <2>1. /\ NoAccess /\ ime' = ime
        /\ UNCHANGED <<current_interrupt, interrupt_cancelled>>
    BY <1>2, <1>13 DEF JumpToHandler
  <2>2. /\ pc' \in Pc
        /\ requested' \subseteq Interrupts /\ enabled' \subseteq Interrupts
        /\ stacked' \in [msb: Nat, lsb: Nat]
    BY <1>1, <1>2, <1>13, JumpToHandlerFacts
  <2>3. current_state' = "fetch_decode"
    BY <1>5, <1>13 DEF AdvancesTo
  <2>4. StackedSoFar'
    BY <2>3 DEF StackedSoFar
  <2>5. ~ime.enabled
    BY <1>4, <1>13
  <2>6. QED
    BY <1>2, <1>3, <1>8, <1>13, <2>1, <2>2, <2>4, <2>5
<1>14. QED
  BY <1>5, <1>9, <1>10, <1>11, <1>12, <1>13

-----------------------------------------------------------------------------
LEMMA StutterKeepsInvariant ==
  ASSUME IInv, UNCHANGED vars PROVE IInv'
<1> USE DEF vars, runner_vars, dispatch_vars, interrupt_vars
<1>1. TypeOK'
  BY DEF IInv, TypeOK
<1>2. CountersAgree'
  BY DEF IInv, CountersAgree
<1>3. EiCountdownOnGrid' /\ HaltFlagFresh' /\ NoNestedDispatch'
  BY DEF IInv, EiCountdownOnGrid, HaltFlagFresh, NoNestedDispatch
<1>4. AccessesOnGrid' /\ StackedSoFar'
  BY DEF IInv, AccessesOnGrid, PhaseInMCycle, StackedSoFar
<1>5. QED
  BY <1>1, <1>2, <1>3, <1>4 DEF IInv

LEMMA StepKeepsInvariant ==
  IInv /\ [Next]_vars => IInv'
<1> SUFFICES ASSUME IInv, [Next]_vars PROVE IInv'
  OBVIOUS
<1>1. CASE FetchDecode
  BY <1>1, FetchDecodeKeepsInvariant
<1>2. CASE FetchDecodePrefixed
  BY <1>2, FetchDecodePrefixedKeepsInvariant
<1>3. CASE PreemptInstruction
  BY <1>3, PreemptInstructionKeepsInvariant
<1>4. CASE ExecuteCycle
  BY <1>4, ExecuteCycleKeepsInvariant
<1>5. CASE ExecuteStep
  BY <1>5, ExecuteStepKeepsInvariant
<1>6. CASE Halted
  BY <1>6, HaltedKeepsInvariant
<1>7. CASE WakeToDispatch
  BY <1>7, WakeToDispatchKeepsInvariant
<1>8. CASE WakeToFetch
  BY <1>8, WakeToFetchKeepsInvariant
<1>9. CASE InterruptCycle
  BY <1>9, InterruptCycleKeepsInvariant
<1>10. ASSUME NEW i \in Interrupts, Request(i) PROVE IInv'
  BY <1>10, RequestKeepsInvariant
<1>11. CASE UNCHANGED vars
  BY <1>11, StutterKeepsInvariant
<1>12. QED
  BY <1>1, <1>2, <1>3, <1>4, <1>5, <1>6, <1>7, <1>8, <1>9, <1>10, <1>11 DEF Next, Tick

(* The inductive invariant holds in every reachable state.                 *)
THEOREM Invariance == Spec => []IInv
<1>1. IInv /\ [Next]_vars => IInv'
  BY StepKeepsInvariant
<1>2. Init => IInv
  BY InitEstablishesInvariant
<1>3. QED
  BY <1>1, <1>2, PTL DEF Spec

(* The registers of cpu_runner keep their widths and its counters their    *)
(* ranges, whatever the program and the other components do.               *)
THEOREM TypeCorrect == Spec => []TypeOK
<1>1. IInv => TypeOK
  BY DEF IInv
<1>2. QED
  BY <1>1, Invariance, PTL

(* No step of an instruction or of a dispatch is run twice, skipped, or    *)
(* out of the range its implementation handles.                            *)
THEOREM StepsInOrder == Spec => []CountersAgree
<1>1. IInv => CountersAgree
  BY DEF IInv
<1>2. QED
  BY <1>1, Invariance, PTL

(* The countdown of ei ends after the tick at which the next instruction   *)
(* could have been preempted, and with its first M-cycle.                  *)
THEOREM EiDelayedByOneInstruction == Spec => []EiCountdownOnGrid
<1>1. IInv => EiCountdownOnGrid
  BY DEF IInv
<1>2. QED
  BY <1>1, Invariance, PTL

(* The IME flag halt has stored is the one the CPU still has.              *)
THEOREM HaltRemembersIme == Spec => []HaltFlagFresh
<1>1. IInv => HaltFlagFresh
  BY DEF IInv
<1>2. QED
  BY <1>1, Invariance, PTL

(* A dispatch is never interrupted by another.                             *)
THEOREM DispatchesDoNotNest == Spec => []NoNestedDispatch
<1>1. IInv => NoNestedDispatch
  BY DEF IInv
<1>2. QED
  BY <1>1, Invariance, PTL

-----------------------------------------------------------------------------
(* The program counter before and after the runner's lookahead.            *)
LEMMA LookaheadUndone ==
  ASSUME NEW x \in Pc
  PROVE  ((x + 1) % PcMod) \in Pc /\ (((x + 1) % PcMod) - 1) % PcMod = x
<1>1. PcMod \in Nat /\ PcMod > 1 /\ x \in Nat /\ x < PcMod
  BY PcModAssumption DEF Pc
<1>2. CASE x + 1 < PcMod
  <2>1. (x + 1) % PcMod = x + 1
    BY <1>1, <1>2
  <2>2. x % PcMod = x
    BY <1>1
  <2>3. QED
    BY <1>1, <1>2, <2>1, <2>2 DEF Pc
<1>3. CASE x + 1 = PcMod
  <2>1. (x + 1) % PcMod = 0
    BY <1>1, <1>3
  <2>2. (0 - 1) % PcMod = PcMod - 1
    BY <1>1
  <2>3. QED
    BY <1>1, <1>3, <2>1, <2>2 DEF Pc
<1>4. QED
  BY <1>1, <1>2, <1>3

(* Where pc is while an instruction can still be preempted, or is being:   *)
(* past its opcode until step 0 of the dispatch, and back at it then; a    *)
(* halted CPU is at the instruction it will go on with.                    *)
Lookahead ==
  /\ AheadByOne => pc = GivenPc
  /\ current_state = "halt" => pc = upcoming
  /\ current_state = "interrupt" /\ current_execution_cycle >= MCycle => pc = upcoming

LEMMA FetchLooksAhead ==
  ASSUME NEW next \in Pc, Fetch(next)
  PROVE  Lookahead'
<1>1. /\ pc' = (next + 1) % PcMod
      /\ upcoming' = next
      /\ current_execution_cycle' = 0
      /\ current_state' \in {"execute", "fetch_decode_prefixed"}
  BY DEF Fetch
<1>2. QED
  BY <1>1 DEF Lookahead, AheadByOne, GivenPc

LEMMA ExecutionKeepsLookahead ==
  ASSUME IInv, ExecuteCycle \/ ExecuteStep
  PROVE  Lookahead'
<1>1. current_execution_cycle \in Nat
  BY DEF IInv, TypeOK, MCycle
<1>2. CASE ExecuteCycle
  <2>1. /\ current_state' \in {"execute", "execute_prefixed"}
        /\ current_execution_cycle' = current_execution_cycle + 1
    BY <1>2 DEF ExecuteCycle, Executing
  <2>2. QED
    BY <1>1, <2>1 DEF Lookahead, AheadByOne
<1>3. CASE ExecuteStep
  <2>1. PICK step \in Nat, next \in Pc :
          StepEffects(step) /\ (Continues(next) \/ Halts(next) \/ Fetches(next))
    BY <1>3, ExecuteStepOutcomes
  <2>2. CASE Continues(next)
    <3>1. /\ current_state' \in {"execute", "execute_prefixed"}
          /\ current_execution_cycle' = current_execution_cycle + 1
      BY <2>1, <2>2 DEF StepEffects, Executing, Continues
    <3>2. QED
      BY <1>1, <3>1 DEF Lookahead, AheadByOne
  <2>3. CASE Halts(next)
    BY <2>3 DEF Halts, Lookahead, AheadByOne
  <2>4. CASE Fetches(next)
    BY <2>4, FetchLooksAhead DEF Fetches
  <2>5. QED
    BY <2>1, <2>2, <2>3, <2>4
<1>4. QED
  BY <1>2, <1>3

(* Step 0 of a dispatch takes pc back to the instruction it abandons.      *)
LEMMA DispatchUndoesLookahead ==
  ASSUME IInv, Lookahead, InterruptCycle
  PROVE  Lookahead'
<1>1. /\ current_state = "interrupt"
      /\ current_execution_cycle \in 0 .. 15
      /\ current_execution_cycle' = current_execution_cycle + 1
      /\ current_state' \in {"interrupt", "fetch_decode"}
      /\ upcoming' = upcoming
  BY InterruptCycleOutcomes DEF AdvancesTo
<1>2. pc \in Pc /\ upcoming \in Pc
  BY DEF IInv, TypeOK
<1>3. CASE Waits
  <2>1. pc' = pc /\ (current_execution_cycle' < 4 <=> current_execution_cycle < 4)
    BY <1>1, <1>3 DEF Waits
  <2>2. QED
    BY <1>1, <2>1 DEF Lookahead, AheadByOne, GivenPc, MCycle
<1>4. CASE current_execution_cycle = 3 /\ AbandonFetch
  <2>1. pc = (upcoming + 1) % PcMod
    BY <1>1, <1>4 DEF Lookahead, AheadByOne, GivenPc, MCycle
  <2>2. pc' = upcoming
    BY <1>2, <1>4, <2>1, LookaheadUndone DEF AbandonFetch
  <2>3. QED
    BY <1>1, <1>4, <2>2 DEF Lookahead, AheadByOne, MCycle
<1>5. CASE current_execution_cycle \in {7, 11} /\ pc' = pc
  BY <1>1, <1>5 DEF Lookahead, AheadByOne, MCycle
<1>6. CASE current_state' = "fetch_decode"
  BY <1>6 DEF Lookahead, AheadByOne
<1>7. QED
  BY <1>3, <1>4, <1>5, <1>6, InterruptCycleOutcomes DEF PushUpper, PushLower, AdvancesTo

LEMMA StepKeepsLookahead ==
  IInv /\ Lookahead /\ [Next]_vars => Lookahead'
<1> SUFFICES ASSUME IInv, Lookahead, [Next]_vars PROVE Lookahead'
  OBVIOUS
<1>1. pc \in Pc
  BY DEF IInv, TypeOK
<1>2. CASE FetchDecode
  BY <1>1, <1>2, FetchLooksAhead DEF FetchDecode, Lookahead, AheadByOne
<1>3. CASE FetchDecodePrefixed
  BY <1>3 DEF FetchDecodePrefixed, Lookahead, AheadByOne
<1>4. CASE PreemptInstruction
  BY <1>4 DEF PreemptInstruction, Preempted, BeginDispatch, Lookahead, AheadByOne, GivenPc,
              MCycle
<1>5. CASE ExecuteCycle \/ ExecuteStep
  BY <1>5, ExecutionKeepsLookahead
<1>6. CASE WakeToDispatch
  BY <1>6 DEF WakeToDispatch, BeginDispatch, Lookahead, AheadByOne, GivenPc, MCycle
<1>7. CASE WakeToFetch
  BY <1>1, <1>7, FetchLooksAhead DEF WakeToFetch
<1>8. CASE InterruptCycle
  BY <1>8, DispatchUndoesLookahead
<1>9. CASE Halted \/ (\E i \in Interrupts : Request(i)) \/ UNCHANGED vars
  <2>1. UNCHANGED <<pc, upcoming, current_state, current_execution_cycle>>
    BY <1>9 DEF Halted, Request, vars, runner_vars
  <2>2. QED
    BY <2>1 DEF Lookahead, AheadByOne, GivenPc
<1>10. QED
  BY <1>2, <1>3, <1>4, <1>5, <1>6, <1>7, <1>8, <1>9 DEF Next, Tick

LEMMA LookaheadInvariance == Spec => []Lookahead
<1>1. Init => Lookahead
  BY DEF Init, Lookahead, AheadByOne
<1>2. QED
  BY <1>1, StepKeepsLookahead, Invariance, PTL DEF Spec

(* Whatever the pushes write over, the bytes on the stack are those of the *)
(* instruction the handler has to return to: where the opcode of the one   *)
(* the dispatch prevented was read, or where a halted CPU was to go on.    *)
THEOREM ReturnAddressStacked == Spec => []StackHoldsReturnAddress
<1>1. IInv /\ Lookahead => StackHoldsReturnAddress
  <2> SUFFICES ASSUME IInv, Lookahead, current_state = "interrupt",
                      current_execution_cycle >= 3 * MCycle
               PROVE  StackedAddress = upcoming
    BY DEF StackHoldsReturnAddress
  <2>1. current_execution_cycle \in Nat /\ pc \in Nat
    BY PcModAssumption DEF IInv, TypeOK, Pc, MCycle
  <2>2. stacked.msb = pc \div PageSize /\ stacked.lsb = pc % PageSize
    BY <2>1 DEF IInv, StackedSoFar, MCycle
  <2>3. pc = upcoming
    BY <2>1 DEF Lookahead, MCycle
  <2>4. ((pc \div PageSize) * PageSize) + (pc % PageSize) = pc
    BY <2>1, PageSizeAssumption
  <2>5. QED
    BY <2>2, <2>3, <2>4 DEF StackedAddress
<1>2. QED
  BY <1>1, Invariance, LookaheadInvariance, PTL

(* The bytes on the stack are not those of the pc the dispatcher was given.*)
GivenPcNotOnStack ==
  current_state = "interrupt" /\ current_execution_cycle >= 3 * MCycle =>
    StackedAddress # GivenPc

(* No dispatch pushes the pc it is given, although the unit test of the    *)
(* dispatcher expects it to (interrupts_dispatch.test.cpp:84-92): step 0   *)
(* takes one from it (interrupts_dispatch.cppm:36).                        *)
THEOREM GivenPcIsNotStacked == Spec => []GivenPcNotOnStack
<1>1. IInv => upcoming # GivenPc
  <2>1. IInv => upcoming \in Pc
    BY DEF IInv, TypeOK
  <2>2. ASSUME upcoming \in Pc, upcoming = GivenPc  PROVE FALSE
    <3>1. PcMod \in Nat /\ PcMod > 1 /\ upcoming \in Nat /\ upcoming < PcMod
      BY <2>2, PcModAssumption DEF Pc
    <3>2. CASE upcoming + 1 < PcMod
      <4>1. (upcoming + 1) % PcMod = upcoming + 1
        BY <3>1, <3>2
      <4>2. QED
        BY <2>2, <3>1, <4>1 DEF GivenPc
    <3>3. CASE upcoming + 1 = PcMod
      <4>1. (upcoming + 1) % PcMod = 0
        BY <3>1, <3>3
      <4>2. QED
        BY <2>2, <3>1, <3>3, <4>1 DEF GivenPc
    <3>4. QED
      BY <3>1, <3>2, <3>3
  <2>3. QED
    BY <2>1, <2>2
<1>2. IInv /\ StackHoldsReturnAddress => GivenPcNotOnStack
  BY <1>1 DEF StackHoldsReturnAddress, GivenPcNotOnStack
<1>3. QED
  BY <1>2, Invariance, ReturnAddressStacked, PTL

-----------------------------------------------------------------------------
LEMMA WritesEndMCycles ==
  ASSUME IInv, Tick, ticks_since_access' = 0
  PROVE  /\ current_state # "halt"
         /\ current_execution_cycle % MCycle = MCycle - 1
         /\ PhaseInMCycle = MCycle - 1
<1>1. ticks_since_access \in 0 .. LongGap /\ current_execution_cycle \in Nat
  BY DEF IInv, TypeOK, MCycle
<1>2. ~NoAccess
  BY <1>1 DEF NoAccess, LongGap, MCycle
<1>3. ExecuteStep \/ InterruptCycle
  BY <1>2 DEF Tick, FetchDecode, FetchDecodePrefixed, PreemptInstruction, ExecuteCycle,
              Halted, WakeToDispatch, WakeToFetch, BeginDispatch
<1>4. /\ current_state \in {"execute", "execute_prefixed", "interrupt"}
      /\ (current_execution_cycle + 1) % MCycle = 0
  <2>1. CASE ExecuteStep
    BY <2>1 DEF ExecuteStep, Executing
  <2>2. CASE InterruptCycle
    BY <1>2, <2>2 DEF InterruptCycle
  <2>3. QED
    BY <1>3, <2>1, <2>2
<1>5. current_execution_cycle % MCycle = MCycle - 1
  BY <1>1, <1>4 DEF MCycle
<1>6. QED
  BY <1>4, <1>5 DEF PhaseInMCycle

(* Two writes of the CPU are four T-cycles apart, or eight and more.       *)
THEOREM WritesOnGrid == Spec => AccessGrid
<1>1. IInv /\ [Next]_vars =>
        [Tick /\ ticks_since_access' = 0 =>
           ticks_since_access \in {MCycle - 1, LongGap - 1, LongGap}]_vars
  <2> SUFFICES ASSUME IInv, Tick, ticks_since_access' = 0
               PROVE  ticks_since_access \in {MCycle - 1, LongGap - 1, LongGap}
    OBVIOUS
  <2>1. ticks_since_access \in 0 .. LongGap
    BY DEF IInv, TypeOK
  <2>2. \/ ticks_since_access % MCycle = MCycle - 1
        \/ ticks_since_access >= (MCycle - 1) + MCycle
    BY WritesEndMCycles DEF IInv, AccessesOnGrid
  <2>3. QED
    BY <2>1, <2>2 DEF MCycle, LongGap
<1>2. QED
  BY <1>1, Invariance, PTL DEF Spec, AccessGrid

-----------------------------------------------------------------------------
(* CpuRunner implements CpuContract: every tick of the runner, with its    *)
(* lookahead and its cycle counters, is one of the steps the contract      *)
(* allows or changes nothing of what a program can see.                    *)

LEMMA PcBefore ==
  ASSUME NEW x \in Pc
  PROVE  ((x - 1) % PcMod) \in Pc
BY PcModAssumption DEF Pc

LEMMA ProgramPcAfter ==
  ASSUME pc' \in Pc PROVE ProgramPc' \in Pc
<1>1. ((pc' - 1) % PcMod) \in Pc
  BY PcBefore
<1>2. QED
  BY <1>1 DEF ProgramPc

(* How IME looks to the program before and after a tick that only counts.  *)
LEMMA CountdownModes ==
  ASSUME TypeOK, ime' = ImeNow
  PROVE  /\ ime.ticks_until_enabled = 0 => ImeMode' = ImeMode
         /\ ime.ticks_until_enabled > 1 => ImeMode' = ImeMode
         /\ ime.ticks_until_enabled = 1 => ImeMode = "arming" /\ ImeMode' = "on"
<1>1. ime.ticks_until_enabled \in 0 .. EiDelay
  BY DEF TypeOK
<1>2. CASE ime.ticks_until_enabled = 0
  <2>1. ime' = ime
    BY <1>2, ImeNowType
  <2>2. QED
    BY <1>2, <2>1 DEF ImeMode
<1>3. CASE ime.ticks_until_enabled > 1
  <2>1. ime'.ticks_until_enabled > 0
    BY <1>1, <1>3, ImeNowType DEF EiDelay
  <2>2. ImeMode = "arming" /\ ImeMode' = "arming"
    <3>1. ime.ticks_until_enabled > 0
      BY <1>1, <1>3 DEF EiDelay
    <3>2. ImeMode = "arming"
      BY <3>1 DEF ImeMode
    <3>3. ImeMode' = "arming"
      BY <2>1 DEF ImeMode
    <3>4. QED
      BY <3>2, <3>3
  <2>3. QED
    BY <1>1, <1>3, <2>2 DEF EiDelay
<1>4. CASE ime.ticks_until_enabled = 1
  <2>1. ime' = [enabled |-> TRUE, ticks_until_enabled |-> 0]
    BY <1>4, ImeNowType
  <2>2. ime'.enabled /\ ~(ime'.ticks_until_enabled > 0)
    BY <2>1
  <2>3. QED
    BY <1>4, <2>2 DEF ImeMode
<1>5. \/ ime.ticks_until_enabled = 0 \/ ime.ticks_until_enabled = 1
      \/ ime.ticks_until_enabled > 1
  BY <1>1 DEF EiDelay
<1>6. ~(0 > 1)
  OBVIOUS
<1>7. QED
  BY ONLY <1>2, <1>3, <1>4, <1>5, <1>6

LEMMA ImeModes ==
  /\ ImeMode \in {"off", "arming", "on"}
  /\ ImeMode' \in {"off", "arming", "on"}
BY DEF ImeMode

(* A tick that writes to the bus at most once.                             *)
LEMMA BusWrite ==
  ASSUME requested \subseteq Interrupts, enabled \subseteq Interrupts,
         MemoryWrite \/ UNCHANGED interrupt_vars
  PROVE  Contract!Write
BY DEF MemoryWrite, interrupt_vars, Contract!Write

-----------------------------------------------------------------------------
LEMMA FetchDecodeRefines ==
  ASSUME IInv, FetchDecode
  PROVE  Contract!Next \/ UNCHANGED Contract!vars
<1>1. /\ current_state = "fetch_decode" /\ pc \in Pc /\ TypeOK
      /\ ~ime.enabled /\ ime.ticks_until_enabled = 0
      /\ UNCHANGED <<current_interrupt, requested, enabled>>
      /\ ime' = ImeNow
  BY DEF IInv, TypeOK, NoNestedDispatch, FetchDecode, dispatch_vars, interrupt_vars
<1>2. ImeMode = "off" /\ ImeMode' = "off"
  <2>1. ImeMode = "off"
    BY <1>1 DEF ImeMode
  <2>2. QED
    BY <1>1, <2>1, CountdownModes
<1>3. Mode = "ready" /\ ProgramPc = pc
  BY <1>1 DEF Mode, ProgramPc, AheadByOne
<1>4. CASE /\ remaining_cycles_in_state > 1
           /\ UNCHANGED <<pc, current_state, current_execution_cycle, current_opcode>>
  <2>1. Mode' = "ready" /\ ProgramPc' = pc
    BY <1>1, <1>4 DEF Mode, ProgramPc, AheadByOne
  <2>2. QED
    BY <1>1, <1>2, <1>3, <2>1 DEF Contract!vars
<1>5. CASE Fetch(pc)
  <2>1. CASE current_opcode' = "prefix"
    <3>1. current_state' = "fetch_decode_prefixed" /\ pc' \in Pc
      BY <1>1, <1>5, <2>1, FetchFacts DEF Fetch
    <3>2. Mode' = "busy" /\ ProgramPc' \in Pc
      BY <3>1, ProgramPcAfter DEF Mode
    <3>3. Contract!Begin
      BY <1>1, <1>2, <1>3, <3>2 DEF Contract!Begin, Pc, Contract!Pc
    <3>4. QED
      BY <3>3 DEF Contract!Next
  <2>2. CASE current_opcode' # "prefix"
    <3>1. /\ current_state' = "execute" /\ current_execution_cycle' = 0
          /\ pc' = (pc + 1) % PcMod
      BY <1>5, <2>2 DEF Fetch
    <3>2. Mode' = "ready"
      BY <3>1 DEF Mode
    <3>3. ProgramPc' = pc
      BY <1>1, <3>1, LookaheadUndone DEF ProgramPc, AheadByOne
    <3>4. QED
      BY <1>1, <1>2, <1>3, <3>2, <3>3 DEF Contract!vars
  <2>3. QED
    BY <2>1, <2>2
<1>6. QED
  BY <1>4, <1>5 DEF FetchDecode

LEMMA FetchDecodePrefixedRefines ==
  ASSUME IInv, FetchDecodePrefixed
  PROVE  Contract!Next \/ UNCHANGED Contract!vars
<1>1. /\ current_state = "fetch_decode_prefixed" /\ TypeOK
      /\ requested \subseteq Interrupts /\ enabled \subseteq Interrupts
      /\ UNCHANGED <<current_interrupt, requested, enabled>>
      /\ ime' = ImeNow
      /\ current_state' \in {"fetch_decode_prefixed", "execute_prefixed"}
  BY DEF IInv, TypeOK, FetchDecodePrefixed, dispatch_vars, interrupt_vars
<1>2. pc' \in Pc
  BY FetchDecodePrefixedKeepsInvariant DEF IInv, TypeOK
<1>3. Mode = "busy" /\ Mode' = "busy" /\ ProgramPc' \in Pc
  BY <1>1, <1>2, ProgramPcAfter DEF Mode
<1>4. ImeMode' = "arming" => ImeMode # "on"
  BY <1>1, CountdownModes DEF TypeOK, EiDelay
<1>5. Contract!Run
  BY <1>1, <1>3, <1>4, ImeModes DEF Contract!Run, Contract!Write, Pc, Contract!Pc
<1>6. QED
  BY <1>5 DEF Contract!Next

(* A dispatch begins: the interrupt accepted is the first of the pending.  *)
LEMMA FirstAgrees ==
  ASSUME is_any_pending
  PROVE  get_first_pending = Contract!First /\ Contract!Pending # {}
BY DEF is_any_pending, get_first_pending, Contract!First, Contract!Pending

LEMMA PreemptInstructionRefines ==
  ASSUME IInv, PreemptInstruction
  PROVE  Contract!Next \/ UNCHANGED Contract!vars
<1>1. /\ current_state = "execute" /\ current_execution_cycle = 0
      /\ ImeNow.enabled /\ is_any_pending
      /\ ime' = ImeNow /\ pc' = pc
      /\ current_state' = "interrupt" /\ current_execution_cycle' = 1
      /\ current_interrupt' = get_first_pending
      /\ UNCHANGED <<requested, enabled>>
  BY DEF PreemptInstruction, Preempted, BeginDispatch, interrupt_vars
<1>2. ime.ticks_until_enabled = 0
  <2>1. ime.ticks_until_enabled \in 0 .. 4 /\ TypeOK
    BY DEF IInv, TypeOK, EiDelay
  <2>2. ime.ticks_until_enabled > 0 => ime.ticks_until_enabled = 4
    <3>1. ime.ticks_until_enabled > 0 =>
            current_execution_cycle + ime.ticks_until_enabled = 4
      BY <1>1 DEF IInv, EiCountdownOnGrid, EiDelay
    <3>2. QED
      BY <1>1, <2>1, <3>1
  <2>3. QED
    BY <1>1, <2>1, <2>2, ImeNowType
<1>3. ImeMode = "on" /\ ImeMode' = "on"
  <2>1. TypeOK /\ ime.enabled
    BY <1>1, <1>2, ImeNowType DEF IInv
  <2>2. ImeMode = "on"
    BY <1>2, <2>1 DEF ImeMode
  <2>3. QED
    BY <1>1, <1>2, <2>1, <2>2, CountdownModes
<1>4. Mode = "ready" /\ Mode' = "dispatching" /\ ProgramPc' = ProgramPc
  BY <1>1 DEF Mode, ProgramPc, AheadByOne, MCycle
<1>5. Contract!Accept
  BY <1>1, <1>3, <1>4, FirstAgrees DEF Contract!Accept
<1>6. QED
  BY <1>5 DEF Contract!Next

LEMMA HaltedRefines ==
  ASSUME IInv, Halted
  PROVE  UNCHANGED Contract!vars
<1>1. ime' = ime
  BY ImeNowType DEF Halted, IInv, HaltFlagFresh
<1>2. QED
  BY <1>1 DEF Halted, Contract!vars, ProgramPc, AheadByOne, Mode, ImeMode,
              runner_vars, dispatch_vars, interrupt_vars

LEMMA WakeToDispatchRefines ==
  ASSUME IInv, WakeToDispatch
  PROVE  Contract!Next \/ UNCHANGED Contract!vars
<1>1. /\ current_state = "halt" /\ is_any_pending
      /\ halt.ime_flag_set /\ ime' = ImeNow /\ pc' = (pc + 1) % PcMod
      /\ current_state' = "interrupt" /\ current_execution_cycle' = 1
      /\ current_interrupt' = get_first_pending
      /\ UNCHANGED <<requested, enabled>>
  BY DEF WakeToDispatch, BeginDispatch, interrupt_vars
<1>2. /\ ime.ticks_until_enabled = 0 /\ ime.enabled /\ TypeOK /\ pc \in Pc
  BY <1>1 DEF IInv, TypeOK, HaltFlagFresh
<1>3. ImeMode = "on" /\ ImeMode' = "on"
  <2>1. ImeMode = "on"
    BY <1>2 DEF ImeMode
  <2>2. QED
    BY <1>1, <1>2, <2>1, CountdownModes
<1>4. Mode = "halted" /\ Mode' = "dispatching"
  BY <1>1 DEF Mode
<1>5. ProgramPc' = ProgramPc
  <2>1. ProgramPc = pc
    BY <1>1 DEF ProgramPc, AheadByOne
  <2>2. ProgramPc' = (pc' - 1) % PcMod
    BY <1>1 DEF ProgramPc, AheadByOne, MCycle
  <2>3. QED
    BY <1>1, <1>2, <2>1, <2>2, LookaheadUndone
<1>6. Contract!Accept
  BY <1>1, <1>3, <1>4, <1>5, FirstAgrees DEF Contract!Accept
<1>7. QED
  BY <1>6 DEF Contract!Next

LEMMA WakeToFetchRefines ==
  ASSUME IInv, WakeToFetch
  PROVE  Contract!Next \/ UNCHANGED Contract!vars
<1>1. /\ current_state = "halt" /\ is_any_pending
      /\ ~halt.ime_flag_set /\ ime' = ImeNow /\ Fetch(pc)
      /\ UNCHANGED <<current_interrupt, requested, enabled>>
  BY DEF WakeToFetch, dispatch_vars, interrupt_vars
<1>2. /\ ime.ticks_until_enabled = 0 /\ ~ime.enabled /\ TypeOK /\ pc \in Pc
  BY <1>1 DEF IInv, TypeOK, HaltFlagFresh
<1>3. ImeMode = "off" /\ ImeMode' = "off"
  <2>1. ImeMode = "off"
    BY <1>2 DEF ImeMode
  <2>2. QED
    BY <1>1, <1>2, <2>1, CountdownModes
<1>4. Mode = "halted" /\ ProgramPc = pc
  BY <1>1 DEF Mode, ProgramPc, AheadByOne
<1>5. Contract!Pending # {}
  BY <1>1, FirstAgrees
<1>6. \/ Mode' = "ready" /\ ProgramPc' = ProgramPc
      \/ Mode' = "busy" /\ ProgramPc' \in Pc
  <2>1. CASE current_opcode' = "prefix"
    <3>1. current_state' = "fetch_decode_prefixed" /\ pc' \in Pc
      BY <1>1, <1>2, <2>1, FetchFacts DEF Fetch
    <3>2. QED
      BY <3>1, ProgramPcAfter DEF Mode
  <2>2. CASE current_opcode' # "prefix"
    <3>1. /\ current_state' = "execute" /\ current_execution_cycle' = 0
          /\ pc' = (pc + 1) % PcMod
      BY <1>1, <2>2 DEF Fetch
    <3>2. Mode' = "ready"
      BY <3>1 DEF Mode
    <3>3. ProgramPc' = pc
      BY <1>2, <3>1, LookaheadUndone DEF ProgramPc, AheadByOne
    <3>4. QED
      BY <1>4, <3>2, <3>3
  <2>3. QED
    BY <2>1, <2>2
<1>7. Contract!Wake
  BY <1>1, <1>3, <1>4, <1>5, <1>6 DEF Contract!Wake, Pc, Contract!Pc
<1>8. QED
  BY <1>7 DEF Contract!Next

LEMMA RequestRefines ==
  ASSUME NEW i \in Interrupts, Request(i)
  PROVE  Contract!Next
<1>1. /\ requested' = requested \cup {i}
      /\ UNCHANGED <<pc, ime, current_state, current_execution_cycle, enabled,
                     current_interrupt>>
  BY DEF Request, runner_vars, dispatch_vars
<1>2. ProgramPc' = ProgramPc /\ Mode' = Mode /\ ImeMode' = ImeMode
  BY <1>1 DEF ProgramPc, AheadByOne, Mode, ImeMode
<1>3. Contract!Request
  BY <1>1, <1>2 DEF Contract!Request
<1>4. QED
  BY <1>3 DEF Contract!Next

-----------------------------------------------------------------------------
LEMMA ExecuteCycleRefines ==
  ASSUME IInv, ExecuteCycle
  PROVE  Contract!Next \/ UNCHANGED Contract!vars
<1>1. /\ TypeOK /\ EiCountdownOnGrid /\ Executing
      /\ current_state \in {"execute", "execute_prefixed"}
      /\ current_state' = current_state
      /\ current_execution_cycle' = current_execution_cycle + 1
      /\ current_execution_cycle \in Nat
      /\ ime' = ImeNow /\ pc' = pc /\ pc \in Pc
      /\ requested \subseteq Interrupts /\ enabled \subseteq Interrupts
      /\ UNCHANGED <<current_interrupt, requested, enabled>>
  BY DEF ExecuteCycle, Executing, IInv, TypeOK, dispatch_vars, interrupt_vars, MCycle
<1>2. Mode' = "busy" /\ ProgramPc' \in Pc
  <2>1. current_execution_cycle' # 0
    BY <1>1
  <2>2. QED
    BY <1>1, <2>1, ProgramPcAfter DEF Mode
<1>3. CASE current_state = "execute" /\ current_execution_cycle = 0
  <2>1. Mode = "ready"
    BY <1>3 DEF Mode
  <2>2. ime.ticks_until_enabled = 0 \/ ime.ticks_until_enabled = 4
    <3>1. ime.ticks_until_enabled \in 0 .. 4
      BY <1>1 DEF TypeOK, EiDelay
    <3>2. ime.ticks_until_enabled > 0 =>
            current_execution_cycle + ime.ticks_until_enabled = 4
      BY <1>1, <1>3 DEF EiCountdownOnGrid, EiDelay
    <3>3. QED
      BY <1>3, <3>1, <3>2
  <2>3. ImeMode' = ImeMode
    BY <1>1, <2>2, CountdownModes
  <2>4. ~(ImeMode = "on" /\ Contract!Pending # {})
    <3>1. SUFFICES ASSUME ImeMode = "on" PROVE ~is_any_pending
      BY DEF is_any_pending, Contract!Pending
    <3>2. ime.enabled /\ ~(ime.ticks_until_enabled > 0)
      BY <3>1 DEF ImeMode
    <3>3. ImeNow.enabled
      BY <1>1, <2>2, <3>2, ImeNowType
    <3>4. QED
      BY <1>1, <1>3, <3>3 DEF Executing, Preempted
  <2>5. Contract!Begin
    BY <1>1, <1>2, <2>1, <2>3, <2>4 DEF Contract!Begin, Pc, Contract!Pc
  <2>6. QED
    BY <2>5 DEF Contract!Next
<1>4. CASE ~(current_state = "execute" /\ current_execution_cycle = 0)
  <2>1. Mode = "busy"
    BY <1>1, <1>4 DEF Mode
  <2>2. ImeMode' = "arming" => ImeMode # "on"
    BY <1>1, CountdownModes DEF TypeOK, EiDelay
  <2>3. Contract!Run
    BY <1>1, <1>2, <2>1, <2>2, ImeModes DEF Contract!Run, Contract!Write, Pc, Contract!Pc
  <2>4. QED
    BY <2>3 DEF Contract!Next
<1>5. QED
  BY <1>3, <1>4

(* ei takes effect only where IME was clear and no countdown running.      *)
LEMMA ArmingFromOff ==
  ASSUME IInv, NEW step \in Nat, StepEffects(step), ime'.ticks_until_enabled > 0
  PROVE  ImeMode = "off"
<1>1. /\ TypeOK /\ EiCountdownOnGrid /\ Executing
      /\ (current_execution_cycle + 1) % 4 = 0
      /\ ime' = ImeAfter(current_opcode, step, ImeNow)
  BY DEF StepEffects, IInv
<1>2. /\ ImeNow.ticks_until_enabled = 0
      /\ ImeNow \in [enabled: BOOLEAN, ticks_until_enabled: 0 .. EiDelay]
      /\ ime.ticks_until_enabled \in 0 .. 4
  BY <1>1, ImeNowType, CountdownWhileExecuting DEF TypeOK, MCycle, EiDelay
<1>3. current_opcode = "ei"
  BY StepEffectsFacts
<1>4. ~ImeNow.enabled
  <2>1. SUFFICES ASSUME ImeNow.enabled PROVE FALSE
    OBVIOUS
  <2>2. ImeAfter(current_opcode, step, ImeNow) = ImeNow
    BY <1>3, <2>1 DEF ImeAfter
  <2>3. ~(ime'.ticks_until_enabled > 0)
    BY <1>1, <1>2, <2>2
  <2>4. QED
    BY <2>3
<1>5. ime.ticks_until_enabled = 0
  <2>1. ~(ime.ticks_until_enabled > 1)
    BY <1>1, <1>2, ImeNowType
  <2>2. ~(ime.ticks_until_enabled = 1)
    <3>1. SUFFICES ASSUME ime.ticks_until_enabled = 1 PROVE FALSE
      OBVIOUS
    <3>2. ImeNow = [enabled |-> TRUE, ticks_until_enabled |-> 0]
      BY <1>1, <3>1, ImeNowType
    <3>3. QED
      BY <1>4, <3>2
  <2>3. QED
    BY <1>2, <2>1, <2>2
<1>6. ~ime.enabled
  BY <1>1, <1>4, <1>5, ImeNowType
<1>7. QED
  BY <1>5, <1>6 DEF ImeMode

LEMMA ExecuteStepRefines ==
  ASSUME IInv, ExecuteStep
  PROVE  Contract!Next \/ UNCHANGED Contract!vars
<1>1. PICK step \in Nat, next \in Pc :
        StepEffects(step) /\ (Continues(next) \/ Halts(next) \/ Fetches(next))
  BY ExecuteStepOutcomes
<1>2. /\ TypeOK /\ Executing
      /\ current_state \in {"execute", "execute_prefixed"}
      /\ (current_execution_cycle + 1) % 4 = 0
      /\ current_execution_cycle \in Nat
      /\ current_interrupt' = current_interrupt
  BY <1>1 DEF StepEffects, Executing, IInv, TypeOK, MCycle
<1>3. Contract!Write
  <2>1. MemoryWrite \/ UNCHANGED interrupt_vars
    BY DEF ExecuteStep
  <2>2. QED
    BY <1>2, <2>1, BusWrite DEF TypeOK
<1>4. Mode = "busy"
  <2>1. current_execution_cycle # 0
    BY <1>2
  <2>2. QED
    BY <1>2, <2>1 DEF Mode
<1>5. pc' \in Pc /\ ProgramPc' \in Contract!Pc
  <2>1. pc' \in Pc
    BY ExecuteStepKeepsInvariant DEF IInv, TypeOK
  <2>2. QED
    BY <2>1, ProgramPcAfter DEF Pc, Contract!Pc
<1>6. ImeMode' = "arming" => ImeMode = "off"
  <2>1. SUFFICES ASSUME ImeMode' = "arming" PROVE ImeMode = "off"
    OBVIOUS
  <2>2. ime'.ticks_until_enabled > 0
    BY <2>1 DEF ImeMode
  <2>3. QED
    BY <1>1, <2>2, ArmingFromOff
<1>7. CASE Mode' = "busy"
  <2>1. Contract!Run
    BY <1>2, <1>3, <1>4, <1>5, <1>6, <1>7, ImeModes DEF Contract!Run
  <2>2. QED
    BY <2>1 DEF Contract!Next
<1>8. CASE Mode' = "ready"
  <2>1. Contract!Retire
    BY <1>2, <1>3, <1>4, <1>5, <1>6, <1>8, ImeModes DEF Contract!Retire
  <2>2. QED
    BY <2>1 DEF Contract!Next
<1>9. CASE Mode' = "halted" /\ halt'.enabled
  <2>1. ImeMode' # "arming"
    <3>1. ime'.ticks_until_enabled = 0
      BY <1>1, <1>9, StepEffectsFacts
    <3>2. QED
      BY <3>1 DEF ImeMode
  <2>2. Contract!Retire
    BY <1>2, <1>3, <1>4, <1>5, <1>9, <2>1, ImeModes DEF Contract!Retire
  <2>3. QED
    BY <2>2 DEF Contract!Next
<1>10. Mode' \in {"busy", "ready"} \/ (Mode' = "halted" /\ halt'.enabled)
  <2>1. CASE Continues(next)
    <3>1. /\ current_state' = current_state
          /\ current_execution_cycle' = current_execution_cycle + 1
      BY <2>1 DEF Continues
    <3>2. current_execution_cycle' # 0
      BY <1>2, <3>1
    <3>3. QED
      BY <1>2, <3>1, <3>2 DEF Mode
  <2>2. CASE Halts(next)
    <3>1. current_state' = "halt" /\ halt'.enabled
      BY <2>2 DEF Halts
    <3>2. QED
      BY <3>1 DEF Mode
  <2>3. CASE Fetches(next)
    <3>1. current_state' \in {"execute", "fetch_decode_prefixed"}
      BY <2>3 DEF Fetches, Fetch
    <3>2. QED
      BY <3>1 DEF Mode
  <2>4. QED
    BY <1>1, <2>1, <2>2, <2>3
<1>11. QED
  BY <1>7, <1>8, <1>9, <1>10

-----------------------------------------------------------------------------
LEMMA JumpToHandlerRefines ==
  ASSUME IInv, current_interrupt \in Interrupts, current_execution_cycle = 15,
         current_state = "interrupt", current_state' = "fetch_decode",
         JumpToHandler, ime' = ime, ImeMode = "off"
  PROVE  Contract!Next
<1> DEFINE dispatched == IF interrupt_cancelled THEN get_first_pending ELSE current_interrupt
<1>1. Mode = "dispatching" /\ Mode' = "ready" /\ ProgramPc' = pc' /\ ImeMode' = "off"
  BY DEF Mode, ProgramPc, AheadByOne, ImeMode
<1>2. UNCHANGED <<current_interrupt, enabled>>
  BY DEF JumpToHandler
<1>3. CASE dispatched = None
  <2>1. pc' = 0 /\ requested' = requested
    BY <1>3 DEF JumpToHandler
  <2>2. interrupt_cancelled /\ get_first_pending = None
    BY <1>3, InterruptsAssumption DEF None, Interrupts
  <2>3. Contract!Pending = {}
    <3>1. enabled \subseteq Interrupts
      BY DEF IInv, TypeOK
    <3>2. ~is_any_pending
      BY <2>2, <3>1, FirstPending
    <3>3. QED
      BY <3>2 DEF is_any_pending, Contract!Pending
  <2>4. Contract!Vector
    BY <1>1, <1>2, <2>1, <2>3 DEF Contract!Vector
  <2>5. QED
    BY <2>4 DEF Contract!Next
<1>4. CASE dispatched # None
  <2>1. pc' = handler_address[dispatched] /\ requested' = requested \ {dispatched}
    BY <1>4 DEF JumpToHandler
  <2>2. dispatched \in Interrupts
        /\ (dispatched = current_interrupt
              \/ (Contract!Pending # {} /\ dispatched = Contract!First))
    <3>1. CASE interrupt_cancelled
      <4>1. is_any_pending
        BY <1>4, <3>1 DEF get_first_pending
      <4>2. QED
        BY <3>1, <4>1, FirstPending, FirstAgrees DEF IInv, TypeOK
    <3>2. CASE ~interrupt_cancelled
      BY <3>2
    <3>3. QED
      BY <3>1, <3>2
  <2> HIDE DEF dispatched
  <2>3. Contract!Vector
    BY <1>1, <1>2, <2>1, <2>2 DEF Contract!Vector
  <2>4. QED
    BY <2>3 DEF Contract!Next
<1>5. QED
  BY <1>3, <1>4

LEMMA InterruptCycleRefines ==
  ASSUME IInv, InterruptCycle
  PROVE  Contract!Next \/ UNCHANGED Contract!vars
<1>1. /\ current_state = "interrupt"
      /\ current_execution_cycle \in 0 .. 15
      /\ current_interrupt \in Interrupts
      /\ ime.ticks_until_enabled = 0 /\ ImeNow = ime
  BY InterruptCycleOutcomes
<1>2. /\ requested \subseteq Interrupts /\ enabled \subseteq Interrupts
      /\ ime.enabled <=> current_execution_cycle < 4
  BY <1>1 DEF IInv, TypeOK, NoNestedDispatch, MCycle
<1>3. Mode = "dispatching"
  BY <1>1 DEF Mode
<1>4. ~(current_execution_cycle < 4) => ImeMode = "off"
  BY <1>1, <1>2 DEF ImeMode
<1>5. CASE Waits /\ AdvancesTo("interrupt", remaining_cycles_in_state - 1)
  <2>1. /\ current_state' = "interrupt"
        /\ current_execution_cycle' = current_execution_cycle + 1
        /\ UNCHANGED <<ime, pc, current_interrupt, requested, enabled>>
        /\ (current_execution_cycle + 1) % 4 # 0
    BY <1>5 DEF Waits, AdvancesTo
  <2>2. current_execution_cycle' < 4 <=> current_execution_cycle < 4
    BY <1>1, <2>1
  <2>3. /\ Mode' = Mode /\ ImeMode' = ImeMode /\ ProgramPc' = ProgramPc
    BY <1>1, <2>1, <2>2 DEF Mode, ImeMode, ProgramPc, AheadByOne, MCycle
  <2>4. QED
    BY <2>1, <2>3 DEF Contract!vars
<1>6. CASE /\ current_execution_cycle = 3
           /\ AbandonFetch /\ AdvancesTo("interrupt", remaining_cycles_in_state - 1)
  <2>1. /\ current_state' = "interrupt" /\ current_execution_cycle' = 4
        /\ ime' = [enabled |-> FALSE, ticks_until_enabled |-> 0]
        /\ pc' = (pc - 1) % PcMod
        /\ UNCHANGED <<current_interrupt, requested, enabled>>
    BY <1>6 DEF AbandonFetch, AdvancesTo, interrupt_vars
  <2>2. ProgramPc = (pc - 1) % PcMod /\ ProgramPc' = pc'
    BY <1>1, <1>6, <2>1 DEF ProgramPc, AheadByOne, MCycle
  <2>3. Mode' = "dispatching"
    BY <2>1 DEF Mode
  <2>4. ImeMode' = "off"
    <3>1. ~ime'.enabled /\ ~(ime'.ticks_until_enabled > 0)
      BY <2>1
    <3>2. QED
      BY <3>1 DEF ImeMode
  <2>5. Contract!Save
    BY <1>2, <1>3, <2>1, <2>2, <2>3, <2>4 DEF Contract!Save, Contract!Write
  <2>6. QED
    BY <2>5 DEF Contract!Next
<1>7. CASE /\ current_execution_cycle \in {7, 11}
           /\ PushUpper \/ PushLower
           /\ AdvancesTo("interrupt", remaining_cycles_in_state - 1)
  <2>1. /\ current_state' = "interrupt"
        /\ current_execution_cycle' = current_execution_cycle + 1
        /\ MemoryWrite
        /\ UNCHANGED <<ime, pc, current_interrupt>>
    BY <1>1, <1>7 DEF PushUpper, PushLower, AdvancesTo
  <2>2. ProgramPc = pc /\ ProgramPc' = pc
    BY <1>1, <1>7, <2>1 DEF ProgramPc, AheadByOne, MCycle
  <2>3. Mode' = "dispatching"
    BY <2>1 DEF Mode
  <2>4. ImeMode' = "off"
    BY <1>4, <1>7, <2>1 DEF ImeMode
  <2>5. Contract!Save
    BY <1>2, <1>3, <2>1, <2>2, <2>3, <2>4, BusWrite DEF Contract!Save
  <2>6. QED
    BY <2>5 DEF Contract!Next
<1>8. CASE /\ current_execution_cycle = 15
           /\ JumpToHandler /\ AdvancesTo("fetch_decode", 4)
  <2>1. current_state' = "fetch_decode" /\ ime' = ime
    BY <1>1, <1>8 DEF AdvancesTo, JumpToHandler
  <2>2. QED
    BY <1>1, <1>4, <1>8, <2>1, JumpToHandlerRefines
<1>9. QED
  BY <1>5, <1>6, <1>7, <1>8, InterruptCycleOutcomes

-----------------------------------------------------------------------------
LEMMA TickRefines ==
  ASSUME IInv, [Next]_vars
  PROVE  [Contract!Next]_(Contract!vars)
<1>1. CASE UNCHANGED vars
  BY <1>1 DEF vars, runner_vars, dispatch_vars, interrupt_vars, Contract!vars,
              ProgramPc, AheadByOne, Mode, ImeMode
<1>2. CASE Tick
  BY <1>2, FetchDecodeRefines, FetchDecodePrefixedRefines, PreemptInstructionRefines,
     ExecuteCycleRefines, ExecuteStepRefines, HaltedRefines, WakeToDispatchRefines,
     WakeToFetchRefines, InterruptCycleRefines DEF Tick
<1>3. ASSUME NEW i \in Interrupts, Request(i) PROVE Contract!Next
  BY <1>3, RequestRefines
<1>4. QED
  BY <1>1, <1>2, <1>3 DEF Next

LEMMA InitRefines ==
  ASSUME Init PROVE Contract!Init
<1>1. /\ current_state = "fetch_decode" /\ pc \in Pc /\ enabled = {}
      /\ current_interrupt = 0 /\ requested \subseteq Interrupts
  BY InterruptsAssumption DEF Init, None, Interrupts
<1>2. ImeMode = "off"
  <2>1. ~ime.enabled /\ ~(ime.ticks_until_enabled > 0)
    BY DEF Init
  <2>2. QED
    BY <2>1 DEF ImeMode
<1>3. Mode = "ready" /\ ProgramPc = pc
  BY <1>1 DEF Mode, ProgramPc, AheadByOne
<1>4. QED
  BY <1>1, <1>2, <1>3 DEF Contract!Init, Pc, Contract!Pc

(* The CPU keeps its contract: interrupts are taken only between two       *)
(* instructions, EI takes effect one instruction later, the dispatch keeps *)
(* the return address, and HALT is left only for a pending interrupt.      *)
THEOREM CpuImplementsContract == Spec => ImplementsContract
<1>1. Init => Contract!Init
  BY InitRefines
<1>2. IInv /\ [Next]_vars => [Contract!Next]_(Contract!vars)
  BY TickRefines
<1>3. QED
  BY <1>1, <1>2, Invariance, PTL DEF Spec, ImplementsContract, Contract!Spec

-----------------------------------------------------------------------------
(* Alu.  daa is proved digit by digit: each digit of a sum or difference  *)
(* is brought back to 0 .. 9 by one of its two adjustments.                *)

(* The three ways in which the code finds a carry agree.                   *)
LEMMA AddIsAdc ==
  ASSUME NEW x \in 0 .. Byte - 1, NEW r \in 0 .. Byte - 1
  PROVE  add_a(x, r) = adc_a(x, r, FALSE)
<1>1. check_add_overflow(x, r, Byte) = ((x + r + Bit(FALSE)) % Word > Byte - 1)
  BY SMT DEF check_add_overflow, Bit, Byte, Word
<1>2. (x + r) % Byte = ((x + r + Bit(FALSE)) % Word) % Byte
  BY SMT DEF Bit, Byte, Word
<1>3. check_half_add_overflow(x, r, HalfByte)
        = ((x % HalfByte) + (r % HalfByte) + Bit(FALSE) > HalfByte - 1)
  BY SMT DEF check_half_add_overflow, Bit, Byte, HalfByte
<1>. QED
  BY <1>1, <1>2, <1>3, Zenon DEF add_a, adc_a

LEMMA SubIsSbc ==
  ASSUME NEW x \in 0 .. Byte - 1, NEW r \in 0 .. Byte - 1
  PROVE  sub_a(x, r) = sbc_a(x, r, FALSE)
<1>1. check_substract_underflow(x, r) = ((x - r - Bit(FALSE)) % Word > Byte - 1)
  BY SMT DEF check_substract_underflow, Bit, Byte, Word
<1>2. (x - r) % Byte = ((x - r - Bit(FALSE)) % Word) % Byte
  BY SMT DEF Bit, Byte, Word
<1>3. check_half_substract_underflow(x, r, HalfByte)
        = (x % HalfByte < (r % HalfByte) + Bit(FALSE))
  BY SMT DEF check_half_substract_underflow, Bit, Byte, HalfByte
<1>. QED
  BY <1>1, <1>2, <1>3, Zenon DEF sub_a, sbc_a

(* What add with carry and subtract with carry return, in integers.        *)
LEMMA AdcExact ==
  ASSUME NEW x \in 0 .. Byte - 1, NEW r \in 0 .. Byte - 1, NEW c \in BOOLEAN
  PROVE  /\ adc_a(x, r, c).value = (x + r + Bit(c)) % Byte
         /\ adc_a(x, r, c).value \in 0 .. Byte - 1
         /\ adc_a(x, r, c).flags.n = FALSE
         /\ adc_a(x, r, c).flags.c = (x + r + Bit(c) >= Byte)
         /\ adc_a(x, r, c).flags.h = ((x % HalfByte) + (r % HalfByte) + Bit(c) >= HalfByte)
         /\ adc_a(x, r, c).flags \in Flags
<1> USE DEF Byte, Word, HalfByte
<1> DEFINE sum == x + r + Bit(c)
<1>1. sum \in 0 .. 511
  BY SMT DEF Bit
<1>2. sum % Word = sum
  BY <1>1, SMT
<1>3. (sum % Word) % Byte = sum % Byte /\ sum % Byte \in 0 .. Byte - 1
  BY <1>1, <1>2, SMT
<1>4. ((x % HalfByte) + (r % HalfByte) + Bit(c) > HalfByte - 1)
        = ((x % HalfByte) + (r % HalfByte) + Bit(c) >= HalfByte)
  BY SMT DEF Bit
<1>5. (sum % Word > Byte - 1) = (sum >= Byte)
  BY <1>1, <1>2, SMT
<1>. QED
  BY <1>3, <1>4, <1>5 DEF adc_a, Result, Flags

LEMMA SbcExact ==
  ASSUME NEW x \in 0 .. Byte - 1, NEW r \in 0 .. Byte - 1, NEW c \in BOOLEAN
  PROVE  /\ sbc_a(x, r, c).value = (x - r - Bit(c)) % Byte
         /\ sbc_a(x, r, c).value \in 0 .. Byte - 1
         /\ sbc_a(x, r, c).flags.n = TRUE
         /\ sbc_a(x, r, c).flags.c = (x - r - Bit(c) < 0)
         /\ sbc_a(x, r, c).flags.h = ((x % HalfByte) - (r % HalfByte) - Bit(c) < 0)
         /\ sbc_a(x, r, c).flags \in Flags
<1> USE DEF Byte, Word, HalfByte
<1> DEFINE diff == x - r - Bit(c)
<1>1. diff \in -256 .. 255
  BY SMT DEF Bit
<1>2. diff % Word = IF diff < 0 THEN diff + Word ELSE diff
  BY <1>1, SMT
<1>3. (diff % Word) % Byte = diff % Byte /\ diff % Byte \in 0 .. Byte - 1
  BY <1>1, <1>2, SMT
<1>4. (x % HalfByte < (r % HalfByte) + Bit(c))
        = ((x % HalfByte) - (r % HalfByte) - Bit(c) < 0)
  BY SMT DEF Bit
<1>5. (diff % Word > Byte - 1) = (diff < 0)
  BY <1>1, <1>2, SMT
<1>. QED
  BY <1>3, <1>4, <1>5 DEF sbc_a, Result, Flags

-----------------------------------------------------------------------------
(* daa on the sum or difference of two digits: lower and upper are what    *)
(* the digits of the operands add up to, the carry included.               *)
Adjusted(v, value) == v \in Decimals /\ Number(v) = value % 100

LEMMA ModByte ==
  ASSUME NEW y \in -256 .. 511
  PROVE  y % 256 = IF y < 0 THEN y + 256 ELSE IF y < 256 THEN y ELSE y - 256
  BY SMT

LEMMA DaaOfSumDigits ==
  ASSUME NEW upper \in 0 .. 18, NEW lower \in 0 .. 19
  PROVE  LET v    == (16 * upper + lower) % 256
             low  == v % 16 > 9 \/ lower >= 16
             high == v > 153 \/ 16 * upper + lower >= 256
             w    == (v + ((IF low THEN 6 ELSE 0) + (IF high THEN 96 ELSE 0))) % 256
         IN  Adjusted(w, 10 * upper + lower) /\ (high <=> (10 * upper + lower \notin 0 .. 99))
<1> DEFINE digit == IF lower <= 9 THEN lower ELSE lower - 10
           ten   == IF lower <= 9 THEN upper ELSE upper + 1
           sum   == 16 * upper + lower
<1>1. digit \in 0 .. 9 /\ ten \in 0 .. 19 /\ sum \in 0 .. 511
  OBVIOUS
<1>2. 16 * ten + digit = sum + (IF lower >= 10 THEN 6 ELSE 0)
  OBVIOUS
<1>3. 10 * ten + digit = 10 * upper + lower
  OBVIOUS
<1>4. sum % 256 = (IF sum < 256 THEN sum ELSE sum - 256)
  BY <1>1, ModByte
<1> DEFINE v    == (16 * upper + lower) % 256
           low  == v % 16 > 9 \/ lower >= 16
           high == v > 153 \/ 16 * upper + lower >= 256
           w    == (v + ((IF low THEN 6 ELSE 0) + (IF high THEN 96 ELSE 0))) % 256
<1>6. high <=> (ten >= 10)
  OBVIOUS
<1>7. low <=> (lower >= 10)
  OBVIOUS
<1>8. v = IF sum < 256 THEN sum ELSE sum - 256
  BY <1>4
<1> HIDE DEF digit, ten, sum, v, low, high
<1> DEFINE y == v + ((IF low THEN 6 ELSE 0) + (IF high THEN 96 ELSE 0))
<1>9. y \in 0 .. 511 /\ y = (16 * ten + digit) - (IF sum < 256 THEN 0 ELSE 256)
                                               + (IF ten >= 10 THEN 96 ELSE 0)
  <2>1. v = sum - (IF sum < 256 THEN 0 ELSE 256) /\ v \in 0 .. 255
    BY <1>1, <1>8
  <2>2. (IF low THEN 6 ELSE 0) = (16 * ten + digit) - sum
    <3>1. (IF low THEN 6 ELSE 0) = IF lower >= 10 THEN 6 ELSE 0
      BY <1>7, Zenon
    <3>. QED
      BY <1>1, <1>2, <3>1
  <2>3. (IF high THEN 96 ELSE 0) = IF ten >= 10 THEN 96 ELSE 0
    BY <1>6
  <2>4. y \in 0 .. 511
    BY <2>1, SMTT(30)
  <2>. QED
    BY <1>1, <2>1, <2>2, <2>3, <2>4
<1>10. w = IF y < 256 THEN y ELSE y - 256
  BY <1>9, ModByte
<1> HIDE DEF y, w
<1>11. w = 16 * (IF ten >= 10 THEN ten - 10 ELSE ten) + digit
  BY <1>1, <1>2, <1>9, <1>10
<1>12. (10 * ten + digit) % 100 = 10 * (IF ten >= 10 THEN ten - 10 ELSE ten) + digit
  BY <1>1
<1>13. (ten >= 10) = (10 * ten + digit \notin 0 .. 99)
  BY <1>1
<1> USE DEF v, low, high, w
<1>. QED
  BY <1>1, <1>3, <1>6, <1>11, <1>12, <1>13 DEF Adjusted, Decimals, Number, Byte, HalfByte

LEMMA DaaOfDifferenceDigits ==
  ASSUME NEW upper \in -9 .. 9, NEW lower \in -10 .. 9
  PROVE  LET v    == (16 * upper + lower) % 256
             low  == lower < 0
             high == 16 * upper + lower < 0
             w    == (v - ((IF low THEN 6 ELSE 0) + (IF high THEN 96 ELSE 0))) % 256
         IN  Adjusted(w, 10 * upper + lower) /\ (high <=> (10 * upper + lower \notin 0 .. 99))
<1> DEFINE digit == IF lower < 0 THEN lower + 10 ELSE lower
           ten   == IF lower < 0 THEN upper - 1 ELSE upper
           diff  == 16 * upper + lower
<1>1. digit \in 0 .. 9 /\ ten \in -10 .. 9 /\ diff \in -256 .. 255
  OBVIOUS
<1>2. 16 * ten + digit = diff - (IF lower < 0 THEN 6 ELSE 0)
  OBVIOUS
<1>3. 10 * ten + digit = 10 * upper + lower
  OBVIOUS
<1>4. diff % 256 = IF diff < 0 THEN diff + 256 ELSE diff
  BY <1>1, ModByte
<1> DEFINE v    == (16 * upper + lower) % 256
           low  == lower < 0
           high == 16 * upper + lower < 0
           w    == (v - ((IF low THEN 6 ELSE 0) + (IF high THEN 96 ELSE 0))) % 256
<1>6. (high <=> (ten < 0)) /\ (high <=> (diff < 0))
  OBVIOUS
<1>7. v = IF diff < 0 THEN diff + 256 ELSE diff
  BY <1>4
<1> HIDE DEF digit, ten, diff, v, high
<1> DEFINE y == v - ((IF low THEN 6 ELSE 0) + (IF high THEN 96 ELSE 0))
<1>8. y = 16 * (IF ten < 0 THEN ten + 10 ELSE ten) + digit
  <2>1. v = diff + (IF ten < 0 THEN 256 ELSE 0) /\ v \in Int
    BY <1>1, <1>6, <1>7
  <2>2. (IF low THEN 6 ELSE 0) = diff - (16 * ten + digit)
    <3>1. (IF low THEN 6 ELSE 0) = IF lower < 0 THEN 6 ELSE 0
      BY Zenon
    <3>. QED
      BY <1>1, <1>2, <3>1
  <2>3. (IF high THEN 96 ELSE 0) = IF ten < 0 THEN 96 ELSE 0
    BY <1>6
  <2>. QED
    BY <1>1, <2>1, <2>2, <2>3
<1>9. y \in 0 .. 255
  BY <1>1, <1>8
<1>10. w = y
  BY <1>9, ModByte
<1> HIDE DEF y, w
<1>11. (10 * ten + digit) % 100 = 10 * (IF ten < 0 THEN ten + 10 ELSE ten) + digit
  BY <1>1
<1>12. (ten < 0) = (10 * ten + digit \notin 0 .. 99)
  BY <1>1
<1> USE DEF v, low, high, w
<1>. QED
  BY <1>1, <1>3, <1>6, <1>8, <1>10, <1>11, <1>12 DEF Adjusted, Decimals, Number, Byte, HalfByte

LEMMA DigitsOf ==
  ASSUME NEW x \in Decimals
  PROVE  /\ x \in 0 .. Byte - 1
         /\ x \div HalfByte \in 0 .. 9 /\ x % HalfByte \in 0 .. 9
         /\ x = 16 * (x \div HalfByte) + (x % HalfByte)
         /\ Number(x) = 10 * (x \div HalfByte) + (x % HalfByte)
  BY DEF Decimals, Number, Byte, HalfByte

LEMMA DaaOfSum ==
  ASSUME NEW x \in Decimals, NEW r \in Decimals, NEW c \in BOOLEAN
  PROVE  LET s   == adc_a(x, r, c)
             out == daa(s.value, s.flags)
             value == Number(x) + Number(r) + Bit(c)
         IN  Adjusted(out.value, value) /\ (out.flags.c <=> (value \notin 0 .. 99))
<1> DEFINE xu == x \div HalfByte
           xl == x % HalfByte
           ru == r \div HalfByte
           rl_ == r % HalfByte
           upper == xu + ru
           lower == xl + rl_ + Bit(c)
           f == adc_a(x, r, c).flags
           v == adc_a(x, r, c).value
           low  == (~f.n /\ v % HalfByte > 9) \/ f.h
           high == (~f.n /\ v > 153) \/ f.c
           w == daa(v, f).value
<1>1. /\ x \in 0 .. Byte - 1 /\ r \in 0 .. Byte - 1
      /\ xu \in 0 .. 9 /\ xl \in 0 .. 9 /\ ru \in 0 .. 9 /\ rl_ \in 0 .. 9
      /\ x = 16 * xu + xl /\ r = 16 * ru + rl_
      /\ Number(x) = 10 * xu + xl /\ Number(r) = 10 * ru + rl_
  BY DigitsOf
<1>2. /\ v = (x + r + Bit(c)) % Byte /\ f.n = FALSE
      /\ f.c = (x + r + Bit(c) >= Byte) /\ f.h = (xl + rl_ + Bit(c) >= HalfByte)
  BY <1>1, AdcExact, ZenonT(60)
<1>3. Bit(c) \in 0 .. 1
  BY DEF Bit
<1> HIDE DEF xu, xl, ru, rl_, f, v
<1>4. /\ upper \in 0 .. 18 /\ lower \in 0 .. 19
      /\ x + r + Bit(c) = 16 * upper + lower
      /\ Number(x) + Number(r) + Bit(c) = 10 * upper + lower
  BY <1>1, <1>3
<1>5. v = (16 * upper + lower) % 256
  BY <1>2, <1>4 DEF Byte
<1>6. (low <=> (v % 16 > 9 \/ lower >= 16)) /\ low \in BOOLEAN
  BY <1>2 DEF HalfByte
<1>7. (high <=> (v > 153 \/ 16 * upper + lower >= 256)) /\ high \in BOOLEAN
  BY <1>2, <1>4, ZenonT(60) DEF Byte
<1>8. /\ w = (v + ((IF low THEN 6 ELSE 0) + (IF high THEN 96 ELSE 0))) % 256
      /\ daa(v, f).flags.c <=> high
  BY <1>2 DEF daa, Result, Byte
<1> HIDE DEF low, high, w
<1>9. Adjusted(w, 10 * upper + lower) /\ (high <=> (10 * upper + lower \notin 0 .. 99))
  <2> HIDE DEF upper, lower
  <2> DEFINE v2    == (16 * upper + lower) % 256
             low2  == v2 % 16 > 9 \/ lower >= 16
             high2 == v2 > 153 \/ 16 * upper + lower >= 256
             w2    == (v2 + ((IF low2 THEN 6 ELSE 0) + (IF high2 THEN 96 ELSE 0))) % 256
  <2>1. Adjusted(w2, 10 * upper + lower) /\ (high2 <=> (10 * upper + lower \notin 0 .. 99))
    BY <1>4, DaaOfSumDigits
  <2>2. v2 = v /\ (low2 <=> low) /\ (high2 <=> high)
    BY <1>5, <1>6, <1>7
  <2> HIDE DEF v2, low2, high2
  <2>3. w2 = w
    BY <2>2, <1>8, ZenonT(60)
  <2>. QED
    BY <2>1, <2>2, <2>3, Zenon
<1>. QED
  BY <1>4, <1>8, <1>9 DEF w, v, f

LEMMA DaaOfDifference ==
  ASSUME NEW x \in Decimals, NEW r \in Decimals, NEW c \in BOOLEAN
  PROVE  LET s   == sbc_a(x, r, c)
             out == daa(s.value, s.flags)
             value == Number(x) - Number(r) - Bit(c)
         IN  Adjusted(out.value, value) /\ (out.flags.c <=> (value \notin 0 .. 99))
<1> DEFINE xu == x \div HalfByte
           xl == x % HalfByte
           ru == r \div HalfByte
           rl_ == r % HalfByte
           upper == xu - ru
           lower == xl - rl_ - Bit(c)
           f == sbc_a(x, r, c).flags
           v == sbc_a(x, r, c).value
           low  == (~f.n /\ v % HalfByte > 9) \/ f.h
           high == (~f.n /\ v > 153) \/ f.c
           w == daa(v, f).value
<1>1. /\ x \in 0 .. Byte - 1 /\ r \in 0 .. Byte - 1
      /\ xu \in 0 .. 9 /\ xl \in 0 .. 9 /\ ru \in 0 .. 9 /\ rl_ \in 0 .. 9
      /\ x = 16 * xu + xl /\ r = 16 * ru + rl_
      /\ Number(x) = 10 * xu + xl /\ Number(r) = 10 * ru + rl_
  BY DigitsOf
<1>2. /\ v = (x - r - Bit(c)) % Byte /\ f.n = TRUE
      /\ f.c = (x - r - Bit(c) < 0) /\ f.h = (xl - rl_ - Bit(c) < 0)
  BY <1>1, SbcExact, ZenonT(60)
<1>3. Bit(c) \in 0 .. 1
  BY DEF Bit
<1> HIDE DEF xu, xl, ru, rl_, f, v
<1>4. /\ upper \in -9 .. 9 /\ lower \in -10 .. 9
      /\ x - r - Bit(c) = 16 * upper + lower
      /\ Number(x) - Number(r) - Bit(c) = 10 * upper + lower
  BY <1>1, <1>3
<1>5. v = (16 * upper + lower) % 256
  BY <1>2, <1>4 DEF Byte
<1>6. (low <=> (lower < 0)) /\ low \in BOOLEAN
  <2>1. low <=> f.h
    BY <1>2, Zenon
  <2>2. f.h = (lower < 0)
    BY <1>2
  <2>3. low \in BOOLEAN
    BY Zenon
  <2>. QED
    BY <2>1, <2>2, <2>3, Zenon
<1>7. (high <=> (16 * upper + lower < 0)) /\ high \in BOOLEAN
  <2>1. high <=> f.c
    BY <1>2, Zenon
  <2>2. f.c = (16 * upper + lower < 0)
    BY <1>2, <1>4
  <2>3. high \in BOOLEAN
    BY Zenon
  <2>. QED
    BY <2>1, <2>2, <2>3, Zenon
<1>8. /\ w = (v - ((IF low THEN 6 ELSE 0) + (IF high THEN 96 ELSE 0))) % 256
      /\ daa(v, f).flags.c <=> high
  BY <1>2 DEF daa, Result, Byte
<1> HIDE DEF low, high, w
<1>9. Adjusted(w, 10 * upper + lower) /\ (high <=> (10 * upper + lower \notin 0 .. 99))
  <2> HIDE DEF upper, lower
  <2> DEFINE v2    == (16 * upper + lower) % 256
             low2  == lower < 0
             high2 == 16 * upper + lower < 0
             w2    == (v2 - ((IF low2 THEN 6 ELSE 0) + (IF high2 THEN 96 ELSE 0))) % 256
  <2>1. Adjusted(w2, 10 * upper + lower) /\ (high2 <=> (10 * upper + lower \notin 0 .. 99))
    BY <1>4, DaaOfDifferenceDigits, ZenonT(60)
  <2>2. v2 = v /\ (low2 <=> low) /\ (high2 <=> high)
    BY <1>5, <1>6, <1>7
  <2> HIDE DEF v2, low2, high2
  <2>3. w2 = w
    BY <2>2, <1>8, ZenonT(60)
  <2>. QED
    BY <2>1, <2>2, <2>3, Zenon
<1>. QED
  BY <1>4, <1>8, <1>9 DEF w, v, f

-----------------------------------------------------------------------------
(* A state from which daa may be asked to adjust holds the sum or the      *)
(* difference of two decimal numbers.                                      *)
IsSum(x, r, c) ==
  /\ a = adc_a(x, r, c).value
  /\ flags = adc_a(x, r, c).flags
  /\ decimal.value = Number(x) + Number(r) + Bit(c)

IsDifference(x, r, c) ==
  /\ a = sbc_a(x, r, c).value
  /\ flags = sbc_a(x, r, c).flags
  /\ decimal.value = Number(x) - Number(r) - Bit(c)

BinaryIsResult ==
  decimal.state = "binary" =>
    \E x, r \in Decimals, c \in BOOLEAN : IsSum(x, r, c) \/ IsDifference(x, r, c)

AluIInv == AluTypeOK /\ CarriesAreExact /\ BinaryIsResult /\ DecimalArithmetic

(* The flags of any result are flags, and its value is the one given.      *)
LEMMA ResultType ==
  ASSUME NEW value, NEW n \in BOOLEAN, NEW h \in BOOLEAN, NEW c \in BOOLEAN
  PROVE  /\ Result(value, n, h, c).value = value
         /\ Result(value, n, h, c).flags \in Flags
         /\ Result(value, n, h, c).flags.n = n
         /\ Result(value, n, h, c).flags.h = h
         /\ Result(value, n, h, c).flags.c = c
  BY Zenon DEF Result, Flags

LEMMA NumberType ==
  ASSUME NEW x \in 0 .. Byte - 1
  PROVE  Number(x) \in Int
  BY DEF Number, HalfByte, Byte

(* What holds after an instruction that is neither a sum nor daa.          *)
LEMMA NoSumStep ==
  ASSUME decimal' = NotDecimal, a' \in 0 .. Byte - 1, flags' \in Flags,
         flags'.c = carry', flags'.h = half'
  PROVE  AluIInv'
<1>1. AluTypeOK'
  BY SMT DEF AluTypeOK, NotDecimal
<1>2. BinaryIsResult' /\ DecimalArithmetic'
  BY Zenon DEF BinaryIsResult, DecimalArithmetic, NotDecimal
<1>. QED
  BY <1>1, <1>2 DEF AluIInv, CarriesAreExact

LEMMA AddStep ==
  ASSUME AluIInv, NEW r \in 0 .. Byte - 1, NEW c \in BOOLEAN,
         a' = adc_a(a, r, c).value, flags' = adc_a(a, r, c).flags,
         carry' = (a + r + Bit(c) >= Byte),
         half' = ((a % HalfByte) + (r % HalfByte) + Bit(c) >= HalfByte),
         decimal' = Decimal(r, Number(a) + Number(r) + Bit(c))
  PROVE  AluIInv'
<1>1. a \in 0 .. Byte - 1
  BY DEF AluIInv, AluTypeOK
<1>2. /\ a' \in 0 .. Byte - 1 /\ flags' \in Flags
      /\ CarriesAreExact'
  BY <1>1, AdcExact, Zenon DEF CarriesAreExact
<1>3. Number(a) + Number(r) + Bit(c) \in Int
  BY <1>1, NumberType DEF Bit
<1>4. AluTypeOK'
  BY <1>2, <1>3 DEF AluTypeOK, Decimal, NotDecimal
<1>5. decimal'.state # "adjusted"
  BY DEF Decimal, NotDecimal
<1>6. BinaryIsResult'
  <2>1. SUFFICES ASSUME decimal'.state = "binary"
                 PROVE  \E x, y \in Decimals, d \in BOOLEAN : IsSum(x, y, d)'
    BY Zenon DEF BinaryIsResult
  <2>2. a \in Decimals /\ r \in Decimals /\ decimal'.value = Number(a) + Number(r) + Bit(c)
    BY <2>1 DEF Decimal, NotDecimal
  <2>3. \E x, y \in Decimals, d \in BOOLEAN :
          /\ a' = adc_a(x, y, d).value /\ flags' = adc_a(x, y, d).flags
          /\ decimal'.value = Number(x) + Number(y) + Bit(d)
    BY <2>2, Zenon
  <2>. QED
    BY <2>3, Zenon DEF IsSum
<1>. QED
  BY <1>2, <1>4, <1>5, <1>6 DEF AluIInv, DecimalArithmetic

LEMMA SubStep ==
  ASSUME AluIInv, NEW r \in 0 .. Byte - 1, NEW c \in BOOLEAN,
         a' = sbc_a(a, r, c).value, flags' = sbc_a(a, r, c).flags,
         carry' = (a - r - Bit(c) < 0),
         half' = ((a % HalfByte) - (r % HalfByte) - Bit(c) < 0),
         decimal' = Decimal(r, Number(a) - Number(r) - Bit(c))
  PROVE  AluIInv'
<1>1. a \in 0 .. Byte - 1
  BY DEF AluIInv, AluTypeOK
<1>2. /\ a' \in 0 .. Byte - 1 /\ flags' \in Flags
      /\ CarriesAreExact'
  BY <1>1, SbcExact, Zenon DEF CarriesAreExact
<1>3. Number(a) - Number(r) - Bit(c) \in Int
  BY <1>1, NumberType DEF Bit
<1>4. AluTypeOK'
  BY <1>2, <1>3 DEF AluTypeOK, Decimal, NotDecimal
<1>5. decimal'.state # "adjusted"
  BY DEF Decimal, NotDecimal
<1>6. BinaryIsResult'
  <2>1. SUFFICES ASSUME decimal'.state = "binary"
                 PROVE  \E x, y \in Decimals, d \in BOOLEAN : IsDifference(x, y, d)'
    BY Zenon DEF BinaryIsResult
  <2>2. a \in Decimals /\ r \in Decimals /\ decimal'.value = Number(a) - Number(r) - Bit(c)
    BY <2>1 DEF Decimal, NotDecimal
  <2>3. \E x, y \in Decimals, d \in BOOLEAN :
          /\ a' = sbc_a(x, y, d).value /\ flags' = sbc_a(x, y, d).flags
          /\ decimal'.value = Number(x) - Number(y) - Bit(d)
    BY <2>2, Zenon
  <2>. QED
    BY <2>3, Zenon DEF IsDifference
<1>. QED
  BY <1>2, <1>4, <1>5, <1>6 DEF AluIInv, DecimalArithmetic

LEMMA DaaStep ==
  ASSUME AluIInv, Daa
  PROVE  AluIInv'
<1>1. a \in 0 .. Byte - 1 /\ flags \in Flags /\ flags.n \in BOOLEAN /\ flags.h \in BOOLEAN /\ flags.c \in BOOLEAN
  BY DEF AluIInv, AluTypeOK, Flags
<1>2. daa(a, flags).value \in 0 .. Byte - 1
  BY <1>1 DEF daa, Result, Byte
<1>3. daa(a, flags).flags \in Flags
  BY <1>1 DEF daa, Result, Flags
<1>4. CarriesAreExact'
  BY Zenon DEF Daa, CarriesAreExact
<1>5. /\ decimal' \in [state : {"none", "binary", "adjusted"}, value : Int]
      /\ decimal'.state # "binary"
  BY DEF AluIInv, AluTypeOK, Daa, NotDecimal
<1>6. AluTypeOK' /\ BinaryIsResult'
  BY <1>2, <1>3, <1>5 DEF AluTypeOK, BinaryIsResult, Daa
<1>7. DecimalArithmetic'
  <2>1. SUFFICES ASSUME decimal'.state = "adjusted"
                 PROVE  DecimalArithmetic'
    BY DEF DecimalArithmetic
  <2>2. decimal.state = "binary" /\ decimal'.value = decimal.value
    BY <2>1 DEF Daa, NotDecimal, AluIInv, AluTypeOK
  <2>3. PICK x, r \in Decimals, c \in BOOLEAN : IsSum(x, r, c) \/ IsDifference(x, r, c)
    BY <2>2 DEF AluIInv, BinaryIsResult
  <2>4. CASE IsSum(x, r, c)
    <3>1. Adjusted(a', decimal.value) /\ (flags'.c <=> (decimal.value \notin 0 .. 99))
      BY <2>4, DaaOfSum, ZenonT(60) DEF IsSum, Daa
    <3>. QED
      BY <3>1, <2>2, <1>3 DEF DecimalArithmetic, Adjusted, Daa, Flags
  <2>5. CASE IsDifference(x, r, c)
    <3>1. Adjusted(a', decimal.value) /\ (flags'.c <=> (decimal.value \notin 0 .. 99))
      BY <2>5, DaaOfDifference, ZenonT(60) DEF IsDifference, Daa
    <3>. QED
      BY <3>1, <2>2, <1>3 DEF DecimalArithmetic, Adjusted, Daa, Flags
  <2>. QED
    BY <2>3, <2>4, <2>5
<1>. QED
  BY <1>4, <1>6, <1>7 DEF AluIInv

(* Flags of the instructions that are not sums.                            *)
LEMMA ShiftType ==
  ASSUME NEW x \in 0 .. Byte - 1, NEW c \in BOOLEAN,
         NEW out \in Shifted(x, c) \cup RotatedA(x, c)
  PROVE  out.value \in 0 .. Byte - 1 /\ out.flags \in Flags
<1>1. \A o \in Shifted(x, c) : /\ o.value \in 0 .. Byte - 1 /\ o.flags \in Flags
  <2>1. rl(x, c).value \in 0 .. Byte - 1 /\ rl(x, c).flags \in Flags
    BY DEF rl, Result, Flags, Bit, Byte
  <2>2. rlc(x, c).value \in 0 .. Byte - 1 /\ rlc(x, c).flags \in Flags
    BY DEF rlc, Result, Flags, Byte
  <2>3. rr(x, c).value \in 0 .. Byte - 1 /\ rr(x, c).flags \in Flags
    BY DEF rr, Result, Flags, Bit, Byte
  <2>4. rrc(x, c).value \in 0 .. Byte - 1 /\ rrc(x, c).flags \in Flags
    BY DEF rrc, Result, Flags, Byte
  <2>5. sla(x, c).value \in 0 .. Byte - 1 /\ sla(x, c).flags \in Flags
    BY DEF sla, Result, Flags, Byte
  <2>6. sra(x, c).value \in 0 .. Byte - 1 /\ sra(x, c).flags \in Flags
    BY DEF sra, Result, Flags, Byte
  <2>7. srl(x, c).value \in 0 .. Byte - 1 /\ srl(x, c).flags \in Flags
    BY DEF srl, Result, Flags, Byte
  <2>8. swap(x, c).value \in 0 .. Byte - 1 /\ swap(x, c).flags \in Flags
    BY DEF swap, Result, Flags, Byte, HalfByte
  <2>. QED
    BY <2>1, <2>2, <2>3, <2>4, <2>5, <2>6, <2>7, <2>8, Zenon DEF Shifted
<1>2. \A o \in RotatedA(x, c) : /\ o.value \in 0 .. Byte - 1 /\ o.flags \in Flags
  <2>1. SUFFICES ASSUME NEW o \in {rl(x, c), rlc(x, c), rr(x, c), rrc(x, c)}
                 PROVE  LET out_ == [o EXCEPT !.flags.z = FALSE]
                        IN  out_.value \in 0 .. Byte - 1 /\ out_.flags \in Flags
    BY Zenon DEF RotatedA
  <2>2. o.value \in 0 .. Byte - 1 /\ o.flags \in Flags
    BY <1>1, Zenon DEF Shifted
  <2>3. DOMAIN o = {"value", "flags"}
    BY <2>1 DEF rl, rlc, rr, rrc, Result
  <2>. QED
    BY <2>2, <2>3 DEF Flags
<1>. QED
  BY <1>1, <1>2

LEMMA CountType ==
  ASSUME NEW r \in 0 .. Byte - 1, NEW f \in Flags, NEW out \in {inc(r, f), dec(r, f)}
  PROVE  /\ out.value \in 0 .. Byte - 1 /\ out.flags \in Flags
         /\ out.flags.c = f.c
<1>1. f.c \in BOOLEAN
  BY DEF Flags
<1>2. check_half_add_overflow(r, 1, HalfByte) \in BOOLEAN
  BY DEF check_half_add_overflow
<1>3. check_half_substract_underflow(r, 1, HalfByte) \in BOOLEAN
  BY DEF check_half_substract_underflow
<1>4. (r + 1) % Byte \in 0 .. Byte - 1 /\ (r - 1) % Byte \in 0 .. Byte - 1
  BY DEF Byte
<1>5. CASE out = inc(r, f)
  BY <1>1, <1>2, <1>4, <1>5 DEF inc, Result, Flags
<1>6. CASE out = dec(r, f)
  BY <1>1, <1>3, <1>4, <1>6 DEF dec, Result, Flags
<1>. QED
  BY <1>5, <1>6

LEMMA WordFlags ==
  ASSUME NEW x, NEW y, NEW f \in Flags
  PROVE  add_hl(x, y, f).flags \in Flags /\ add_sp(x, y).flags \in Flags
<1>1. f.z \in BOOLEAN
  BY DEF Flags
<1>2. /\ check_half_add_overflow(x, y, HalfWord) \in BOOLEAN
      /\ check_add_overflow(x, y, Word) \in BOOLEAN
      /\ check_half_add_overflow(x % Byte, y, HalfByte) \in BOOLEAN
      /\ check_add_overflow(x % Byte, y, Byte) \in BOOLEAN
  BY DEF check_half_add_overflow, check_add_overflow
<1>3. add_hl(x, y, f).flags \in Flags
  BY <1>1, <1>2 DEF add_hl, Flags
<1>4. add_sp(x, y).flags \in Flags
  BY <1>2 DEF add_sp, Flags
<1>. QED
  BY <1>3, <1>4

-----------------------------------------------------------------------------
(* AluIInv is inductive, whatever bytes the operands are.                     *)
LEMMA StepKeepsIInv ==
  ASSUME AluIInv, [AluNext]_alu_vars
  PROVE  AluIInv'
<1>. USE OperandsAssumption
<1>1. /\ a \in 0 .. Byte - 1 /\ flags \in Flags
      /\ flags.n \in BOOLEAN /\ flags.z \in BOOLEAN
      /\ flags.h \in BOOLEAN /\ flags.c \in BOOLEAN
      /\ flags.c = carry /\ flags.h = half
  BY DEF AluIInv, AluTypeOK, CarriesAreExact, Flags
<1>2. ASSUME NEW r \in Operands, Load(r)
      PROVE  AluIInv'
  BY <1>1, <1>2, NoSumStep DEF Load
<1>3. ASSUME NEW r \in Operands, Add(r)
      PROVE  AluIInv'
  <2>1. r \in 0 .. Byte - 1 /\ add_a(a, r) = adc_a(a, r, FALSE)
    BY <1>1, AddIsAdc
  <2>2. a + r + Bit(FALSE) = a + r
    BY <1>1, <2>1 DEF Bit
  <2>3. (a % HalfByte) + (r % HalfByte) + Bit(FALSE) = (a % HalfByte) + (r % HalfByte)
    BY <1>1, <2>1 DEF Bit, HalfByte
  <2>4. Number(a) + Number(r) + Bit(FALSE) = Number(a) + Number(r)
    BY <1>1, <2>1, NumberType DEF Bit
  <2>. QED
    BY <1>3, <2>1, <2>2, <2>3, <2>4, AddStep, Zenon DEF Add
<1>4. ASSUME NEW r \in Operands, Adc(r)
      PROVE  AluIInv'
  BY <1>1, <1>4, AddStep DEF Adc
<1>5. ASSUME NEW r \in Operands, Sub(r)
      PROVE  AluIInv'
  <2>1. r \in 0 .. Byte - 1 /\ sub_a(a, r) = sbc_a(a, r, FALSE)
    BY <1>1, SubIsSbc
  <2>2. a - r - Bit(FALSE) = a - r
    BY <1>1, <2>1 DEF Bit
  <2>3. (a % HalfByte) - (r % HalfByte) - Bit(FALSE) = (a % HalfByte) - (r % HalfByte)
    BY <1>1, <2>1 DEF Bit, HalfByte
  <2>4. Number(a) - Number(r) - Bit(FALSE) = Number(a) - Number(r)
    BY <1>1, <2>1, NumberType DEF Bit
  <2>. QED
    BY <1>5, <2>1, <2>2, <2>3, <2>4, SubStep, Zenon DEF Sub
<1>6. ASSUME NEW r \in Operands, Sbc(r)
      PROVE  AluIInv'
  BY <1>1, <1>6, SubStep DEF Sbc
<1>7. ASSUME NEW r \in Operands, Cp(r)
      PROVE  AluIInv'
  <2>1. r \in 0 .. Byte - 1 /\ sub_a(a, r) = sbc_a(a, r, FALSE)
    BY <1>1, SubIsSbc
  <2>2. sub_a(a, r).flags \in Flags
    BY <1>1, <2>1, SbcExact
  <2>3. sub_a(a, r).flags.c = (a < r) /\ sub_a(a, r).flags.h = (a % HalfByte < r % HalfByte)
    BY DEF sub_a, Result, check_substract_underflow, check_half_substract_underflow
  <2>. QED
    BY <1>1, <1>7, <2>2, <2>3, NoSumStep, Zenon DEF Cp
<1>8. ASSUME NEW r \in Operands, Count(r)
      PROVE  AluIInv'
  <2>1. PICK out \in {inc(r, flags), dec(r, flags)} : flags' = out.flags
    BY <1>8 DEF Count
  <2>2. flags' \in Flags /\ flags'.c = flags.c
    BY <1>1, <2>1, CountType
  <2>. QED
    BY <1>1, <1>8, <2>2, NoSumStep DEF Count
<1>9. ASSUME NEW r \in Operands, Logic(r)
      PROVE  AluIInv'
  <2>1. PICK h \in BOOLEAN : flags' = Result(r, FALSE, h, FALSE).flags
    BY <1>9 DEF Logic
  <2>2. flags' \in Flags
    BY <2>1, ResultType
  <2>. QED
    BY <1>9, <2>2, NoSumStep DEF Logic, NoSum
<1>10. ASSUME NEW r \in Operands, Shift(r)
       PROVE  AluIInv'
  <2>1. PICK out \in Shifted(r, flags.c) : flags' = out.flags
    BY <1>10 DEF Shift
  <2>2. flags' \in Flags
    BY <1>1, <2>1, ShiftType
  <2>. QED
    BY <1>1, <1>10, <2>2, NoSumStep DEF Shift, NoSum
<1>11. CASE CountA
  <2>1. PICK out \in {inc(a, flags), dec(a, flags)} : a' = out.value /\ flags' = out.flags
    BY <1>11 DEF CountA
  <2>2. a' \in 0 .. Byte - 1 /\ flags' \in Flags /\ flags'.c = flags.c
    BY <1>1, <2>1, CountType
  <2>. QED
    BY <1>1, <1>11, <2>2, NoSumStep DEF CountA
<1>12. CASE Daa
  BY <1>12, DaaStep
<1>13. CASE Cpl
  <2>1. flags' \in Flags /\ flags'.c = flags.c /\ flags'.h = TRUE
    BY <1>1, <1>13 DEF Cpl, Flags
  <2>2. a' \in 0 .. Byte - 1
    BY <1>1, <1>13 DEF Cpl, Byte
  <2>. QED
    BY <1>1, <1>13, <2>1, <2>2, NoSumStep DEF Cpl
<1>14. CASE SetCarry
  <2>1. flags' \in Flags
    BY <1>1, <1>14 DEF SetCarry, Flags
  <2>. QED
    BY <1>1, <1>14, <2>1, NoSumStep DEF SetCarry, NoSum
<1>15. CASE ShiftA
  <2>1. a' \in 0 .. Byte - 1 /\ flags' \in Flags
    BY <1>1, <1>15, ShiftType DEF ShiftA
  <2>. QED
    BY <1>15, <2>1, NoSumStep DEF ShiftA, NoSum
<1>16. CASE TestBit
  <2>1. flags' \in Flags /\ flags'.c = flags.c /\ flags'.h = TRUE
    BY <1>1, <1>16 DEF TestBit, Flags
  <2>. QED
    BY <1>1, <1>16, <2>1, NoSumStep DEF TestBit
<1>17. CASE AddWords
  <2>1. flags' \in Flags
    <3>1. ASSUME NEW x, NEW y, flags' = add_hl(x, y, flags).flags \/ flags' = add_sp(x, y).flags
          PROVE  flags' \in Flags
      BY <1>1, <3>1, WordFlags
    <3>. QED
      BY <1>17, <3>1 DEF AddWords
  <2>. QED
    BY <1>1, <1>17, <2>1, NoSumStep DEF AddWords, NoSum
<1>18. ASSUME NEW r \in Operands, pop_af(r)
       PROVE  AluIInv'
  BY <1>1, <1>18, NoSumStep DEF pop_af, NoSum
<1>19. CASE UNCHANGED alu_vars
  BY <1>19 DEF alu_vars, AluIInv, AluTypeOK, CarriesAreExact, BinaryIsResult, DecimalArithmetic,
               IsSum, IsDifference
<1>. QED
  BY <1>2, <1>3, <1>4, <1>5, <1>6, <1>7, <1>8, <1>9, <1>10, <1>11, <1>12, <1>13, <1>14,
     <1>15, <1>16, <1>17, <1>18, <1>19 DEF AluNext

LEMMA InitIInv ==
  AluInit => AluIInv
<1>1. AluInit => AluTypeOK
  BY DEF AluInit, AluTypeOK, Flags, NotDecimal, Byte
<1>2. ASSUME AluInit
      PROVE  CarriesAreExact /\ BinaryIsResult /\ DecimalArithmetic
  <2>1. flags.c = FALSE /\ flags.h = FALSE /\ decimal.state = "none"
    BY <1>2 DEF AluInit, NotDecimal
  <2>2. "none" # "binary" /\ "none" # "adjusted"
    OBVIOUS
  <2>. QED
    BY <1>2, <2>1, <2>2, Zenon DEF AluInit, CarriesAreExact, BinaryIsResult, DecimalArithmetic
<1>. QED
  BY <1>1, <1>2 DEF AluIInv

(* The inductive invariant of the arithmetic, for every set of operands:   *)
(* besides the properties, that the flags and the accumulator are those of *)
(* the last decimal sum or difference until daa adjusts it.                *)
THEOREM AluInvariance ==
  AluSpec => []AluIInv
<1>1. AluIInv /\ [AluNext]_alu_vars => AluIInv'
  BY StepKeepsIInv
<1>. QED
  BY <1>1, InitIInv, PTL DEF AluSpec

(* The accumulator is a byte and the flags are flags.                      *)
THEOREM TypeCorrectness ==
  AluSpec => []AluTypeOK
<1>1. AluIInv => AluTypeOK
  BY DEF AluIInv
<1>. QED
  BY <1>1, AluInvariance, PTL

(* The carry and half carry are those of the integers, whatever sequence   *)
(* of instructions lies between two bytes of a long sum.                   *)
THEOREM ExactCarries ==
  AluSpec => []CarriesAreExact
<1>1. AluIInv => CarriesAreExact
  BY DEF AluIInv
<1>. QED
  BY <1>1, AluInvariance, PTL

(* daa after a sum or difference of decimal numbers gives the decimal sum  *)
(* or difference, and its carry.                                           *)
THEOREM DecimalSums ==
  AluSpec => []DecimalArithmetic
<1>1. AluIInv => DecimalArithmetic
  BY DEF AluIInv
<1>. QED
  BY <1>1, AluInvariance, PTL

-----------------------------------------------------------------------------
(* No rotation loses a bit of the byte or of the carry.                    *)
THEOREM Rotations ==
  ASSUME NEW x \in 0 .. Byte - 1, NEW c \in BOOLEAN
  PROVE  RotationsUndo(x, c)
<1> USE DEF Byte, HalfByte, Bit
<1>1. /\ rr(rl(x, c).value, rl(x, c).flags.c).value = x
      /\ rr(rl(x, c).value, rl(x, c).flags.c).flags.c = c
  <2> DEFINE y == ((2 * x) % Byte) + Bit(c)
  <2>1. /\ y \div 2 = x - 128 * (x \div 128)
        /\ y % 2 = Bit(c)
        /\ Bit(x \div 128 = 1) = x \div 128
    OBVIOUS
  <2>2. rl(x, c).value = y /\ rl(x, c).flags.c = (x \div 128 = 1)
    BY DEF rl, Result
  <2>3. y \div 2 + 128 * Bit(x \div 128 = 1) = x /\ (y % 2 = 1) = c
    BY <2>1
  <2> HIDE DEF y
  <2>. QED
    BY <2>2, <2>3, Zenon DEF rr, Result
<1>2. /\ rl(rr(x, c).value, rr(x, c).flags.c).value = x
      /\ rl(rr(x, c).value, rr(x, c).flags.c).flags.c = c
  <2> DEFINE y == x \div 2 + 128 * Bit(c)
  <2>1. /\ (2 * y) % Byte = 2 * (x \div 2)
        /\ y \div 128 = Bit(c)
        /\ Bit(x % 2 = 1) = x % 2
    OBVIOUS
  <2>2. rr(x, c).value = y /\ rr(x, c).flags.c = (x % 2 = 1)
    BY DEF rr, Result
  <2>3. ((2 * y) % Byte) + Bit(x % 2 = 1) = x /\ (y \div 128 = 1) = c
    BY <2>1
  <2> HIDE DEF y
  <2>. QED
    BY <2>2, <2>3, ZenonT(60) DEF rl, Result
<1>3. rrc(rlc(x, c).value, c).value = x
  BY DEF rlc, rrc, Result
<1>4. rlc(rrc(x, c).value, c).value = x
  BY DEF rlc, rrc, Result
<1>5. swap(swap(x, c).value, c).value = x
  BY DEF swap, Result
<1>. QED
  BY <1>1, <1>2, <1>3, <1>4, <1>5, Zenon DEF RotationsUndo

-----------------------------------------------------------------------------
LEMMA BytesOf ==
  ASSUME NEW x \in Nat, x < Word
  PROVE  /\ x % Byte \in 0 .. Byte - 1 /\ x \div Byte \in 0 .. Byte - 1
         /\ x = 256 * (x \div Byte) + (x % Byte)
  BY DEF Byte, Word

LEMMA ModWord ==
  ASSUME NEW e \in Int, NEW y \in Int, 0 <= y, y < Word, e = y \/ e = Word + y
  PROVE  e % Word = y
  BY DEF Word

(* add hl: the sum of two words is that of their bytes, for all words.     *)
THEOREM SumsOfWords ==
  ASSUME NEW hl \in Nat, hl < Word, NEW r16 \in Nat, r16 < Word, NEW f
  PROVE  WordsAreBytes(hl, r16, f)
<1> DEFINE h0 == hl % Byte
           h1 == hl \div Byte
           r0 == r16 % Byte
           r1 == r16 \div Byte
           low == add_a(h0, r0)
           high == adc_a(h1, r1, low.flags.c)
<1>1. /\ h0 \in 0 .. Byte - 1 /\ h1 \in 0 .. Byte - 1 /\ hl = 256 * h1 + h0
      /\ r0 \in 0 .. Byte - 1 /\ r1 \in 0 .. Byte - 1 /\ r16 = 256 * r1 + r0
  BY BytesOf
<1> HIDE DEF h0, h1, r0, r1
<1> DEFINE k == Bit(low.flags.c)
           j == Bit(high.flags.c)
<1>2. /\ low.value = (h0 + r0) % Byte
      /\ low.flags.c = (h0 + r0 >= Byte)
      /\ low.flags.c \in BOOLEAN
  <2>1. low = adc_a(h0, r0, FALSE)
    BY <1>1, AddIsAdc
  <2>2. h0 + r0 + Bit(FALSE) = h0 + r0
    BY <1>1 DEF Bit
  <2>3. /\ adc_a(h0, r0, FALSE).value = (h0 + r0 + Bit(FALSE)) % Byte
        /\ adc_a(h0, r0, FALSE).flags.c = (h0 + r0 + Bit(FALSE) >= Byte)
    BY <1>1, AdcExact, ZenonT(60)
  <2> HIDE DEF low
  <2>4. low.value = (h0 + r0) % Byte /\ low.flags.c = (h0 + r0 >= Byte)
    BY <2>1, <2>2, <2>3, Zenon
  <2>5. (h0 + r0 >= Byte) \in BOOLEAN
    OBVIOUS
  <2>. QED
    BY <2>4, <2>5, Zenon
<1>3. /\ high.value = (h1 + r1 + k) % Byte
      /\ high.flags.c = (h1 + r1 + k >= Byte)
      /\ high.flags.h = ((h1 % HalfByte) + (r1 % HalfByte) + k >= HalfByte)
  <2> HIDE DEF low
  <2>1. h1 \in 0 .. Byte - 1 /\ r1 \in 0 .. Byte - 1 /\ low.flags.c \in BOOLEAN
    BY <1>1, <1>2, Zenon
  <2>. QED
    BY <2>1, AdcExact, ZenonT(60)
<1> HIDE DEF low, high
<1>4. /\ k = (IF h0 + r0 >= 256 THEN 1 ELSE 0)
      /\ j = (IF h1 + r1 + k >= 256 THEN 1 ELSE 0)
  <2> HIDE DEF k
  <2>1. k = IF h0 + r0 >= Byte THEN 1 ELSE 0
    BY <1>2, Zenon DEF k, Bit
  <2>2. j = IF h1 + r1 + k >= Byte THEN 1 ELSE 0
    BY <1>3, Zenon DEF j, Bit
  <2> HIDE DEF j
  <2>. QED
    BY ONLY <2>1, <2>2 DEF Byte
<1> HIDE DEF k, j
<1>5. low.value = h0 + r0 - 256 * k /\ low.value \in 0 .. 255
  <2>1. h0 + r0 \in -256 .. 511
    BY <1>1 DEF Byte
  <2>. QED
    BY <1>1, <1>2, <1>4, <2>1, ModByte DEF Byte
<1>6. high.value = h1 + r1 + k - 256 * j /\ high.value \in 0 .. 255
  <2>1. h1 + r1 + k \in -256 .. 511
    BY <1>1, <1>4 DEF Byte
  <2>. QED
    BY <1>1, <1>3, <1>4, <2>1, ModByte DEF Byte
<1>7. k \in 0 .. 1 /\ j \in 0 .. 1
  BY <1>4, SMT
<1>8. /\ h1 \in 0 .. 255 /\ h0 \in 0 .. 255 /\ r1 \in 0 .. 255 /\ r0 \in 0 .. 255
  BY <1>1, SMT DEF Byte
<1> DEFINE hv == h1 + r1 + k - 256 * j
           lv == h0 + r0 - 256 * k
           sum == 256 * hv + lv
<1>9. /\ sum \in Int /\ 0 <= sum /\ sum < Word
      /\ hl + r16 \in Int /\ (hl + r16 = sum \/ hl + r16 = Word + sum)
      /\ (sum < hl) = (j = 1)
  <2> DEFINE exact == 65536 * j + sum
  <2>1. hl + r16 = exact /\ hl = 256 * h1 + h0
    BY <1>1, <1>7, <1>8
  <2>2. hv \in 0 .. 255 /\ lv \in 0 .. 255
    BY <1>5, <1>6
  <2> HIDE DEF hv, lv
  <2>3. sum \in Int /\ 0 <= sum /\ sum < 65536
    BY <2>2
  <2> HIDE DEF sum
  <2>4. j = 0 \/ j = 1
    BY <1>7
  <2>5. hl \in Int /\ r16 \in Int /\ 0 <= r16 /\ r16 < 65536
    BY <1>1, <1>8
  <2>6. (sum < hl) = (j = 1)
    BY <1>7, <2>1, <2>3, <2>5
  <2> HIDE DEF j, k, h1, h0, r1, r0
  <2>7. exact = sum \/ exact = 65536 + sum
    BY ONLY <2>3, <2>4 DEF exact
  <2> HIDE DEF exact
  <2>8. exact \in Int /\ sum \in Int /\ 0 <= sum
    BY ONLY <2>3, <2>7
  <2>9. sum < Word
    BY <2>3, SMT DEF Word
  <2>10. exact = sum \/ exact = Word + sum
    BY <2>7, SMT DEF Word
  <2>11. hl + r16 = exact
    BY <2>1
  <2>. QED
    BY <2>6, <2>8, <2>9, <2>10, <2>11, Zenon
<1>10. sum = high.value * Byte + low.value
  BY <1>5, <1>6 DEF Byte
<1> HIDE DEF hv, lv, sum
<1>11. (hl + r16) % Word = sum
  BY <1>9, ModWord, Zenon
<1>12. check_add_overflow(hl, r16, Word) = high.flags.c
  <2>1. check_add_overflow(hl, r16, Word) = (sum < hl)
    BY <1>11, Zenon DEF check_add_overflow
  <2>2. high.flags.c = (j = 1)
    BY <1>1, <1>3, <1>4, <1>7 DEF Byte
  <2>. QED
    BY <1>9, <2>1, <2>2, Zenon
<1>13. check_half_add_overflow(hl, r16, HalfWord) = high.flags.h
  <2>1. hl % HalfWord = 256 * (h1 % 16) + h0 /\ r16 % HalfWord = 256 * (r1 % 16) + r0
    BY <1>1 DEF HalfWord, Byte
  <2>. QED
    BY <1>1, <1>3, <1>4, <2>1 DEF check_half_add_overflow, HalfWord, HalfByte, Byte
<1>14. (hl + r16) % Word = high.value * Byte + low.value
  BY <1>10, <1>11, Zenon
<1>. QED
  BY <1>12, <1>13, <1>14 DEF WordsAreBytes, add_hl, h0, h1, r0, r1, low, high

(* add sp and ld hl, sp: a signed offset is added right, for all words.    *)
THEOREM SumsOfOffsets ==
  ASSUME NEW sp \in Nat, sp < Word, NEW e8 \in 0 .. Byte - 1
  PROVE  SignedOffsetCarries(sp, e8)
<1> DEFINE s0 == sp % Byte
           s1 == sp \div Byte
           k  == check_add_overflow(s0, e8, Byte)
           n  == IF e8 < 128 THEN 0 ELSE 1
           lv == (s0 + e8) % Byte
           hv == (s1 + Bit(k) - n) % Byte
           sum == 256 * hv + lv
<1>1. s0 \in 0 .. 255 /\ s1 \in 0 .. 255 /\ sp = 256 * s1 + s0 /\ e8 \in 0 .. 255
  BY BytesOf, SMT DEF Byte
<1> HIDE DEF s0, s1
<1> DEFINE c == Bit(k)
<1>2. /\ c = (IF s0 + e8 >= 256 THEN 1 ELSE 0) /\ c \in 0 .. 1
      /\ lv = s0 + e8 - 256 * c /\ lv \in 0 .. 255
  <2>1. lv = IF s0 + e8 < 256 THEN s0 + e8 ELSE s0 + e8 - 256
    BY <1>1 DEF Byte
  <2>2. k = (lv < s0)
    BY Zenon DEF check_add_overflow
  <2>3. k = (s0 + e8 >= 256)
    BY <1>1, <2>1, <2>2
  <2> HIDE DEF k, lv
  <2>4. c = (IF s0 + e8 >= 256 THEN 1 ELSE 0)
    BY <2>3, Zenon DEF Bit
  <2> HIDE DEF c
  <2>. QED
    BY <1>1, <2>1, <2>4
<1> HIDE DEF k, lv
<1>3. n \in 0 .. 1 /\ Signed(e8) = e8 - 256 * n
  BY <1>1 DEF Signed, Byte
<1> HIDE DEF n, c
<1> DEFINE t == s1 + c - n
<1>4. t \in -1 .. 256 /\ sp + Signed(e8) = 256 * t + lv
  BY <1>1, <1>2, <1>3
<1>5. hv = (IF t < 0 THEN t + 256 ELSE IF t < 256 THEN t ELSE t - 256) /\ hv \in 0 .. 255
  BY <1>4, ModByte DEF Byte, c
<1> HIDE DEF t, hv
<1>6. sum \in Int /\ 0 <= sum /\ sum < 65536
  BY <1>2, <1>5, SMTT(30)
<1>7. \E b \in {-1, 0, 1} : 256 * t + lv = 65536 * b + sum
  <2>1. CASE t < 0
    BY <1>2, <1>4, <1>5, <2>1
  <2>2. CASE t = 256
    BY <1>2, <1>4, <1>5, <2>2
  <2>3. CASE t \in 0 .. 255
    BY <1>2, <1>4, <1>5, <2>3
  <2>. QED
    BY <1>4, <2>1, <2>2, <2>3
<1>8. sum % 256 = lv /\ sum \div 256 = hv
  <2>1. lv \in 0 .. 255 /\ hv \in 0 .. 255
    BY <1>2, <1>5, Zenon
  <2>. QED
    BY <2>1
<1> HIDE DEF sum
<1>9. (256 * t + lv) % Word = sum
  <2>1. ASSUME NEW y \in Int, 0 <= y, y < 65536, NEW b \in {-1, 0, 1}
        PROVE  (65536 * b + y) % 65536 = y
    BY <2>1
  <2>. QED
    BY <1>6, <1>7, <2>1 DEF Word
<1>10. (sp + Signed(e8)) % Word = sum
  BY <1>4, <1>9, Zenon
<1>11. /\ ((sp + Signed(e8)) % Word) % Byte = lv
       /\ ((sp + Signed(e8)) % Word) \div Byte = hv
  BY <1>8, <1>10, Zenon DEF Byte
<1>. QED
  BY <1>11 DEF SignedOffsetCarries, add_sp, add_a, Result, s0, s1, k, c, n, lv, hv, t
================================================================================
