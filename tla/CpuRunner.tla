------------------------------ MODULE CpuRunner ------------------------------
(***************************************************************************)
(* engine::cpu_runner (engine/cpu.cppm) with the interrupt controller, the *)
(* interrupt dispatcher and the instructions that touch IME, HALT and the  *)
(* program counter.                                                        *)
(*                                                                         *)
(* The scheduler advances the CPU one T-cycle at a time (the timer never   *)
(* offers a longer batch: UnitBatch of module Timer), so an action is one  *)
(* call of tick(1), or a request some other component raises.  What the    *)
(* memory holds is left open: any opcode may be fetched from any address.  *)
(***************************************************************************)
EXTENDS Integers

CONSTANTS
  PcMod,            (* 2^16: the program counter wraps at this number.  *)
  PageSize,         (* 2^8: what most_significant_byte divides by.      *)
  NumInterrupts,    (* 5.                                               *)
  handler_address,  (* The vector of every interrupt.                   *)
  Forever           (* 2^32 - 1: the cycles the halt state lasts.       *)

ASSUME PcModAssumption      == PcMod \in Nat \ {0, 1}
ASSUME PageSizeAssumption   == PageSize \in Nat \ {0}
ASSUME InterruptsAssumption == NumInterrupts \in Nat \ {0}

(* The interrupts, by falling priority. *)
Interrupts == 1 .. NumInterrupts

ASSUME HandlersAssumption   == handler_address \in [Interrupts -> 0 .. PcMod - 1]
ASSUME ForeverAssumption    == Forever \in Nat \ {0}

VARIABLES
  pc,
  ime,                       (* [enabled, ticks_until_enabled]            *)
  halt,                      (* [enabled, ime_flag_set]                   *)
  current_state,
  current_execution_cycle,
  remaining_cycles_in_state,
  current_opcode,
  current_interrupt,         (* None, or the interrupt being dispatched   *)
  interrupt_cancelled,
  requested,                 (* IF: the interrupts requested              *)
  enabled,                   (* IE: the interrupts enabled                *)
  stacked,                   (* The bytes the dispatch in progress has    *)
                             (* pushed, [msb, lsb]                        *)
  ticks_since_access,        (* T-cycles since the CPU last wrote to the  *)
                             (* bus, counted up to LongGap                *)
  upcoming                   (* History: where the opcode of the last     *)
                             (* instruction fetched was read, or, of a    *)
                             (* halted CPU, where the next one will be    *)

runner_vars    == <<current_state, current_execution_cycle, remaining_cycles_in_state,
                    current_opcode, upcoming>>
dispatch_vars  == <<current_interrupt, interrupt_cancelled, stacked>>
interrupt_vars == <<requested, enabled>>
vars == <<pc, ime, halt, runner_vars, dispatch_vars, interrupt_vars, ticks_since_access>>

Pc == 0 .. PcMod - 1

(* T-cycles in an M-cycle, and M-cycles in a dispatch. *)
MCycle    == 4
num_steps_dispatch == 4
LongGap   == 2 * MCycle
EiDelay   == 4
None      == 0
NoBytes   == [msb |-> 0, lsb |-> 0]

(* One opcode of every kind the runner, IME, HALT or the program counter   *)
(* can tell apart.  Every other instruction of opcodes/ differs from one   *)
(* of them in the number of its M-cycles and in data that is not modelled. *)
Opcodes == {"nop", "ld_hl_n8", "jp_n16", "call_n16", "ret", "reti",
            "ei", "di", "halt", "stop_n8", "prefix"}
PrefixedOpcodes == {"rlc_r8", "rlc_hl"}

num_steps(op) ==
  CASE op \in {"ld_hl_n8", "rlc_hl"}       -> 3
    [] op \in {"jp_n16", "ret", "reti"}    -> 4
    [] op = "call_n16"                     -> 6
    [] OTHER                               -> 1

-----------------------------------------------------------------------------
(* The interrupt controller. *)

is_any_pending == enabled \cap requested # {}

get_first_pending ==
  IF is_any_pending
  THEN CHOOSE i \in enabled \cap requested : \A j \in enabled \cap requested : i <= j
  ELSE None

(* request(), called by the PPU, the timer, the serial link and the joypad. *)
Request(i) ==
  /\ requested' = requested \cup {i}
  /\ UNCHANGED <<pc, ime, halt, runner_vars, dispatch_vars, enabled, ticks_since_access>>

(* A write of the CPU to the bus: it may reach IE or IF, whose five bits   *)
(* are set one by one from the byte written.                               *)
MemoryWrite ==
  \/ UNCHANGED interrupt_vars
  \/ enabled' \in SUBSET Interrupts /\ UNCHANGED requested
  \/ requested' \in SUBSET Interrupts /\ UNCHANGED enabled

-----------------------------------------------------------------------------
(* What step number step of an instruction does. *)

Reads(op, step) ==
  \/ op = "ld_hl_n8" /\ step = 1
  \/ op \in {"jp_n16", "call_n16"} /\ step \in {1, 2}
  \/ op = "stop_n8"

Jumps(op, step) ==
  \/ op \in {"jp_n16", "ret"} /\ step = 3
  \/ op = "call_n16" /\ step = 5
  \/ op = "reti" /\ step = 2

Writes(op, step) ==
  \/ op \in {"ld_hl_n8", "rlc_hl"} /\ step = 2
  \/ op = "call_n16" /\ step \in {4, 5}

(* The program counters an instruction step can leave: one further for an  *)
(* operand, anything for a jump, since its target comes from memory.       *)
PcAfter(op, step) ==
  IF Jumps(op, step) THEN Pc ELSE IF Reads(op, step) THEN {(pc + 1) % PcMod} ELSE {pc}

(* ei, di and reti, on the IME flag this tick has reached. *)
ImeAfter(op, step, flag) ==
  CASE op = "ei" /\ ~flag.enabled /\ flag.ticks_until_enabled = 0 ->
         [enabled |-> FALSE, ticks_until_enabled |-> EiDelay]
    [] op = "di" ->
         [enabled |-> FALSE, ticks_until_enabled |-> 0]
    [] op = "reti" /\ step = 0 ->
         [enabled |-> TRUE, ticks_until_enabled |-> 0]
    [] OTHER -> flag

HaltAfter(op, flag) ==
  IF op = "halt" THEN [enabled |-> TRUE, ime_flag_set |-> flag.enabled] ELSE halt

-----------------------------------------------------------------------------
(* The countdown ei starts, at the top of step(). *)
ImeNow ==
  CASE ime.ticks_until_enabled = 0 -> ime
    [] ime.ticks_until_enabled = 1 -> [enabled |-> TRUE, ticks_until_enabled |-> 0]
    [] OTHER -> [enabled |-> FALSE,
                 ticks_until_enabled |-> ime.ticks_until_enabled - 1]

(* The ticks of the access grid. *)
NoAccess == ticks_since_access' = IF ticks_since_access < LongGap
                                  THEN ticks_since_access + 1 ELSE LongGap
Access   == ticks_since_access' = 0

(* The opcode at address next is read, and its execution begins. *)
Fetch(next) ==
  /\ upcoming' = next
  /\ pc' = (next + 1) % PcMod
  /\ current_opcode' \in Opcodes
  /\ current_execution_cycle' = 0
  /\ \/ /\ current_opcode' = "prefix"
        /\ current_state' = "fetch_decode_prefixed"
        /\ remaining_cycles_in_state' = MCycle
     \/ /\ current_opcode' # "prefix"
        /\ current_state' = "execute"
        /\ remaining_cycles_in_state' = num_steps(current_opcode') * MCycle

(* handle_fetch_decode, entered without an overlapped fetch: at power on   *)
(* and after a dispatch.                                                   *)
FetchDecode ==
  /\ current_state = "fetch_decode"
  /\ \/ /\ remaining_cycles_in_state > 1
        /\ remaining_cycles_in_state' = remaining_cycles_in_state - 1
        /\ UNCHANGED <<pc, current_state, current_execution_cycle, current_opcode, upcoming>>
     \/ /\ remaining_cycles_in_state = 1
        /\ Fetch(pc)
  /\ ime' = ImeNow
  /\ NoAccess
  /\ UNCHANGED <<halt, dispatch_vars, interrupt_vars>>

(* handle_fetch_decode_prefixed. *)
FetchDecodePrefixed ==
  /\ current_state = "fetch_decode_prefixed"
  /\ \/ /\ remaining_cycles_in_state > 1
        /\ remaining_cycles_in_state' = remaining_cycles_in_state - 1
        /\ UNCHANGED <<pc, current_state, current_execution_cycle, current_opcode>>
     \/ /\ remaining_cycles_in_state = 1
        /\ pc' = (pc + 1) % PcMod
        /\ current_opcode' \in PrefixedOpcodes
        /\ current_state' = "execute_prefixed"
        /\ remaining_cycles_in_state' = num_steps(current_opcode') * MCycle
        /\ current_execution_cycle' = 0
  /\ ime' = ImeNow
  /\ NoAccess
  /\ UNCHANGED <<halt, dispatch_vars, interrupt_vars, upcoming>>

(* The dispatch of the first pending interrupt begins, and with it the     *)
(* first of its cycles.                                                    *)
BeginDispatch ==
  /\ current_state' = "interrupt"
  /\ current_execution_cycle' = 1
  /\ remaining_cycles_in_state' = (num_steps_dispatch * MCycle) - 1
  /\ current_interrupt' = get_first_pending
  /\ NoAccess
  /\ UNCHANGED <<current_opcode, interrupt_cancelled, stacked, interrupt_vars, upcoming>>

(* Seeded fault: only when every enabled interrupt has been requested. *)
PreemptedWhenAllRequested ==
  /\ current_state = "execute"
  /\ current_execution_cycle = 0
  /\ ImeNow.enabled
  /\ enabled # {} /\ enabled \subseteq requested

(* The head of handle_execute: an interrupt is taken only in the first     *)
(* cycle of an instruction that has no prefix.                             *)
Preempted ==
  /\ current_state = "execute"
  /\ current_execution_cycle = 0
  /\ ImeNow.enabled
  /\ is_any_pending

PreemptInstruction ==
  /\ Preempted
  /\ BeginDispatch
  /\ ime' = ImeNow
  /\ UNCHANGED <<pc, halt>>

-----------------------------------------------------------------------------
Executing == current_state \in {"execute", "execute_prefixed"} /\ ~Preempted

(* A cycle of handle_execute inside an M-cycle. *)
ExecuteCycle ==
  /\ Executing
  /\ (current_execution_cycle + 1) % MCycle # 0
  /\ current_execution_cycle' = current_execution_cycle + 1
  /\ remaining_cycles_in_state' = remaining_cycles_in_state - 1
  /\ ime' = ImeNow
  /\ NoAccess
  /\ UNCHANGED <<pc, halt, current_state, current_opcode, dispatch_vars, interrupt_vars,
                 upcoming>>

(* The cycle that completes an M-cycle runs a step of the instruction.     *)
(* After the last step the CPU halts, or the next opcode is read in the    *)
(* same cycle.                                                             *)
ExecuteStep ==
  LET op   == current_opcode
      step == ((current_execution_cycle + 1) \div MCycle) - 1
  IN  /\ Executing
      /\ (current_execution_cycle + 1) % MCycle = 0
      /\ ime' = ImeAfter(op, step, ImeNow)
      /\ halt' = HaltAfter(op, ImeNow)
      /\ IF Writes(op, step)
         THEN MemoryWrite /\ Access
         ELSE NoAccess /\ UNCHANGED interrupt_vars
      /\ \E next \in PcAfter(op, step) :
           \/ /\ remaining_cycles_in_state > 1
              /\ pc' = next
              /\ current_execution_cycle' = current_execution_cycle + 1
              /\ remaining_cycles_in_state' = remaining_cycles_in_state - 1
              /\ UNCHANGED <<current_state, current_opcode, upcoming>>
           \/ /\ remaining_cycles_in_state = 1
              /\ halt'.enabled
              /\ pc' = next
              /\ upcoming' = next
              /\ current_execution_cycle' = current_execution_cycle + 1
              /\ current_state' = "halt"
              /\ remaining_cycles_in_state' = Forever
              /\ UNCHANGED current_opcode
           \/ /\ remaining_cycles_in_state = 1
              /\ ~halt'.enabled
              /\ Fetch(next)
      /\ UNCHANGED dispatch_vars

-----------------------------------------------------------------------------
(* handle_halt with nothing pending. *)
Halted ==
  /\ current_state = "halt"
  /\ ~is_any_pending
  /\ ime' = ImeNow
  /\ NoAccess
  /\ UNCHANGED <<pc, halt, runner_vars, dispatch_vars, interrupt_vars>>

(* Seeded fault: the increment step 0 of the dispatch undoes is missing. *)
WakeToDispatchBehind ==
  /\ current_state = "halt"
  /\ is_any_pending
  /\ halt.ime_flag_set
  /\ halt' = [halt EXCEPT !.enabled = FALSE]
  /\ BeginDispatch
  /\ ime' = ImeNow
  /\ UNCHANGED pc

(* handle_halt with an interrupt pending, when IME was set as the CPU      *)
(* halted: the dispatch begins, and undoes the increment of the program    *)
(* counter an overlapped fetch would have made.                            *)
WakeToDispatch ==
  /\ current_state = "halt"
  /\ is_any_pending
  /\ halt.ime_flag_set
  /\ halt' = [halt EXCEPT !.enabled = FALSE]
  /\ pc' = (pc + 1) % PcMod
  /\ BeginDispatch
  /\ ime' = ImeNow

(* Seeded fault: without IME an interrupt does not end the halt state. *)
WakeToFetchMissing ==
  /\ current_state = "halt"
  /\ is_any_pending
  /\ ~halt.ime_flag_set
  /\ ime' = ImeNow
  /\ NoAccess
  /\ UNCHANGED <<pc, halt, runner_vars, dispatch_vars, interrupt_vars>>

(* handle_halt with an interrupt pending and IME clear: the next opcode is *)
(* read at once, in the cycle that leaves the halt state.                  *)
WakeToFetch ==
  /\ current_state = "halt"
  /\ is_any_pending
  /\ ~halt.ime_flag_set
  /\ halt' = [halt EXCEPT !.enabled = FALSE]
  /\ Fetch(pc)
  /\ ime' = ImeNow
  /\ NoAccess
  /\ UNCHANGED <<dispatch_vars, interrupt_vars>>

-----------------------------------------------------------------------------
(* interrupt_dispatcher::execute, one operator per step. *)

(* Seeded fault: the overlapped fetch is not undone. *)
AbandonFetchKept ==
  /\ interrupt_cancelled' = FALSE
  /\ ime' = [enabled |-> FALSE, ticks_until_enabled |-> 0]
  /\ NoAccess
  /\ UNCHANGED <<pc, current_interrupt, stacked, interrupt_vars>>

(* Step 0: IME is cleared, and the overlapped fetch undone. *)
AbandonFetch ==
  /\ interrupt_cancelled' = FALSE
  /\ ime' = [enabled |-> FALSE, ticks_until_enabled |-> 0]
  /\ pc' = (pc - 1) % PcMod
  /\ NoAccess
  /\ UNCHANGED <<current_interrupt, stacked, interrupt_vars>>

(* Step 1: the upper byte is pushed; if that write disabled the interrupt, *)
(* the dispatch is cancelled.                                              *)
PushUpper ==
  /\ MemoryWrite
  /\ interrupt_cancelled' = (current_interrupt \notin enabled')
  /\ stacked' = [stacked EXCEPT !.msb = pc \div PageSize]
  /\ Access
  /\ ime' = ImeNow
  /\ UNCHANGED <<pc, current_interrupt>>

(* Step 2: the lower byte is pushed. *)
PushLower ==
  /\ MemoryWrite
  /\ stacked' = [stacked EXCEPT !.lsb = pc % PageSize]
  /\ Access
  /\ ime' = ImeNow
  /\ UNCHANGED <<pc, current_interrupt, interrupt_cancelled>>

(* Step 3: a cancelled dispatch goes to the first interrupt pending now,   *)
(* or to address zero if there is none.                                    *)
JumpToHandler ==
  LET dispatched == IF interrupt_cancelled THEN get_first_pending ELSE current_interrupt
  IN  /\ IF dispatched = None
         THEN pc' = 0 /\ UNCHANGED requested
         ELSE /\ pc' = handler_address[dispatched]
              /\ requested' = requested \ {dispatched}
      /\ stacked' = NoBytes
      /\ NoAccess
      /\ ime' = ImeNow
      /\ UNCHANGED <<current_interrupt, interrupt_cancelled, enabled>>

DispatchStep(step) ==
  \/ step = 0 /\ AbandonFetch
  \/ step = 1 /\ PushUpper
  \/ step = 2 /\ PushLower
  \/ step = 3 /\ JumpToHandler

(* Seeded fault: a step runs in the first cycle of its M-cycle. *)
InterruptCycleEarly ==
  /\ current_state = "interrupt"
  /\ current_execution_cycle' = current_execution_cycle + 1
  /\ IF current_execution_cycle % MCycle = 0
     THEN DispatchStep(current_execution_cycle \div MCycle)
     ELSE NoAccess /\ ime' = ImeNow /\ UNCHANGED <<pc, dispatch_vars, interrupt_vars>>
  /\ \/ /\ remaining_cycles_in_state > 1
        /\ remaining_cycles_in_state' = remaining_cycles_in_state - 1
        /\ UNCHANGED current_state
     \/ /\ remaining_cycles_in_state = 1
        /\ current_state' = "fetch_decode"
        /\ remaining_cycles_in_state' = MCycle
  /\ UNCHANGED <<halt, current_opcode, upcoming>>

(* handle_interrupt. *)
InterruptCycle ==
  /\ current_state = "interrupt"
  /\ current_execution_cycle' = current_execution_cycle + 1
  /\ IF (current_execution_cycle + 1) % MCycle = 0
     THEN DispatchStep(((current_execution_cycle + 1) \div MCycle) - 1)
     ELSE NoAccess /\ ime' = ImeNow /\ UNCHANGED <<pc, dispatch_vars, interrupt_vars>>
  /\ \/ /\ remaining_cycles_in_state > 1
        /\ remaining_cycles_in_state' = remaining_cycles_in_state - 1
        /\ UNCHANGED current_state
     \/ /\ remaining_cycles_in_state = 1
        /\ current_state' = "fetch_decode"
        /\ remaining_cycles_in_state' = MCycle
  /\ UNCHANGED <<halt, current_opcode, upcoming>>

-----------------------------------------------------------------------------
(* The CPU at power on; the engine leaves the VBLANK interrupt requested.  *)
Init ==
  /\ pc \in Pc
  /\ ime = [enabled |-> FALSE, ticks_until_enabled |-> 0]
  /\ halt = [enabled |-> FALSE, ime_flag_set |-> FALSE]
  /\ current_state = "fetch_decode"
  /\ current_execution_cycle = 0
  /\ remaining_cycles_in_state = MCycle
  /\ current_opcode = "nop"
  /\ current_interrupt = None
  /\ interrupt_cancelled = FALSE
  /\ requested = {1}
  /\ enabled = {}
  /\ stacked = NoBytes
  /\ ticks_since_access = LongGap
  /\ upcoming = pc

(* cpu_runner::tick(1). *)
Tick ==
  \/ FetchDecode
  \/ FetchDecodePrefixed
  \/ PreemptInstruction
  \/ ExecuteCycle
  \/ ExecuteStep
  \/ Halted
  \/ WakeToDispatch
  \/ WakeToFetch
  \/ InterruptCycle

Next == Tick \/ \E i \in Interrupts : Request(i)

(* The scheduler loop never stops ticking the CPU while the engine runs.   *)
Spec == Init /\ [][Next]_vars /\ WF_vars(Tick)

-----------------------------------------------------------------------------
(* Type invariant: the registers keep their widths.                        *)
States == {"fetch_decode", "fetch_decode_prefixed", "execute", "execute_prefixed",
           "halt", "interrupt"}

TypeOK ==
  /\ pc \in Pc
  /\ ime \in [enabled: BOOLEAN, ticks_until_enabled: 0 .. EiDelay]
  /\ halt \in [enabled: BOOLEAN, ime_flag_set: BOOLEAN]
  /\ current_state \in States
  /\ current_execution_cycle \in 0 .. 6 * MCycle
  /\ remaining_cycles_in_state \in (1 .. 6 * MCycle) \cup {Forever}
  /\ current_opcode \in Opcodes \cup PrefixedOpcodes
  /\ current_interrupt \in Interrupts \cup {None}
  /\ interrupt_cancelled \in BOOLEAN
  /\ requested \subseteq Interrupts
  /\ enabled \subseteq Interrupts
  /\ stacked \in [msb: Nat, lsb: Nat]
  /\ ticks_since_access \in 0 .. LongGap
  /\ upcoming \in Pc

(* The two counters of the runner agree: together they span the            *)
(* instruction or the dispatch in progress, so that no step of it is run   *)
(* twice or skipped, and no step number is out of the range the            *)
(* instruction handles (std::unreachable).                                 *)
CountersAgree ==
  LET spent == current_execution_cycle
      left  == remaining_cycles_in_state
  IN  /\ current_state = "execute" =>
           /\ current_opcode \in Opcodes \ {"prefix"}
           /\ spent + left = num_steps(current_opcode) * MCycle
      /\ current_state = "execute_prefixed" =>
           /\ current_opcode \in PrefixedOpcodes
           /\ spent + left = num_steps(current_opcode) * MCycle
      /\ current_state = "interrupt" =>
           /\ spent + left = num_steps_dispatch * MCycle
           /\ current_interrupt # None
      /\ current_state \in {"fetch_decode", "fetch_decode_prefixed"} => left <= MCycle

(* The countdown ei starts ends exactly with the first M-cycle of the next *)
(* instruction: after the tick that could have taken an interrupt, and in  *)
(* time for the instruction itself to see IME set.                         *)
EiCountdownOnGrid ==
  LET left == ime.ticks_until_enabled
  IN  left > 0 =>
        /\ ~ime.enabled
        /\ \/ current_state = "execute" /\ current_execution_cycle + left = EiDelay
           \/ current_state = "fetch_decode_prefixed" /\ remaining_cycles_in_state = left

(* HALT decides by the copy of IME it took when it began how it will be    *)
(* left; the copy is never stale, not even right after ei.                 *)
HaltFlagFresh ==
  /\ halt.enabled <=> current_state = "halt"
  /\ current_state = "halt" =>
       /\ halt.ime_flag_set <=> ime.enabled
       /\ ime.ticks_until_enabled = 0

(* IME is clear from the second M-cycle of a dispatch until the handler's  *)
(* first instruction, so a dispatch is never interrupted by another, and   *)
(* set before that.                                                        *)
NoNestedDispatch ==
  /\ current_state = "interrupt" =>
       (ime.enabled <=> current_execution_cycle < MCycle)
  /\ current_state = "fetch_decode" =>
       ~ime.enabled /\ ime.ticks_until_enabled = 0

(* The program counter of the program, without the runner's lookahead: the *)
(* opcode of the next instruction is read in the last cycle of the one     *)
(* before.                                                                 *)
AheadByOne ==
  \/ current_state = "execute" /\ current_execution_cycle = 0
  \/ current_state = "interrupt" /\ current_execution_cycle < MCycle

ProgramPc == IF AheadByOne THEN (pc - 1) % PcMod ELSE pc

(* After the third M-cycle of a dispatch the stack holds the address of    *)
(* the instruction the interrupt came before: the one remembered when its  *)
(* opcode was read, or when the CPU halted, before the dispatch began and  *)
(* its step 0 took one from pc (interrupts_dispatch.cppm:36).              *)
StackedAddress == (stacked.msb * PageSize) + stacked.lsb

StackHoldsReturnAddress ==
  current_state = "interrupt" /\ current_execution_cycle >= 3 * MCycle =>
    StackedAddress = upcoming

(* The pc the runner enters a dispatch with: past the opcode it abandons.  *)
(* "Previous pc is push to stack when interrupt is dispatched"             *)
(* (interrupts_dispatch.test.cpp:74) expects this one on the stack; the    *)
(* dispatcher takes one from it first.                                     *)
GivenPc == (upcoming + 1) % PcMod

(* The CPU writes to the bus either exactly one M-cycle after its last     *)
(* write or much later.  The timer relies on it: no write reaches it       *)
(* within one of its two four-cycle windows but at their ends.             *)
AccessGrid ==
  [][Tick /\ ticks_since_access' = 0 =>
       ticks_since_access \in {MCycle - 1, LongGap - 1, LongGap}]_vars

(* The CPU keeps the promises of CpuContract.                              *)
Mode ==
  CASE current_state = "halt"      -> "halted"
    [] current_state = "interrupt" -> "dispatching"
    [] \/ current_state = "fetch_decode"
       \/ current_state = "execute" /\ current_execution_cycle = 0 -> "ready"
    [] OTHER                       -> "busy"

ImeMode ==
  IF ime.ticks_until_enabled > 0 THEN "arming"
  ELSE IF ime.enabled THEN "on" ELSE "off"

Contract == INSTANCE CpuContract
              WITH pc <- ProgramPc, mode <- Mode, ime <- ImeMode,
                   accepted <- current_interrupt
ImplementsContract == Contract!Spec

(* A halted CPU wakes up once an interrupt is pending, whether or not IME  *)
(* is set.                                                                 *)
HaltEnds == current_state = "halt" /\ is_any_pending ~> current_state # "halt"

(* A pending interrupt is taken, unless the program clears IME or the      *)
(* request; only a program that executes a prefixed instruction can put it *)
(* off further.                                                            *)
PendingIsTaken ==
  ime.enabled /\ is_any_pending ~>
    \/ current_state = "interrupt"
    \/ ~ime.enabled
    \/ ~is_any_pending
    \/ current_state = "execute_prefixed"

==============================================================================
