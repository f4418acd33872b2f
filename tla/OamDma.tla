-------------------------------- MODULE OamDma --------------------------------
(***************************************************************************)
(* graphics::oam_dma (graphics_oam.cppm), the transfer that fills the      *)
(* object attribute memory, with the bus policy that hides that memory     *)
(* while a transfer runs (dma_access_policy, graphics_memory.cppm).        *)
(*                                                                         *)
(* The engine thread owns all of it.  In every pass of the scheduler loop  *)
(* the CPU runs first and may write the DMA register or the OAM; the       *)
(* transfer is then advanced by one T-cycle (UnitBatch of module Timer).   *)
(* A byte of the OAM is represented by where it comes from: byte i of a    *)
(* page, or the program.                                                   *)
(***************************************************************************)
EXTENDS Integers

CONSTANTS
  OamSize,    (* 160 bytes.                                             *)
  Pages,      (* 0 .. 255: the values of the DMA register.              *)
  EchoPage,   (* 0xE0: pages from here on are not on the DMA's bus.     *)
  EchoOffset  (* 0x20: it reads this many pages below instead.          *)

ASSUME OamSizeAssumption == OamSize \in 1 .. 255   (* current_byte is a std::uint8_t *)
ASSUME PagesAssumption   == Pages \subseteq Nat /\ 0 \in Pages
ASSUME EchoAssumption    ==
  /\ EchoPage \in Nat /\ EchoOffset \in Nat
  /\ \A page \in Pages : page >= EchoPage => page - EchoOffset \in Pages

VARIABLES
  current_state,
  remaining_ticks_to_transfer_step,
  remaining_ticks_to_start_new_transfer,
  current_byte,
  active_start,        (* The page the running transfer copies.          *)
  last_written_start,  (* The page last written to the DMA register.     *)
  oam,
  ticks_since_access   (* T-cycles since the CPU last wrote here, up to  *)
                       (* LongGap; AccessGrid of module CpuRunner        *)

countdowns == <<remaining_ticks_to_transfer_step, remaining_ticks_to_start_new_transfer>>
vars == <<current_state, countdowns, current_byte, active_start, last_written_start, oam,
          ticks_since_access>>

MCycle     == 4
LongGap    == 2 * MCycle
StartDelay == 4
FirstStep  == 8
Bytes      == 0 .. OamSize - 1
Program    == -1   (* The origin of a byte no transfer wrote.           *)

is_transfer_active == current_state \in {"active", "restarting"}
active             == current_state # "inactive"

Min2(a, b) == IF a <= b THEN a ELSE b

(* What the component offers the scheduler while it is active. *)
tick_batch ==
  CASE current_state = "starting"   -> remaining_ticks_to_start_new_transfer
    [] current_state = "restarting" -> Min2(remaining_ticks_to_start_new_transfer,
                                            remaining_ticks_to_transfer_step)
    [] current_state = "active"     -> remaining_ticks_to_transfer_step

(* execute_transfer_step reads echo RAM and above through work RAM. *)
SourcePage(page) == IF page >= EchoPage THEN page - EchoOffset ELSE page

-----------------------------------------------------------------------------
CpuAccess ==
  /\ ticks_since_access \in {MCycle, LongGap}
  /\ ticks_since_access' = 0

(* Seeded fault: a restart is treated like a first start. *)
StartTransferAlwaysStarting(page) ==
  /\ CpuAccess
  /\ last_written_start' = page
  /\ current_state' = "starting"
  /\ remaining_ticks_to_start_new_transfer' = StartDelay
  /\ UNCHANGED <<remaining_ticks_to_transfer_step, current_byte, active_start, oam>>

(* start_transfer: a CPU write to the DMA register.  A running transfer    *)
(* goes on until the new one starts.                                       *)
StartTransfer(page) ==
  /\ CpuAccess
  /\ last_written_start' = page
  /\ current_state' = IF current_state = "active" THEN "restarting" ELSE "starting"
  /\ remaining_ticks_to_start_new_transfer' = StartDelay
  /\ UNCHANGED <<remaining_ticks_to_transfer_step, current_byte, active_start, oam>>

(* A CPU write to the OAM: dma_access_policy drops it while a transfer is  *)
(* active, and oam_access_policy in some modes of the PPU.                 *)
WriteOam(byte) ==
  /\ CpuAccess
  /\ ~is_transfer_active
  /\ oam' = [oam EXCEPT ![byte] = Program]
  /\ UNCHANGED <<current_state, countdowns, current_byte, active_start, last_written_start>>

-----------------------------------------------------------------------------
(* execute_transfer_step and the increment of current_byte; a write behind *)
(* the OAM is dropped by oam_memory_page.                                  *)
TransferStep ==
  /\ current_byte' = (current_byte + 1) % 256
  /\ IF current_byte \in Bytes
     THEN oam' = [oam EXCEPT ![current_byte] = SourcePage(active_start)]
     ELSE UNCHANGED oam

(* The new transfer starts; its first byte comes two M-cycles later.       *)
BeginTransfer ==
  /\ current_state' = "active"
  /\ current_byte' = 0
  /\ active_start' = last_written_start
  /\ remaining_ticks_to_transfer_step' = FirstStep

(* Seeded fault: the byte counter of the last transfer is kept. *)
HandleStartingKeepingByte ==
  /\ current_state = "starting"
  /\ remaining_ticks_to_start_new_transfer' = remaining_ticks_to_start_new_transfer - 1
  /\ IF remaining_ticks_to_start_new_transfer = 1
     THEN /\ current_state' = "active"
          /\ active_start' = last_written_start
          /\ remaining_ticks_to_transfer_step' = FirstStep
          /\ UNCHANGED current_byte
     ELSE UNCHANGED <<current_state, current_byte, active_start,
                      remaining_ticks_to_transfer_step>>
  /\ UNCHANGED <<last_written_start, oam>>

HandleStarting ==
  /\ current_state = "starting"
  /\ remaining_ticks_to_start_new_transfer' = remaining_ticks_to_start_new_transfer - 1
  /\ IF remaining_ticks_to_start_new_transfer = 1
     THEN BeginTransfer
     ELSE UNCHANGED <<current_state, current_byte, active_start,
                      remaining_ticks_to_transfer_step>>
  /\ UNCHANGED <<last_written_start, oam>>

(* The old transfer makes its step, then the new one may start and         *)
(* overwrites the counters.                                                *)
HandleRestarting ==
  /\ current_state = "restarting"
  /\ remaining_ticks_to_start_new_transfer' = remaining_ticks_to_start_new_transfer - 1
  /\ IF remaining_ticks_to_transfer_step = 1 /\ current_byte \in Bytes
     THEN oam' = [oam EXCEPT ![current_byte] = SourcePage(active_start)]
     ELSE UNCHANGED oam
  /\ \/ /\ remaining_ticks_to_start_new_transfer = 1
        /\ BeginTransfer
     \/ /\ remaining_ticks_to_start_new_transfer # 1
        /\ IF remaining_ticks_to_transfer_step = 1
           THEN /\ current_byte' = (current_byte + 1) % 256
                /\ remaining_ticks_to_transfer_step' = MCycle
           ELSE /\ remaining_ticks_to_transfer_step' = remaining_ticks_to_transfer_step - 1
                /\ UNCHANGED current_byte
        /\ UNCHANGED <<current_state, active_start>>
  /\ UNCHANGED last_written_start

(* Seeded fault: the transfer looks for its end only at the exact size,    *)
(* before the byte is counted.                                             *)
HandleActiveEndless ==
  /\ current_state = "active"
  /\ IF remaining_ticks_to_transfer_step = 1
     THEN /\ IF current_byte \in Bytes
             THEN oam' = [oam EXCEPT ![current_byte] = SourcePage(active_start)]
             ELSE UNCHANGED oam
          /\ current_byte' = (current_byte + 1) % OamSize
          /\ current_state' = IF current_byte >= OamSize THEN "inactive" ELSE "active"
          /\ remaining_ticks_to_transfer_step' = MCycle
     ELSE /\ remaining_ticks_to_transfer_step' = remaining_ticks_to_transfer_step - 1
          /\ UNCHANGED <<current_state, current_byte, oam>>
  /\ UNCHANGED <<active_start, last_written_start, remaining_ticks_to_start_new_transfer>>

HandleActive ==
  /\ current_state = "active"
  /\ IF remaining_ticks_to_transfer_step = 1
     THEN /\ TransferStep
          /\ current_state' = IF current_byte' >= OamSize THEN "inactive" ELSE "active"
          /\ remaining_ticks_to_transfer_step' = MCycle
     ELSE /\ remaining_ticks_to_transfer_step' = remaining_ticks_to_transfer_step - 1
          /\ UNCHANGED <<current_state, current_byte, oam>>
  /\ UNCHANGED <<active_start, last_written_start, remaining_ticks_to_start_new_transfer>>

(* oam_dma::tick(1), which the scheduler does not call while the component *)
(* is inactive; the T-cycle passes all the same.                           *)
Tick ==
  /\ \/ HandleStarting
     \/ HandleRestarting
     \/ HandleActive
     \/ ~active /\ UNCHANGED <<current_state, countdowns, current_byte, active_start,
                               last_written_start, oam>>
  /\ ticks_since_access' = Min2(LongGap, ticks_since_access + 1)

-----------------------------------------------------------------------------
(* The component at power on, and the OAM zeroed. *)
Init ==
  /\ current_state = "inactive"
  /\ remaining_ticks_to_transfer_step = 0
  /\ remaining_ticks_to_start_new_transfer = 0
  /\ current_byte = 0
  /\ active_start = 0
  /\ last_written_start = 0
  /\ oam = [byte \in Bytes |-> Program]
  /\ ticks_since_access = LongGap

Next ==
  \/ Tick
  \/ \E page \in Pages : StartTransfer(page)
  \/ \E byte \in Bytes : WriteOam(byte)

(* The scheduler loop never stops while the engine runs. *)
Spec == Init /\ [][Next]_vars /\ WF_vars(Tick)

-----------------------------------------------------------------------------
(* Types and bounds: both countdowns stay within the values the code sets  *)
(* them to, none wraps below zero (they are unsigned).                     *)
TypeOK ==
  /\ current_state \in {"inactive", "starting", "restarting", "active"}
  /\ remaining_ticks_to_transfer_step \in 0 .. FirstStep
  /\ remaining_ticks_to_start_new_transfer \in 0 .. StartDelay
  /\ current_byte \in 0 .. 255
  /\ active_start \in Pages
  /\ last_written_start \in Pages
  /\ oam \in [Bytes -> Pages \cup {Program}]
  /\ ticks_since_access \in 0 .. LongGap

(* start_transfer treats every state but active as a first start: called   *)
(* while restarting it would drop the running transfer and give the bus    *)
(* back with the OAM half copied.  The only thing that prevents it is that *)
(* the four T-cycles of a restart are over when the CPU can write again.   *)
StartsNeverOverlap ==
  ticks_since_access \in {MCycle, LongGap} => current_state \in {"inactive", "active"}

(* A transfer that is due a step has a byte of the OAM left to fill, also  *)
(* when a restart comes during its last byte: the counter is checked in    *)
(* handle_active only.                                                     *)
CopiesInRange ==
  is_transfer_active /\ remaining_ticks_to_transfer_step = 1 => current_byte \in Bytes

(* An active component offers the scheduler at least one T-cycle; a batch  *)
(* of zero would leave the loop of batch_schedule spinning for ever.       *)
PositiveBatch == active => tick_batch > 0

Hidden == -2   (* A byte the game cannot read.                          *)
NoPage == -1   (* No transfer is waiting to start.                      *)

VisibleOam == IF is_transfer_active THEN [byte \in Bytes |-> Hidden] ELSE oam
AskedPage  == IF current_state \in {"starting", "restarting"}
              THEN last_written_start ELSE NoPage

(* What a game sees of the OAM: nothing while a transfer is active, and    *)
(* after it the whole page that was asked for last.  No step gives the bus *)
(* back on a partial copy, whatever restarts came.                         *)
Contract == INSTANCE OamContract WITH
  visible <- VisibleOam,
  copying <- active_start,
  asked   <- AskedPage
ImplementsContract == Contract!Spec

(* A running transfer ends or is replaced; the CPU is not locked out of    *)
(* its bus for ever.                                                       *)
TransferEnds == current_state = "active" ~> current_state \in {"inactive", "restarting"}
==============================================================================
