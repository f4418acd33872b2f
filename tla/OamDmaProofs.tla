----------------------------- MODULE OamDmaProofs -----------------------------
(***************************************************************************)
(* Proofs about OamDma, for every size of the OAM, set of pages and echo   *)
(* region that meets the assumptions of that module.                       *)
(***************************************************************************)
EXTENDS OamDma, TLAPS

(* A pending start is counted from the write that asked for it. *)
StartWindow ==
  current_state \in {"starting", "restarting"} =>
    /\ ticks_since_access + remaining_ticks_to_start_new_transfer = StartDelay
    /\ remaining_ticks_to_start_new_transfer >= 1

(* A running transfer is due its next byte, and the bytes before are       *)
(* copied.  While restarting the last byte may be done already; the next   *)
(* step is then further away than the new start.                           *)
Copied ==
  is_transfer_active =>
    /\ remaining_ticks_to_transfer_step >= 1
    /\ current_byte <= OamSize
    /\ \A byte \in Bytes : byte < current_byte => oam[byte] = SourcePage(active_start)

LastByte ==
  /\ current_state = "active" =>
       current_byte < OamSize /\ active_start = last_written_start
  /\ current_state = "restarting" /\ current_byte = OamSize =>
       remaining_ticks_to_transfer_step > remaining_ticks_to_start_new_transfer

IInv == TypeOK /\ StartWindow /\ Copied /\ LastByte

LEMMA SourcePageType == \A page \in Pages : SourcePage(page) \in Pages
  BY PagesAssumption, EchoAssumption DEF SourcePage

-----------------------------------------------------------------------------
LEMMA InitIInv == Init => IInv
  BY OamSizeAssumption, PagesAssumption
  DEF Init, IInv, TypeOK, StartWindow, Copied, LastByte, is_transfer_active, Program,
      FirstStep, StartDelay, LongGap, MCycle, Bytes

(* A write may come at the end of an M-cycle only, and a start is over by  *)
(* then.                                                                   *)
LEMMA NoPendingStartAtAccess ==
  ASSUME IInv, ticks_since_access \in {MCycle, LongGap}
  PROVE  current_state \in {"inactive", "active"}
  BY DEF IInv, TypeOK, StartWindow, MCycle, LongGap, StartDelay

LEMMA StartTransferKeepsIInv ==
  ASSUME IInv, NEW page \in Pages, StartTransfer(page)
  PROVE  IInv'
<1>1. current_state \in {"inactive", "active"}
  BY NoPendingStartAtAccess DEF StartTransfer, CpuAccess
<1>2. TypeOK'
  BY DEF IInv, TypeOK, StartTransfer, CpuAccess, StartDelay, FirstStep, LongGap, MCycle
<1>3. StartWindow'
  BY DEF StartWindow, StartTransfer, CpuAccess, StartDelay
<1>4. Copied'
  BY <1>1 DEF IInv, Copied, StartTransfer, is_transfer_active, SourcePage
<1>5. LastByte'
  BY <1>1, OamSizeAssumption DEF IInv, TypeOK, LastByte, StartTransfer
<1>6. QED
  BY <1>2, <1>3, <1>4, <1>5 DEF IInv

LEMMA WriteOamKeepsIInv ==
  ASSUME IInv, NEW byte \in Bytes, WriteOam(byte)
  PROVE  IInv'
<1>1. current_state = "inactive"
  BY NoPendingStartAtAccess DEF WriteOam, CpuAccess, is_transfer_active
<1>2. TypeOK'
  BY DEF IInv, TypeOK, WriteOam, CpuAccess, countdowns, LongGap, MCycle
<1>3. StartWindow' /\ Copied' /\ LastByte'
  BY <1>1 DEF WriteOam, StartWindow, Copied, LastByte, is_transfer_active
<1>4. QED
  BY <1>2, <1>3 DEF IInv

-----------------------------------------------------------------------------
LEMMA BeginTransferFacts ==
  ASSUME IInv, BeginTransfer, last_written_start' = last_written_start,
         remaining_ticks_to_start_new_transfer' = 0,
         ticks_since_access' \in 0 .. LongGap, oam' \in [Bytes -> Pages \cup {Program}]
  PROVE  IInv'
<1>1. TypeOK'
  BY DEF IInv, TypeOK, BeginTransfer, FirstStep, StartDelay
<1>2. StartWindow'
  BY DEF BeginTransfer, StartWindow
<1>3. Copied'
  BY OamSizeAssumption DEF BeginTransfer, Copied, FirstStep, Bytes
<1>4. LastByte'
  BY OamSizeAssumption DEF BeginTransfer, LastByte
<1>5. QED
  BY <1>1, <1>2, <1>3, <1>4 DEF IInv

(* The copy of one byte extends the part that is copied. *)
LEMMA CopyExtends ==
  ASSUME IInv, is_transfer_active, current_byte \in Bytes,
         oam' = [oam EXCEPT ![current_byte] = SourcePage(active_start)]
  PROVE  /\ oam' \in [Bytes -> Pages \cup {Program}]
         /\ \A byte \in Bytes :
              byte < current_byte + 1 => oam'[byte] = SourcePage(active_start)
<1>1. oam \in [Bytes -> Pages \cup {Program}] /\ active_start \in Pages
  BY DEF IInv, TypeOK
<1>2. oam' \in [Bytes -> Pages \cup {Program}]
  BY <1>1, SourcePageType
<1>3. ASSUME NEW byte \in Bytes, byte < current_byte + 1
      PROVE  oam'[byte] = SourcePage(active_start)
  <2>1. CASE byte = current_byte
    BY <1>1, <2>1
  <2>2. CASE byte # current_byte
    <3>1. byte < current_byte
      BY <1>3, <2>2 DEF Bytes
    <3>2. oam[byte] = SourcePage(active_start)
      BY <3>1 DEF IInv, Copied
    <3>3. QED
      BY <1>1, <2>2, <3>2
  <2>3. QED
    BY <2>1, <2>2
<1>4. QED
  BY <1>2, <1>3

LEMMA ClockFacts ==
  ASSUME IInv, ticks_since_access' = Min2(LongGap, ticks_since_access + 1)
  PROVE  /\ ticks_since_access' \in 0 .. LongGap
         /\ current_state \in {"starting", "restarting"} =>
              ticks_since_access' = ticks_since_access + 1
  BY DEF IInv, TypeOK, StartWindow, Min2, LongGap, MCycle, StartDelay

LEMMA HandleStartingKeepsIInv ==
  ASSUME IInv, HandleStarting, ticks_since_access' = Min2(LongGap, ticks_since_access + 1)
  PROVE  IInv'
<1>1. /\ current_state = "starting"
      /\ remaining_ticks_to_start_new_transfer' = remaining_ticks_to_start_new_transfer - 1
      /\ UNCHANGED <<last_written_start, oam>>
  BY DEF HandleStarting
<1>2. ticks_since_access' \in 0 .. LongGap /\ ticks_since_access' = ticks_since_access + 1
  BY <1>1, ClockFacts
<1>3. /\ ticks_since_access + remaining_ticks_to_start_new_transfer = StartDelay
      /\ remaining_ticks_to_start_new_transfer \in 1 .. StartDelay
  BY <1>1 DEF IInv, TypeOK, StartWindow, StartDelay
<1>4. CASE remaining_ticks_to_start_new_transfer = 1
  <2>1. BeginTransfer
    BY <1>4 DEF HandleStarting
  <2>2. QED
    BY <1>1, <1>2, <1>4, <2>1, BeginTransferFacts DEF IInv, TypeOK
<1>5. CASE remaining_ticks_to_start_new_transfer # 1
  <2>1. UNCHANGED <<current_state, current_byte, active_start, remaining_ticks_to_transfer_step>>
    BY <1>5 DEF HandleStarting
  <2>2. TypeOK'
    BY <1>1, <1>2, <1>3, <2>1 DEF IInv, TypeOK, StartDelay
  <2>3. StartWindow'
    BY <1>1, <1>2, <1>3, <1>5, <2>1 DEF IInv, TypeOK, StartWindow, StartDelay
  <2>4. Copied' /\ LastByte'
    BY <1>1, <2>1 DEF Copied, LastByte, is_transfer_active
  <2>5. QED
    BY <2>2, <2>3, <2>4 DEF IInv
<1>6. QED
  BY <1>4, <1>5

LEMMA HandleRestartingKeepsIInv ==
  ASSUME IInv, HandleRestarting, ticks_since_access' = Min2(LongGap, ticks_since_access + 1)
  PROVE  IInv'
<1>1. /\ current_state = "restarting"
      /\ is_transfer_active
      /\ remaining_ticks_to_start_new_transfer' = remaining_ticks_to_start_new_transfer - 1
      /\ UNCHANGED last_written_start
  BY DEF HandleRestarting, is_transfer_active
<1>2. ticks_since_access' \in 0 .. LongGap /\ ticks_since_access' = ticks_since_access + 1
  BY <1>1, ClockFacts
<1>3. /\ ticks_since_access + remaining_ticks_to_start_new_transfer = StartDelay
      /\ remaining_ticks_to_start_new_transfer \in 1 .. StartDelay
      /\ remaining_ticks_to_transfer_step \in 1 .. FirstStep
      /\ current_byte \in 0 .. OamSize
  BY <1>1, OamSizeAssumption
  DEF IInv, TypeOK, StartWindow, Copied, StartDelay, FirstStep
<1>4. remaining_ticks_to_transfer_step = 1 => current_byte \in Bytes
  BY <1>1, <1>3, OamSizeAssumption DEF IInv, LastByte, Bytes
<1>5. oam' \in [Bytes -> Pages \cup {Program}]
  <2>1. CASE remaining_ticks_to_transfer_step = 1 /\ current_byte \in Bytes
    BY <1>1, <2>1, CopyExtends DEF HandleRestarting
  <2>2. CASE ~(remaining_ticks_to_transfer_step = 1 /\ current_byte \in Bytes)
    BY <2>2 DEF HandleRestarting, IInv, TypeOK
  <2>3. QED
    BY <2>1, <2>2
<1>6. CASE remaining_ticks_to_start_new_transfer = 1
  <2>1. BeginTransfer
    BY <1>6 DEF HandleRestarting
  <2>2. QED
    BY <1>1, <1>2, <1>5, <1>6, <2>1, BeginTransferFacts
<1>7. CASE remaining_ticks_to_start_new_transfer # 1
  <2>1. UNCHANGED <<current_state, active_start>>
    BY <1>7 DEF HandleRestarting
  <2>2. CASE remaining_ticks_to_transfer_step = 1
    <3>1. /\ current_byte' = current_byte + 1
          /\ remaining_ticks_to_transfer_step' = MCycle
          /\ oam' = [oam EXCEPT ![current_byte] = SourcePage(active_start)]
      BY <1>3, <1>4, <1>7, <2>2, OamSizeAssumption DEF HandleRestarting, Bytes
    <3>2. TypeOK'
      BY <1>1, <1>2, <1>3, <1>4, <1>5, <2>1, <3>1, OamSizeAssumption
      DEF IInv, TypeOK, StartDelay, FirstStep, MCycle, Bytes
    <3>3. StartWindow'
      BY <1>1, <1>2, <1>3, <1>7, <2>1 DEF IInv, TypeOK, StartWindow, StartDelay
    <3>4. Copied'
      BY <1>1, <1>3, <1>4, <2>1, <2>2, <3>1, CopyExtends, OamSizeAssumption
      DEF Copied, MCycle, Bytes, SourcePage
    <3>5. LastByte'
      BY <1>1, <1>3, <2>1, <3>1 DEF LastByte, MCycle, StartDelay
    <3>6. QED
      BY <3>2, <3>3, <3>4, <3>5 DEF IInv
  <2>3. CASE remaining_ticks_to_transfer_step # 1
    <3>1. /\ remaining_ticks_to_transfer_step' = remaining_ticks_to_transfer_step - 1
          /\ UNCHANGED <<current_byte, oam>>
      BY <1>7, <2>3 DEF HandleRestarting
    <3>2. TypeOK'
      BY <1>1, <1>2, <1>3, <2>1, <2>3, <3>1 DEF IInv, TypeOK, StartDelay, FirstStep
    <3>3. StartWindow'
      BY <1>1, <1>2, <1>3, <1>7, <2>1 DEF IInv, TypeOK, StartWindow, StartDelay
    <3>4. Copied'
      BY <1>1, <1>3, <2>1, <2>3, <3>1
      DEF IInv, Copied, is_transfer_active, FirstStep, SourcePage
    <3>5. LastByte'
      BY <1>1, <1>3, <2>1, <3>1 DEF IInv, LastByte, FirstStep, StartDelay
    <3>6. QED
      BY <3>2, <3>3, <3>4, <3>5 DEF IInv
  <2>4. QED
    BY <2>2, <2>3
<1>8. QED
  BY <1>6, <1>7

LEMMA HandleActiveKeepsIInv ==
  ASSUME IInv, HandleActive, ticks_since_access' = Min2(LongGap, ticks_since_access + 1)
  PROVE  IInv'
<1>1. /\ current_state = "active"
      /\ is_transfer_active
      /\ UNCHANGED <<active_start, last_written_start, remaining_ticks_to_start_new_transfer>>
  BY DEF HandleActive, is_transfer_active
<1>2. ticks_since_access' \in 0 .. LongGap
  BY ClockFacts
<1>3. /\ remaining_ticks_to_transfer_step \in 1 .. FirstStep
      /\ current_byte \in Bytes
      /\ active_start = last_written_start
  BY <1>1, OamSizeAssumption DEF IInv, TypeOK, Copied, LastByte, FirstStep, Bytes
<1>4. CASE remaining_ticks_to_transfer_step = 1
  <2>1. /\ current_byte' = current_byte + 1
        /\ remaining_ticks_to_transfer_step' = MCycle
        /\ oam' = [oam EXCEPT ![current_byte] = SourcePage(active_start)]
        /\ current_state' = IF current_byte' >= OamSize THEN "inactive" ELSE "active"
    BY <1>3, <1>4, OamSizeAssumption DEF HandleActive, TransferStep, Bytes
  <2>2. TypeOK'
    BY <1>1, <1>2, <1>3, <2>1, CopyExtends, OamSizeAssumption
    DEF IInv, TypeOK, FirstStep, MCycle, Bytes
  <2>3. StartWindow'
    BY <2>1 DEF StartWindow
  <2>4. Copied'
    BY <1>1, <1>3, <2>1, CopyExtends, OamSizeAssumption DEF Copied, MCycle, Bytes, SourcePage
  <2>5. LastByte'
    BY <1>1, <1>3, <2>1, OamSizeAssumption DEF LastByte, Bytes
  <2>6. QED
    BY <2>2, <2>3, <2>4, <2>5 DEF IInv
<1>5. CASE remaining_ticks_to_transfer_step # 1
  <2>1. /\ remaining_ticks_to_transfer_step' = remaining_ticks_to_transfer_step - 1
        /\ UNCHANGED <<current_state, current_byte, oam>>
    BY <1>5 DEF HandleActive
  <2>2. TypeOK'
    BY <1>1, <1>2, <1>3, <1>5, <2>1 DEF IInv, TypeOK, FirstStep
  <2>3. StartWindow' /\ LastByte'
    BY <1>1, <1>3, <2>1 DEF IInv, StartWindow, LastByte
  <2>4. Copied'
    BY <1>1, <1>3, <1>5, <2>1 DEF IInv, Copied, is_transfer_active, FirstStep, SourcePage
  <2>5. QED
    BY <2>2, <2>3, <2>4 DEF IInv
<1>6. QED
  BY <1>4, <1>5

-----------------------------------------------------------------------------
(* The inductive invariant holds always. *)
THEOREM Invariance == Spec => []IInv
<1>1. ASSUME IInv, [Next]_vars PROVE IInv'
  <2>1. CASE Tick
    <3>1. ticks_since_access' = Min2(LongGap, ticks_since_access + 1)
      BY <2>1 DEF Tick
    <3>2. CASE HandleStarting
      BY <1>1, <3>1, <3>2, HandleStartingKeepsIInv
    <3>3. CASE HandleRestarting
      BY <1>1, <3>1, <3>3, HandleRestartingKeepsIInv
    <3>4. CASE HandleActive
      BY <1>1, <3>1, <3>4, HandleActiveKeepsIInv
    <3>5. CASE /\ ~active
               /\ UNCHANGED <<current_state, countdowns, current_byte, active_start,
                              last_written_start, oam>>
      <4>1. ticks_since_access' \in 0 .. LongGap
        BY <1>1, <3>1, ClockFacts
      <4>2. current_state = "inactive"
        BY <3>5 DEF active
      <4>3. TypeOK'
        BY <1>1, <3>5, <4>1 DEF IInv, TypeOK, countdowns
      <4>4. StartWindow' /\ Copied' /\ LastByte'
        BY <3>5, <4>2 DEF StartWindow, Copied, LastByte, is_transfer_active
      <4>5. QED
        BY <4>3, <4>4 DEF IInv
    <3>6. QED
      BY <2>1, <3>2, <3>3, <3>4, <3>5 DEF Tick
  <2>2. ASSUME NEW page \in Pages, StartTransfer(page) PROVE IInv'
    BY <1>1, <2>2, StartTransferKeepsIInv
  <2>3. ASSUME NEW byte \in Bytes, WriteOam(byte) PROVE IInv'
    BY <1>1, <2>3, WriteOamKeepsIInv
  <2>4. CASE UNCHANGED vars
    BY <1>1, <2>4
    DEF vars, countdowns, IInv, TypeOK, StartWindow, Copied, LastByte, is_transfer_active,
        SourcePage
  <2>5. QED
    BY <1>1, <2>1, <2>2, <2>3, <2>4 DEF Next
<1>2. QED
  BY <1>1, InitIInv, PTL DEF Spec

(* Every variable keeps its type; no countdown wraps below zero. *)
THEOREM TypeCorrect == Spec => []TypeOK
<1>1. IInv => TypeOK
  BY DEF IInv
<1>2. QED
  BY <1>1, Invariance, PTL

(* The CPU can write the DMA register only when no start is pending, so    *)
(* start_transfer never drops a running transfer.                          *)
THEOREM StartsAreOver == Spec => []StartsNeverOverlap
<1>1. IInv => StartsNeverOverlap
  BY NoPendingStartAtAccess DEF StartsNeverOverlap
<1>2. QED
  BY <1>1, Invariance, PTL

(* A step of a transfer, restarted or not, stays within the OAM. *)
THEOREM TransferStaysInOam == Spec => []CopiesInRange
<1>1. ASSUME IInv PROVE CopiesInRange
  BY <1>1, OamSizeAssumption
  DEF IInv, TypeOK, StartWindow, Copied, LastByte, CopiesInRange, is_transfer_active, Bytes
<1>2. QED
  BY <1>1, Invariance, PTL

(* The scheduler always advances. *)
THEOREM SchedulerAdvances == Spec => []PositiveBatch
<1>1. ASSUME IInv PROVE PositiveBatch
  BY <1>1
  DEF IInv, TypeOK, StartWindow, Copied, PositiveBatch, active, tick_batch, is_transfer_active,
      Min2, FirstStep, StartDelay
<1>2. QED
  BY <1>1, Invariance, PTL

-----------------------------------------------------------------------------
(* The refinement: what the game sees changes as the contract says. *)

LEMMA StartTransferRefines ==
  ASSUME IInv, NEW page \in Pages, StartTransfer(page)
  PROVE  Contract!Ask
<1>1. current_state \in {"inactive", "active"}
  BY NoPendingStartAtAccess DEF StartTransfer, CpuAccess
<1>2. AskedPage = NoPage /\ AskedPage' = page
  BY <1>1 DEF StartTransfer, AskedPage
<1>3. UNCHANGED <<VisibleOam, active_start>>
  BY <1>1 DEF StartTransfer, VisibleOam, is_transfer_active
<1>4. QED
  BY <1>2, <1>3 DEF Contract!Ask, Contract!NoPage, NoPage

(* A function with the values of a byte array is not the hidden OAM. *)
LEMMA OamIsNotHidden ==
  ASSUME IInv, ~is_transfer_active
  PROVE  VisibleOam = oam /\ oam # Contract!HiddenOam
<1>1. 0 \in Bytes
  BY OamSizeAssumption DEF Bytes
<1>2. oam[0] \in Pages \cup {Program}
  BY <1>1 DEF IInv, TypeOK
<1>3. oam[0] # -2
  BY <1>2, PagesAssumption DEF Program
<1>4. Contract!HiddenOam[0] = -2
  BY <1>1 DEF Contract!HiddenOam, Contract!Hidden, Contract!Bytes, Bytes
<1>5. QED
  BY <1>3, <1>4 DEF VisibleOam

LEMMA WriteOamRefines ==
  ASSUME IInv, NEW byte \in Bytes, WriteOam(byte)
  PROVE  Contract!Write
<1>1. ~is_transfer_active /\ ~is_transfer_active'
  BY DEF WriteOam, is_transfer_active
<1>2. VisibleOam = oam /\ VisibleOam # Contract!HiddenOam /\ VisibleOam' = oam'
  BY <1>1, OamIsNotHidden DEF VisibleOam
<1>3. oam' = [oam EXCEPT ![byte] = Program]
  BY DEF WriteOam
<1>4. UNCHANGED <<active_start, AskedPage>>
  BY DEF WriteOam, AskedPage
<1>5. QED
  BY <1>2, <1>3, <1>4
  DEF Contract!Write, Contract!Bytes, Contract!Program, Bytes, Program

(* The start of a transfer hides the OAM, which may be hidden already. *)
LEMMA BeginTransferRefines ==
  ASSUME IInv, BeginTransfer, current_state \in {"starting", "restarting"}
  PROVE  Contract!Begin
<1>1. AskedPage = last_written_start /\ AskedPage' = NoPage
  BY DEF BeginTransfer, AskedPage
<1>2. last_written_start # NoPage
  BY PagesAssumption DEF IInv, TypeOK, NoPage
<1>3. VisibleOam' = Contract!HiddenOam
  BY DEF BeginTransfer, VisibleOam, is_transfer_active, Contract!HiddenOam,
         Contract!Hidden, Hidden, Contract!Bytes, Bytes
<1>4. QED
  BY <1>1, <1>2, <1>3 DEF BeginTransfer, Contract!Begin, Contract!NoPage, NoPage

LEMMA HandleStartingRefines ==
  ASSUME IInv, HandleStarting
  PROVE  Contract!Next \/ UNCHANGED Contract!vars
<1>1. CASE remaining_ticks_to_start_new_transfer = 1
  BY <1>1, BeginTransferRefines DEF HandleStarting, Contract!Next
<1>2. CASE remaining_ticks_to_start_new_transfer # 1
  BY <1>2 DEF HandleStarting, Contract!vars, VisibleOam, AskedPage, is_transfer_active
<1>3. QED
  BY <1>1, <1>2

LEMMA HandleRestartingRefines ==
  ASSUME IInv, HandleRestarting
  PROVE  Contract!Next \/ UNCHANGED Contract!vars
<1>1. CASE remaining_ticks_to_start_new_transfer = 1
  BY <1>1, BeginTransferRefines DEF HandleRestarting, Contract!Next
<1>2. CASE remaining_ticks_to_start_new_transfer # 1
  BY <1>2 DEF HandleRestarting, Contract!vars, VisibleOam, AskedPage, is_transfer_active
<1>3. QED
  BY <1>1, <1>2

LEMMA HandleActiveRefines ==
  ASSUME IInv, HandleActive
  PROVE  Contract!Next \/ UNCHANGED Contract!vars
<1>1. current_state = "active" /\ is_transfer_active
  BY DEF HandleActive, is_transfer_active
<1>2. current_state' \in {"active", "inactive"}
  BY <1>1 DEF HandleActive
<1>3. CASE current_state' = "active"
  BY <1>1, <1>3 DEF HandleActive, Contract!vars, VisibleOam, AskedPage, is_transfer_active
<1>4. CASE current_state' = "inactive"
  <2>1. /\ remaining_ticks_to_transfer_step = 1
        /\ TransferStep
        /\ current_byte' >= OamSize
        /\ UNCHANGED <<active_start, last_written_start>>
    BY <1>1, <1>4 DEF HandleActive
  <2>2. current_byte \in Bytes /\ current_byte' = current_byte + 1
    BY <1>1, <2>1, OamSizeAssumption DEF IInv, TypeOK, LastByte, TransferStep, Bytes
  <2>3. oam' = [oam EXCEPT ![current_byte] = SourcePage(active_start)]
    BY <2>1, <2>2 DEF TransferStep
  <2>4. current_byte + 1 >= OamSize
    BY <2>1, <2>2
  <2>5. \A byte \in Bytes : oam'[byte] = SourcePage(active_start)
    BY <1>1, <2>2, <2>3, <2>4, CopyExtends, OamSizeAssumption DEF Bytes
  <2>6. oam' \in [Bytes -> Pages \cup {Program}]
    BY <1>1, <2>2, <2>3, CopyExtends
  <2>7. oam' = [byte \in Bytes |-> SourcePage(active_start)]
    BY <2>5, <2>6
  <2>8. oam' = Contract!CopyOf(active_start)
    BY <2>7 DEF Contract!CopyOf, Contract!Bytes, Bytes, SourcePage
  <2>9. VisibleOam = Contract!HiddenOam /\ VisibleOam' = oam'
    BY <1>1, <1>4 DEF VisibleOam, is_transfer_active, Contract!HiddenOam, Contract!Hidden,
                      Hidden, Contract!Bytes, Bytes
  <2>10. AskedPage = NoPage /\ AskedPage' = NoPage
    BY <1>1, <1>4 DEF AskedPage
  <2>11. Contract!Finish
    BY <2>1, <2>8, <2>9, <2>10 DEF Contract!Finish, Contract!NoPage, NoPage
  <2>12. QED
    BY <2>11 DEF Contract!Next
<1>5. QED
  BY <1>2, <1>3, <1>4

(* OAM DMA implements its contract: a page asked for becomes visible as a  *)
(* whole or not at all, with any number of restarts.                       *)
THEOREM OamDmaImplementsContract == Spec => ImplementsContract
<1>1. Init => Contract!Init
  BY DEF Init, Contract!Init, VisibleOam, AskedPage, is_transfer_active, NoPage,
         Contract!NoPage, Contract!Bytes, Bytes, Contract!Program, Program
<1>2. IInv /\ [Next]_vars => [Contract!Next]_(Contract!vars)
  <2>1. SUFFICES ASSUME IInv, [Next]_vars
                 PROVE  Contract!Next \/ UNCHANGED Contract!vars
    OBVIOUS
  <2>2. CASE HandleStarting \/ HandleRestarting \/ HandleActive
    BY <2>1, <2>2, HandleStartingRefines, HandleRestartingRefines, HandleActiveRefines
  <2>3. ASSUME NEW page \in Pages, StartTransfer(page) PROVE Contract!Next
    BY <2>1, <2>3, StartTransferRefines DEF Contract!Next
  <2>4. ASSUME NEW byte \in Bytes, WriteOam(byte) PROVE Contract!Next
    BY <2>1, <2>4, WriteOamRefines DEF Contract!Next
  <2>5. CASE UNCHANGED <<current_state, countdowns, current_byte, active_start,
                         last_written_start, oam>>
    BY <2>5 DEF Contract!vars, VisibleOam, AskedPage, is_transfer_active
  <2>6. QED
    BY <2>1, <2>2, <2>3, <2>4, <2>5 DEF Next, Tick, vars
<1>3. QED
  BY <1>1, <1>2, Invariance, PTL DEF Spec, ImplementsContract, Contract!Spec
==============================================================================
