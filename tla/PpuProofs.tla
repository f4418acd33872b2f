------------------------------- MODULE PpuProofs -------------------------------
(***************************************************************************)
(* Proofs about Ppu for every number of dots and lines, every length of    *)
(* the drawing mode within its bounds, and every set of LYC values: its    *)
(* invariants, and that it implements LcdContract.                         *)
(***************************************************************************)
EXTENDS Ppu, TLAPS

(* Where each mode lies in the line and in the frame, and where the        *)
(* position waits while the LCD is off.                                    *)
Placed ==
  /\ current_mode = "oam_scan" =>
       scanline_cycle < OamDots /\ current_scanline < VisibleLines
  /\ current_mode = "drawing" =>
       /\ OamDots <= scanline_cycle /\ scanline_cycle < OamDots + MaxDraw
       /\ current_scanline < VisibleLines
  /\ current_mode = "h_blank" =>
       OamDots + MinDraw <= scanline_cycle /\ current_scanline < VisibleLines
  /\ current_mode = "v_blank" => VisibleLines <= current_scanline
  /\ ~enabled => current_mode = "oam_scan" /\ scanline_cycle = OnCycle
  /\ initial_state_after_on => current_mode = "oam_scan"

(* A line that has raised the STAT line for LYC is LYC or is past it, and  *)
(* it is past it once the STAT line has fallen.                            *)
LycCounted ==
  /\ ~enabled => lyc_requests = 0
  /\ interrupt_sources = {"lyc_select"} =>
       /\ lyc_requests <= 1
       /\ lyc_requests = 1 => scanline_compare <= scanline
       /\ lyc_requests = 1 /\ ~stat_line => scanline_compare < scanline

IInv == TypeOK /\ Placed /\ StatLineFresh /\ LycCounted

USE DotsAssumption, LinesAssumption, LycAssumption DEF EarlyLy, OnCycle, NoLine

-----------------------------------------------------------------------------
LEMMA InitIsPlaced == Init => IInv
<1> SUFFICES ASSUME Init PROVE IInv
  OBVIOUS
<1>1. TypeOK
  <2>1. 0 \in 0 .. Lines - 1 /\ 0 \in 0 .. LineDots - 1
    OBVIOUS
  <2>2. enabled \in BOOLEAN /\ stat_line \in BOOLEAN /\ initial_state_after_on \in BOOLEAN
    BY DEF Init
  <2>3. latched_ly_lyc_bit \in BOOLEAN
    BY DEF Init
  <2>4. requested \subseteq Interrupts
    BY DEF Init, Interrupts
  <2>5. QED
    BY <2>1, <2>2, <2>3, <2>4 DEF Init, TypeOK, Modes, Sources, Interrupts
<1>2. Placed
  BY DEF Init, Placed
<1>3. StatLineFresh
  <2>1. ~StatCondition
    BY DEF Init, StatCondition
  <2>2. QED
    BY <2>1 DEF Init, StatLineFresh
<1>4. LycCounted
  BY DEF Init, LycCounted
<1>5. QED
  BY <1>1, <1>2, <1>3, <1>4 DEF IInv

(* What update_stat_line leaves. *)
LEMMA UpdatedLine ==
  ASSUME NEW others, others \subseteq Interrupts, TypeOK, update_stat_line(others)
  PROVE  /\ requested' \subseteq Interrupts
         /\ stat_line' \in BOOLEAN
         /\ enabled' => (stat_line' <=> StatCondition')
         /\ ~enabled' => stat_line' = stat_line
<1>1. CASE enabled'
  <2>1. stat_line' = StatCondition'
    BY <1>1 DEF update_stat_line
  <2>2. StatCondition' \in BOOLEAN
    BY DEF StatCondition
  <2>3. requested' \subseteq Interrupts
    BY <1>1 DEF update_stat_line, Interrupts
  <2>4. QED
    BY <1>1, <2>1, <2>2, <2>3
<1>2. CASE ~enabled'
  BY <1>2 DEF update_stat_line, TypeOK
<1>3. QED
  BY <1>1, <1>2

(* What the condition depends on besides LYC and the sources. *)
LEMMA SameCondition ==
  ASSUME UNCHANGED <<settings, current_mode, current_scanline>>, scanline' = scanline
  PROVE  StatCondition' = StatCondition
BY DEF StatCondition, settings

(* A step that updates the STAT line leaves it fresh. *)
LEMMA UpdatedIsFresh ==
  ASSUME NEW others, others \subseteq Interrupts, TypeOK, update_stat_line(others)
  PROVE  StatLineFresh'
BY UpdatedLine DEF StatLineFresh

LEMMA CountIsTyped == ASSUME TypeOK, CountLyc PROVE lyc_requests' \in 0 .. 2
BY DEF CountLyc, TypeOK

(* Whatever a step does to the STAT line, it is fresh or as it was, and    *)
(* LY has gone on in between unless the count begins again.                *)
LEMMA LycStaysCounted ==
  ASSUME TypeOK, LycCounted, CountLyc,
         stat_line' \in BOOLEAN, enabled' \in BOOLEAN, scanline' \in Nat,
         scanline_compare' \in Nat,
         stat_line' = stat_line \/ (enabled' /\ (stat_line' <=> StatCondition')),
         \/ settings' # settings \/ enabled' # enabled
         \/ current_scanline' < current_scanline \/ scanline <= scanline'
  PROVE  LycCounted'
<1> DEFINE rise  == ~stat_line /\ stat_line'
           fresh == \/ settings' # settings \/ enabled' # enabled
                    \/ current_scanline' < current_scanline
<1>1. /\ stat_line \in BOOLEAN /\ enabled \in BOOLEAN /\ lyc_requests \in 0 .. 2
      /\ scanline_compare \in Nat /\ scanline \in Nat
  BY DEF TypeOK, scanline
<1>2. CASE fresh
  <2>1. lyc_requests' = IF rise THEN 1 ELSE 0
    BY <1>2 DEF CountLyc
  <2>2. rise => enabled' /\ StatCondition'
    BY <1>1
  <2>3. interrupt_sources' = {"lyc_select"} /\ StatCondition' => scanline_compare' = scanline'
    BY DEF StatCondition
  <2>4. QED
    BY <2>1, <2>2, <2>3 DEF LycCounted
<1>3. CASE ~fresh
  <2>1. /\ settings' = settings /\ enabled' = enabled
        /\ scanline <= scanline'
    BY <1>3
  <2>2. lyc_requests' = IF lyc_requests + (IF rise THEN 1 ELSE 0) > 2 THEN 2
                        ELSE lyc_requests + (IF rise THEN 1 ELSE 0)
    BY <1>3 DEF CountLyc
  <2>3. CASE ~enabled
    <3>1. ~rise /\ lyc_requests = 0
      BY <1>1, <2>1, <2>3 DEF LycCounted
    <3>2. lyc_requests' = 0
      BY <2>2, <3>1
    <3>3. QED
      BY <3>2 DEF LycCounted
  <2>4. CASE enabled
    <3>1. SUFFICES ASSUME interrupt_sources' = {"lyc_select"}
                   PROVE  /\ lyc_requests' <= 1
                          /\ lyc_requests' = 1 => scanline_compare' <= scanline'
                          /\ lyc_requests' = 1 /\ ~stat_line' => scanline_compare' < scanline'
      BY <2>1, <2>4 DEF LycCounted
    <3>2. interrupt_sources = {"lyc_select"} /\ scanline_compare' = scanline_compare
      BY <2>1, <3>1 DEF settings
    <3>3. /\ lyc_requests <= 1
          /\ lyc_requests = 1 => scanline_compare <= scanline
          /\ lyc_requests = 1 /\ ~stat_line => scanline_compare < scanline
      BY <3>2 DEF LycCounted
    <3>4. StatCondition' <=> scanline' = scanline_compare
      BY <3>1, <3>2 DEF StatCondition
    <3>5. CASE rise
      <4>1. scanline' = scanline_compare
        BY <1>1, <3>4, <3>5
      <4>2. lyc_requests = 0
        BY <1>1, <2>1, <3>3, <3>5, <4>1
      <4>3. QED
        BY <2>2, <3>2, <3>5, <4>1, <4>2
    <3>6. CASE ~rise
      <4>1. lyc_requests' = lyc_requests
        BY <1>1, <2>2, <3>6
      <4>2. lyc_requests = 1 => scanline_compare <= scanline'
        BY <1>1, <2>1, <3>3
      <4>3. ASSUME lyc_requests = 1, ~stat_line' PROVE scanline_compare < scanline'
        <5>1. CASE stat_line
          <6>1. scanline' # scanline_compare
            BY <3>4, <4>3, <5>1
          <6>2. QED
            BY <1>1, <4>2, <4>3, <6>1
        <5>2. CASE ~stat_line
          BY <1>1, <2>1, <3>3, <4>3, <5>2
        <5>3. QED
          BY <5>1, <5>2
      <4>4. QED
        BY <3>2, <3>3, <4>1, <4>2, <4>3
    <3>7. QED
      BY <3>5, <3>6
  <2>5. QED
    BY <1>1, <2>3, <2>4
<1>4. QED
  BY <1>2, <1>3

(* What every step keeps follows from the parts a step is about: the types *)
(* of the position and of the STAT line, the places, and how LY moved.     *)
Keeps ==
  /\ TypeOK' /\ Placed' /\ StatLineFresh'
  /\ stat_line' = stat_line \/ (enabled' /\ (stat_line' <=> StatCondition'))
  /\ \/ settings' # settings \/ enabled' # enabled
     \/ current_scanline' < current_scanline \/ scanline <= scanline'

LEMMA KeptIsInductive == ASSUME IInv, CountLyc, Keeps PROVE IInv'
<1>1. /\ stat_line' \in BOOLEAN /\ enabled' \in BOOLEAN
  BY DEF Keeps, TypeOK
<1>2. scanline' \in Nat /\ scanline_compare' \in Nat
  <2>1. scanline_compare' \in Nat
    BY DEF Keeps, TypeOK
  <2>2. current_scanline' \in Nat
    BY DEF Keeps, TypeOK
  <2>3. scanline' = current_scanline' \/ scanline' = current_scanline' + 1
    BY DEF scanline
  <2>4. QED
    BY <2>1, <2>2, <2>3
<1>3. LycCounted'
  BY <1>1, <1>2, LycStaysCounted DEF IInv, Keeps
<1>4. QED
  BY <1>3 DEF IInv, Keeps

LEMMA ScanOamKeepsIInv ==
  ASSUME IInv, CountLyc, NEW n \in 1 .. tick_batch, enabled, HandleScanOam(n),
         latched_ly_lyc_bit' = latched_ly_lyc_bit
  PROVE  Keeps
<1>1. /\ current_mode = "oam_scan" /\ current_scanline < VisibleLines
      /\ current_scanline \in 0 .. Lines - 1 /\ scanline_cycle \in 0 .. LineDots - 1
      /\ n \in Nat \ {0} /\ scanline_cycle + n <= OamDots
  BY DEF HandleScanOam, IInv, TypeOK, Placed, tick_batch
<1>2. /\ scanline_cycle' = scanline_cycle + n /\ UNCHANGED <<enabled, settings, current_scanline>>
      /\ current_mode' = IF scanline_cycle' >= OamDots THEN "drawing" ELSE "oam_scan"
  BY <1>1 DEF HandleScanOam
<1>3. scanline' = scanline /\ scanline \in Nat
  BY <1>1, <1>2 DEF scanline
<1>4. /\ stat_line' = stat_line \/ (enabled' /\ (stat_line' <=> StatCondition'))
      /\ stat_line' \in BOOLEAN /\ requested' \subseteq Interrupts /\ StatLineFresh'
  <2>1. CASE scanline_cycle' >= OamDots
    <3>1. requested \subseteq Interrupts /\ update_stat_line(requested)
      BY <2>1 DEF HandleScanOam, IInv, TypeOK
    <3>2. QED
      BY <1>2, <3>1, UpdatedLine DEF IInv, StatLineFresh
  <2>2. CASE ~(scanline_cycle' >= OamDots)
    <3>1. UNCHANGED <<stat_line, requested, settings, current_mode, current_scanline>>
      BY <1>1, <1>2, <2>2 DEF HandleScanOam
    <3>2. StatCondition' = StatCondition
      BY <1>3, <3>1, SameCondition
    <3>3. StatLineFresh'
      BY <1>1, <1>2, <3>1, <3>2 DEF IInv, StatLineFresh, InEarlyLy
    <3>4. QED
      BY <3>1, <3>3 DEF IInv, TypeOK
  <2>3. QED
    BY <2>1, <2>2
<1>5. TypeOK'
  <2>1. scanline_cycle' \in 0 .. LineDots - 1 /\ current_mode' \in Modes
    BY <1>1, <1>2 DEF Modes
  <2>2. initial_state_after_on' \in BOOLEAN
    BY <1>2 DEF HandleScanOam, IInv, TypeOK
  <2>3. screen' = screen
    BY DEF HandleScanOam
  <2>4. lyc_requests' \in 0 .. 2
    BY CountIsTyped DEF IInv
  <2>5. QED
    BY <1>2, <1>4, <2>1, <2>2, <2>3, <2>4 DEF IInv, TypeOK, settings
<1>6. Placed'
  <2>1. current_mode' # "oam_scan" => ~initial_state_after_on'
    BY <1>2 DEF HandleScanOam
  <2>2. QED
    BY <1>1, <1>2, <2>1 DEF Placed
<1>7. QED
  BY <1>3, <1>4, <1>5, <1>6 DEF Keeps

LEMMA DrawKeepsIInv ==
  ASSUME IInv, CountLyc, enabled, HandleDraw, latched_ly_lyc_bit' = latched_ly_lyc_bit
  PROVE  Keeps
<1>1. /\ current_mode = "drawing" /\ current_scanline < VisibleLines
      /\ current_scanline \in 0 .. Lines - 1 /\ scanline_cycle \in 0 .. LineDots - 1
      /\ OamDots <= scanline_cycle /\ scanline_cycle < OamDots + MaxDraw
  BY DEF HandleDraw, IInv, TypeOK, Placed
<1>2. /\ scanline_cycle' = scanline_cycle + 1
      /\ UNCHANGED <<enabled, settings, current_scanline, initial_state_after_on, screen>>
      /\ \/ current_mode' = "drawing" /\ scanline_cycle' < OamDots + MaxDraw
         \/ current_mode' = "h_blank" /\ scanline_cycle' >= OamDots + MinDraw
  BY <1>1 DEF HandleDraw
<1>3. scanline' = scanline /\ scanline \in Nat
  BY <1>1, <1>2 DEF scanline
<1>4. /\ stat_line' = stat_line \/ (enabled' /\ (stat_line' <=> StatCondition'))
      /\ stat_line' \in BOOLEAN /\ requested' \subseteq Interrupts /\ StatLineFresh'
  <2>1. requested \subseteq Interrupts /\ stat_line \in BOOLEAN /\ TypeOK
    BY DEF IInv, TypeOK
  <2>2. CASE update_stat_line(requested)
    BY <1>2, <2>1, <2>2, UpdatedLine DEF StatLineFresh
  <2>3. CASE UNCHANGED <<current_mode, stat_line, requested>>
    <3>1. StatCondition' = StatCondition
      BY <1>2, <1>3, <2>3, SameCondition
    <3>2. StatLineFresh'
      BY <1>1, <1>2, <2>3, <3>1 DEF IInv, StatLineFresh, InEarlyLy
    <3>3. QED
      BY <2>1, <2>3, <3>2
  <2>4. QED
    BY <2>2, <2>3 DEF HandleDraw
<1>5. TypeOK'
  <2>1. scanline_cycle' \in 0 .. LineDots - 1 /\ current_mode' \in Modes
    BY <1>1, <1>2 DEF Modes
  <2>2. lyc_requests' \in 0 .. 2
    BY CountIsTyped DEF IInv
  <2>3. QED
    BY <1>2, <1>4, <2>1, <2>2 DEF IInv, TypeOK, settings
<1>6. Placed'
  <2>1. ~initial_state_after_on
    BY <1>1 DEF IInv, Placed
  <2>2. QED
    BY <1>1, <1>2, <2>1 DEF Placed
<1>7. QED
  BY <1>3, <1>4, <1>5, <1>6 DEF Keeps

LEMMA HBlankKeepsIInv ==
  ASSUME IInv, CountLyc, NEW n \in 1 .. tick_batch, enabled, HandleHBlank(n),
         latched_ly_lyc_bit' = latched_ly_lyc_bit
  PROVE  Keeps
<1>1. /\ current_mode = "h_blank" /\ current_scanline < VisibleLines
      /\ current_scanline \in 0 .. Lines - 1 /\ scanline_cycle \in 0 .. LineDots - 1
      /\ OamDots + MinDraw <= scanline_cycle
      /\ n \in Nat \ {0} /\ scanline_cycle + n <= LineDots
  BY DEF HandleHBlank, IInv, TypeOK, Placed, tick_batch
<1>2. /\ UNCHANGED <<enabled, settings, initial_state_after_on>>
      /\ TypeOK /\ requested \subseteq Interrupts /\ ~initial_state_after_on
  BY <1>1 DEF HandleHBlank, IInv, TypeOK, Placed
<1>3. lyc_requests' \in 0 .. 2
  BY <1>2, CountIsTyped
<1>4. CASE scanline_cycle + n < LineDots
  <2>1. /\ scanline_cycle' = scanline_cycle + n
        /\ UNCHANGED <<current_mode, current_scanline, stat_line, requested, screen>>
    BY <1>1, <1>4 DEF HandleHBlank
  <2>2. scanline <= scanline'
    BY <1>1, <2>1 DEF scanline
  <2>3. TypeOK'
    <3>1. scanline_cycle' \in 0 .. LineDots - 1
      BY <1>1, <1>4, <2>1
    <3>2. QED
      BY <1>2, <1>3, <2>1, <3>1 DEF TypeOK, settings
  <2>4. Placed'
    BY <1>1, <1>2, <2>1 DEF Placed
  <2>5. StatLineFresh'
    <3>1. SUFFICES ASSUME ~InEarlyLy' PROVE enabled' => (stat_line' <=> StatCondition')
      BY DEF StatLineFresh
    <3>2. scanline_cycle' < EarlyLy /\ ~InEarlyLy
      BY <1>1, <2>1, <3>1 DEF InEarlyLy
    <3>3. scanline' = scanline
      BY <1>1, <2>1, <3>2 DEF scanline
    <3>4. StatCondition' = StatCondition
      BY <1>2, <2>1, <3>3, SameCondition
    <3>5. QED
      BY <1>2, <2>1, <3>2, <3>4 DEF IInv, StatLineFresh
  <2>6. QED
    BY <2>1, <2>2, <2>3, <2>4, <2>5 DEF Keeps
<1>5. CASE scanline_cycle + n = LineDots
  <2>1. PICK others : /\ others \subseteq Interrupts /\ update_stat_line(others)
                      /\ scanline_cycle' = 0 /\ current_scanline' = current_scanline + 1
                      /\ current_mode' = IF current_scanline' < VisibleLines
                                         THEN "oam_scan" ELSE "v_blank"
                      /\ screen' = IF current_scanline' < VisibleLines
                                   THEN screen \cup {current_scanline} ELSE {}
    <3>1. CASE current_scanline + 1 < VisibleLines
      <4>1. WITNESS requested
      <4>2. QED
        BY <1>1, <1>2, <1>5, <3>1 DEF HandleHBlank
    <3>2. CASE ~(current_scanline + 1 < VisibleLines)
      <4>1. WITNESS requested \cup {"vblank"}
      <4>2. QED
        BY <1>1, <1>2, <1>5, <3>2 DEF HandleHBlank, Interrupts
    <3>3. QED
      BY <3>1, <3>2
  <2>2. /\ stat_line' \in BOOLEAN /\ requested' \subseteq Interrupts
        /\ enabled' => (stat_line' <=> StatCondition')
    BY <1>2, <2>1, UpdatedLine
  <2>3. scanline <= scanline'
    BY <1>1, <2>1 DEF scanline
  <2>4. TypeOK'
    <3>1. current_scanline' \in 0 .. Lines - 1 /\ scanline_cycle' \in 0 .. LineDots - 1
      BY <1>1, <2>1
    <3>2. screen' \subseteq 0 .. VisibleLines - 1
      BY <1>1, <1>2, <2>1 DEF TypeOK
    <3>3. current_mode' \in Modes
      BY <2>1 DEF Modes
    <3>4. QED
      BY <1>2, <1>3, <2>2, <3>1, <3>2, <3>3 DEF TypeOK, settings
  <2>5. Placed'
    BY <1>1, <1>2, <2>1 DEF Placed
  <2>6. QED
    BY <1>2, <2>2, <2>3, <2>4, <2>5 DEF Keeps, StatLineFresh
<1>6. QED
  BY <1>1, <1>4, <1>5

LEMMA VBlankKeepsIInv ==
  ASSUME IInv, CountLyc, NEW n \in 1 .. tick_batch, enabled, HandleVBlank(n),
         latched_ly_lyc_bit' = latched_ly_lyc_bit
  PROVE  Keeps
<1>1. /\ current_mode = "v_blank" /\ VisibleLines <= current_scanline
      /\ current_scanline \in 0 .. Lines - 1 /\ scanline_cycle \in 0 .. LineDots - 1
      /\ n \in Nat \ {0} /\ scanline_cycle + n <= LineDots
  BY DEF HandleVBlank, IInv, TypeOK, Placed, tick_batch
<1>2. /\ UNCHANGED <<enabled, settings, initial_state_after_on, screen>>
      /\ TypeOK /\ requested \subseteq Interrupts /\ ~initial_state_after_on
  BY <1>1 DEF HandleVBlank, IInv, TypeOK, Placed
<1>3. lyc_requests' \in 0 .. 2
  BY <1>2, CountIsTyped
<1>4. CASE scanline_cycle + n < LineDots
  <2>1. /\ scanline_cycle' = scanline_cycle + n
        /\ UNCHANGED <<current_mode, current_scanline, stat_line, requested>>
    BY <1>1, <1>4 DEF HandleVBlank
  <2>2. scanline' = scanline /\ scanline \in Nat
    BY <1>1, <2>1 DEF scanline
  <2>3. TypeOK'
    <3>1. scanline_cycle' \in 0 .. LineDots - 1
      BY <1>1, <1>4, <2>1
    <3>2. QED
      BY <1>2, <1>3, <2>1, <3>1 DEF TypeOK, settings
  <2>4. Placed'
    BY <1>1, <1>2, <2>1 DEF Placed
  <2>5. StatCondition' = StatCondition
    BY <1>2, <2>1, <2>2, SameCondition
  <2>6. StatLineFresh'
    BY <1>1, <1>2, <2>1, <2>5 DEF IInv, StatLineFresh, InEarlyLy
  <2>7. QED
    BY <2>1, <2>2, <2>3, <2>4, <2>6 DEF Keeps
<1>5. CASE scanline_cycle + n = LineDots
  <2>1. /\ scanline_cycle' = 0 /\ update_stat_line(requested)
        /\ \/ current_scanline' = 0 /\ current_mode' = "oam_scan"
           \/ /\ current_scanline + 1 # Lines
              /\ current_scanline' = current_scanline + 1 /\ current_mode' = "v_blank"
    BY <1>1, <1>5 DEF HandleVBlank
  <2>2. /\ stat_line' \in BOOLEAN /\ requested' \subseteq Interrupts
        /\ enabled' => (stat_line' <=> StatCondition')
    BY <1>2, <2>1, UpdatedLine
  <2>3. current_scanline' < current_scanline \/ scanline <= scanline'
    BY <1>1, <2>1 DEF scanline
  <2>4. TypeOK'
    <3>1. current_scanline' \in 0 .. Lines - 1 /\ scanline_cycle' \in 0 .. LineDots - 1
      BY <1>1, <2>1
    <3>2. current_mode' \in Modes
      BY <2>1 DEF Modes
    <3>3. QED
      BY <1>2, <1>3, <2>2, <3>1, <3>2 DEF TypeOK, settings
  <2>5. Placed'
    BY <1>1, <1>2, <2>1 DEF Placed
  <2>6. QED
    BY <1>2, <2>2, <2>3, <2>4, <2>5 DEF Keeps, StatLineFresh
<1>6. QED
  BY <1>1, <1>4, <1>5

LEMMA SwitchOffKeepsIInv == ASSUME IInv, CountLyc, SwitchOff PROVE Keeps
<1>1. /\ enabled /\ ~enabled' /\ enabled' \in BOOLEAN /\ enabled' # enabled
      /\ current_scanline' = 0 /\ scanline_cycle' = OnCycle /\ current_mode' = "oam_scan"
      /\ screen' = {} /\ initial_state_after_on' = TRUE
      /\ UNCHANGED <<settings, stat_line, requested>>
      /\ latched_ly_lyc_bit' \in BOOLEAN
  BY DEF SwitchOff
<1>2. lyc_requests' \in 0 .. 2
  BY CountIsTyped DEF IInv
<1>3. TypeOK'
  <2>1. current_scanline' \in 0 .. Lines - 1 /\ scanline_cycle' \in 0 .. LineDots - 1
    BY <1>1
  <2>2. current_mode' \in Modes
    BY <1>1 DEF Modes
  <2>3. QED
    BY <1>1, <1>2, <2>1, <2>2 DEF IInv, TypeOK, settings
<1>4. Placed'
  BY <1>1 DEF Placed
<1>5. StatLineFresh'
  BY <1>1 DEF StatLineFresh
<1>6. QED
  BY <1>1, <1>3, <1>4, <1>5 DEF Keeps

LEMMA SwitchOnKeepsIInv == ASSUME IInv, CountLyc, SwitchOn PROVE Keeps
<1>1. /\ ~enabled /\ enabled' /\ enabled' \in BOOLEAN /\ enabled' # enabled
      /\ UNCHANGED <<position, settings, initial_state_after_on, latched_ly_lyc_bit, screen>>
      /\ requested \subseteq Interrupts /\ update_stat_line(requested) /\ TypeOK
  BY DEF SwitchOn, IInv, TypeOK
<1>2. lyc_requests' \in 0 .. 2
  BY <1>1, CountIsTyped
<1>3. /\ stat_line' \in BOOLEAN /\ requested' \subseteq Interrupts
      /\ stat_line' <=> StatCondition'
  BY <1>1, UpdatedLine
<1>4. TypeOK'
  BY <1>1, <1>2, <1>3 DEF TypeOK, position, settings
<1>5. Placed'
  BY <1>1 DEF IInv, Placed, position
<1>6. QED
  BY <1>1, <1>3, <1>4, <1>5 DEF Keeps, StatLineFresh

(* A write to a register updates the STAT line whatever it changes. *)
LEMMA WriteKeepsIInv ==
  ASSUME IInv, CountLyc,
         \/ \E sources \in SUBSET Sources : SetInterrupts(sources)
         \/ \E lyc \in LycValues : SetLyc(lyc)
  PROVE  Keeps
<1>1. /\ UNCHANGED <<enabled, position, initial_state_after_on, latched_ly_lyc_bit, screen>>
      /\ interrupt_sources' \subseteq Sources /\ scanline_compare' \in LycValues
      /\ requested \subseteq Interrupts /\ update_stat_line(requested) /\ TypeOK
  BY DEF SetInterrupts, SetLyc, IInv, TypeOK
<1>2. lyc_requests' \in 0 .. 2
  BY <1>1, CountIsTyped
<1>3. /\ stat_line' \in BOOLEAN /\ requested' \subseteq Interrupts
      /\ stat_line' = stat_line \/ (enabled' /\ (stat_line' <=> StatCondition'))
      /\ StatLineFresh'
  BY <1>1, UpdatedLine, UpdatedIsFresh
<1>4. scanline \in Nat /\ scanline' = scanline
  BY <1>1 DEF scanline, position, TypeOK
<1>5. TypeOK'
  BY <1>1, <1>2, <1>3 DEF TypeOK, position
<1>6. Placed'
  BY <1>1 DEF IInv, Placed, position
<1>7. QED
  BY <1>3, <1>4, <1>5, <1>6 DEF Keeps

LEMMA ClearKeepsIInv ==
  ASSUME IInv, CountLyc, NEW interrupt \in requested, ClearInterrupt(interrupt)
  PROVE  Keeps
<1>1. /\ UNCHANGED <<enabled, position, settings, stat_line, initial_state_after_on,
                     latched_ly_lyc_bit, screen>>
      /\ requested' \subseteq Interrupts /\ TypeOK
  BY DEF ClearInterrupt, IInv, TypeOK
<1>2. lyc_requests' \in 0 .. 2
  BY <1>1, CountIsTyped
<1>3. scanline \in Nat /\ scanline' = scanline
  BY <1>1 DEF scanline, position, TypeOK
<1>4. TypeOK'
  BY <1>1, <1>2 DEF TypeOK, position, settings
<1>5. Placed'
  BY <1>1 DEF IInv, Placed, position
<1>6. StatLineFresh'
  <2>1. StatCondition' = StatCondition
    BY <1>1, <1>3, SameCondition DEF position
  <2>2. QED
    BY <1>1, <2>1 DEF IInv, StatLineFresh, InEarlyLy, position
<1>7. QED
  BY <1>1, <1>3, <1>4, <1>5, <1>6 DEF Keeps

LEMMA TickKeepsIInv == ASSUME IInv, CountLyc, Tick PROVE Keeps
<1>1. enabled /\ latched_ly_lyc_bit' = latched_ly_lyc_bit
  BY DEF Tick
<1>2. CASE HandleDraw
  BY <1>1, <1>2, DrawKeepsIInv
<1>3. ASSUME NEW n \in 1 .. tick_batch, HandleScanOam(n) \/ HandleHBlank(n) \/ HandleVBlank(n)
      PROVE  Keeps
  BY <1>1, <1>3, ScanOamKeepsIInv, HBlankKeepsIInv, VBlankKeepsIInv
<1>4. QED
  BY <1>2, <1>3 DEF Tick

LEMMA NextKeepsIInv == IInv /\ [Next]_vars => IInv'
<1> SUFFICES ASSUME IInv, [Next]_vars PROVE IInv'
  OBVIOUS
<1>1. CASE Next
  <2>1. Step /\ CountLyc
    BY <1>1 DEF Next
  <2>2. Keeps
    BY <2>1, TickKeepsIInv, SwitchOffKeepsIInv, SwitchOnKeepsIInv, WriteKeepsIInv,
       ClearKeepsIInv DEF Step
  <2>3. QED
    BY <2>1, <2>2, KeptIsInductive
<1>2. CASE UNCHANGED vars
  BY <1>2 DEF vars, position, settings, IInv, TypeOK, Placed, StatLineFresh, InEarlyLy,
     StatCondition, scanline, LycCounted
<1>3. QED
  BY <1>1, <1>2

-----------------------------------------------------------------------------
(* The position, the STAT line and the count of its rises stay related in  *)
(* every behaviour of graphics_ppu.cppm the model admits.                  *)
THEOREM Invariance == Spec => []IInv
<1>1. QED
  BY InitIsPlaced, NextKeepsIInv, PTL DEF Spec

(* The registers of the PPU keep their types: LY stays below 154 and the   *)
(* dot below 456, however ticks, switches and writes interleave.           *)
THEOREM TypeCorrect == Spec => []TypeOK
<1>1. IInv => TypeOK
  BY DEF IInv
<1>2. QED
  BY <1>1, Invariance, PTL

(* The scheduler is always offered a dot: no mode outlives the dot at      *)
(* which the unsigned subtraction of its batch would be zero or wrap.      *)
THEOREM BatchIsPositive == Spec => []PositiveBatch
<1>1. IInv => PositiveBatch
  <2> SUFFICES ASSUME IInv PROVE tick_batch > 0
    BY DEF PositiveBatch
  <2>1. /\ scanline_cycle \in 0 .. LineDots - 1
        /\ current_mode = "oam_scan" => scanline_cycle < OamDots
    BY DEF IInv, TypeOK, Placed
  <2>2. CASE current_mode = "oam_scan"
    BY <2>1, <2>2 DEF tick_batch
  <2>3. CASE current_mode = "drawing"
    BY <2>3 DEF tick_batch
  <2>4. CASE current_mode \notin {"oam_scan", "drawing"}
    <3>1. tick_batch = LineDots - scanline_cycle
      BY <2>4 DEF tick_batch
    <3>2. QED
      BY <2>1, <3>1
  <2>5. QED
    BY <2>2, <2>3, <2>4
<1>2. QED
  BY <1>1, Invariance, PTL

(* update_stat_line is called wherever the STAT line could go stale.       *)
THEOREM StatLineIsFresh == Spec => []StatLineFresh
<1>1. IInv => StatLineFresh
  BY DEF IInv
<1>2. QED
  BY <1>1, Invariance, PTL

(* With LYC as the only source a frame raises the STAT line once at most,  *)
(* wherever in the line STAT and LYC are written again.                    *)
THEOREM LycInterruptsOnce == Spec => []AtMostOneLycInterrupt
<1>1. IInv => AtMostOneLycInterrupt
  BY DEF IInv, LycCounted, AtMostOneLycInterrupt
<1>2. QED
  BY <1>1, Invariance, PTL

(* In every mode, at its edges and in the first line after the LCD is on,  *)
(* what the policies let the CPU read they let it write.                   *)
THEOREM ReadableStaysWritable == Spec => []ReadableIsWritable
<1>1. IInv => ReadableIsWritable
  <2> SUFFICES ASSUME IInv PROVE ReadableIsWritable
    OBVIOUS
  <2>1. scanline_cycle \in 0 .. LineDots - 1
    BY DEF IInv, TypeOK
  <2>2. VramReadable => VramWritable
    BY <2>1 DEF VramReadable, VramWritable
  <2>3. OamReadable => OamWritable
    BY DEF OamReadable, OamWritable
  <2>4. QED
    BY <2>2, <2>3 DEF ReadableIsWritable
<1>2. QED
  BY <1>1, Invariance, PTL

(* LY never skips a line nor goes back within a frame while the LCD is on. *)
LEMMA TickAdvancesLy ==
  ASSUME IInv, Tick
  PROVE  scanline' \in {scanline, scanline + 1} \/ (scanline = Lines - 1 /\ scanline' = 0)
<1>1. /\ current_scanline \in 0 .. Lines - 1 /\ scanline_cycle \in 0 .. LineDots - 1
      /\ TypeOK /\ Placed
  BY DEF IInv, TypeOK
<1>2. ASSUME NEW n \in 1 .. tick_batch, HandleScanOam(n)
      PROVE  scanline' = scanline
  <2>1. /\ current_mode = "oam_scan" /\ current_mode' # "h_blank"
        /\ current_scanline' = current_scanline
    BY <1>2 DEF HandleScanOam
  <2>2. QED
    BY <2>1 DEF scanline
<1>3. ASSUME HandleDraw PROVE scanline' = scanline
  <2>1. /\ current_mode = "drawing" /\ scanline_cycle' = scanline_cycle + 1
        /\ current_scanline' = current_scanline
    BY <1>3 DEF HandleDraw
  <2>2. scanline_cycle' < EarlyLy
    BY <1>1, <2>1 DEF Placed
  <2>3. QED
    BY <1>1, <2>1, <2>2 DEF scanline
<1>4. ASSUME NEW n \in 1 .. tick_batch, HandleHBlank(n)
      PROVE  scanline' \in {scanline, scanline + 1}
  <2>1. /\ current_mode = "h_blank" /\ n \in Nat
        /\ \/ /\ scanline_cycle' = scanline_cycle + n
              /\ UNCHANGED <<current_mode, current_scanline>>
           \/ /\ scanline_cycle' = 0 /\ current_scanline' = current_scanline + 1
              /\ current_mode' # "h_blank"
    BY <1>1, <1>4 DEF HandleHBlank, tick_batch
  <2>2. QED
    BY <1>1, <2>1 DEF scanline
<1>5. ASSUME NEW n \in 1 .. tick_batch, HandleVBlank(n)
      PROVE  scanline' \in {scanline, scanline + 1} \/ (scanline = Lines - 1 /\ scanline' = 0)
  <2>1. /\ current_mode = "v_blank" /\ current_mode' # "h_blank"
        /\ \/ current_scanline' \in {current_scanline, current_scanline + 1}
           \/ current_scanline + 1 = Lines /\ current_scanline' = 0
    BY <1>5 DEF HandleVBlank
  <2>2. QED
    BY <1>1, <2>1 DEF scanline
<1>6. QED
  BY <1>2, <1>3, <1>4, <1>5 DEF Tick

LEMMA StepAdvancesLy ==
  ASSUME IInv, [Next]_vars, enabled, enabled'
  PROVE  scanline' \in {scanline, scanline + 1} \/ (scanline = Lines - 1 /\ scanline' = 0)
<1>1. CASE UNCHANGED position
  BY <1>1 DEF position, scanline
<1>2. CASE Tick
  BY <1>2, TickAdvancesLy
<1>3. Tick \/ UNCHANGED position
  BY DEF Next, Step, SwitchOff, SwitchOn, SetInterrupts, SetLyc, ClearInterrupt, vars
<1>4. QED
  BY <1>1, <1>2, <1>3

(* A game that polls LY sees every line of a frame in order.               *)
THEOREM LyGoesOn == Spec => LyAdvances
<1>1. IInv /\ [Next]_vars =>
        [enabled /\ enabled' =>
           \/ scanline' \in {scanline, scanline + 1}
           \/ scanline = Lines - 1 /\ scanline' = 0]_vars
  BY StepAdvancesLy
<1>2. QED
  BY <1>1, Invariance, PTL DEF Spec, LyAdvances

(* set_enabled(false) latches the coincidence bit before it resets LY.     *)
THEOREM CoincidenceIsKept == Spec => CoincidenceSurvivesOff
<1>1. ASSUME [Next]_vars, enabled, ~enabled', ~InEarlyLy, scanline_cycle # LycGap
      PROVE  lyc_eq_ly' = lyc_eq_ly
  <2>1. SwitchOff
    BY <1>1 DEF Next, Step, Tick, HandleScanOam, HandleDraw, HandleHBlank, HandleVBlank,
       SwitchOn, SetInterrupts, SetLyc, ClearInterrupt, vars
  <2>2. lyc_eq_ly' = (scanline_compare = current_scanline)
    BY <1>1, <2>1 DEF SwitchOff, lyc_eq_ly
  <2>3. lyc_eq_ly = (scanline_compare = current_scanline)
    BY <1>1 DEF lyc_eq_ly, scanline, InEarlyLy
  <2>4. QED
    BY <2>2, <2>3
<1>2. [Next]_vars =>
        [enabled /\ ~enabled' /\ ~InEarlyLy /\ scanline_cycle # LycGap =>
           lyc_eq_ly' = lyc_eq_ly]_vars
  BY <1>1
<1>3. QED
  BY <1>2, PTL DEF Spec, CoincidenceSurvivesOff

-----------------------------------------------------------------------------
(* The contract counts dots; the PPU has lines and dots within the line.   *)
LEMMA ProductGrows ==
  ASSUME NEW l \in Nat, NEW x \in Nat, NEW y \in Nat, x <= y
  PROVE  x * l \in Nat /\ y * l \in Nat /\ x * l <= y * l
<1>1. (y - x) \in Nat
  OBVIOUS
<1>2. (y - x) * l \in Nat /\ x * l \in Nat /\ y * l \in Nat
  BY <1>1
<1>3. y * l = x * l + (y - x) * l
  BY <1>1
<1>4. QED
  BY <1>2, <1>3

LEMMA DotSplit ==
  ASSUME NEW l \in Nat \ {0}, NEW a \in Nat, NEW c \in 0 .. l - 1
  PROVE  /\ a * l + c \in Nat
         /\ (a * l + c) % l = c
         /\ (a * l + c) \div l = a
<1> DEFINE x == a * l + c
           q == x \div l
           r == x % l
<1>1. a * l \in Nat /\ x \in Nat
  OBVIOUS
<1> HIDE DEF x
<1>2. q \in Nat /\ r \in 0 .. l - 1 /\ x = q * l + r
  BY <1>1
<1> HIDE DEF q, r
<1>3. ~(q < a)
  <2>1. SUFFICES ASSUME q + 1 <= a PROVE FALSE
    BY <1>2
  <2>2. (q + 1) * l <= a * l
    BY <1>2, <2>1, ProductGrows
  <2>3. (q + 1) * l = q * l + l
    BY <1>2
  <2>4. q * l \in Nat
    BY <1>2
  <2>5. QED
    BY <1>1, <1>2, <2>2, <2>3, <2>4 DEF x
<1>4. ~(a < q)
  <2>1. SUFFICES ASSUME a + 1 <= q PROVE FALSE
    BY <1>2
  <2>2. (a + 1) * l <= q * l
    BY <1>2, <2>1, ProductGrows
  <2>3. (a + 1) * l = a * l + l
    OBVIOUS
  <2>4. q * l \in Nat
    BY <1>2
  <2>5. QED
    BY <1>1, <1>2, <2>2, <2>3, <2>4 DEF x
<1>5. q = a
  BY <1>2, <1>3, <1>4
<1>6. r = c
  BY <1>1, <1>2, <1>5 DEF x
<1>7. QED
  BY <1>1, <1>5, <1>6 DEF x, q, r

(* The lines given to the screen are those above the current one.          *)
LinesShown ==
  screen = IF current_mode = "v_blank" THEN {} ELSE 0 .. current_scanline - 1

Dot == current_scanline * LineDots + scanline_cycle

(* The position within a line and its end, as the contract computes them.  *)
LEMMA DotInLine ==
  ASSUME TypeOK
  PROVE  /\ LineDots \in Nat \ {0} /\ Dot \in Nat
         /\ Dot % LineDots = scanline_cycle
         /\ Dot \div LineDots = current_scanline
         /\ Dot + LineDots - (Dot % LineDots) = (current_scanline + 1) * LineDots
<1>1. /\ LineDots \in Nat \ {0} /\ current_scanline \in Nat
      /\ scanline_cycle \in 0 .. LineDots - 1
  BY DEF TypeOK
<1>2. /\ Dot \in Nat /\ Dot % LineDots = scanline_cycle
      /\ Dot \div LineDots = current_scanline
  BY <1>1, DotSplit DEF Dot
<1>3. (current_scanline + 1) * LineDots = current_scanline * LineDots + LineDots
  BY <1>1
<1>4. current_scanline * LineDots \in Nat
  BY <1>1
<1>5. Dot + LineDots - scanline_cycle = current_scanline * LineDots + LineDots
  BY <1>1, <1>4 DEF Dot
<1>6. QED
  BY <1>1, <1>2, <1>3, <1>5

(* Time that passes within a line. *)
LEMMA InLineRefines ==
  ASSUME TypeOK, enabled, enabled', NEW n \in Nat \ {0}, scanline_cycle + n < LineDots,
         scanline_cycle' = scanline_cycle + n, current_scanline' = current_scanline,
         screen' = screen, "vblank" \in requested' <=> "vblank" \in requested
  PROVE  Contract!Advance
<1>1. Dot \in Nat /\ LineDots \in Nat /\ Dot % LineDots = scanline_cycle
  BY DotInLine
<1>2. current_scanline \in Nat /\ scanline_cycle \in Nat
  BY DEF TypeOK
<1>3. current_scanline * LineDots \in Nat
  BY <1>1, <1>2
<1>4. Dot' = Dot + n
  BY <1>2, <1>3 DEF Dot
<1>5. Dot' \in Dot + 1 .. Dot + LineDots - (Dot % LineDots) - 1
  BY <1>1, <1>2, <1>4
<1>6. ("vblank" \in requested') = ("vblank" \in requested) /\ enabled' = enabled
  BY DEF TypeOK
<1>7. QED
  BY <1>5, <1>6 DEF Contract!Advance, Dot

(* The end of a line, where the next one begins or the frame is over.      *)
LEMMA LineEndRefines ==
  ASSUME TypeOK, enabled, enabled',
         scanline_cycle' = 0,
         current_scanline' = IF current_scanline + 1 = Lines THEN 0 ELSE current_scanline + 1,
         \/ /\ current_scanline + 1 < VisibleLines
            /\ screen' = 0 .. current_scanline
            /\ "vblank" \in requested' <=> "vblank" \in requested
         \/ /\ current_scanline + 1 = VisibleLines
            /\ screen' = {} /\ "vblank" \in requested'
         \/ /\ current_scanline + 1 > VisibleLines
            /\ screen' = screen
            /\ "vblank" \in requested' <=> "vblank" \in requested
  PROVE  Contract!EndLine
<1> DEFINE end == (current_scanline + 1) * LineDots
<1>1. /\ LineDots \in Nat \ {0} /\ Dot \in Nat
      /\ Dot \div LineDots = current_scanline
      /\ Dot + LineDots - (Dot % LineDots) = end
  BY DotInLine
<1>2. current_scanline \in Nat /\ current_scanline + 1 <= Lines
  BY DEF TypeOK
<1>3. /\ current_scanline + 1 < VisibleLines => end < LineDots * VisibleLines
      /\ current_scanline + 1 = VisibleLines => end = LineDots * VisibleLines
      /\ current_scanline + 1 > VisibleLines => end > LineDots * VisibleLines
  <2>1. ASSUME NEW x \in Nat, NEW y \in Nat, x < y PROVE x * LineDots < y * LineDots
    <3>1. (x + 1) * LineDots <= y * LineDots
      BY <1>1, <2>1, ProductGrows
    <3>2. (x + 1) * LineDots = x * LineDots + LineDots /\ x * LineDots \in Nat
      BY <1>1
    <3>3. y * LineDots \in Nat
      BY <1>1
    <3>4. LineDots > 0
      BY <1>1
    <3>5. QED
      BY ONLY <3>1, <3>2, <3>3, <3>4, <1>1
  <2>2. LineDots * VisibleLines = VisibleLines * LineDots
    BY <1>1
  <2>3. current_scanline + 1 < VisibleLines => end < VisibleLines * LineDots
    BY <1>2, <2>1
  <2>4. current_scanline + 1 > VisibleLines => end > VisibleLines * LineDots
    <3>1. VisibleLines < current_scanline + 1 => VisibleLines * LineDots < end
      BY <1>2, <2>1
    <3>2. end \in Nat /\ VisibleLines * LineDots \in Nat
      BY <1>1, <1>2
    <3>3. QED
      BY <1>2, <3>1, <3>2
  <2>5. QED
    BY <2>2, <2>3, <2>4
<1>4. Dot' = end % (LineDots * Lines)
  <2>1. end \in Nat /\ LineDots * Lines \in Nat \ {0} /\ LineDots * Lines = Lines * LineDots
    BY <1>1, <1>2
  <2>2. CASE current_scanline + 1 = Lines
    <3>1. Dot' = 0
      BY <1>1, <2>2 DEF Dot
    <3>2. end = LineDots * Lines
      BY <2>1, <2>2
    <3>3. (1 * (LineDots * Lines) + 0) % (LineDots * Lines) = 0
      BY <2>1, DotSplit
    <3>4. QED
      BY <2>1, <3>1, <3>2, <3>3
  <2>3. CASE current_scanline + 1 # Lines
    <3>1. Dot' = end
      BY <1>1, <1>2, <2>1, <2>3 DEF Dot
    <3>2. (current_scanline + 1 + 1) * LineDots <= Lines * LineDots
      BY <1>1, <1>2, <2>3, ProductGrows
    <3>3. (current_scanline + 1 + 1) * LineDots = end + LineDots
      BY <1>1, <1>2
    <3>4. end < LineDots * Lines
      BY <1>1, <2>1, <3>2, <3>3
    <3>5. (0 * (LineDots * Lines) + end) % (LineDots * Lines) = end
      BY <2>1, <3>4, DotSplit
    <3>6. 0 * (LineDots * Lines) + end = end
      BY <2>1
    <3>7. end % (LineDots * Lines) = end
      BY <3>5, <3>6, Zenon
    <3>8. QED
      BY <3>1, <3>7, Zenon
  <2>4. QED
    BY <2>2, <2>3
<1>5. \/ end < LineDots * VisibleLines /\ screen' = 0 .. Dot \div LineDots
         /\ ("vblank" \in requested') = ("vblank" \in requested)
      \/ end = LineDots * VisibleLines /\ screen' = {}
         /\ ("vblank" \in requested') = TRUE
      \/ end > LineDots * VisibleLines /\ screen' = screen
         /\ ("vblank" \in requested') = ("vblank" \in requested)
  BY <1>1, <1>3
<1> HIDE DEF end
<1>6. enabled' = enabled
  BY DEF TypeOK
<1>7. QED
  BY <1>1, <1>4, <1>5, <1>6 DEF Contract!EndLine, Contract!FrameDots,
     Contract!VisibleDots, Dot

LEMMA LinesShownAtFirst == Init => LinesShown
BY DEF Init, LinesShown

(* The IF bit of the vertical blank, which the STAT line does not touch.   *)
LEMMA LcdOnly ==
  ASSUME NEW others, update_stat_line(others)
  PROVE  "vblank" \in requested' <=> "vblank" \in others
BY DEF update_stat_line

LEMMA ScanOamRefines ==
  ASSUME IInv, LinesShown, NEW n \in 1 .. tick_batch, enabled, HandleScanOam(n)
  PROVE  Contract!Next /\ LinesShown'
<1>1. /\ current_mode = "oam_scan" /\ n \in Nat \ {0} /\ TypeOK
      /\ scanline_cycle' = scanline_cycle + n /\ scanline_cycle + n <= OamDots
  BY DEF HandleScanOam, IInv, TypeOK, Placed, tick_batch
<1>2. /\ enabled' /\ current_scanline' = current_scanline /\ screen' = screen
      /\ current_mode' # "v_blank"
  BY <1>1 DEF HandleScanOam
<1>3. "vblank" \in requested' <=> "vblank" \in requested
  BY LcdOnly DEF HandleScanOam
<1>4. Contract!Advance
  BY <1>1, <1>2, <1>3, InLineRefines
<1>5. LinesShown'
  BY <1>1, <1>2 DEF LinesShown
<1>6. QED
  BY <1>4, <1>5 DEF Contract!Next

LEMMA DrawRefines ==
  ASSUME IInv, LinesShown, enabled, HandleDraw
  PROVE  Contract!Next /\ LinesShown'
<1>1. /\ current_mode = "drawing" /\ TypeOK
      /\ scanline_cycle' = scanline_cycle + 1 /\ scanline_cycle + 1 < LineDots
  BY DEF HandleDraw, IInv, TypeOK, Placed
<1>2. /\ enabled' /\ current_scanline' = current_scanline /\ screen' = screen
      /\ current_mode' # "v_blank"
  BY <1>1 DEF HandleDraw
<1>3. "vblank" \in requested' <=> "vblank" \in requested
  BY LcdOnly DEF HandleDraw
<1>4. Contract!Advance
  BY <1>1, <1>2, <1>3, InLineRefines
<1>5. LinesShown'
  BY <1>1, <1>2 DEF LinesShown
<1>6. QED
  BY <1>4, <1>5 DEF Contract!Next

LEMMA HBlankRefines ==
  ASSUME IInv, LinesShown, NEW n \in 1 .. tick_batch, enabled, HandleHBlank(n)
  PROVE  Contract!Next /\ LinesShown'
<1>1. /\ current_mode = "h_blank" /\ n \in Nat \ {0} /\ TypeOK /\ enabled'
      /\ current_scanline \in Nat /\ current_scanline < VisibleLines
      /\ screen = 0 .. current_scanline - 1
  BY SMTT(30) DEF HandleHBlank, IInv, TypeOK, Placed, tick_batch, LinesShown
<1>2. CASE scanline_cycle + n < LineDots
  <2>1. /\ scanline_cycle' = scanline_cycle + n
        /\ UNCHANGED <<current_mode, current_scanline, requested, screen>>
    BY <1>1, <1>2 DEF HandleHBlank, TypeOK
  <2>2. Contract!Advance
    BY <1>1, <1>2, <2>1, InLineRefines
  <2>3. QED
    BY <2>1, <2>2 DEF Contract!Next, LinesShown
<1>3. CASE ~(scanline_cycle + n < LineDots)
  <2>1. scanline_cycle' = 0 /\ current_scanline' = current_scanline + 1
    BY <1>1, <1>3 DEF HandleHBlank
  <2>2. current_scanline + 1 # Lines
    BY <1>1
  <2>3. CASE current_scanline + 1 < VisibleLines
    <3>1. /\ current_mode' = "oam_scan" /\ screen' = screen \cup {current_scanline}
          /\ update_stat_line(requested)
      BY <1>1, <1>3, <2>1, <2>3 DEF HandleHBlank
    <3>2. screen' = 0 .. current_scanline
      BY <1>1, <3>1
    <3>3. "vblank" \in requested' <=> "vblank" \in requested
      BY <3>1, LcdOnly
    <3>4. Contract!EndLine
      BY <1>1, <2>1, <2>2, <2>3, <3>2, <3>3, LineEndRefines
    <3>5. LinesShown'
      BY <1>1, <2>1, <3>1, <3>2 DEF LinesShown
    <3>6. QED
      BY <3>4, <3>5 DEF Contract!Next
  <2>4. CASE current_scanline + 1 = VisibleLines
    <3>1. /\ current_mode' = "v_blank" /\ screen' = {}
          /\ update_stat_line(requested \cup {"vblank"})
      BY <1>1, <1>3, <2>1, <2>4 DEF HandleHBlank
    <3>2. "vblank" \in requested'
      BY <3>1, LcdOnly
    <3>3. Contract!EndLine
      BY <1>1, <2>1, <2>2, <2>4, <3>1, <3>2, LineEndRefines
    <3>4. QED
      BY <3>1, <3>3 DEF Contract!Next, LinesShown
  <2>5. QED
    BY <1>1, <2>3, <2>4
<1>4. QED
  BY <1>2, <1>3

LEMMA VBlankRefines ==
  ASSUME IInv, LinesShown, NEW n \in 1 .. tick_batch, enabled, HandleVBlank(n)
  PROVE  Contract!Next /\ LinesShown'
<1>1. /\ current_mode = "v_blank" /\ n \in Nat \ {0} /\ TypeOK /\ enabled'
      /\ current_scanline \in Nat /\ VisibleLines <= current_scanline
      /\ screen = {} /\ screen' = screen
  BY DEF HandleVBlank, IInv, TypeOK, Placed, tick_batch, LinesShown
<1>2. CASE scanline_cycle + n < LineDots
  <2>1. /\ scanline_cycle' = scanline_cycle + n
        /\ UNCHANGED <<current_mode, current_scanline, requested>>
    BY <1>1, <1>2 DEF HandleVBlank, TypeOK
  <2>2. Contract!Advance
    BY <1>1, <1>2, <2>1, InLineRefines
  <2>3. QED
    BY <1>1, <2>1, <2>2 DEF Contract!Next, LinesShown
<1>3. CASE ~(scanline_cycle + n < LineDots)
  <2>1. /\ scanline_cycle' = 0
        /\ \/ current_scanline + 1 = Lines /\ current_scanline' = 0
              /\ current_mode' = "oam_scan"
           \/ current_scanline + 1 # Lines /\ current_scanline' = current_scanline + 1
              /\ current_mode' = current_mode
        /\ update_stat_line(requested)
    BY <1>1, <1>3 DEF HandleVBlank
  <2>2. "vblank" \in requested' <=> "vblank" \in requested
    BY <2>1, LcdOnly
  <2>3. current_scanline + 1 > VisibleLines
    BY <1>1
  <2>4. Contract!EndLine
    BY <1>1, <2>1, <2>2, <2>3, LineEndRefines
  <2>5. LinesShown'
    BY <1>1, <2>1 DEF LinesShown
  <2>6. QED
    BY <2>4, <2>5 DEF Contract!Next
<1>4. QED
  BY <1>2, <1>3

LEMMA TickRefines ==
  ASSUME IInv, LinesShown, Tick PROVE Contract!Next /\ LinesShown'
<1>1. enabled
  BY DEF Tick
<1>2. CASE HandleDraw
  BY <1>1, <1>2, DrawRefines
<1>3. ASSUME NEW n \in 1 .. tick_batch, HandleScanOam(n) \/ HandleHBlank(n) \/ HandleVBlank(n)
      PROVE  Contract!Next /\ LinesShown'
  BY <1>1, <1>3, ScanOamRefines, HBlankRefines, VBlankRefines
<1>4. QED
  BY <1>2, <1>3 DEF Tick

LEMMA SwitchRefines ==
  ASSUME IInv, LinesShown, SwitchOff \/ SwitchOn
  PROVE  Contract!Next /\ LinesShown'
<1>1. CASE SwitchOff
  <2>1. /\ enabled /\ enabled' = FALSE /\ current_scanline' = 0 /\ scanline_cycle' = OnCycle
        /\ current_mode' = "oam_scan" /\ screen' = {} /\ requested' = requested
    BY <1>1 DEF SwitchOff
  <2>2. current_scanline' * LineDots + scanline_cycle' = 2
    BY <2>1
  <2>3. Contract!Switch
    BY <2>1, <2>2 DEF Contract!Switch, Contract!OnDot
  <2>4. LinesShown'
    BY <2>1 DEF LinesShown
  <2>5. QED
    BY <2>3, <2>4 DEF Contract!Next
<1>2. CASE SwitchOn
  <2>1. /\ ~enabled /\ enabled' = TRUE /\ UNCHANGED <<position, screen>>
        /\ update_stat_line(requested)
    BY <1>2 DEF SwitchOn
  <2>2. ("vblank" \in requested') = ("vblank" \in requested)
    BY <2>1, LcdOnly
  <2>3. UNCHANGED <<current_mode, current_scanline, scanline_cycle>>
    BY <2>1 DEF position
  <2>4. Contract!Switch
    BY <2>1, <2>2, <2>3 DEF Contract!Switch
  <2>5. QED
    BY <2>1, <2>3, <2>4 DEF Contract!Next, LinesShown
<1>3. QED
  BY <1>1, <1>2

LEMMA WriteRefines ==
  ASSUME LinesShown,
         \/ \E sources \in SUBSET Sources : SetInterrupts(sources)
         \/ \E lyc \in LycValues : SetLyc(lyc)
  PROVE  UNCHANGED Contract!vars /\ LinesShown'
<1>1. UNCHANGED <<enabled, position, screen>> /\ update_stat_line(requested)
  BY DEF SetInterrupts, SetLyc
<1>2. ("vblank" \in requested') = ("vblank" \in requested)
  BY <1>1, LcdOnly
<1>3. UNCHANGED <<current_mode, current_scanline, scanline_cycle>>
  BY <1>1 DEF position
<1>4. QED
  BY <1>1, <1>2, <1>3 DEF Contract!vars, LinesShown

LEMMA ClearRefines ==
  ASSUME LinesShown, NEW interrupt \in requested, ClearInterrupt(interrupt)
  PROVE  [Contract!Next]_(Contract!vars) /\ LinesShown'
<1>1. /\ UNCHANGED <<enabled, current_mode, current_scanline, scanline_cycle, screen>>
      /\ requested' = requested \ {interrupt}
  BY DEF ClearInterrupt, position
<1>2. CASE interrupt = "vblank"
  <2>1. "vblank" \in requested /\ ("vblank" \in requested') = FALSE
    BY <1>1, <1>2
  <2>2. Contract!Acknowledge
    BY <1>1, <2>1 DEF Contract!Acknowledge
  <2>3. QED
    BY <1>1, <2>2 DEF Contract!Next, LinesShown
<1>3. CASE interrupt # "vblank"
  <2>1. ("vblank" \in requested') = ("vblank" \in requested)
    BY <1>1, <1>3
  <2>2. QED
    BY <1>1, <2>1 DEF Contract!vars, LinesShown
<1>4. QED
  BY <1>2, <1>3

LEMMA NextRefines ==
  ASSUME IInv, LinesShown, [Next]_vars
  PROVE  [Contract!Next]_(Contract!vars) /\ LinesShown'
<1>1. CASE Next
  <2>1. Step
    BY <1>1 DEF Next
  <2>2. QED
    BY <2>1, TickRefines, SwitchRefines, WriteRefines, ClearRefines DEF Step
<1>2. CASE UNCHANGED vars
  BY <1>2 DEF vars, position, LinesShown, Contract!vars
<1>3. QED
  BY <1>1, <1>2

LEMMA InitRefines == ASSUME Init PROVE Contract!Init
<1>1. current_scanline * LineDots + scanline_cycle = 0
  BY DEF Init
<1>2. ("vblank" \in requested) = TRUE /\ enabled = TRUE /\ screen = {}
  BY DEF Init
<1>3. QED
  BY <1>1, <1>2 DEF Contract!Init

(* The PPU is a clock of dots for the screen and the game: no write to a   *)
(* register and no length of a batch or of the drawing mode moves a line,  *)
(* and a frame cut short by set_enabled(false) is never shown.             *)
THEOREM PpuImplementsContract == Spec => ImplementsContract
<1>1. Init => Contract!Init
  BY InitRefines
<1>2. IInv /\ LinesShown /\ [Next]_vars => LinesShown' /\ [Contract!Next]_(Contract!vars)
  BY NextRefines
<1>3. QED
  BY <1>1, <1>2, LinesShownAtFirst, Invariance, PTL
     DEF Spec, ImplementsContract, Contract!Spec
================================================================================
