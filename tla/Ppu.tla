--------------------------------- MODULE Ppu ---------------------------------
(***************************************************************************)
(* graphics::pixel_processing_unit (graphics_ppu.cppm): the four modes, LY *)
(* and LYC, the STAT line with its interrupts, switching the LCD off and   *)
(* on, and the policies that keep the CPU from video memory.               *)
(*                                                                         *)
(* Which pixels a line shows and how long the drawing mode takes is module *)
(* Drawing; here it takes between MinDraw and MaxDraw dots, which is       *)
(* DrawingIsBounded of that module.                                        *)
(***************************************************************************)
EXTENDS Integers

CONSTANTS
  LineDots,      (* 456 dots (T-cycles) to a line.                       *)
  OamDots,       (* 80: dots of the OAM scan.                            *)
  VisibleLines,  (* 144: lines of the screen.                            *)
  Lines,         (* 154: lines of a frame, the vertical blank included.  *)
  MinDraw,       (* The fewest and                                       *)
  MaxDraw,       (*   the most dots of the drawing mode.                 *)
  LycValues      (* The values written to LYC, 0 .. 255 in the code.     *)

EarlyLy == LineDots - 4   (* From this dot of h-blank LY reads the next line. *)
LycGap  == LineDots - 2   (* In this dot LYC is compared with NoLine.         *)
NoLine  == 255
OnCycle == 2              (* The first line after the LCD is off starts here. *)

ASSUME DotsAssumption ==
  /\ OamDots \in Nat /\ LineDots \in Nat /\ OnCycle < OamDots
  /\ MinDraw \in Nat \ {0} /\ MaxDraw \in Nat /\ MinDraw <= MaxDraw
  /\ OamDots + MaxDraw < EarlyLy
ASSUME LinesAssumption ==
  /\ VisibleLines \in Nat \ {0} /\ Lines \in Nat
  /\ VisibleLines < Lines /\ Lines < NoLine
ASSUME LycAssumption == LycValues \subseteq 0 .. 255 /\ 0 \in LycValues

VARIABLES
  enabled,
  current_mode,
  scanline_compare,        (* LYC.                                        *)
  current_scanline,
  scanline_cycle,          (* The dot within the line.                    *)
  interrupt_sources,       (* The sources selected in STAT.               *)
  stat_line,
  initial_state_after_on,  (* In the first OAM scan after the LCD is on.  *)
  latched_ly_lyc_bit,      (* The coincidence bit while the LCD is off.   *)
  requested,               (* The two PPU interrupts in IF.               *)
  screen,                  (* Lines given to the screen in this frame.    *)
  lyc_requests             (* For AtMostOneLycInterrupt, see CountLyc.    *)

position == <<current_mode, current_scanline, scanline_cycle>>
settings == <<scanline_compare, interrupt_sources>>
vars == <<enabled, position, settings, stat_line, initial_state_after_on,
          latched_ly_lyc_bit, requested, screen, lyc_requests>>

Modes      == {"h_blank", "v_blank", "oam_scan", "drawing"}
Sources    == {"lyc_select", "mode2", "mode1", "mode0"}
Interrupts == {"vblank", "lcd"}

-----------------------------------------------------------------------------
(* Seeded fault: LY reads the next line in every mode. *)
scanlineInEveryMode ==
  IF scanline_cycle >= EarlyLy THEN current_scanline + 1 ELSE current_scanline

(* LY as the CPU reads it. *)
scanline ==
  IF current_mode = "h_blank" /\ scanline_cycle >= EarlyLy
  THEN current_scanline + 1
  ELSE current_scanline

(* Bit 2 of STAT. *)
lyc_eq_ly ==
  IF enabled
  THEN scanline_compare = (IF scanline_cycle = LycGap THEN NoLine ELSE scanline)
  ELSE latched_ly_lyc_bit

(* Bits 0 and 1 of STAT. *)
mode == IF initial_state_after_on THEN "h_blank" ELSE current_mode

(* What the component offers the scheduler while the LCD is on. *)
tick_batch ==
  CASE current_mode = "oam_scan" -> OamDots - scanline_cycle
    [] current_mode = "drawing"  -> 1
    [] OTHER                     -> LineDots - scanline_cycle

StatCondition ==
  \/ "lyc_select" \in interrupt_sources /\ scanline = scanline_compare
  \/ "mode0" \in interrupt_sources /\ current_mode = "h_blank"
  \/ "mode1" \in interrupt_sources /\ current_mode = "v_blank"
  \/ /\ "mode2" \in interrupt_sources
     /\ current_mode = "oam_scan" \/ current_scanline = VisibleLines

(* Seeded fault: the interrupt follows the level of the line. *)
update_stat_lineLevel(others) ==
  IF enabled'
  THEN /\ stat_line' = (StatCondition' /\ ~stat_line)
       /\ requested' = others \cup (IF StatCondition' THEN {"lcd"} ELSE {})
  ELSE /\ requested' = others
       /\ UNCHANGED stat_line

(* The last call of every handler that changes what the line depends on;   *)
(* "others" is IF with what the handler requested before.                  *)
update_stat_line(others) ==
  IF enabled'
  THEN /\ stat_line' = StatCondition'
       /\ requested' = others \cup (IF ~stat_line /\ StatCondition' THEN {"lcd"} ELSE {})
  ELSE /\ requested' = others
       /\ UNCHANGED stat_line

-----------------------------------------------------------------------------
(* What the CPU may do with the OAM ... *)
OamReadable ==
  \/ ~enabled
  \/ mode \in {"v_blank", "h_blank"} /\ scanline_cycle < EarlyLy

OamWritable ==
  \/ ~enabled
  \/ mode \in {"v_blank", "h_blank"}
  \/ mode = "oam_scan" /\ scanline_cycle >= OamDots - 4
  \/ mode = "drawing" /\ scanline_cycle = OamDots

(* ... and with the video RAM. *)
VramReadable ==
  \/ ~enabled
  \/ mode = "oam_scan" /\ scanline_cycle < OamDots - 4
  \/ mode \in {"h_blank", "v_blank"}

VramWritable ==
  \/ ~enabled
  \/ mode = "oam_scan" /\ scanline_cycle < OamDots - 1
  \/ mode \in {"h_blank", "v_blank"}

-----------------------------------------------------------------------------
(* tick(n): n dots pass in one mode.  The scheduler passes no more than    *)
(* tick_batch, so the loop of tick makes one step.                         *)
HandleScanOam(n) ==
  /\ current_mode = "oam_scan"
  /\ scanline_cycle' = scanline_cycle + n
  /\ IF scanline_cycle' >= OamDots
     THEN /\ current_mode' = "drawing"
          /\ initial_state_after_on' = FALSE
          /\ UNCHANGED <<enabled, current_scanline, settings>>
          /\ update_stat_line(requested)
     ELSE UNCHANGED <<enabled, current_mode, initial_state_after_on, current_scanline,
                      settings, stat_line, requested>>
  /\ UNCHANGED screen

(* The last pixel of the line ends the mode: after MinDraw dots at least   *)
(* and MaxDraw at most.                                                    *)
HandleDraw ==
  /\ current_mode = "drawing"
  /\ scanline_cycle' = scanline_cycle + 1
  /\ UNCHANGED <<enabled, current_scanline, settings, initial_state_after_on, screen>>
  /\ \/ /\ scanline_cycle' < OamDots + MaxDraw
        /\ UNCHANGED <<current_mode, stat_line, requested>>
     \/ /\ scanline_cycle' >= OamDots + MinDraw
        /\ current_mode' = "h_blank"
        /\ update_stat_line(requested)

(* Seeded fault: the vertical blank begins a line late. *)
HandleHBlankLate(n) ==
  /\ current_mode = "h_blank"
  /\ UNCHANGED <<enabled, settings, initial_state_after_on>>
  /\ \/ /\ scanline_cycle + n < LineDots
        /\ scanline_cycle' = scanline_cycle + n
        /\ UNCHANGED <<current_mode, current_scanline, stat_line, requested, screen>>
     \/ /\ scanline_cycle + n = LineDots
        /\ scanline_cycle' = 0
        /\ current_scanline' = current_scanline + 1
        /\ IF current_scanline' <= VisibleLines
           THEN /\ current_mode' = "oam_scan"
                /\ screen' = screen \cup {current_scanline}
                /\ update_stat_line(requested)
           ELSE /\ current_mode' = "v_blank"
                /\ screen' = {}
                /\ update_stat_line(requested \cup {"vblank"})

(* write_scanline, and after the last line end_frame.                      *)
HandleHBlank(n) ==
  /\ current_mode = "h_blank"
  /\ UNCHANGED <<enabled, settings, initial_state_after_on>>
  /\ \/ /\ scanline_cycle + n < LineDots
        /\ scanline_cycle' = scanline_cycle + n
        /\ UNCHANGED <<current_mode, current_scanline, stat_line, requested, screen>>
     \/ /\ scanline_cycle + n = LineDots
        /\ scanline_cycle' = 0
        /\ current_scanline' = current_scanline + 1
        /\ IF current_scanline' < VisibleLines
           THEN /\ current_mode' = "oam_scan"
                /\ screen' = screen \cup {current_scanline}
                /\ update_stat_line(requested)
           ELSE /\ current_mode' = "v_blank"
                /\ screen' = {}
                /\ update_stat_line(requested \cup {"vblank"})

HandleVBlank(n) ==
  /\ current_mode = "v_blank"
  /\ UNCHANGED <<enabled, settings, initial_state_after_on, screen>>
  /\ \/ /\ scanline_cycle + n < LineDots
        /\ scanline_cycle' = scanline_cycle + n
        /\ UNCHANGED <<current_mode, current_scanline, stat_line, requested>>
     \/ /\ scanline_cycle + n = LineDots
        /\ scanline_cycle' = 0
        /\ IF current_scanline + 1 = Lines
           THEN current_scanline' = 0 /\ current_mode' = "oam_scan"
           ELSE current_scanline' = current_scanline + 1 /\ UNCHANGED current_mode
        /\ update_stat_line(requested)

Tick ==
  /\ enabled
  /\ \/ \E n \in 1 .. tick_batch : HandleScanOam(n) \/ HandleHBlank(n) \/ HandleVBlank(n)
     \/ HandleDraw
  /\ UNCHANGED latched_ly_lyc_bit

-----------------------------------------------------------------------------
(* Seeded fault: the dot of the line goes on from where it was. *)
SwitchOffKeepingCycle ==
  /\ enabled
  /\ enabled' = FALSE
  /\ latched_ly_lyc_bit' = (scanline_compare = current_scanline)
  /\ current_scanline' = 0
  /\ initial_state_after_on' = TRUE
  /\ current_mode' = "oam_scan"
  /\ screen' = {}
  /\ UNCHANGED <<scanline_cycle, settings, stat_line, requested>>

(* set_enabled(false): the position is set for the time the LCD is on      *)
(* again, the STAT line stays as it is.                                    *)
SwitchOff ==
  /\ enabled
  /\ enabled' = FALSE
  /\ latched_ly_lyc_bit' = (scanline_compare = current_scanline)
  /\ current_scanline' = 0
  /\ scanline_cycle' = OnCycle
  /\ initial_state_after_on' = TRUE
  /\ current_mode' = "oam_scan"
  /\ screen' = {}
  /\ UNCHANGED <<settings, stat_line, requested>>

SwitchOn ==
  /\ ~enabled
  /\ enabled' = TRUE
  /\ UNCHANGED <<position, settings, initial_state_after_on, latched_ly_lyc_bit, screen>>
  /\ update_stat_line(requested)

(* A CPU write to STAT. *)
SetInterrupts(sources) ==
  /\ interrupt_sources' = sources
  /\ UNCHANGED <<enabled, position, scanline_compare, initial_state_after_on,
                 latched_ly_lyc_bit, screen>>
  /\ update_stat_line(requested)

(* Seeded fault: the STAT line is left for the next change of mode. *)
SetLycSilently(lyc) ==
  /\ scanline_compare' = lyc
  /\ UNCHANGED <<enabled, position, interrupt_sources, initial_state_after_on,
                 latched_ly_lyc_bit, screen, stat_line, requested>>

SetLyc(lyc) ==
  /\ scanline_compare' = lyc
  /\ UNCHANGED <<enabled, position, interrupt_sources, initial_state_after_on,
                 latched_ly_lyc_bit, screen>>
  /\ update_stat_line(requested)

(* The CPU dispatches an interrupt of the PPU or writes IF. *)
ClearInterrupt(interrupt) ==
  /\ requested' = requested \ {interrupt}
  /\ UNCHANGED <<enabled, position, settings, stat_line, initial_state_after_on,
                 latched_ly_lyc_bit, screen>>

(* How often the STAT line rose since the settings last changed, the LCD   *)
(* was switched or the frame began, up to 2.                               *)
CountLyc ==
  LET rise  == IF ~stat_line /\ stat_line' THEN 1 ELSE 0
      fresh == \/ settings' # settings
               \/ enabled' # enabled
               \/ current_scanline' < current_scanline
  IN  lyc_requests' = IF fresh THEN rise
                      ELSE IF lyc_requests + rise > 2 THEN 2
                      ELSE lyc_requests + rise

-----------------------------------------------------------------------------
(* The LCD is on at power on, nothing is selected, and a vertical blank    *)
(* has been requested (the constructor of the engine).                     *)
Init ==
  /\ enabled = TRUE
  /\ current_mode = "oam_scan"
  /\ scanline_compare = 0
  /\ current_scanline = 0
  /\ scanline_cycle = 0
  /\ interrupt_sources = {}
  /\ stat_line = FALSE
  /\ initial_state_after_on = FALSE
  /\ latched_ly_lyc_bit = FALSE
  /\ requested = {"vblank"}
  /\ screen = {}
  /\ lyc_requests = 0

Step ==
  \/ Tick
  \/ SwitchOff
  \/ SwitchOn
  \/ \E sources \in SUBSET Sources : SetInterrupts(sources)
  \/ \E lyc \in LycValues : SetLyc(lyc)
  \/ \E interrupt \in requested : ClearInterrupt(interrupt)

Next == Step /\ CountLyc

TickStep == Tick /\ CountLyc

(* The scheduler loop never stops while the engine runs. *)
Spec == Init /\ [][Next]_vars /\ WF_vars(TickStep)

-----------------------------------------------------------------------------
(* Types, and where each mode lies in the line and in the frame. *)
TypeOK ==
  /\ enabled \in BOOLEAN
  /\ current_mode \in Modes
  /\ scanline_compare \in LycValues
  /\ current_scanline \in 0 .. Lines - 1
  /\ scanline_cycle \in 0 .. LineDots - 1
  /\ interrupt_sources \subseteq Sources
  /\ stat_line \in BOOLEAN
  /\ initial_state_after_on \in BOOLEAN
  /\ latched_ly_lyc_bit \in BOOLEAN
  /\ requested \subseteq Interrupts
  /\ screen \subseteq 0 .. VisibleLines - 1
  /\ lyc_requests \in 0 .. 2

(* Whatever is written while the LCD is on or off, the PPU offers the      *)
(* scheduler at least one dot: each mode is left before the dot at which   *)
(* its unsigned batch would be zero or wrap.                               *)
PositiveBatch == tick_batch > 0

(* The STAT line is recomputed in all the places that change what it       *)
(* depends on, so it never goes stale: a missed update would lose or delay *)
(* an interrupt.  Only in the last dots of h-blank, where LY reads the     *)
(* next line, does it wait for the line to end.                            *)
InEarlyLy == current_mode = "h_blank" /\ scanline_cycle >= EarlyLy
StatLineFresh == enabled /\ ~InEarlyLy => (stat_line <=> StatCondition)

(* A game that polls LY sees every line in order and none twice, in spite  *)
(* of the early reading, until the LCD is switched off.                    *)
LyAdvances ==
  [][enabled /\ enabled' =>
       \/ scanline' \in {scanline, scanline + 1}
       \/ scanline = Lines - 1 /\ scanline' = 0]_vars

(* With LYC as the only source a frame brings one STAT interrupt at most,  *)
(* also when STAT or LYC is written again with the value it has, in the    *)
(* dots in which LY reads the next line.                                   *)
AtMostOneLycInterrupt == interrupt_sources = {"lyc_select"} => lyc_requests <= 1

(* Switching the LCD off preserves the coincidence bit that the game read  *)
(* before, although LY is reset; the two places where LY and LYC are not   *)
(* compared as they stand aside.                                           *)
CoincidenceSurvivesOff ==
  [][enabled /\ ~enabled' /\ ~InEarlyLy /\ scanline_cycle # LycGap =>
       lyc_eq_ly' = lyc_eq_ly]_vars

(* Memory the CPU can read it can also write: the exceptions at the edges  *)
(* of the modes and in the first line after the LCD is on only ever add    *)
(* writes.                                                                 *)
ReadableIsWritable ==
  /\ OamReadable => OamWritable
  /\ VramReadable => VramWritable

(* Seen from the screen the PPU is a counter of dots: lines are shown at   *)
(* fixed times, whatever the drawing mode took and the game wrote, every   *)
(* frame shown is whole, and the vertical blank is requested with it.      *)
Contract == INSTANCE LcdContract WITH
  on     <- enabled,
  dot    <- current_scanline * LineDots + scanline_cycle,
  vblank <- "vblank" \in requested
ImplementsContract == Contract!Spec

(* While the LCD stays on, vertical blanks keep coming. *)
FramesEnd == <>[]enabled => []<>(current_mode = "v_blank") /\ []<>(current_mode = "drawing")
==============================================================================
