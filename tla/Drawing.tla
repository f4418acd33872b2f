------------------------------- MODULE Drawing -------------------------------
(***************************************************************************)
(* The drawing mode of the PPU (handle_draw, graphics_ppu.cppm) with the   *)
(* two fetchers (graphics_pixel_fetcher.cppm), the FIFOs and the buffer of *)
(* objects: one dot per step, line after line.                             *)
(*                                                                         *)
(* A background pixel is represented by the column of the map it shows,    *)
(* counted from the tile at the left edge, and by whether it is a window   *)
(* pixel; a pixel of an object by whether it is opaque and by the object.  *)
(* Colours, palettes and rows within a tile are left out.                  *)
(*                                                                         *)
(* The code has StepDots = 2, hence rows of 8 pixels.                      *)
(***************************************************************************)
EXTENDS Integers, Sequences, SequencesExt

CONSTANTS
  LcdWidth,       (* 160 pixels.                                         *)
  StepDots,       (* 2 dots to each step of a fetcher.                   *)
  MaxObjects,     (* 10: capacity of the object buffer.                  *)
  MaxExtraDelay,  (* 5: the most dots a fetch of an object is delayed.   *)
  Scans,          (* What an OAM scan can find: sequences of objects.    *)
  WxValues,       (* The values written to WX.                           *)
  FineScrolls     (* SCX modulo the row: 0 .. Row - 1 in the code.       *)

Row       == 4 * StepDots   (* Pixels of a tile row, capacity of a FIFO. *)
FetchDots == 3 * StepDots   (* Dots until a fetcher has a row.           *)

Objects == [index : Nat, x : Nat, opaque : SUBSET (1 .. Row)]

ASSUME SizesAssumption ==
  /\ LcdWidth \in Nat \ {0} /\ StepDots \in Nat \ {0}
  /\ MaxObjects \in Nat /\ MaxExtraDelay \in 0 .. 255
ASSUME ScansAssumption ==
  Scans # {} /\ \A scan \in Scans : scan \in Seq(Objects) /\ Len(scan) <= MaxObjects
ASSUME WxAssumption == WxValues \subseteq Nat /\ WxValues # {}
ASSUME ScrollAssumption == FineScrolls \subseteq 0 .. Row - 1

VARIABLES
  current_mode,               (* "oam_scan", "drawing" or "h_blank".     *)
  window_enabled,             (* LCDC bit 5 is set and WY is reached.    *)
  objects_enabled,            (* LCDC bit 1.                             *)
  wx,
  pixels_drawn_in_scanline,
  pixels_to_discard,
  window_fetcher_penalty,
  window_active_in_scanline,
  background_fifo,
  pixel_fetcher,
  sprite_fifo,
  sprite_fetcher,
  sprite_buffer,
  (* The rest is for the properties only.                                *)
  dots,                       (* Dots of the drawing mode so far.        *)
  shown,                      (* The pixel drawn last.                   *)
  fine_scroll,                (* Pixels discarded at the line's start.   *)
  window_start,               (* Where the window started.               *)
  line_objects,               (* The objects of the line.                *)
  objects_steady              (* Objects were enabled all through it.    *)

registers == <<window_enabled, objects_enabled, wx>>
window    == <<window_fetcher_penalty, window_active_in_scanline>>
progress  == <<pixels_drawn_in_scanline, pixels_to_discard>>
pipeline  == <<background_fifo, pixel_fetcher, sprite_fifo, sprite_fetcher, sprite_buffer>>
history   == <<dots, shown, fine_scroll, window_start, line_objects, objects_steady>>
vars == <<current_mode, registers, window, progress, pipeline, history>>

NoObject == <<>>   (* Values of std::optional: <<>> or <<object>>.        *)
NoIndex  == -1

-----------------------------------------------------------------------------
(* graphics::pixel_fetcher.  current_dot counts since the last push.       *)
FetchSteps == {"get_tile_address", "get_tile_data_low", "get_tile_data_high", "sleep", "push"}

NextFetchStep ==
  [get_tile_address   |-> "get_tile_data_low",
   get_tile_data_low  |-> "get_tile_data_high",
   get_tile_data_high |-> "sleep",
   sleep              |-> "push",
   push               |-> "get_tile_address"]

TileRows         == [window : BOOLEAN, tile : Nat]
BackgroundPixels == [window : BOOLEAN, column : Nat]
SpritePixels     == [index : Nat, x : Nat, opaque : BOOLEAN]
FetcherStates    == [x : Nat, step : FetchSteps, cycle : 0 .. StepDots - 1, dot : 0 .. Row,
                     first : BOOLEAN, row : TileRows]

ResetFetcher ==
  [x |-> 0, step |-> "get_tile_address", cycle |-> 0, dot |-> 0, first |-> TRUE,
   row |-> [window |-> FALSE, tile |-> 0]]

(* The pixels of a decoded row. *)
Pixels(row) == [i \in 1 .. Row |-> [window |-> row.window, column |-> Row * row.tile + i - 1]]

(* try_push of a row: all or nothing. *)
HasRoom(fifo) == Len(fifo) + Row <= Row

(* One dot of the fetcher f on the FIFO: the state of both after it.  The  *)
(* first row of a line or window is thrown away and fetched again.         *)
TickFetcher(f, fifo, in_window) ==
  LET ticked   == [f EXCEPT !.dot = @ + 1, !.cycle = @ + 1]
      advanced == [ticked EXCEPT !.step = NextFetchStep[f.step], !.cycle = 0]
      restarted(x) ==
        [ticked EXCEPT !.step = "get_tile_address", !.cycle = 0, !.dot = 0, !.x = x,
                       !.first = FALSE]
  IN  CASE f.step # "push" /\ ticked.cycle < StepDots -> <<ticked, fifo>>
        [] f.step = "get_tile_address" /\ ticked.cycle >= StepDots ->
             <<[advanced EXCEPT !.row = [window |-> in_window, tile |-> f.x]], fifo>>
        [] f.step = "get_tile_data_low" /\ ticked.cycle >= StepDots -> <<advanced, fifo>>
        [] f.step = "get_tile_data_high" /\ ticked.cycle >= StepDots /\ f.first ->
             <<restarted(f.x), fifo>>
        [] \/ f.step = "get_tile_data_high" /\ ticked.cycle >= StepDots /\ ~f.first
           \/ f.step = "sleep" /\ ticked.cycle >= StepDots ->
             IF HasRoom(fifo) THEN <<restarted(f.x + 1), fifo \o Pixels(f.row)>>
             ELSE <<advanced, fifo>>
        [] f.step = "push" ->
             IF HasRoom(fifo) THEN <<restarted(f.x + 1), fifo \o Pixels(f.row)>>
             ELSE <<[f EXCEPT !.dot = @ + 1], fifo>>

(* Seeded fault: the flag of the first row is not cleared. *)
tick_pixel_fetcherAlwaysFirst(f, fifo) ==
  LET after == TickFetcher(f, fifo, window_active_in_scanline')
  IN  /\ pixel_fetcher' = [after[1] EXCEPT !.first = TRUE]
      /\ background_fifo' = after[2]

tick_pixel_fetcher(f, fifo) ==
  LET after == TickFetcher(f, fifo, window_active_in_scanline')
  IN  pixel_fetcher' = after[1] /\ background_fifo' = after[2]

-----------------------------------------------------------------------------
(* graphics::object_fetcher. *)
NextSpriteStep ==
  [get_tile_address   |-> "get_tile_data_low",
   get_tile_data_low  |-> "get_tile_data_high",
   get_tile_data_high |-> "get_tile_address"]

ResetSpriteFetcher ==
  [step |-> "get_tile_address", cycle |-> 0, target |-> NoObject, extra_delay |-> 0]

is_fetching(s) == s.target # NoObject

Transparent == [index |-> 0, x |-> 0, opaque |-> FALSE]

ObjectPixel(object, i) ==
  [index |-> object.index, x |-> object.x, opaque |-> i \in object.opaque]

(* Seeded fault: the pixel that came first stays. *)
resolve_by_arrival(lhs, rhs) == IF lhs.opaque THEN lhs ELSE rhs

(* Of two opaque pixels the object further left wins, then the first one.  *)
resolve_drawing_priority(lhs, rhs) ==
  IF ~lhs.opaque THEN rhs
  ELSE IF ~rhs.opaque THEN lhs
  ELSE IF lhs.x # rhs.x THEN (IF lhs.x < rhs.x THEN lhs ELSE rhs)
  ELSE IF lhs.index < rhs.index THEN lhs ELSE rhs

(* The FIFO is filled up with transparent pixels and merged with the row.  *)
Merged(object) ==
  [i \in 1 .. Row |->
     resolve_drawing_priority(
       IF i <= Len(sprite_fifo) THEN sprite_fifo[i] ELSE Transparent,
       ObjectPixel(object, i))]

(* Seeded fault: each step takes a dot more. *)
tick_sprite_fetcherSlow(s) ==
  LET ticked == [s EXCEPT !.cycle = @ + 1]
  IN  \/ /\ ticked.cycle <= StepDots
         /\ sprite_fetcher' = ticked
         /\ UNCHANGED sprite_fifo
      \/ /\ ticked.cycle > StepDots
         /\ s.step # "get_tile_data_high"
         /\ sprite_fetcher' = [s EXCEPT !.step = NextSpriteStep[s.step], !.cycle = 0]
         /\ UNCHANGED sprite_fifo
      \/ /\ ticked.cycle > StepDots
         /\ s.step = "get_tile_data_high"
         /\ s.extra_delay > 0
         /\ sprite_fetcher' = [ticked EXCEPT !.extra_delay = @ - 1]
         /\ UNCHANGED sprite_fifo
      \/ /\ ticked.cycle > StepDots
         /\ s.step = "get_tile_data_high"
         /\ s.extra_delay = 0
         /\ sprite_fetcher' = [ResetSpriteFetcher EXCEPT !.extra_delay = 255]
         /\ sprite_fifo' = Merged(s.target[1])

(* One dot of the fetcher s.  extra_delay is a std::uint8_t and wraps when *)
(* the fetch is done; the next target sets it again.                       *)
tick_sprite_fetcher(s) ==
  LET ticked == [s EXCEPT !.cycle = @ + 1]
  IN  \/ /\ ticked.cycle < StepDots
         /\ sprite_fetcher' = ticked
         /\ UNCHANGED sprite_fifo
      \/ /\ ticked.cycle >= StepDots
         /\ s.step # "get_tile_data_high"
         /\ sprite_fetcher' = [s EXCEPT !.step = NextSpriteStep[s.step], !.cycle = 0]
         /\ UNCHANGED sprite_fifo
      \/ /\ ticked.cycle >= StepDots
         /\ s.step = "get_tile_data_high"
         /\ s.extra_delay > 0
         /\ sprite_fetcher' = [ticked EXCEPT !.extra_delay = @ - 1]
         /\ UNCHANGED sprite_fifo
      \/ /\ ticked.cycle >= StepDots
         /\ s.step = "get_tile_data_high"
         /\ s.extra_delay = 0
         /\ sprite_fetcher' = [ResetSpriteFetcher EXCEPT !.extra_delay = 255]
         /\ sprite_fifo' = Merged(s.target[1])

(* pop_object_at_x takes the first object of the buffer that begins at the *)
(* pixel to be drawn or before it.                                         *)
IsDue(object) == object.x - Row <= pixels_drawn_in_scanline
FirstDue(i) == /\ IsDue(sprite_buffer[i])
               /\ \A j \in 1 .. i - 1 : ~IsDue(sprite_buffer[j])
TakesObject ==
  /\ objects_enabled
  /\ ~is_fetching(sprite_fetcher)
  /\ \E i \in DOMAIN sprite_buffer : IsDue(sprite_buffer[i])

-----------------------------------------------------------------------------
(* The rest of a dot once the window is dealt with: f, fifo and discard    *)
(* are what the window's start left of the background pipeline.            *)

(* An object is being fetched; the background fetcher goes first while it  *)
(* needs the bus for the first row of the line.                            *)
FetchObject(s, f, fifo, discard) ==
  /\ pixels_to_discard' = discard
  /\ UNCHANGED <<current_mode, pixels_drawn_in_scanline, shown>>
  /\ IF f.dot >= FetchDots \/ Len(fifo) > 0
     THEN /\ tick_sprite_fetcher(s)
          /\ pixel_fetcher' = f
          /\ background_fifo' = fifo
     ELSE /\ tick_pixel_fetcher(f, fifo)
          /\ sprite_fetcher' = s
          /\ UNCHANGED sprite_fifo

(* mix: an opaque pixel of an object hides the background.  The background *)
(* priority of an object is left out.                                      *)
ShownObject ==
  IF sprite_fifo # <<>> /\ Head(sprite_fifo).opaque /\ objects_enabled
  THEN Head(sprite_fifo).index
  ELSE NoIndex

(* Seeded fault: the fetcher runs before the pixel leaves the FIFO. *)
DrawPixelFetchingFirst(f, fifo, discard) ==
  LET after == TickFetcher(f, fifo, window_active_in_scanline')
  IN  /\ UNCHANGED <<sprite_fetcher, sprite_fifo, shown>>
      /\ pixel_fetcher' = after[1]
      /\ IF after[2] = <<>>
         THEN /\ background_fifo' = after[2]
              /\ pixels_to_discard' = discard
              /\ UNCHANGED <<current_mode, pixels_drawn_in_scanline>>
         ELSE /\ background_fifo' = Tail(after[2])
              /\ pixels_to_discard' = IF discard > 0 THEN discard - 1 ELSE 0
              /\ pixels_drawn_in_scanline' =
                   pixels_drawn_in_scanline + (IF discard > 0 THEN 0 ELSE 1)
              /\ current_mode' = IF pixels_drawn_in_scanline' = LcdWidth
                                 THEN "h_blank" ELSE "drawing"

(* A pixel of the background leaves the FIFO, to be discarded or drawn,    *)
(* and the fetcher uses the same dot.                                      *)
DrawPixel(f, fifo, discard) ==
  /\ UNCHANGED sprite_fetcher
  /\ \/ /\ fifo = <<>>
        /\ tick_pixel_fetcher(f, fifo)
        /\ pixels_to_discard' = discard
        /\ UNCHANGED <<current_mode, pixels_drawn_in_scanline, shown, sprite_fifo>>
     \/ /\ fifo # <<>> /\ discard > 0
        /\ tick_pixel_fetcher(f, Tail(fifo))
        /\ pixels_to_discard' = discard - 1
        /\ UNCHANGED <<current_mode, pixels_drawn_in_scanline, shown, sprite_fifo>>
     \/ /\ fifo # <<>> /\ discard = 0
        /\ tick_pixel_fetcher(f, Tail(fifo))
        /\ pixels_to_discard' = 0
        /\ sprite_fifo' = IF sprite_fifo = <<>> THEN <<>> ELSE Tail(sprite_fifo)
        /\ shown' = [pixel |-> pixels_drawn_in_scanline, background |-> Head(fifo),
                     object |-> ShownObject]
        /\ pixels_drawn_in_scanline' = pixels_drawn_in_scanline + 1
        /\ current_mode' = IF pixels_drawn_in_scanline' = LcdWidth
                           THEN "h_blank" ELSE "drawing"

Pipeline(f, fifo, discard) ==
  \/ /\ TakesObject
     /\ \E i \in DOMAIN sprite_buffer, delay \in 0 .. MaxExtraDelay :
          /\ FirstDue(i)
          /\ sprite_buffer' = RemoveAt(sprite_buffer, i)
          /\ FetchObject([ResetSpriteFetcher EXCEPT !.target = <<sprite_buffer[i]>>,
                                                    !.extra_delay = delay],
                         f, fifo, discard)
  \/ /\ ~TakesObject
     /\ UNCHANGED sprite_buffer
     /\ \/ is_fetching(sprite_fetcher) /\ FetchObject(sprite_fetcher, f, fifo, discard)
        \/ ~is_fetching(sprite_fetcher) /\ DrawPixel(f, fifo, discard)

WindowStarts ==
  /\ ~window_active_in_scanline
  /\ window_enabled
  /\ pixels_drawn_in_scanline >= wx - (Row - 1)

(* Seeded fault: the pixels that wait in the FIFO are still drawn. *)
StartWindowKeepingPixels ==
  /\ WindowStarts
  /\ window_active_in_scanline' = TRUE
  /\ window_start' = pixels_drawn_in_scanline
  /\ window_fetcher_penalty' = FetchDots - 1
  /\ pixel_fetcher' = ResetFetcher
  /\ pixels_to_discard' = 0
  /\ UNCHANGED <<current_mode, pixels_drawn_in_scanline, shown, background_fifo,
                 sprite_fifo, sprite_fetcher, sprite_buffer>>

(* The background restarts with the window's first tile.  With wx = 0 the  *)
(* rest of the dot follows, otherwise the first dot of the penalty.        *)
StartWindow ==
  /\ WindowStarts
  /\ window_active_in_scanline' = TRUE
  /\ window_start' = pixels_drawn_in_scanline
  /\ \/ /\ wx = 0
        /\ window_fetcher_penalty' = 0
        /\ Pipeline(ResetFetcher, <<>>, 0)
     \/ /\ wx > 0
        /\ window_fetcher_penalty' = FetchDots - 1
        /\ pixel_fetcher' = ResetFetcher
        /\ background_fifo' = <<>>
        /\ pixels_to_discard' = 0
        /\ UNCHANGED <<current_mode, pixels_drawn_in_scanline, shown, sprite_fifo,
                       sprite_fetcher, sprite_buffer>>

WaitPenalty ==
  /\ ~WindowStarts
  /\ window_fetcher_penalty > 0
  /\ window_fetcher_penalty' = window_fetcher_penalty - 1
  /\ UNCHANGED <<current_mode, progress, pipeline, shown, window_active_in_scanline,
                 window_start>>

RunPipeline ==
  /\ ~WindowStarts
  /\ window_fetcher_penalty = 0
  /\ UNCHANGED <<window, window_start>>
  /\ Pipeline(pixel_fetcher, background_fifo, pixels_to_discard)

(* The shortest and the longest line: the longest fetches its first row    *)
(* twice, restarts for the window with the full penalty, and waits for the *)
(* most objects with the most delay.                                       *)
MinDraw == LcdWidth + 2 * FetchDots
MaxDraw == LcdWidth + (Row - 1) + 2 * FetchDots + 3 * FetchDots
             + MaxObjects * (FetchDots + MaxExtraDelay)

(* handle_draw: one dot.  The count of dots stops at MaxDraw. *)
Draw ==
  /\ current_mode = "drawing"
  /\ dots' = IF dots < MaxDraw THEN dots + 1 ELSE dots
  /\ objects_steady' = (objects_steady /\ objects_enabled)
  /\ StartWindow \/ WaitPenalty \/ RunPipeline
  /\ UNCHANGED <<registers, fine_scroll, line_objects>>

-----------------------------------------------------------------------------
(* The end of handle_scan_oam: the scan has added the objects it found to  *)
(* the buffer, which an LCD that was switched off may have left filled.    *)
StartLine(scan, scroll) ==
  LET found == SubSeq(sprite_buffer \o scan, 1,
                      IF Len(sprite_buffer \o scan) < MaxObjects
                      THEN Len(sprite_buffer \o scan) ELSE MaxObjects)
  IN  /\ current_mode = "oam_scan"
      /\ current_mode' = "drawing"
      /\ pixel_fetcher' = ResetFetcher
      /\ background_fifo' = <<>>
      /\ sprite_fetcher' = ResetSpriteFetcher
      /\ sprite_fifo' = <<>>
      /\ sprite_buffer' = found
      /\ pixels_drawn_in_scanline' = 0
      /\ pixels_to_discard' = scroll
      /\ dots' = 0
      /\ fine_scroll' = scroll
      /\ line_objects' = found
      /\ objects_steady' = objects_enabled
      /\ UNCHANGED <<registers, window, shown, window_start>>

NothingShown ==
  [object |-> NoIndex, pixel |-> 0, background |-> [window |-> FALSE, column |-> 0]]

ForgetLine ==
  /\ dots' = 0
  /\ shown' = NothingShown
  /\ fine_scroll' = 0
  /\ window_start' = 0
  /\ line_objects' = <<>>
  /\ objects_steady' = FALSE

(* The end of handle_h_blank. *)
EndLine ==
  /\ current_mode = "h_blank"
  /\ current_mode' = "oam_scan"
  /\ window_active_in_scanline' = FALSE
  /\ sprite_buffer' = <<>>
  /\ ForgetLine
  /\ UNCHANGED <<registers, window_fetcher_penalty, progress, background_fifo, pixel_fetcher,
                 sprite_fifo, sprite_fetcher>>

(* set_enabled(false), then an OAM scan once the LCD is on again. *)
SwitchOff ==
  /\ current_mode' = "oam_scan"
  /\ window_fetcher_penalty' = 0
  /\ window_active_in_scanline' = FALSE
  /\ pixels_drawn_in_scanline' = 0
  /\ pixels_to_discard' = 0
  /\ background_fifo' = <<>>
  /\ pixel_fetcher' = ResetFetcher
  /\ ForgetLine
  /\ UNCHANGED <<registers, sprite_fifo, sprite_fetcher, sprite_buffer>>

(* A CPU write to LCDC, WY or WX. *)
WriteRegisters ==
  /\ window_enabled' \in BOOLEAN
  /\ objects_enabled' \in BOOLEAN
  /\ wx' \in WxValues
  /\ objects_steady' = (objects_steady /\ objects_enabled')
  /\ UNCHANGED <<current_mode, window, progress, pipeline, dots, shown, fine_scroll,
                 window_start, line_objects>>

-----------------------------------------------------------------------------
Init ==
  /\ current_mode = "oam_scan"
  /\ window_enabled = FALSE
  /\ objects_enabled = FALSE
  /\ wx \in WxValues
  /\ pixels_drawn_in_scanline = 0
  /\ pixels_to_discard = 0
  /\ window_fetcher_penalty = 0
  /\ window_active_in_scanline = FALSE
  /\ background_fifo = <<>>
  /\ pixel_fetcher = ResetFetcher
  /\ sprite_fifo = <<>>
  /\ sprite_fetcher = ResetSpriteFetcher
  /\ sprite_buffer = <<>>
  /\ dots = 0
  /\ shown = NothingShown
  /\ fine_scroll = 0
  /\ window_start = 0
  /\ line_objects = <<>>
  /\ objects_steady = FALSE

Next ==
  \/ Draw
  \/ \E scan \in Scans, scroll \in FineScrolls : StartLine(scan, scroll)
  \/ EndLine
  \/ SwitchOff
  \/ WriteRegisters

(* The scheduler loop never stops while the engine runs. *)
Spec == Init /\ [][Next]_vars /\ WF_vars(Draw)

-----------------------------------------------------------------------------
(* Types and bounds of the counters and FIFOs. *)
TypeOK ==
  /\ current_mode \in {"oam_scan", "drawing", "h_blank"}
  /\ window_enabled \in BOOLEAN
  /\ objects_enabled \in BOOLEAN
  /\ wx \in WxValues
  /\ pixels_drawn_in_scanline \in 0 .. LcdWidth
  /\ pixels_to_discard \in 0 .. Row - 1
  /\ window_fetcher_penalty \in 0 .. FetchDots
  /\ window_active_in_scanline \in BOOLEAN
  /\ background_fifo \in Seq(BackgroundPixels)
  /\ Len(background_fifo) <= Row
  /\ pixel_fetcher \in FetcherStates
  /\ sprite_fifo \in Seq(SpritePixels)
  /\ Len(sprite_fifo) <= Row
  /\ sprite_fetcher.step \in DOMAIN NextSpriteStep
  /\ sprite_fetcher.cycle \in 0 .. StepDots + MaxExtraDelay
  /\ sprite_fetcher.extra_delay \in 0 .. 255
  /\ sprite_fetcher.target \in Seq(Objects)
  /\ Len(sprite_fetcher.target) <= 1
  /\ sprite_buffer \in Seq(Objects)
  /\ Len(sprite_buffer) <= MaxObjects

(* The drawing mode ends in time for the dots of h-blank, whatever the     *)
(* game writes and wherever its objects are: MaxDraw of module Ppu.        *)
DrawingIsBounded ==
  /\ current_mode = "drawing" => dots < MaxDraw
  /\ current_mode = "h_blank" => dots \in MinDraw .. MaxDraw

(* The two clocks of the pipeline stay in step: once the first row of a    *)
(* line or window is there, a pixel leaves the FIFO in each dot the        *)
(* fetcher runs, and the next row arrives in the dot that takes the last   *)
(* one.  So the FIFO is never found empty and the fetcher never has to     *)
(* wait with a row (its step "push" is never reached).                     *)
FetcherKeepsUp ==
  /\ pixel_fetcher.x > 0 => Len(background_fifo) + pixel_fetcher.dot = Row
  /\ pixel_fetcher.step # "push"

(* No column of the background is lost or drawn twice where rows meet,     *)
(* after the fine scroll, and where the window begins, whatever objects    *)
(* interrupt the fetches.                                                  *)
SeamlessBackground ==
  current_mode = "drawing" /\ pixels_drawn_in_scanline > 0 =>
    LET p == shown.pixel
    IN  \/ shown.background = [window |-> TRUE, column |-> p - window_start]
        \/ shown.background = [window |-> FALSE, column |-> p + fine_scroll]

(* Where the pixels of an object begin.  An object that hangs over the     *)
(* left edge is drawn from the edge on.                                    *)
LeftEdge(object) == IF object.x > Row THEN object.x - Row ELSE 0

Covering(p) ==
  {object \in ToSet(line_objects) : p - LeftEdge(object) + 1 \in object.opaque}

InFrontOf(a, b) == a.x < b.x \/ (a.x = b.x /\ a.index <= b.index)

(* The FIFO of objects, filled by merging rows while pixels leave it,      *)
(* shows at every pixel the opaque object that is furthest left, or the    *)
(* first of those, in whatever order they are fetched.  This is for lines  *)
(* in which objects stay enabled.                                          *)
FrontmostObject ==
  current_mode = "drawing" /\ pixels_drawn_in_scanline > 0 /\ objects_steady =>
    LET covering == Covering(shown.pixel)
    IN  IF covering = {} THEN shown.object = NoIndex
        ELSE \E front \in covering :
               /\ \A object \in covering : InFrontOf(front, object)
               /\ shown.object = front.index

(* A line that is begun is drawn to its end, or the LCD is switched off.   *)
LineEnds == current_mode = "drawing" ~> current_mode # "drawing"
==============================================================================
