----------------------------- MODULE DrawingProofs -----------------------------
(***************************************************************************)
(* Proofs about Drawing, for every width of the screen, number of dots to  *)
(* a step of a fetcher, number and delay of objects, and whatever the OAM  *)
(* scans find and the game writes: the drawing mode ends in time, the      *)
(* background fetcher keeps up and loses no column, and at every pixel the *)
(* object in front is shown.                                               *)
(***************************************************************************)
EXTENDS Drawing, TLAPS, SequenceTheorems

(* ---- The background. ---- *)

(* The two clocks of the background pipeline: a fetcher that never has to  *)
(* wait counts the dots of its steps, and in the rows after the first its  *)
(* dots and the pixels that wait are a row together; "taken" is 1 between  *)
(* a pixel's leaving the FIFO and the dot of the fetcher.                  *)
InStep(f, fifo, taken) ==
  /\ \/ f.step = "get_tile_address" /\ f.dot = f.cycle
     \/ f.step = "get_tile_data_low" /\ f.dot = StepDots + f.cycle
     \/ f.step = "get_tile_data_high" /\ f.dot = 2 * StepDots + f.cycle
     \/ f.step = "sleep" /\ f.dot = 3 * StepDots + f.cycle /\ f.x > 0
  /\ f.x = 0 => fifo = <<>>
  /\ f.x > 0 => ~f.first /\ Len(fifo) + f.dot + taken = Row

(* The row the fetcher holds, and the pixels that wait: those before the   *)
(* tile that is fetched next.                                              *)
RightRow(f, in_window) ==
  f.step # "get_tile_address" => f.row = [window |-> in_window, tile |-> f.x]

RightPixels(f, fifo, in_window) ==
  \A i \in 1 .. Len(fifo) :
    fifo[i] = [window |-> in_window, column |-> Row * f.x - Len(fifo) + i - 1]

Sound(f, fifo, in_window) ==
  /\ f \in FetcherStates /\ fifo \in Seq(BackgroundPixels) /\ Len(fifo) <= Row
  /\ InStep(f, fifo, 0)
  /\ RightRow(f, in_window)
  /\ RightPixels(f, fifo, in_window)

(* How many columns have left the FIFO.                                    *)
Taken(in_window, start, drawn, discard) ==
  IF in_window THEN drawn - start ELSE drawn + fine_scroll - discard

ShownIs(in_window, start, drawn, pixel) ==
  drawn > 0 =>
    \/ in_window /\ pixel.background = [window |-> TRUE, column |-> pixel.pixel - start]
    \/ pixel.background = [window |-> FALSE, column |-> pixel.pixel + fine_scroll]

(* The next pixel is the right one, and so was the last.                   *)
BackgroundReady(f, fifo, discard, in_window, start, drawn, pixel) ==
  /\ Sound(f, fifo, in_window)
  /\ discard \in 0 .. Row - 1 /\ (in_window => discard = 0)
  /\ drawn \in Nat
  /\ Row * f.x - Len(fifo) = Taken(in_window, start, drawn, discard)
  /\ ShownIs(in_window, start, drawn, pixel)

(* ---- The dots. ---- *)

(* Dots until the first row of the line or window is there, without the    *)
(* objects that may come in between.                                       *)
FetchLeft(f) ==
  IF f.x > 0 THEN 0
  ELSE IF f.first THEN 2 * FetchDots - f.dot ELSE FetchDots - f.dot

ObjectLeft(s) ==
  IF ~is_fetching(s) THEN 0
  ELSE s.extra_delay +
         (IF s.step = "get_tile_address" THEN 3 * StepDots - s.cycle
          ELSE IF s.step = "get_tile_data_low" THEN 2 * StepDots - s.cycle
          ELSE IF s.cycle < StepDots THEN StepDots - s.cycle ELSE 1)

ObjectCost == FetchDots + MaxExtraDelay

WindowLeft(in_window, penalty) == IF in_window THEN penalty ELSE 3 * FetchDots

BackgroundLeft(f, discard, drawn) == (LcdWidth - drawn) + discard + FetchLeft(f)
ObjectsLeft(s, buffer)            == ObjectLeft(s) + Len(buffer) * ObjectCost

(* The most dots the rest of the line can take. *)
DotsLeft ==
  BackgroundLeft(pixel_fetcher, pixels_to_discard, pixels_drawn_in_scanline)
    + ObjectsLeft(sprite_fetcher, sprite_buffer)
    + WindowLeft(window_active_in_scanline, window_fetcher_penalty)

(* The fewest the line has taken. *)
FetchDone(drawn, f) == IF drawn > 0 THEN 2 * FetchDots ELSE 2 * FetchDots - FetchLeft(f)

OnTime ==
  /\ current_mode = "drawing" =>
       /\ dots + DotsLeft <= MaxDraw
       /\ pixels_drawn_in_scanline + FetchDone(pixels_drawn_in_scanline, pixel_fetcher) <= dots
       /\ pixels_drawn_in_scanline < LcdWidth
  /\ current_mode = "h_blank" => dots \in MinDraw .. MaxDraw

(* ---- The objects. ---- *)

SpriteFetcherStates ==
  [step : {"get_tile_address", "get_tile_data_low", "get_tile_data_high"}, cycle : Nat,
   target : Seq(Objects), extra_delay : 0 .. 255]

(* The delay of a fetch is counted down while the count of dots runs on.   *)
SpriteTimed(s) ==
  /\ s.step # "get_tile_data_high" => s.cycle < StepDots
  /\ is_fetching(s) => /\ s.extra_delay <= MaxExtraDelay
                       /\ s.cycle + s.extra_delay < StepDots + MaxExtraDelay

LineObjects == ToSet(line_objects)
Pending(buffer, s) == ToSet(buffer) \cup ToSet(s.target)
Covers(object, p)  == p - LeftEdge(object) + 1 \in object.opaque

(* Of the objects that cover a pixel the FIFO holds the one in front, but  *)
(* for those that are still to be fetched, and these begin at the pixel to *)
(* be drawn or after it.                                                   *)
ObjectsAre(buffer, s, fifo, drawn) ==
  /\ \A object \in Pending(buffer, s) : object \in LineObjects /\ drawn <= LeftEdge(object)
  /\ \A object \in ToSet(s.target) : LeftEdge(object) = drawn
  /\ \A i \in 1 .. Len(fifo) :
       fifo[i].opaque =>
         \E front \in LineObjects :
           Covers(front, drawn + i - 1) /\ fifo[i].index = front.index /\ fifo[i].x = front.x
  /\ \A i \in Nat \ {0}, object \in LineObjects :
       Covers(object, drawn + i - 1) =>
         \/ object \in Pending(buffer, s)
         \/ i <= Len(fifo) /\ fifo[i].opaque /\ InFrontOf(fifo[i], object)

FrontShown(pixel) ==
  LET covering == Covering(pixel.pixel)
  IN  IF covering = {} THEN pixel.object = NoIndex
      ELSE \E front \in covering :
             /\ \A object \in covering : InFrontOf(front, object)
             /\ pixel.object = front.index

(* ---- Together. ---- *)

Placed ==
  /\ current_mode = "oam_scan" => ~window_active_in_scanline
  /\ window_fetcher_penalty > 0 => window_active_in_scanline /\ current_mode = "drawing"
  /\ window_fetcher_penalty < FetchDots
  /\ objects_steady \in BOOLEAN
  /\ objects_steady => objects_enabled
  /\ dots \in Nat
  /\ fine_scroll \in Nat
  /\ window_start \in Nat
  /\ sprite_fetcher \in SpriteFetcherStates
  /\ line_objects \in Seq(Objects)

LineDrawn ==
  current_mode = "drawing" =>
    BackgroundReady(pixel_fetcher, background_fifo, pixels_to_discard, window_active_in_scanline,
                    window_start, pixels_drawn_in_scanline, shown)

ObjectsShown ==
  current_mode = "drawing" /\ objects_steady =>
    /\ ObjectsAre(sprite_buffer, sprite_fetcher, sprite_fifo, pixels_drawn_in_scanline)
    /\ pixels_drawn_in_scanline > 0 => FrontShown(shown)

IInv ==
  /\ TypeOK
  /\ Placed
  /\ InStep(pixel_fetcher, background_fifo, 0)
  /\ SpriteTimed(sprite_fetcher)
  /\ LineDrawn
  /\ ObjectsShown
  /\ OnTime

-----------------------------------------------------------------------------
LEMMA Sizes ==
  /\ StepDots \in Nat /\ StepDots > 0
  /\ FetchDots = 3 * StepDots /\ FetchDots \in Nat
  /\ Row = 4 * StepDots /\ Row \in Nat
  /\ LcdWidth \in Nat /\ LcdWidth > 0
  /\ MaxObjects \in Nat /\ MaxExtraDelay \in 0 .. 255
BY SizesAssumption DEF FetchDots, Row

LEMMA NextTile ==
  ASSUME NEW x \in Nat
  PROVE  Row * x \in Nat /\ Row * (x + 1) = Row * x + Row
BY Sizes

(* The row that is pushed. *)
LEMMA PixelsOfRow ==
  ASSUME NEW row \in TileRows
  PROVE  /\ Pixels(row) \in Seq(BackgroundPixels)
         /\ Len(Pixels(row)) = Row
         /\ \A i \in 1 .. Row :
              Pixels(row)[i] = [window |-> row.window, column |-> Row * row.tile + i - 1]
<1>1. row.tile \in Nat /\ row.window \in BOOLEAN
  BY DEF TileRows
<1>2. Row * row.tile \in Nat /\ Row \in Nat
  BY <1>1, NextTile, Sizes
<1>3. ASSUME NEW i \in 1 .. Row
      PROVE  [window |-> row.window, column |-> Row * row.tile + i - 1] \in BackgroundPixels
  <2>1. Row * row.tile + i - 1 \in Nat
    BY <1>2
  <2>2. QED
    BY <1>1, <2>1 DEF BackgroundPixels
<1>4. Pixels(row) \in [1 .. Row -> BackgroundPixels]
  BY <1>3 DEF Pixels
<1>5. Pixels(row) \in Seq(BackgroundPixels) /\ Len(Pixels(row)) = Row
  BY <1>2, <1>4
<1>6. QED
  BY <1>5 DEF Pixels

(* What a dot does to the background fetcher, unless it waits to push.     *)
On(f, step, cycle) == [f EXCEPT !.dot = @ + 1, !.cycle = cycle, !.step = step]

Restarted(f, x) ==
  [f EXCEPT !.step = "get_tile_address", !.cycle = 0, !.dot = 0, !.x = x, !.first = FALSE]

LEMMA TickValue ==
  ASSUME NEW f \in FetcherStates, NEW fifo, NEW in_window, f.step # "push"
  PROVE  LET next == TickFetcher(f, fifo, in_window)
             last == f.cycle + 1 >= StepDots
         IN  /\ ~last => next = <<On(f, f.step, f.cycle + 1), fifo>>
             /\ last /\ f.step = "get_tile_address" =>
                  next = <<[On(f, "get_tile_data_low", 0)
                              EXCEPT !.row = [window |-> in_window, tile |-> f.x]], fifo>>
             /\ last /\ f.step = "get_tile_data_low" =>
                  next = <<On(f, "get_tile_data_high", 0), fifo>>
             /\ last /\ f.step = "get_tile_data_high" /\ f.first =>
                  next = <<Restarted(f, f.x), fifo>>
             /\ last /\ ((f.step = "get_tile_data_high" /\ ~f.first) \/ f.step = "sleep") =>
                  next = IF HasRoom(fifo)
                         THEN <<Restarted(f, f.x + 1), fifo \o Pixels(f.row)>>
                         ELSE <<On(f, NextFetchStep[f.step], 0), fifo>>
<1> DEFINE ticked == [f EXCEPT !.dot = @ + 1, !.cycle = @ + 1]
           advanced == [ticked EXCEPT !.step = NextFetchStep[f.step], !.cycle = 0]
           restarted(x) ==
             [ticked EXCEPT !.step = "get_tile_address", !.cycle = 0, !.dot = 0, !.x = x,
                            !.first = FALSE]
<1>0. ticked.cycle = f.cycle + 1
  BY SMTT(30) DEF FetcherStates
<1>1. /\ ticked = On(f, f.step, f.cycle + 1)
      /\ advanced = On(f, NextFetchStep[f.step], 0)
      /\ \A x : restarted(x) = Restarted(f, x)
  BY DEF FetcherStates, On, Restarted
<1>2. f.step \in FetchSteps /\ f.cycle \in Int /\ StepDots \in Int
  BY SizesAssumption DEF FetcherStates
<1>3. ticked.cycle < StepDots <=> ~(ticked.cycle >= StepDots)
  <2> HIDE DEF ticked
  <2>1. ticked.cycle \in Int
    BY <1>0, <1>2
  <2>2. QED
    BY ONLY <1>2, <2>1
<1>4. NextFetchStep["get_tile_address"] = "get_tile_data_low"
      /\ NextFetchStep["get_tile_data_low"] = "get_tile_data_high"
  BY DEF NextFetchStep
<1>5. TickFetcher(f, fifo, in_window) =
        CASE f.step # "push" /\ ticked.cycle < StepDots -> <<ticked, fifo>>
          [] f.step = "get_tile_address" /\ ticked.cycle >= StepDots ->
               <<[advanced EXCEPT !.row = [window |-> in_window, tile |-> f.x]], fifo>>
          [] f.step = "get_tile_data_low" /\ ticked.cycle >= StepDots -> <<advanced, fifo>>
          [] f.step = "get_tile_data_high" /\ ticked.cycle >= StepDots /\ f.first ->
               <<restarted(f.x), fifo>>
          [] \/ f.step = "get_tile_data_high" /\ ticked.cycle >= StepDots /\ ~f.first
             \/ f.step = "sleep" /\ ticked.cycle >= StepDots ->
               IF HasRoom(fifo) THEN <<restarted(f.x + 1), fifo \o Pixels(f.row)>>
               ELSE <<advanced, fifo>>
          [] f.step = "push" ->
               IF HasRoom(fifo) THEN <<restarted(f.x + 1), fifo \o Pixels(f.row)>>
               ELSE <<[f EXCEPT !.dot = @ + 1], fifo>>
  BY ONLY DEF TickFetcher
<1> HIDE DEF ticked, advanced, restarted
<1>6. CASE ~(f.cycle + 1 >= StepDots)
  <2>1. TickFetcher(f, fifo, in_window) = <<ticked, fifo>>
    BY ONLY <1>0, <1>1, <1>2, <1>3, <1>5, <1>6, f.step # "push"
  <2>2. QED
    BY <1>1, <1>6, <2>1
<1>7. CASE f.cycle + 1 >= StepDots
  <2>1. f.step = "get_tile_address" =>
          TickFetcher(f, fifo, in_window) =
            <<[advanced EXCEPT !.row = [window |-> in_window, tile |-> f.x]], fifo>>
    BY ONLY <1>0, <1>1, <1>3, <1>5, <1>7
  <2>2. f.step = "get_tile_data_low" => TickFetcher(f, fifo, in_window) = <<advanced, fifo>>
    BY ONLY <1>0, <1>1, <1>3, <1>5, <1>7
  <2>3. f.step = "get_tile_data_high" /\ f.first =>
          TickFetcher(f, fifo, in_window) = <<restarted(f.x), fifo>>
    BY ONLY <1>0, <1>1, <1>3, <1>5, <1>7
  <2>4. ((f.step = "get_tile_data_high" /\ ~f.first) \/ f.step = "sleep") =>
          TickFetcher(f, fifo, in_window) =
            IF HasRoom(fifo) THEN <<restarted(f.x + 1), fifo \o Pixels(f.row)>>
            ELSE <<advanced, fifo>>
    BY ONLY <1>0, <1>1, <1>3, <1>5, <1>7
  <2>5. QED
    BY ONLY <1>1, <1>4, <1>7, <2>1, <2>2, <2>3, <2>4
<1>8. QED
  BY <1>6, <1>7

LEMMA OnFields ==
  ASSUME NEW f \in FetcherStates, NEW step \in FetchSteps, NEW cycle \in 0 .. StepDots - 1,
         f.dot + 1 \in 0 .. Row
  PROVE  LET g == On(f, step, cycle)
         IN  /\ g \in FetcherStates
             /\ g.x = f.x /\ g.first = f.first /\ g.row = f.row
             /\ g.dot = f.dot + 1 /\ g.step = step /\ g.cycle = cycle
BY ONLY f \in FetcherStates, step \in FetchSteps, cycle \in 0 .. StepDots - 1,
        f.dot + 1 \in 0 .. Row
   DEF On, FetcherStates

LEMMA RestartedFields ==
  ASSUME NEW f \in FetcherStates, NEW x \in Nat
  PROVE  LET g == Restarted(f, x)
         IN  /\ g \in FetcherStates
             /\ g.x = x /\ g.first = FALSE
             /\ g.dot = 0 /\ g.step = "get_tile_address" /\ g.cycle = 0
<1>1. 0 \in 0 .. Row /\ 0 \in 0 .. StepDots - 1
  BY Sizes
<1>2. "get_tile_address" \in FetchSteps
  BY DEF FetchSteps
<1>3. QED
  BY ONLY <1>1, <1>2, f \in FetcherStates, x \in Nat DEF Restarted, FetcherStates

LEMMA RowFields ==
  ASSUME NEW f \in FetcherStates, NEW row \in TileRows
  PROVE  LET g == [f EXCEPT !.row = row]
         IN  /\ g \in FetcherStates
             /\ g.x = f.x /\ g.first = f.first /\ g.row = row
             /\ g.dot = f.dot /\ g.step = f.step /\ g.cycle = f.cycle
BY ONLY f \in FetcherStates, row \in TileRows DEF FetcherStates

(* One dot of the background fetcher, with a FIFO that a pixel has left    *)
(* or that is empty: it moves on, it fetches the first row again, or it    *)
(* pushes a row into the empty FIFO.                                       *)
Ready(f, fifo) ==
  /\ f \in FetcherStates /\ fifo \in Seq(BackgroundPixels)
  /\ \/ f.x = 0 /\ InStep(f, fifo, 0)
     \/ f.x > 0 /\ InStep(f, fifo, 1)

Moves(f, g) ==
  /\ g.x = f.x /\ g.first = f.first /\ g.dot = f.dot + 1
  /\ f.dot + 1 < Row /\ (f.x = 0 => f.dot + 1 < FetchDots)

(* The step a dot leads to.                                                *)
Steps(f, g) ==
  \/ f.cycle + 1 < StepDots /\ g.step = f.step /\ g.cycle = f.cycle + 1
  \/ /\ f.cycle + 1 = StepDots /\ g.cycle = 0
     /\ \/ f.step = "get_tile_address" /\ g.step = "get_tile_data_low"
        \/ f.step = "get_tile_data_low" /\ g.step = "get_tile_data_high"
        \/ f.step = "get_tile_data_high" /\ g.step = "sleep" /\ f.x > 0

LEMMA StepsInStep ==
  ASSUME NEW f, NEW fifo, NEW g, Ready(f, fifo), g \in FetcherStates,
         g.x = f.x, g.first = f.first, g.dot = f.dot + 1, Steps(f, g)
  PROVE  Moves(f, g) /\ InStep(g, fifo, 0)
<1>1. /\ f.x \in Nat /\ f.cycle \in Nat /\ f.cycle < StepDots /\ f.dot \in Nat
      /\ g.x = f.x /\ g.first = f.first /\ g.dot = f.dot + 1
  BY Sizes DEF Ready, FetcherStates
<1>2. StepDots \in Nat /\ StepDots > 0 /\ Row = 4 * StepDots /\ FetchDots = 3 * StepDots
  BY Sizes
<1>3. \/ f.step = "get_tile_address" /\ f.dot = f.cycle
      \/ f.step = "get_tile_data_low" /\ f.dot = StepDots + f.cycle
      \/ f.step = "get_tile_data_high" /\ f.dot = 2 * StepDots + f.cycle
      \/ f.step = "sleep" /\ f.dot = 3 * StepDots + f.cycle /\ f.x > 0
  BY DEF Ready, InStep
<1>4. \/ g.step = "get_tile_address" /\ g.dot = g.cycle
      \/ g.step = "get_tile_data_low" /\ g.dot = StepDots + g.cycle
      \/ g.step = "get_tile_data_high" /\ g.dot = 2 * StepDots + g.cycle
      \/ g.step = "sleep" /\ g.dot = 3 * StepDots + g.cycle /\ g.x > 0
  BY ONLY <1>1, <1>2, <1>3, Steps(f, g) DEF Steps
<1>5. f.dot + 1 < Row /\ (f.x = 0 => f.dot + 1 < FetchDots)
  BY ONLY <1>1, <1>2, <1>3, Steps(f, g) DEF Steps
<1>6. /\ f.x = 0 => fifo = <<>>
      /\ f.x > 0 => ~f.first /\ Len(fifo) + f.dot + 1 = Row
  BY <1>1 DEF Ready, InStep
<1>7. Len(fifo) \in Nat
  BY DEF Ready
<1>8. g.x > 0 => ~g.first /\ Len(fifo) + g.dot + 0 = Row
  BY ONLY <1>1, <1>2, <1>6, <1>7
<1>9. g.x = 0 => fifo = <<>>
  BY <1>1, <1>6
<1>10. QED
  BY <1>1, <1>4, <1>5, <1>8, <1>9 DEF Moves, InStep

LEMMA TickOutcome ==
  ASSUME NEW f, NEW fifo, NEW in_window \in BOOLEAN, Ready(f, fifo), RightRow(f, in_window),
         NEW g, NEW after, TickFetcher(f, fifo, in_window) = <<g, after>>
  PROVE  \/ /\ after = fifo /\ g \in FetcherStates
            /\ Moves(f, g) /\ InStep(g, fifo, 0) /\ RightRow(g, in_window)
         \/ /\ after = <<>> /\ fifo = <<>> /\ f.x = 0 /\ f.first /\ f.dot + 1 = FetchDots
            /\ g = Restarted(f, 0)
         \/ /\ after = Pixels(f.row) /\ fifo = <<>> /\ ~f.first
            /\ f.row = [window |-> in_window, tile |-> f.x]
            /\ f.x = 0 => f.dot + 1 = FetchDots
            /\ g = Restarted(f, f.x + 1)
<1>1. /\ f \in FetcherStates
      /\ f.x \in Nat /\ f.cycle \in Nat /\ f.cycle < StepDots /\ f.dot \in Nat
      /\ f.first \in BOOLEAN /\ f.row \in TileRows
      /\ f.step \in {"get_tile_address", "get_tile_data_low", "get_tile_data_high", "sleep"}
  BY Sizes DEF Ready, FetcherStates, InStep
<1>2. fifo \in Seq(BackgroundPixels) /\ Len(fifo) \in Nat
  BY DEF Ready
<1>3. StepDots \in Nat /\ StepDots > 0 /\ Row = 4 * StepDots /\ FetchDots = 3 * StepDots
  BY Sizes
<1>4. \/ f.step = "get_tile_address" /\ f.dot = f.cycle
      \/ f.step = "get_tile_data_low" /\ f.dot = StepDots + f.cycle
      \/ f.step = "get_tile_data_high" /\ f.dot = 2 * StepDots + f.cycle
      \/ f.step = "sleep" /\ f.dot = 3 * StepDots + f.cycle /\ f.x > 0
  BY DEF Ready, InStep
<1>5. /\ f.x = 0 => fifo = <<>>
      /\ f.x > 0 => ~f.first /\ Len(fifo) + f.dot + 1 = Row
  BY <1>1 DEF Ready, InStep
<1>6. f.step # "push" /\ f.step \in FetchSteps
  BY <1>1 DEF FetchSteps
<1>7. \A a, b : <<a, b>> = <<g, after>> => g = a /\ after = b
  OBVIOUS
<1>8. f.cycle + 1 < StepDots \/ f.cycle + 1 = StepDots
  BY <1>1, <1>3
<1>9. f.dot + 1 \in 0 .. Row
  BY ONLY <1>1, <1>3, <1>4
<1>10. CASE f.cycle + 1 < StepDots
  <2>1. TickFetcher(f, fifo, in_window) = <<On(f, f.step, f.cycle + 1), fifo>>
    BY <1>1, <1>3, <1>6, <1>10, TickValue
  <2>2. g = On(f, f.step, f.cycle + 1) /\ after = fifo
    BY <1>7, <2>1
  <2>3. f.cycle + 1 \in 0 .. StepDots - 1
    BY ONLY <1>1, <1>3, <1>10
  <2>4. /\ g \in FetcherStates /\ g.x = f.x /\ g.first = f.first /\ g.row = f.row
        /\ g.dot = f.dot + 1 /\ g.step = f.step /\ g.cycle = f.cycle + 1
    BY <1>1, <1>6, <1>9, <2>2, <2>3, OnFields
  <2>5. Steps(f, g)
    BY <1>10, <2>4 DEF Steps
  <2>6. RightRow(g, in_window)
    BY <2>4 DEF RightRow
  <2>7. QED
    BY <2>2, <2>4, <2>5, <2>6, StepsInStep
<1>11. CASE f.cycle + 1 = StepDots
  <2>0. f.cycle + 1 >= StepDots /\ 0 \in 0 .. StepDots - 1
    BY <1>3, <1>11
  <2>1. CASE f.step = "get_tile_address"
    <3> DEFINE row == [window |-> in_window, tile |-> f.x]
    <3>1. TickFetcher(f, fifo, in_window)
            = <<[On(f, "get_tile_data_low", 0) EXCEPT !.row = row], fifo>>
      BY <1>1, <1>6, <2>0, <2>1, TickValue
    <3>2. g = [On(f, "get_tile_data_low", 0) EXCEPT !.row = row] /\ after = fifo
      BY <1>7, <3>1
    <3>3. row \in TileRows
      BY <1>1 DEF TileRows
    <3>4. "get_tile_data_low" \in FetchSteps
      BY DEF FetchSteps
    <3> HIDE DEF row
    <3>5. /\ g \in FetcherStates /\ g.x = f.x /\ g.first = f.first /\ g.row = row
          /\ g.dot = f.dot + 1 /\ g.step = "get_tile_data_low" /\ g.cycle = 0
      BY <1>1, <1>9, <2>0, <3>2, <3>3, <3>4, OnFields, RowFields
    <3>6. Steps(f, g)
      BY <1>11, <2>1, <3>5 DEF Steps
    <3>7. RightRow(g, in_window)
      BY <3>5 DEF RightRow, row
    <3>8. QED
      BY <3>2, <3>5, <3>6, <3>7, StepsInStep
  <2>2. CASE f.step = "get_tile_data_low"
    <3>1. TickFetcher(f, fifo, in_window) = <<On(f, "get_tile_data_high", 0), fifo>>
      BY <1>1, <1>6, <2>0, <2>2, TickValue
    <3>2. g = On(f, "get_tile_data_high", 0) /\ after = fifo
      BY <1>7, <3>1
    <3>3. "get_tile_data_high" \in FetchSteps
      BY DEF FetchSteps
    <3>4. /\ g \in FetcherStates /\ g.x = f.x /\ g.first = f.first /\ g.row = f.row
          /\ g.dot = f.dot + 1 /\ g.step = "get_tile_data_high" /\ g.cycle = 0
      BY <1>1, <1>9, <2>0, <3>2, <3>3, OnFields
    <3>5. Steps(f, g)
      BY <1>11, <2>2, <3>4 DEF Steps
    <3>6. RightRow(g, in_window)
      BY <2>2, <3>4 DEF RightRow
    <3>7. QED
      BY <3>2, <3>4, <3>5, <3>6, StepsInStep
  <2>3. CASE f.step = "get_tile_data_high" /\ f.first
    <3>1. TickFetcher(f, fifo, in_window) = <<Restarted(f, f.x), fifo>>
      BY <1>1, <1>6, <2>0, <2>3, TickValue
    <3>2. f.x = 0 /\ fifo = <<>>
      BY <1>1, <1>5, <2>3
    <3>3. f.dot + 1 = FetchDots
      BY ONLY <1>1, <1>3, <1>4, <1>11, <2>3
    <3>4. g = Restarted(f, 0) /\ after = <<>>
      BY <1>7, <3>1, <3>2
    <3>5. QED
      BY <2>3, <3>2, <3>3, <3>4
  <2>4. CASE (f.step = "get_tile_data_high" /\ ~f.first) \/ f.step = "sleep"
    <3>1. TickFetcher(f, fifo, in_window) =
            IF HasRoom(fifo) THEN <<Restarted(f, f.x + 1), fifo \o Pixels(f.row)>>
            ELSE <<On(f, NextFetchStep[f.step], 0), fifo>>
      BY <1>1, <1>6, <2>0, <2>4, TickValue
    <3>2. HasRoom(fifo) <=> fifo = <<>>
      <4>1. HasRoom(fifo) <=> Len(fifo) = 0
        BY ONLY <1>2, <1>3 DEF HasRoom
      <4>2. QED
        BY <1>2, <4>1, EmptySeq
    <3>3. CASE fifo = <<>>
      <4>1. fifo \o Pixels(f.row) = Pixels(f.row)
        BY <1>1, <3>3, PixelsOfRow, ConcatEmptySeq
      <4>2. g = Restarted(f, f.x + 1) /\ after = Pixels(f.row)
        BY <1>7, <3>1, <3>2, <3>3, <4>1
      <4>3. f.row = [window |-> in_window, tile |-> f.x]
        BY <2>4 DEF RightRow
      <4>4. ~f.first
        BY <1>1, <1>4, <1>5, <2>4
      <4>5. f.x = 0 => f.dot + 1 = FetchDots
        BY ONLY <1>1, <1>3, <1>4, <1>11, <2>4
      <4>6. QED
        BY <3>3, <4>2, <4>3, <4>4, <4>5
    <3>4. CASE fifo # <<>>
      <4>0. Len(fifo) > 0
        BY <1>2, <3>4, EmptySeq
      <4>1. f.x > 0 /\ Len(fifo) + f.dot + 1 = Row
        BY <1>1, <1>5, <3>4
      <4>2. f.step = "get_tile_data_high"
        BY ONLY <1>1, <1>2, <1>3, <1>4, <1>11, <2>4, <4>0, <4>1
      <4>3. g = On(f, "sleep", 0) /\ after = fifo
        BY <1>7, <3>1, <3>2, <3>4, <4>2 DEF NextFetchStep
      <4>4. "sleep" \in FetchSteps
        BY DEF FetchSteps
      <4>5. /\ g \in FetcherStates /\ g.x = f.x /\ g.first = f.first /\ g.row = f.row
            /\ g.dot = f.dot + 1 /\ g.step = "sleep" /\ g.cycle = 0
        BY <1>1, <1>9, <2>0, <4>3, <4>4, OnFields
      <4>6. Steps(f, g)
        BY <1>11, <4>1, <4>2, <4>5 DEF Steps
      <4>7. RightRow(g, in_window)
        BY <4>2, <4>5 DEF RightRow
      <4>8. QED
        BY <4>3, <4>5, <4>6, <4>7, StepsInStep
    <3>5. QED
      BY <3>3, <3>4
  <2>5. QED
    BY <1>1, <2>1, <2>2, <2>3, <2>4
<1>12. QED
  BY <1>8, <1>10, <1>11

(* A dot of the background pipeline: the fetcher runs on the FIFO "rest"   *)
(* that is left when a pixel is taken, if there is one.                    *)
LEMMA Rest ==
  ASSUME NEW f \in FetcherStates, NEW fifo \in Seq(BackgroundPixels), InStep(f, fifo, 0)
  PROVE  /\ f.x \in Nat /\ f.dot \in Nat /\ Len(fifo) \in Nat
         /\ f.x = 0 <=> fifo = <<>>
         /\ f.x = 0 => Ready(f, fifo) /\ f.dot < FetchDots
         /\ f.x > 0 => /\ Tail(fifo) \in Seq(BackgroundPixels)
                       /\ Len(Tail(fifo)) = Len(fifo) - 1
                       /\ \A i \in 1 .. Len(fifo) - 1 : Tail(fifo)[i] = fifo[i + 1]
                       /\ Ready(f, Tail(fifo))
<1>1. /\ f.x \in Nat /\ f.cycle \in Nat /\ f.cycle < StepDots /\ f.dot \in Nat
  BY Sizes DEF FetcherStates
<1>2. StepDots \in Nat /\ StepDots > 0 /\ Row = 4 * StepDots /\ FetchDots = 3 * StepDots
  BY Sizes
<1>3. \/ f.step = "get_tile_address" /\ f.dot = f.cycle
      \/ f.step = "get_tile_data_low" /\ f.dot = StepDots + f.cycle
      \/ f.step = "get_tile_data_high" /\ f.dot = 2 * StepDots + f.cycle
      \/ f.step = "sleep" /\ f.dot = 3 * StepDots + f.cycle /\ f.x > 0
  BY DEF InStep
<1>4. /\ f.x = 0 => fifo = <<>>
      /\ f.x > 0 => ~f.first /\ Len(fifo) + f.dot = Row
  <2>1. Len(fifo) + f.dot + 0 = Len(fifo) + f.dot
    BY <1>1
  <2>2. QED
    BY <2>1 DEF InStep
<1>5. f.dot < Row /\ (f.x = 0 => f.dot < FetchDots)
  BY ONLY <1>1, <1>2, <1>3
<1>6. Len(fifo) \in Nat /\ (fifo = <<>> <=> Len(fifo) = 0)
  BY EmptySeq
<1>7. f.x > 0 => Len(fifo) > 0
  BY ONLY <1>1, <1>2, <1>4, <1>5, <1>6
<1>8. f.x = 0 <=> fifo = <<>>
  BY <1>1, <1>4, <1>6, <1>7
<1>9. f.x = 0 => Ready(f, fifo)
  BY DEF Ready
<1>10. ASSUME f.x > 0
       PROVE  /\ Tail(fifo) \in Seq(BackgroundPixels)
              /\ Len(Tail(fifo)) = Len(fifo) - 1
              /\ \A i \in 1 .. Len(fifo) - 1 : Tail(fifo)[i] = fifo[i + 1]
              /\ Ready(f, Tail(fifo))
  <2>1. fifo # <<>>
    BY <1>6, <1>7, <1>10
  <2>2. /\ Tail(fifo) \in Seq(BackgroundPixels)
        /\ Len(Tail(fifo)) = Len(fifo) - 1
        /\ \A i \in 1 .. Len(Tail(fifo)) : Tail(fifo)[i] = fifo[i + 1]
    BY <2>1, HeadTailProperties
  <2>3. Len(Tail(fifo)) + f.dot + 1 = Row
    BY ONLY <1>1, <1>2, <1>4, <1>6, <1>10, <2>2
  <2>4. InStep(f, Tail(fifo), 1)
    BY <1>1, <1>3, <1>4, <1>10, <2>3 DEF InStep
  <2>5. QED
    BY <1>10, <2>2, <2>4 DEF Ready
<1>11. QED
  BY <1>1, <1>5, <1>6, <1>8, <1>9, <1>10

LEMMA PushedRow ==
  ASSUME NEW f, f \in FetcherStates, NEW in_window \in BOOLEAN,
         f.row = [window |-> in_window, tile |-> f.x]
  PROVE  LET g == Restarted(f, f.x + 1)
             after == Pixels(f.row)
         IN  /\ Sound(g, after, in_window)
             /\ g.x = f.x + 1 /\ Len(after) = Row
             /\ Row * g.x - Len(after) = Row * f.x
<1> DEFINE g == Restarted(f, f.x + 1)
           after == Pixels(f.row)
<1>1. f.x \in Nat /\ f.row \in TileRows /\ f.x + 1 \in Nat
  BY DEF FetcherStates
<1>2. /\ g \in FetcherStates /\ g.x = f.x + 1 /\ g.first = FALSE
      /\ g.dot = 0 /\ g.step = "get_tile_address" /\ g.cycle = 0
  BY <1>1, RestartedFields
<1>3. /\ after \in Seq(BackgroundPixels) /\ Len(after) = Row
      /\ \A i \in 1 .. Row : after[i] = [window |-> f.row.window, column |-> Row * f.row.tile + i - 1]
  BY <1>1, PixelsOfRow
<1> HIDE DEF g, after
<1>4. f.row.window = in_window /\ f.row.tile = f.x
  OBVIOUS
<1>5. Row * f.x \in Nat /\ Row * g.x = Row * f.x + Row
  BY <1>1, <1>2, NextTile
<1>6. RightPixels(g, after, in_window)
  <2>1. ASSUME NEW i \in 1 .. Len(after)
        PROVE  after[i] = [window |-> in_window, column |-> Row * g.x - Len(after) + i - 1]
    <3>1. after[i] = [window |-> in_window, column |-> Row * f.x + i - 1]
      BY <1>3, <1>4, <2>1
    <3>2. Row * g.x - Len(after) = Row * f.x
      BY <1>3, <1>5, Sizes
    <3>3. QED
      BY <3>1, <3>2
  <2>2. QED
    BY <2>1 DEF RightPixels
<1>7. RightRow(g, in_window)
  BY <1>2 DEF RightRow
<1>8. InStep(g, after, 0)
  <2>1. Len(after) + g.dot + 0 = Row
    BY <1>2, <1>3, Sizes
  <2>2. g.x > 0
    BY <1>1, <1>2
  <2>3. QED
    BY <1>1, <1>2, <2>1, <2>2 DEF InStep
<1>9. Sound(g, after, in_window)
  <2>1. Len(after) <= Row
    BY <1>3, Sizes
  <2>2. QED
    BY <1>2, <1>3, <1>6, <1>7, <1>8, <2>1 DEF Sound
<1>10. Row * g.x - Len(after) = Row * f.x
  BY <1>3, <1>5, Sizes
<1>11. QED
  BY <1>2, <1>3, <1>9, <1>10, Zenon DEF g, after

(* The row that is fetched first is late by the dots of one fetch or two.  *)
LEMMA FetchingDot ==
  ASSUME NEW f, NEW fifo, NEW in_window \in BOOLEAN, Sound(f, fifo, in_window), fifo = <<>>,
         NEW g, NEW after, TickFetcher(f, fifo, in_window) = <<g, after>>
  PROVE  /\ Sound(g, after, in_window)
         /\ Row * g.x - Len(after) = Row * f.x - Len(fifo)
         /\ FetchLeft(g) = FetchLeft(f) - 1 /\ FetchLeft(g) \in Nat
<1>1. f \in FetcherStates /\ f.x = 0 /\ f.dot \in Nat /\ f.first \in BOOLEAN
      /\ Ready(f, fifo) /\ RightRow(f, in_window) /\ Len(fifo) = 0 /\ f.dot < FetchDots
  BY Rest, EmptySeq DEF Sound, FetcherStates
<1>2. FetchLeft(f) = IF f.first THEN 2 * FetchDots - f.dot ELSE FetchDots - f.dot
  BY <1>1 DEF FetchLeft
<1>3. FetchDots \in Nat /\ Row \in Nat /\ Row * f.x = 0
  BY <1>1, Sizes
<1>4. CASE /\ after = fifo /\ g \in FetcherStates
           /\ Moves(f, g) /\ InStep(g, fifo, 0) /\ RightRow(g, in_window)
  <2>1. g.x = 0 /\ g.first = f.first /\ g.dot = f.dot + 1 /\ f.dot + 1 < FetchDots
    BY <1>1, <1>4 DEF Moves
  <2>2. RightPixels(g, after, in_window)
    BY <1>1, <1>4 DEF RightPixels
  <2>3. Sound(g, after, in_window)
    BY <1>1, <1>4, <2>2 DEF Sound
  <2>4. FetchLeft(g) = IF f.first THEN 2 * FetchDots - (f.dot + 1) ELSE FetchDots - (f.dot + 1)
    BY <2>1 DEF FetchLeft
  <2>5. FetchLeft(g) = FetchLeft(f) - 1 /\ FetchLeft(g) \in Nat
    BY ONLY <1>1, <1>2, <1>3, <2>1, <2>4
  <2>6. QED
    BY <1>1, <1>4, <2>1, <2>3, <2>5
<1>5. CASE /\ after = <<>> /\ fifo = <<>> /\ f.x = 0 /\ f.first /\ f.dot + 1 = FetchDots
           /\ g = Restarted(f, 0)
  <2>1. /\ g \in FetcherStates /\ g.x = 0 /\ g.first = FALSE
        /\ g.dot = 0 /\ g.step = "get_tile_address" /\ g.cycle = 0
    BY <1>1, <1>5, RestartedFields
  <2>2. RightPixels(g, after, in_window)
    BY <1>5 DEF RightPixels
  <2>3. InStep(g, after, 0) /\ RightRow(g, in_window)
    BY <1>5, <2>1 DEF InStep, RightRow
  <2>4. Sound(g, after, in_window)
    BY <1>1, <1>3, <1>5, <2>1, <2>2, <2>3 DEF Sound
  <2>5. FetchLeft(g) = FetchDots - 0
    BY <2>1 DEF FetchLeft
  <2>6. FetchLeft(g) = FetchLeft(f) - 1 /\ FetchLeft(g) \in Nat
    BY ONLY <1>1, <1>2, <1>3, <1>5, <2>5
  <2>7. QED
    BY <1>1, <1>5, <2>1, <2>4, <2>6
<1>6. CASE /\ after = Pixels(f.row) /\ fifo = <<>> /\ ~f.first
           /\ f.row = [window |-> in_window, tile |-> f.x]
           /\ f.x = 0 => f.dot + 1 = FetchDots
           /\ g = Restarted(f, f.x + 1)
  <2>1. Sound(g, after, in_window) /\ g.x = f.x + 1 /\ Row * g.x - Len(after) = Row * f.x
    BY <1>1, <1>6, PushedRow
  <2>2. FetchLeft(g) = 0
    BY <1>1, <2>1 DEF FetchLeft
  <2>3. FetchLeft(g) = FetchLeft(f) - 1
    <3>1. FetchLeft(f) = FetchDots - f.dot /\ f.dot + 1 = FetchDots
      BY ONLY <1>1, <1>2, <1>6
    <3>2. QED
      BY ONLY <1>1, <1>3, <2>2, <3>1
  <2>4. Row * g.x - Len(after) = Row * f.x - Len(fifo)
    BY ONLY <1>1, <1>3, <2>1
  <2>5. FetchLeft(g) \in Nat
    BY <2>2
  <2>6. QED
    BY ONLY <2>1, <2>3, <2>4, <2>5
<1>7. QED
  BY <1>1, <1>4, <1>5, <1>6, TickOutcome

(* In the rows after it a pixel leaves in every dot.                       *)
LEMMA TakingDot ==
  ASSUME NEW f, NEW fifo, NEW in_window \in BOOLEAN, Sound(f, fifo, in_window), fifo # <<>>,
         NEW g, NEW after, TickFetcher(f, Tail(fifo), in_window) = <<g, after>>
  PROVE  /\ Sound(g, after, in_window)
         /\ Row * g.x - Len(after) = Row * f.x - Len(fifo) + 1
         /\ FetchLeft(g) = 0 /\ FetchLeft(f) = 0
         /\ Head(fifo) = [window |-> in_window, column |-> Row * f.x - Len(fifo)]
<1>1. f \in FetcherStates /\ f.x \in Nat /\ f.x > 0 /\ f.dot \in Nat
      /\ Ready(f, Tail(fifo)) /\ RightRow(f, in_window)
  BY Rest DEF Sound
<1>2. /\ Len(fifo) \in Nat /\ Len(fifo) > 0 /\ Len(fifo) <= Row
      /\ Tail(fifo) \in Seq(BackgroundPixels) /\ Len(Tail(fifo)) = Len(fifo) - 1
      /\ \A i \in 1 .. Len(fifo) - 1 : Tail(fifo)[i] = fifo[i + 1]
  BY <1>1, Rest, EmptySeq DEF Sound
<1>3. Row \in Nat /\ Row * f.x \in Nat
  BY <1>1, Sizes, NextTile
<1>4. \A i \in 1 .. Len(fifo) :
        fifo[i] = [window |-> in_window, column |-> Row * f.x - Len(fifo) + i - 1]
  BY DEF Sound, RightPixels
<1>5. FetchLeft(f) = 0
  BY <1>1 DEF FetchLeft
<1>6. Head(fifo) = [window |-> in_window, column |-> Row * f.x - Len(fifo)]
  <2>1. Head(fifo) = fifo[1]
    BY <1>2 DEF Sound
  <2>2. fifo[1] = [window |-> in_window, column |-> Row * f.x - Len(fifo) + 1 - 1]
    BY <1>2, <1>4
  <2>3. Row * f.x - Len(fifo) + 1 - 1 = Row * f.x - Len(fifo)
    BY <1>2, <1>3
  <2>4. QED
    BY <2>1, <2>2, <2>3
<1>7. CASE /\ after = Tail(fifo) /\ g \in FetcherStates
           /\ Moves(f, g) /\ InStep(g, Tail(fifo), 0) /\ RightRow(g, in_window)
  <2>1. g.x = f.x
    BY <1>7 DEF Moves
  <2>2. Row * g.x - Len(after) = Row * f.x - Len(fifo) + 1
    BY <1>2, <1>3, <1>7, <2>1
  <2>3. RightPixels(g, after, in_window)
    <3>1. ASSUME NEW i \in 1 .. Len(after)
          PROVE  after[i] = [window |-> in_window, column |-> Row * g.x - Len(after) + i - 1]
      <4>1. i \in Int /\ i \in 1 .. Len(fifo) - 1 /\ i + 1 \in 1 .. Len(fifo)
        BY <1>2, <1>7, <3>1
      <4>2. after[i] = fifo[i + 1]
        BY <1>2, <1>7, <4>1
      <4>3. fifo[i + 1]
              = [window |-> in_window, column |-> Row * f.x - Len(fifo) + (i + 1) - 1]
        BY <1>4, <4>1
      <4>4. Row * f.x - Len(fifo) + (i + 1) - 1 = Row * g.x - Len(after) + i - 1
        BY <1>2, <1>3, <2>2, <4>1
      <4>5. QED
        BY <4>2, <4>3, <4>4
    <3>2. QED
      BY <3>1 DEF RightPixels
  <2>4. Sound(g, after, in_window)
    BY <1>2, <1>3, <1>7, <2>3 DEF Sound
  <2>5. FetchLeft(g) = 0
    BY <1>1, <2>1 DEF FetchLeft
  <2>6. QED
    BY <1>5, <1>6, <2>2, <2>4, <2>5
<1>8. CASE /\ after = Pixels(f.row) /\ Tail(fifo) = <<>> /\ ~f.first
           /\ f.row = [window |-> in_window, tile |-> f.x]
           /\ g = Restarted(f, f.x + 1)
  <2>1. Sound(g, after, in_window) /\ g.x = f.x + 1 /\ Row * g.x - Len(after) = Row * f.x
    BY <1>1, <1>8, PushedRow
  <2>2. Len(fifo) = 1
    <3>1. Len(Tail(fifo)) = 0
      BY <1>2, <1>8, EmptySeq
    <3>2. Len(fifo) \in Nat /\ Len(Tail(fifo)) = Len(fifo) - 1
      BY <1>2
    <3> DEFINE n == Len(fifo)
               rest == Len(Tail(fifo))
    <3> HIDE DEF n, rest
    <3>3. n \in Nat /\ rest = n - 1 /\ rest = 0
      BY <3>1, <3>2 DEF n, rest
    <3>4. n = 1
      BY ONLY <3>3
    <3>5. QED
      BY <3>4 DEF n
  <2>3. FetchLeft(g) = 0
    BY <1>1, <2>1 DEF FetchLeft
  <2>4. QED
    BY <1>3, <1>5, <1>6, <2>1, <2>2, <2>3
<1>9. QED
  <2>1. f.x # 0
    BY <1>1
  <2>2. \/ /\ after = Tail(fifo) /\ g \in FetcherStates
           /\ Moves(f, g) /\ InStep(g, Tail(fifo), 0) /\ RightRow(g, in_window)
        \/ /\ after = Pixels(f.row) /\ Tail(fifo) = <<>> /\ ~f.first
           /\ f.row = [window |-> in_window, tile |-> f.x]
           /\ g = Restarted(f, f.x + 1)
    <3> DEFINE rest == Tail(fifo)
    <3>1. Ready(f, rest) /\ TickFetcher(f, rest, in_window) = <<g, after>>
      BY <1>1
    <3> HIDE DEF rest
    <3>2. \/ /\ after = rest /\ g \in FetcherStates
             /\ Moves(f, g) /\ InStep(g, rest, 0) /\ RightRow(g, in_window)
          \/ /\ after = <<>> /\ rest = <<>> /\ f.x = 0 /\ f.first /\ f.dot + 1 = FetchDots
             /\ g = Restarted(f, 0)
          \/ /\ after = Pixels(f.row) /\ rest = <<>> /\ ~f.first
             /\ f.row = [window |-> in_window, tile |-> f.x]
             /\ f.x = 0 => f.dot + 1 = FetchDots
             /\ g = Restarted(f, f.x + 1)
      BY <1>1, <3>1, TickOutcome
    <3>3. QED
      BY ONLY <2>1, <3>2 DEF rest
  <2>3. QED
    BY ONLY <1>7, <1>8, <2>2

-----------------------------------------------------------------------------
(* One dot of the sprite fetcher: a dot less is left of the fetch, and at  *)
(* its end the row of the object is merged into the FIFO.                  *)
SpriteFetching(s) ==
  /\ s \in SpriteFetcherStates /\ SpriteTimed(s)
  /\ is_fetching(s) /\ Len(s.target) <= 1

LEMMA SpriteFields ==
  ASSUME NEW s, SpriteFetching(s)
  PROVE  /\ s.step \in {"get_tile_address", "get_tile_data_low", "get_tile_data_high"}
         /\ s.cycle \in Nat /\ s.target \in Seq(Objects) /\ s.extra_delay \in 0 .. 255
         /\ s.extra_delay \in Nat /\ s.extra_delay <= 255 /\ s.extra_delay <= MaxExtraDelay
         /\ s.step # "get_tile_data_high" => s.cycle < StepDots
         /\ s.cycle + s.extra_delay < StepDots + MaxExtraDelay
         /\ ObjectLeft(s) =
              s.extra_delay +
                (IF s.step = "get_tile_address" THEN 3 * StepDots - s.cycle
                 ELSE IF s.step = "get_tile_data_low" THEN 2 * StepDots - s.cycle
                 ELSE IF s.cycle < StepDots THEN StepDots - s.cycle ELSE 1)
<1>1. /\ s.step \in {"get_tile_address", "get_tile_data_low", "get_tile_data_high"}
      /\ s.cycle \in Nat /\ s.target \in Seq(Objects) /\ s.extra_delay \in 0 .. 255
  BY DEF SpriteFetching, SpriteFetcherStates
<1>2. s.extra_delay \in Nat /\ s.extra_delay <= 255
  <2>1. s.extra_delay \in 0 .. 255
    BY <1>1
  <2>2. QED
    BY ONLY <2>1
<1>3. /\ s.step # "get_tile_data_high" => s.cycle < StepDots
      /\ s.extra_delay <= MaxExtraDelay
      /\ s.cycle + s.extra_delay < StepDots + MaxExtraDelay
  BY DEF SpriteFetching, SpriteTimed
<1>4. ObjectLeft(s) =
        s.extra_delay +
          (IF s.step = "get_tile_address" THEN 3 * StepDots - s.cycle
           ELSE IF s.step = "get_tile_data_low" THEN 2 * StepDots - s.cycle
           ELSE IF s.cycle < StepDots THEN StepDots - s.cycle ELSE 1)
  BY DEF SpriteFetching, ObjectLeft
<1>5. QED
  BY <1>1, <1>2, <1>3, <1>4

LEMMA Emptied ==
  ASSUME NEW t, t = [ResetSpriteFetcher EXCEPT !.extra_delay = 255]
  PROVE  /\ t \in SpriteFetcherStates /\ SpriteTimed(t)
         /\ t.target = <<>> /\ t.cycle = 0 /\ ~is_fetching(t) /\ ObjectLeft(t) = 0
<1>1. /\ t.target = <<>> /\ t.cycle = 0 /\ t.step = "get_tile_address" /\ t.extra_delay = 255
      /\ t = [step |-> t.step, cycle |-> t.cycle, target |-> t.target,
              extra_delay |-> t.extra_delay]
  BY DEF ResetSpriteFetcher, NoObject
<1>2. <<>> \in Seq(Objects) /\ 0 < StepDots /\ 255 \in 0 .. 255 /\ 0 \in Nat
  BY Sizes
<1>3. ~is_fetching(t)
  BY <1>1 DEF is_fetching, NoObject
<1>4. t \in SpriteFetcherStates
  BY ONLY <1>1, <1>2, ZenonT(60) DEF SpriteFetcherStates
<1>5. QED
  BY <1>1, <1>2, <1>3, <1>4 DEF SpriteTimed, ObjectLeft

LEMMA SpriteDot ==
  ASSUME NEW s, SpriteFetching(s), NEW t, NEW step, NEW cycle, NEW delay,
         t = [s EXCEPT !.step = step, !.cycle = cycle, !.extra_delay = delay],
         \/ /\ s.cycle + 1 < StepDots
            /\ step = s.step /\ cycle = s.cycle + 1 /\ delay = s.extra_delay
         \/ /\ s.cycle + 1 >= StepDots /\ s.step # "get_tile_data_high"
            /\ step = NextSpriteStep[s.step] /\ cycle = 0 /\ delay = s.extra_delay
         \/ /\ s.cycle + 1 >= StepDots /\ s.step = "get_tile_data_high"
            /\ s.extra_delay > 0
            /\ step = s.step /\ cycle = s.cycle + 1 /\ delay = s.extra_delay - 1
  PROVE  /\ SpriteFetching(t) /\ t.target = s.target
         /\ t.cycle \in 0 .. StepDots + MaxExtraDelay
         /\ ObjectLeft(t) \in Nat /\ ObjectLeft(t) + 1 <= ObjectLeft(s)
<1>1. /\ s.step \in {"get_tile_address", "get_tile_data_low", "get_tile_data_high"}
      /\ s.cycle \in Nat /\ s.extra_delay \in Nat /\ s.extra_delay <= 255
      /\ s.extra_delay <= MaxExtraDelay
      /\ s.step # "get_tile_data_high" => s.cycle < StepDots
      /\ s.cycle + s.extra_delay < StepDots + MaxExtraDelay
  BY SpriteFields
<1>2. ObjectLeft(s) =
        s.extra_delay +
          (IF s.step = "get_tile_address" THEN 3 * StepDots - s.cycle
           ELSE IF s.step = "get_tile_data_low" THEN 2 * StepDots - s.cycle
           ELSE IF s.cycle < StepDots THEN StepDots - s.cycle ELSE 1)
  BY SpriteFields
<1>3. StepDots \in Nat /\ StepDots > 0 /\ MaxExtraDelay \in Nat
  <2>1. MaxExtraDelay \in 0 .. 255
    BY Sizes
  <2>2. MaxExtraDelay \in Nat
    BY ONLY <2>1
  <2>3. QED
    BY <2>2, Sizes
<1>4. \/ /\ s.cycle + 1 < StepDots
         /\ step = s.step /\ cycle = s.cycle + 1 /\ delay = s.extra_delay
      \/ /\ s.cycle + 1 >= StepDots
         /\ \/ s.step = "get_tile_address" /\ step = "get_tile_data_low"
            \/ s.step = "get_tile_data_low" /\ step = "get_tile_data_high"
         /\ cycle = 0 /\ delay = s.extra_delay
      \/ /\ s.cycle + 1 >= StepDots /\ s.step = "get_tile_data_high"
         /\ s.extra_delay > 0
         /\ step = s.step /\ cycle = s.cycle + 1 /\ delay = s.extra_delay - 1
  <2>1. /\ NextSpriteStep["get_tile_address"] = "get_tile_data_low"
        /\ NextSpriteStep["get_tile_data_low"] = "get_tile_data_high"
    BY DEF NextSpriteStep
  <2>2. QED
    BY <1>1, <2>1
<1>5. /\ step \in {"get_tile_address", "get_tile_data_low", "get_tile_data_high"}
      /\ cycle \in Nat /\ delay \in Nat /\ delay <= 255 /\ delay <= MaxExtraDelay
  BY ONLY <1>1, <1>3, <1>4
<1>6. delay \in 0 .. 255
  BY ONLY <1>5
<1>7. /\ t \in SpriteFetcherStates
      /\ t.step = step /\ t.cycle = cycle /\ t.extra_delay = delay /\ t.target = s.target
  <2>1. s \in SpriteFetcherStates
    BY DEF SpriteFetching
  <2>2. QED
    BY ONLY <1>5, <1>6, <2>1,
            t = [s EXCEPT !.step = step, !.cycle = cycle, !.extra_delay = delay]
       DEF SpriteFetcherStates
<1>8. is_fetching(t) /\ Len(t.target) <= 1
  BY <1>7 DEF SpriteFetching, is_fetching
<1>9. /\ step # "get_tile_data_high" => cycle < StepDots
      /\ cycle + delay < StepDots + MaxExtraDelay
  BY ONLY <1>1, <1>3, <1>4
<1>10. SpriteFetching(t)
  BY <1>5, <1>7, <1>8, <1>9 DEF SpriteTimed, SpriteFetching
<1>11. cycle \in 0 .. StepDots + MaxExtraDelay
  BY ONLY <1>3, <1>5, <1>9
<1>12. ObjectLeft(t) =
         delay +
           (IF step = "get_tile_address" THEN 3 * StepDots - cycle
            ELSE IF step = "get_tile_data_low" THEN 2 * StepDots - cycle
            ELSE IF cycle < StepDots THEN StepDots - cycle ELSE 1)
  BY <1>10, <1>7, SpriteFields, ZenonT(60)
<1>13. ObjectLeft(t) \in Nat
  BY ONLY <1>3, <1>5, <1>9, <1>12
<1>14. ObjectLeft(t) + 1 <= ObjectLeft(s)
  BY ONLY <1>1, <1>2, <1>3, <1>4, <1>5, <1>9, <1>12
<1>15. QED
  BY <1>7, <1>10, <1>11, <1>13, <1>14

LEMMA SpriteTick ==
  ASSUME NEW s, SpriteFetching(s), tick_sprite_fetcher(s)
  PROVE  /\ sprite_fetcher' \in SpriteFetcherStates /\ SpriteTimed(sprite_fetcher')
         /\ Len(sprite_fetcher'.target) <= 1
         /\ sprite_fetcher'.cycle \in 0 .. StepDots + MaxExtraDelay
         /\ ObjectLeft(sprite_fetcher') \in Nat
         /\ ObjectLeft(sprite_fetcher') + 1 <= ObjectLeft(s)
         /\ \/ sprite_fifo' = sprite_fifo /\ sprite_fetcher'.target = s.target
            \/ sprite_fifo' = Merged(s.target[1]) /\ sprite_fetcher'.target = <<>>
<1> DEFINE ticked == [s EXCEPT !.cycle = @ + 1]
           With(step, cycle, delay) ==
             [s EXCEPT !.step = step, !.cycle = cycle, !.extra_delay = delay]
           t == sprite_fetcher'
<1>1. ticked.cycle = s.cycle + 1
  BY DEF SpriteFetching, SpriteFetcherStates
<1>2. /\ ticked = With(s.step, s.cycle + 1, s.extra_delay)
      /\ [ticked EXCEPT !.extra_delay = @ - 1] = With(s.step, s.cycle + 1, s.extra_delay - 1)
      /\ \A step : [s EXCEPT !.step = step, !.cycle = 0] = With(step, 0, s.extra_delay)
  BY DEF SpriteFetching, SpriteFetcherStates
<1>3. \/ ticked.cycle < StepDots /\ t = ticked /\ sprite_fifo' = sprite_fifo
      \/ /\ ticked.cycle >= StepDots /\ s.step # "get_tile_data_high"
         /\ t = [s EXCEPT !.step = NextSpriteStep[s.step], !.cycle = 0]
         /\ sprite_fifo' = sprite_fifo
      \/ /\ ticked.cycle >= StepDots /\ s.step = "get_tile_data_high" /\ s.extra_delay > 0
         /\ t = [ticked EXCEPT !.extra_delay = @ - 1]
         /\ sprite_fifo' = sprite_fifo
      \/ /\ ticked.cycle >= StepDots /\ s.step = "get_tile_data_high" /\ s.extra_delay = 0
         /\ t = [ResetSpriteFetcher EXCEPT !.extra_delay = 255]
         /\ sprite_fifo' = Merged(s.target[1])
  BY DEF tick_sprite_fetcher
<1> HIDE DEF ticked, With, t
<1>4. \/ /\ s.cycle + 1 < StepDots /\ sprite_fifo' = sprite_fifo
         /\ t = With(s.step, s.cycle + 1, s.extra_delay)
      \/ /\ s.cycle + 1 >= StepDots /\ s.step # "get_tile_data_high" /\ sprite_fifo' = sprite_fifo
         /\ t = With(NextSpriteStep[s.step], 0, s.extra_delay)
      \/ /\ s.cycle + 1 >= StepDots /\ s.step = "get_tile_data_high" /\ s.extra_delay > 0
         /\ sprite_fifo' = sprite_fifo
         /\ t = With(s.step, s.cycle + 1, s.extra_delay - 1)
      \/ /\ s.cycle + 1 >= StepDots /\ s.step = "get_tile_data_high" /\ s.extra_delay = 0
         /\ t = [ResetSpriteFetcher EXCEPT !.extra_delay = 255]
         /\ sprite_fifo' = Merged(s.target[1])
  BY ONLY <1>1, <1>2, <1>3, ZenonT(60)
<1>5. CASE s.cycle + 1 < StepDots /\ sprite_fifo' = sprite_fifo
           /\ t = With(s.step, s.cycle + 1, s.extra_delay)
  BY <1>5, SpriteDot, ZenonT(60) DEF With, t, SpriteFetching
<1>6. CASE s.cycle + 1 >= StepDots /\ s.step # "get_tile_data_high" /\ sprite_fifo' = sprite_fifo
           /\ t = With(NextSpriteStep[s.step], 0, s.extra_delay)
  BY <1>6, SpriteDot, ZenonT(60) DEF With, t, SpriteFetching
<1>7. CASE s.cycle + 1 >= StepDots /\ s.step = "get_tile_data_high" /\ s.extra_delay > 0
           /\ sprite_fifo' = sprite_fifo
           /\ t = With(s.step, s.cycle + 1, s.extra_delay - 1)
  BY <1>7, SpriteDot, ZenonT(60) DEF With, t, SpriteFetching
<1>8. CASE /\ s.cycle + 1 >= StepDots /\ s.step = "get_tile_data_high" /\ s.extra_delay = 0
           /\ t = [ResetSpriteFetcher EXCEPT !.extra_delay = 255]
           /\ sprite_fifo' = Merged(s.target[1])
  <2>1. /\ t \in SpriteFetcherStates /\ SpriteTimed(t)
        /\ t.target = <<>> /\ t.cycle = 0 /\ ObjectLeft(t) = 0
    BY <1>8, Emptied, ZenonT(60)
  <2>2. /\ s.cycle \in Nat /\ s.extra_delay = 0 /\ s.step = "get_tile_data_high"
        /\ ObjectLeft(s) = s.extra_delay +
             (IF s.step = "get_tile_address" THEN 3 * StepDots - s.cycle
              ELSE IF s.step = "get_tile_data_low" THEN 2 * StepDots - s.cycle
              ELSE IF s.cycle < StepDots THEN StepDots - s.cycle ELSE 1)
    BY <1>8, SpriteFields
  <2>3. StepDots \in Nat /\ StepDots > 0 /\ MaxExtraDelay \in 0 .. 255
    BY Sizes
  <2>4. 0 + 1 <= ObjectLeft(s) /\ 0 \in 0 .. StepDots + MaxExtraDelay
    BY ONLY <2>2, <2>3
  <2>5. Len(<<>>) <= 1
    BY EmptySeq
  <2>6. QED
    BY <1>8, <2>1, <2>4, <2>5 DEF t
<1>9. QED
  BY ONLY <1>4, <1>5, <1>6, <1>7, <1>8

-----------------------------------------------------------------------------
(* The buffer of objects, and an object that is taken out of it.           *)
LEMMA ToSetOf ==
  ASSUME NEW S, NEW seq \in Seq(S)
  PROVE  /\ ToSet(seq) \subseteq S
         /\ \A e : e \in ToSet(seq) <=> \E i \in 1 .. Len(seq) : e = seq[i]
BY DEF ToSet

LEMMA ToSetOfNone == ToSet(<<>>) = {}
BY DEF ToSet

LEMMA ToSetOfOne == \A e : ToSet(<<e>>) = {e}
BY DEF ToSet

LEMMA Removed ==
  ASSUME NEW S, NEW seq \in Seq(S), NEW i \in 1 .. Len(seq)
  PROVE  /\ RemoveAt(seq, i) \in Seq(S)
         /\ Len(RemoveAt(seq, i)) = Len(seq) - 1
         /\ \A e : e \in ToSet(seq) <=> e \in ToSet(RemoveAt(seq, i)) \/ e = seq[i]
<1> DEFINE n == Len(seq)
           low == SubSeq(seq, 1, i - 1)
           high == SubSeq(seq, i + 1, n)
           rest == RemoveAt(seq, i)
<1>1. n \in Nat /\ i \in Nat /\ 1 <= i /\ i <= n
  BY LenProperties
<1>2. \A j \in 1 .. n : seq[j] \in S
  BY ElementOfSeq
<1>3. /\ low \in Seq(S) /\ Len(low) = i - 1
      /\ \A j \in 1 .. i - 1 : low[j] = seq[j]
  <2>1. \A j \in 1 .. i - 1 : seq[j] \in S
    BY <1>1, <1>2
  <2>2. 1 \in Int /\ i - 1 \in Int
    BY <1>1
  <2>3. /\ low \in Seq(S) /\ Len(low) = IF 1 <= i - 1 THEN i - 1 - 1 + 1 ELSE 0
        /\ \A j \in 1 .. i - 1 - 1 + 1 : low[j] = seq[1 + j - 1]
    BY <2>1, <2>2, SubSeqProperties
  <2> HIDE DEF low
  <2>4. i - 1 - 1 + 1 = i - 1 /\ (IF 1 <= i - 1 THEN i - 1 - 1 + 1 ELSE 0) = i - 1
    BY <1>1
  <2>5. \A j \in 1 .. i - 1 : 1 + j - 1 = j
    BY <1>1, SMTT(30)
  <2>6. QED
    BY <2>3, <2>4, <2>5
<1>4. /\ high \in Seq(S) /\ Len(high) = n - i
      /\ \A j \in 1 .. n - i : high[j] = seq[i + j]
  <2>1. \A j \in i + 1 .. n : seq[j] \in S
    BY <1>1, <1>2
  <2>2. i + 1 \in Int /\ n \in Int
    BY <1>1
  <2>3. /\ high \in Seq(S) /\ Len(high) = IF i + 1 <= n THEN n - (i + 1) + 1 ELSE 0
        /\ \A j \in 1 .. n - (i + 1) + 1 : high[j] = seq[i + 1 + j - 1]
    BY <2>1, <2>2, SubSeqProperties
  <2> HIDE DEF high
  <2>4. n - (i + 1) + 1 = n - i /\ (IF i + 1 <= n THEN n - (i + 1) + 1 ELSE 0) = n - i
    BY <1>1
  <2>5. \A j \in 1 .. n - i : i + 1 + j - 1 = i + j
    BY <1>1
  <2>6. QED
    BY <2>3, <2>4, <2>5
<1>5. rest = low \o high
  BY DEF RemoveAt
<1> HIDE DEF low, high, rest, n
<1>6. /\ rest \in Seq(S) /\ Len(rest) = Len(low) + Len(high)
      /\ \A j \in 1 .. Len(low) + Len(high) :
           rest[j] = IF j <= Len(low) THEN low[j] ELSE high[j - Len(low)]
  BY <1>3, <1>4, <1>5, ConcatProperties
<1>7. Len(rest) = n - 1
  BY <1>1, <1>3, <1>4, <1>6
<1>8. \A j \in 1 .. n - 1 : rest[j] = IF j < i THEN seq[j] ELSE seq[j + 1]
  <2>1. ASSUME NEW j \in 1 .. n - 1
        PROVE  rest[j] = IF j < i THEN seq[j] ELSE seq[j + 1]
    <3>1. j \in Int /\ 1 <= j /\ j <= n - 1 /\ Len(low) + Len(high) = n - 1
      BY <1>1, <1>3, <1>4, <2>1
    <3>2. rest[j] = IF j <= i - 1 THEN low[j] ELSE high[j - (i - 1)]
      BY <1>3, <1>6, <2>1, <3>1
    <3>3. CASE j < i
      <4>1. j <= i - 1 /\ j \in 1 .. i - 1
        BY <1>1, <3>1, <3>3
      <4>2. QED
        BY <1>3, <3>2, <3>3, <4>1
    <3>4. CASE ~(j < i)
      <4>1. ~(j <= i - 1) /\ j - (i - 1) \in 1 .. n - i /\ i + (j - (i - 1)) = j + 1
        BY <1>1, <3>1, <3>4
      <4>2. QED
        BY <1>4, <3>2, <3>4, <4>1
    <3>5. QED
      BY <3>3, <3>4
  <2>2. QED
    BY <2>1
<1>9. \A e : e \in ToSet(rest) <=> \E j \in 1 .. n - 1 : e = rest[j]
  <2>1. \A e : e \in ToSet(rest) <=> \E j \in 1 .. Len(rest) : e = rest[j]
    BY <1>6, ToSetOf
  <2>2. QED
    BY ONLY <1>7, <2>1
<1>10. \A e : e \in ToSet(seq) <=> \E j \in 1 .. n : e = seq[j]
  BY ToSetOf DEF n
<1>11. ASSUME NEW e, e \in ToSet(rest)
       PROVE  e \in ToSet(seq)
  <2>1. PICK j \in 1 .. n - 1 : e = rest[j]
    BY <1>9, <1>11
  <2>2. j \in 1 .. n /\ j + 1 \in 1 .. n
    BY <1>1, <2>1
  <2>3. e = seq[j] \/ e = seq[j + 1]
    BY <1>8, <2>1
  <2>4. QED
    BY <1>10, <2>2, <2>3
<1>12. seq[i] \in ToSet(seq)
  BY <1>10 DEF n
<1>13. ASSUME NEW e, e \in ToSet(seq), e # seq[i]
       PROVE  e \in ToSet(rest)
  <2>1. PICK j \in 1 .. n : e = seq[j]
    BY <1>10, <1>13
  <2>2. j # i /\ j \in Int
    BY <1>13, <2>1
  <2>3. CASE j < i
    <3>1. j \in 1 .. n - 1
      BY <1>1, <2>1, <2>3
    <3>2. QED
      BY <1>8, <1>9, <2>1, <2>3, <3>1
  <2>4. CASE j > i
    <3>1. j - 1 \in 1 .. n - 1 /\ ~(j - 1 < i) /\ (j - 1) + 1 = j
      BY <1>1, <2>1, <2>4
    <3>2. rest[j - 1] = seq[j]
      BY <1>8, <3>1
    <3>3. QED
      BY <1>9, <2>1, <3>1, <3>2
  <2>5. QED
    BY <1>1, <2>2, <2>3, <2>4
<1>14. QED
  BY <1>6, <1>7, <1>11, <1>12, <1>13 DEF rest, n

(* ---- What is in front. ---- *)

LEMMA ObjectFields ==
  ASSUME NEW object \in Objects
  PROVE  /\ object.index \in Nat /\ object.x \in Nat
         /\ LeftEdge(object) \in Nat
         /\ \A p : Covers(object, p) => p - LeftEdge(object) + 1 \in 1 .. Row
<1>1. object.index \in Nat /\ object.x \in Nat /\ object.opaque \subseteq 1 .. Row
  BY DEF Objects
<1>2. LeftEdge(object) \in Nat
  BY <1>1, Sizes DEF LeftEdge
<1>3. QED
  BY <1>1, <1>2 DEF Covers

LEMMA Resolved ==
  ASSUME NEW lhs \in SpritePixels, NEW rhs \in SpritePixels
  PROVE  LET front == resolve_drawing_priority(lhs, rhs)
         IN  /\ front \in SpritePixels
             /\ front.opaque => (lhs.opaque /\ front = lhs) \/ (rhs.opaque /\ front = rhs)
             /\ lhs.opaque => front.opaque /\ InFrontOf(front, lhs)
             /\ rhs.opaque => front.opaque /\ InFrontOf(front, rhs)
<1>1. /\ lhs.index \in Nat /\ lhs.x \in Nat /\ lhs.opaque \in BOOLEAN
      /\ rhs.index \in Nat /\ rhs.x \in Nat /\ rhs.opaque \in BOOLEAN
  BY DEF SpritePixels
<1>2. CASE ~lhs.opaque
  BY <1>1, <1>2 DEF resolve_drawing_priority, InFrontOf
<1>3. CASE lhs.opaque /\ ~rhs.opaque
  BY <1>1, <1>3 DEF resolve_drawing_priority, InFrontOf
<1>4. CASE lhs.opaque /\ rhs.opaque /\ lhs.x # rhs.x
  BY <1>1, <1>4 DEF resolve_drawing_priority, InFrontOf
<1>5. CASE lhs.opaque /\ rhs.opaque /\ lhs.x = rhs.x
  BY <1>1, <1>5 DEF resolve_drawing_priority, InFrontOf
<1>6. QED
  BY <1>2, <1>3, <1>4, <1>5

LEMMA InFrontTransitive ==
  ASSUME NEW a, NEW b, NEW c, a.x \in Nat, b.x \in Nat, c.x \in Nat,
         a.index \in Nat, b.index \in Nat, c.index \in Nat,
         InFrontOf(a, b), InFrontOf(b, c)
  PROVE  InFrontOf(a, c)
BY DEF InFrontOf

(* The row of an object is merged into the FIFO. *)
LEMMA MergedRow ==
  ASSUME NEW object \in Objects, sprite_fifo \in Seq(SpritePixels), Len(sprite_fifo) <= Row
  PROVE  /\ Merged(object) \in Seq(SpritePixels) /\ Len(Merged(object)) = Row
         /\ \A i \in 1 .. Row :
              LET old == IF i <= Len(sprite_fifo) THEN sprite_fifo[i] ELSE Transparent
              IN  /\ old \in SpritePixels
                  /\ ObjectPixel(object, i) \in SpritePixels
                  /\ Merged(object)[i] = resolve_drawing_priority(old, ObjectPixel(object, i))
<1>1. \A i : ObjectPixel(object, i) \in SpritePixels
  BY DEF ObjectPixel, SpritePixels, Objects
<1>2. Transparent \in SpritePixels
  BY DEF Transparent, SpritePixels
<1>3. ASSUME NEW i \in 1 .. Row
      PROVE  (IF i <= Len(sprite_fifo) THEN sprite_fifo[i] ELSE Transparent) \in SpritePixels
  <2>1. CASE i <= Len(sprite_fifo)
    <3>1. i \in 1 .. Len(sprite_fifo)
      BY <1>3, <2>1, LenProperties, Sizes
    <3>2. sprite_fifo[i] \in SpritePixels
      BY <3>1, ElementOfSeq
    <3>3. QED
      BY <2>1, <3>2
  <2>2. QED
    BY <1>2, <2>1
<1>4. \A i \in 1 .. Row :
        resolve_drawing_priority(
          IF i <= Len(sprite_fifo) THEN sprite_fifo[i] ELSE Transparent,
          ObjectPixel(object, i)) \in SpritePixels
  BY <1>1, <1>3, Resolved
<1>5. Merged(object) \in [1 .. Row -> SpritePixels]
  BY <1>4 DEF Merged
<1>6. Merged(object) \in Seq(SpritePixels) /\ Len(Merged(object)) = Row
  BY <1>5, Sizes
<1>7. \A i \in 1 .. Row :
        Merged(object)[i] =
          resolve_drawing_priority(
            IF i <= Len(sprite_fifo) THEN sprite_fifo[i] ELSE Transparent,
            ObjectPixel(object, i))
  BY DEF Merged
<1>8. QED
  BY <1>1, <1>3, <1>6, <1>7

(* The pixels that wait show the object in front of those fetched so far.  *)
ShowsFront(fifo, drawn) ==
  \A i \in 1 .. Len(fifo) :
    fifo[i].opaque =>
      \E front \in LineObjects :
        Covers(front, drawn + i - 1) /\ fifo[i].index = front.index /\ fifo[i].x = front.x

ShowsAll(buffer, s, fifo, drawn) ==
  \A i \in Nat \ {0}, object \in LineObjects :
    Covers(object, drawn + i - 1) =>
      \/ object \in Pending(buffer, s)
      \/ i <= Len(fifo) /\ fifo[i].opaque /\ InFrontOf(fifo[i], object)

LEMMA MergeKeeps ==
  ASSUME line_objects \in Seq(Objects), sprite_fifo \in Seq(SpritePixels),
         Len(sprite_fifo) <= Row, NEW drawn \in Nat,
         NEW buffer, NEW s, NEW object \in Objects, ToSet(s.target) = {object},
         NEW t, ToSet(t.target) = {},
         ObjectsAre(buffer, s, sprite_fifo, drawn)
  PROVE  ObjectsAre(buffer, t, Merged(object), drawn)
<1> DEFINE old(i) == IF i <= Len(sprite_fifo) THEN sprite_fifo[i] ELSE Transparent
           new(i) == ObjectPixel(object, i)
           merged == Merged(object)
<1>1. LineObjects \subseteq Objects
  BY ToSetOf DEF LineObjects
<1>2. object \in LineObjects /\ LeftEdge(object) = drawn
  BY DEF ObjectsAre, Pending
<1>3. ShowsFront(sprite_fifo, drawn) /\ ShowsAll(buffer, s, sprite_fifo, drawn)
  BY DEF ObjectsAre, ShowsFront, ShowsAll
<1>4. /\ merged \in Seq(SpritePixels) /\ Len(merged) = Row
      /\ \A i \in 1 .. Row : /\ old(i) \in SpritePixels /\ new(i) \in SpritePixels
                             /\ merged[i] = resolve_drawing_priority(old(i), new(i))
  BY MergedRow
<1>5. \A i \in 1 .. Row : /\ new(i).opaque <=> Covers(object, drawn + i - 1)
                          /\ new(i).index = object.index /\ new(i).x = object.x
  <2>1. ASSUME NEW i \in 1 .. Row
        PROVE  /\ new(i).opaque <=> Covers(object, drawn + i - 1)
               /\ new(i).index = object.index /\ new(i).x = object.x
    <3>1. (drawn + i - 1) - LeftEdge(object) + 1 = i
      BY <1>2
    <3>2. Covers(object, drawn + i - 1) <=> i \in object.opaque
      BY <3>1 DEF Covers
    <3>3. (new(i).opaque <=> i \in object.opaque) /\ new(i).index = object.index /\ new(i).x = object.x
      BY DEF ObjectPixel
    <3>4. QED
      BY <3>2, <3>3
  <2>2. QED
    BY <2>1
<1> HIDE DEF old, new, merged
<1>6. \A i \in 1 .. Row :
        /\ merged[i] \in SpritePixels
        /\ merged[i].opaque => \/ old(i).opaque /\ merged[i] = old(i)
                               \/ new(i).opaque /\ merged[i] = new(i)
        /\ old(i).opaque => merged[i].opaque /\ InFrontOf(merged[i], old(i))
        /\ new(i).opaque => merged[i].opaque /\ InFrontOf(merged[i], new(i))
  BY <1>4, Resolved
<1>7. \A i \in 1 .. Row : old(i).opaque => i \in 1 .. Len(sprite_fifo) /\ old(i) = sprite_fifo[i]
  <2>1. ~Transparent.opaque
    BY DEF Transparent
  <2>2. ASSUME NEW i \in 1 .. Row, i <= Len(sprite_fifo)
        PROVE  i \in 1 .. Len(sprite_fifo)
    BY <2>2, LenProperties, Sizes
  <2>3. QED
    BY <2>1, <2>2 DEF old
<1>8. ShowsFront(merged, drawn)
  <2>1. ASSUME NEW i \in 1 .. Row, merged[i].opaque
        PROVE  \E front \in LineObjects :
                 Covers(front, drawn + i - 1) /\ merged[i].index = front.index
                   /\ merged[i].x = front.x
    <3>1. CASE old(i).opaque /\ merged[i] = old(i)
      BY <1>3, <1>7, <3>1 DEF ShowsFront
    <3>2. CASE new(i).opaque /\ merged[i] = new(i)
      BY <1>2, <1>5, <3>2
    <3>3. QED
      BY <1>6, <2>1, <3>1, <3>2
  <2>2. QED
    BY <1>4, <2>1 DEF ShowsFront
<1>9. ShowsAll(buffer, t, merged, drawn)
  <2>1. ASSUME NEW i \in Nat \ {0}, NEW other \in LineObjects, Covers(other, drawn + i - 1)
        PROVE  \/ other \in Pending(buffer, t)
               \/ i <= Len(merged) /\ merged[i].opaque /\ InFrontOf(merged[i], other)
    <3>1. CASE other = object
      <4>1. i \in 1 .. Row
        <5>1. (drawn + i - 1) - LeftEdge(object) + 1 \in 1 .. Row
          BY <2>1, <3>1, ObjectFields
        <5>2. QED
          BY <1>2, <5>1
      <4>2. new(i).opaque /\ new(i).index = object.index /\ new(i).x = object.x
        BY <1>5, <2>1, <3>1, <4>1
      <4>3. merged[i].opaque /\ InFrontOf(merged[i], new(i))
        BY <1>6, <4>1, <4>2
      <4>4. InFrontOf(merged[i], other)
        BY <3>1, <4>2, <4>3 DEF InFrontOf
      <4>5. i <= Len(merged)
        BY <1>4, <4>1, Sizes
      <4>6. QED
        BY <4>3, <4>4, <4>5
    <3>2. CASE other # object /\ other \in Pending(buffer, s)
      BY <3>2 DEF Pending
    <3>3. CASE i <= Len(sprite_fifo) /\ sprite_fifo[i].opaque /\ InFrontOf(sprite_fifo[i], other)
      <4>1. i \in 1 .. Row /\ i \in 1 .. Len(sprite_fifo) /\ i <= Len(merged)
        BY <1>4, <3>3, LenProperties, Sizes
      <4>2. old(i) = sprite_fifo[i]
        BY <3>3 DEF old
      <4>3. merged[i].opaque /\ InFrontOf(merged[i], old(i))
        BY <1>6, <3>3, <4>1, <4>2
      <4>4. /\ merged[i].x \in Nat /\ merged[i].index \in Nat
            /\ old(i).x \in Nat /\ old(i).index \in Nat
            /\ other.x \in Nat /\ other.index \in Nat
        BY <1>1, <1>4, <1>6, <4>1, ObjectFields DEF SpritePixels
      <4>5. InFrontOf(merged[i], other)
        BY <3>3, <4>2, <4>3, <4>4, InFrontTransitive
      <4>6. QED
        BY <4>1, <4>3, <4>5
    <3>4. QED
      BY <1>3, <2>1, <3>1, <3>2, <3>3 DEF ShowsAll
  <2>2. QED
    BY <2>1 DEF ShowsAll
<1>10. /\ \A other \in Pending(buffer, t) : other \in LineObjects /\ drawn <= LeftEdge(other)
       /\ \A other \in ToSet(t.target) : LeftEdge(other) = drawn
  BY DEF ObjectsAre, Pending
<1>11. QED
  BY <1>8, <1>9, <1>10 DEF ObjectsAre, ShowsFront, ShowsAll, merged

(* An object that is due is taken out of the buffer. *)
LEMMA TakeKeeps ==
  ASSUME NEW buffer \in Seq(Objects), NEW i \in 1 .. Len(buffer), NEW drawn \in Nat, NEW fifo,
         buffer[i].x - Row <= drawn,
         NEW s, ToSet(s.target) = {}, NEW t, ToSet(t.target) = {buffer[i]},
         ObjectsAre(buffer, s, fifo, drawn)
  PROVE  ObjectsAre(RemoveAt(buffer, i), t, fifo, drawn)
<1>1. \A e : e \in ToSet(buffer) <=> e \in ToSet(RemoveAt(buffer, i)) \/ e = buffer[i]
  BY Removed
<1>2. Pending(RemoveAt(buffer, i), t) = Pending(buffer, s)
  BY <1>1 DEF Pending
<1>3. LeftEdge(buffer[i]) = drawn
  <2>1. buffer[i].x \in Nat /\ Row \in Nat
    <3>1. buffer[i] \in Objects
      BY ElementOfSeq
    <3>2. QED
      BY <3>1, Sizes, ObjectFields
  <2>2. buffer[i] \in Pending(buffer, s)
    BY <1>1 DEF Pending
  <2>3. drawn <= LeftEdge(buffer[i])
    BY <2>2 DEF ObjectsAre
  <2>4. QED
    BY <2>1, <2>3 DEF LeftEdge
<1>4. QED
  BY <1>2, <1>3 DEF ObjectsAre

(* A pixel is drawn while no object is due: what it shows is in front, and *)
(* the objects that wait begin after it.                                   *)
LEMMA DrawKeeps ==
  ASSUME line_objects \in Seq(Objects), NEW fifo \in Seq(SpritePixels), NEW drawn \in Nat,
         NEW buffer \in Seq(Objects), NEW s, s.target = <<>>,
         \A i \in 1 .. Len(buffer) : ~(buffer[i].x - Row <= drawn),
         ObjectsAre(buffer, s, fifo, drawn)
  PROVE  /\ ObjectsAre(buffer, s, IF fifo = <<>> THEN <<>> ELSE Tail(fifo), drawn + 1)
         /\ LET covering == Covering(drawn)
                object   == IF fifo # <<>> /\ Head(fifo).opaque THEN Head(fifo).index ELSE NoIndex
            IN  IF covering = {} THEN object = NoIndex
                ELSE \E front \in covering :
                       /\ \A other \in covering : InFrontOf(front, other)
                       /\ object = front.index
<1> DEFINE rest == IF fifo = <<>> THEN <<>> ELSE Tail(fifo)
<1>1. LineObjects \subseteq Objects /\ Row \in Nat
  BY ToSetOf, Sizes DEF LineObjects
<1>2. Pending(buffer, s) = ToSet(buffer)
  BY ToSetOfNone DEF Pending
<1>3. ASSUME NEW object \in Pending(buffer, s)
      PROVE  object \in LineObjects /\ drawn + 1 <= LeftEdge(object)
  <2>1. PICK i \in 1 .. Len(buffer) : object = buffer[i]
    BY <1>2, <1>3, ToSetOf
  <2>2. object.x \in Nat /\ ~(object.x - Row <= drawn)
    <3>1. object \in Objects
      BY <2>1, ElementOfSeq
    <3>2. QED
      BY <2>1, <3>1, ObjectFields
  <2>3. LeftEdge(object) = object.x - Row
    BY <1>1, <2>2 DEF LeftEdge
  <2>4. object \in LineObjects
    BY <1>3 DEF ObjectsAre
  <2>5. QED
    BY <1>1, <2>2, <2>3, <2>4
<1>4. ShowsFront(fifo, drawn) /\ ShowsAll(buffer, s, fifo, drawn)
  BY DEF ObjectsAre, ShowsFront, ShowsAll
<1>5. /\ Len(fifo) \in Nat
      /\ fifo = <<>> => rest = <<>> /\ Len(rest) = 0 /\ Len(fifo) = 0
      /\ fifo # <<>> => /\ Len(fifo) > 0 /\ Len(rest) = Len(fifo) - 1 /\ Head(fifo) = fifo[1]
                        /\ \A i \in 1 .. Len(fifo) - 1 : rest[i] = fifo[i + 1]
  <2>1. Len(fifo) \in Nat
    BY LenProperties
  <2>2. CASE fifo = <<>>
    BY <2>1, <2>2, EmptySeq
  <2>3. CASE fifo # <<>>
    <3>1. /\ Len(Tail(fifo)) = Len(fifo) - 1
          /\ \A i \in 1 .. Len(Tail(fifo)) : Tail(fifo)[i] = fifo[i + 1]
      BY <2>3, HeadTailProperties
    <3>2. Len(fifo) > 0 /\ Head(fifo) = fifo[1]
      BY <2>1, <2>3, EmptySeq
    <3>3. QED
      BY <2>1, <2>3, <3>1, <3>2
  <2>4. QED
    BY <2>2, <2>3
<1> HIDE DEF rest
<1>6. ShowsFront(rest, drawn + 1)
  <2>1. ASSUME NEW i \in 1 .. Len(rest), rest[i].opaque
        PROVE  \E front \in LineObjects :
                 /\ Covers(front, drawn + 1 + i - 1)
                 /\ rest[i].index = front.index /\ rest[i].x = front.x
    <3>1. i \in Int /\ fifo # <<>>
      BY <1>5
    <3>2. i \in 1 .. Len(fifo) - 1 /\ i + 1 \in 1 .. Len(fifo)
      BY <1>5, <3>1
    <3>3. rest[i] = fifo[i + 1]
      BY <1>5, <3>1, <3>2
    <3>4. drawn + (i + 1) - 1 = drawn + 1 + i - 1
      BY <3>1
    <3>5. QED
      BY <1>4, <2>1, <3>2, <3>3, <3>4 DEF ShowsFront
  <2>2. QED
    BY <2>1 DEF ShowsFront
<1>7. ShowsAll(buffer, s, rest, drawn + 1)
  <2>1. ASSUME NEW i \in Nat \ {0}, NEW object \in LineObjects,
               Covers(object, drawn + 1 + i - 1), object \notin Pending(buffer, s)
        PROVE  i <= Len(rest) /\ rest[i].opaque /\ InFrontOf(rest[i], object)
    <3>1. i + 1 \in Nat \ {0} /\ drawn + (i + 1) - 1 = drawn + 1 + i - 1
      OBVIOUS
    <3>2. i + 1 <= Len(fifo) /\ fifo[i + 1].opaque /\ InFrontOf(fifo[i + 1], object)
      BY <1>4, <2>1, <3>1 DEF ShowsAll
    <3>3. fifo # <<>>
      BY <1>5, <3>2
    <3>4. i \in 1 .. Len(fifo) - 1 /\ i <= Len(rest)
      BY <1>5, <3>2, <3>3
    <3>5. QED
      BY <1>5, <3>2, <3>3, <3>4
  <2>2. QED
    BY <2>1 DEF ShowsAll
<1>8. \A object \in ToSet(s.target) : LeftEdge(object) = drawn + 1
  BY ToSetOfNone
<1>9. ObjectsAre(buffer, s, rest, drawn + 1)
  BY <1>3, <1>6, <1>7, <1>8 DEF ObjectsAre, ShowsFront, ShowsAll
<1>10. \A object : object \in Covering(drawn) <=> object \in LineObjects /\ Covers(object, drawn)
  BY DEF Covering, Covers, LineObjects
<1>11. ASSUME NEW object \in Covering(drawn)
       PROVE  fifo # <<>> /\ fifo[1].opaque /\ InFrontOf(fifo[1], object)
  <2>1. object \in LineObjects /\ Covers(object, drawn) /\ object \in Objects
    BY <1>1, <1>10
  <2>2. drawn - LeftEdge(object) + 1 \in 1 .. Row /\ LeftEdge(object) \in Nat
    BY <2>1, ObjectFields
  <2>3. object \notin Pending(buffer, s)
    <3>1. ~(drawn + 1 <= LeftEdge(object))
      BY <1>1, <2>2
    <3>2. QED
      BY <1>3, <3>1
  <2>4. 1 \in Nat \ {0} /\ drawn + 1 - 1 = drawn
    OBVIOUS
  <2>5. 1 <= Len(fifo) /\ fifo[1].opaque /\ InFrontOf(fifo[1], object)
    BY <1>4, <2>1, <2>3, <2>4 DEF ShowsAll
  <2>6. QED
    BY <1>5, <2>5
<1>12. CASE Covering(drawn) = {}
  <2>1. ASSUME fifo # <<>>, fifo[1].opaque
        PROVE  FALSE
    <3>1. 1 \in 1 .. Len(fifo) /\ drawn + 1 - 1 = drawn
      BY <1>5, <2>1
    <3>2. PICK front \in LineObjects : Covers(front, drawn)
      BY <1>4, <2>1, <3>1 DEF ShowsFront
    <3>3. QED
      BY <1>10, <1>12, <3>2
  <2>2. ~(fifo # <<>> /\ Head(fifo).opaque)
    BY <1>5, <2>1
  <2>3. QED
    BY <1>9, <1>12, <2>2 DEF rest
<1>13. CASE Covering(drawn) # {}
  <2>1. fifo # <<>> /\ fifo[1].opaque /\ Head(fifo) = fifo[1]
    BY <1>5, <1>11, <1>13
  <2>2. 1 \in 1 .. Len(fifo) /\ drawn + 1 - 1 = drawn
    BY <1>5, <2>1
  <2>3. PICK front \in LineObjects :
          Covers(front, drawn) /\ fifo[1].index = front.index /\ fifo[1].x = front.x
    BY <1>4, <2>1, <2>2 DEF ShowsFront
  <2>4. \A other \in Covering(drawn) : InFrontOf(front, other)
    BY <1>11, <2>3 DEF InFrontOf
  <2>5. front \in Covering(drawn)
    BY <1>10, <2>3
  <2>6. QED
    BY <1>9, <1>13, <2>1, <2>3, <2>4, <2>5 DEF rest
<1>14. QED
  BY <1>12, <1>13

-----------------------------------------------------------------------------
(* The background in one dot of the pipeline: nothing happens to it, the   *)
(* fetcher fills the empty FIFO, or a pixel is discarded or drawn.         *)
BackgroundKept(f, fifo, discard) ==
  /\ pixel_fetcher' = f /\ background_fifo' = fifo /\ pixels_to_discard' = discard
  /\ UNCHANGED <<current_mode, pixels_drawn_in_scanline, shown>>

BackgroundTicks(f, fifo, discard) ==
  \/ /\ fifo = <<>>
     /\ tick_pixel_fetcher(f, fifo)
     /\ pixels_to_discard' = discard
     /\ UNCHANGED <<current_mode, pixels_drawn_in_scanline, shown>>
  \/ /\ fifo # <<>> /\ discard > 0
     /\ tick_pixel_fetcher(f, Tail(fifo))
     /\ pixels_to_discard' = discard - 1
     /\ UNCHANGED <<current_mode, pixels_drawn_in_scanline, shown>>

BackgroundDrawn(f, fifo, discard) ==
  /\ fifo # <<>> /\ discard = 0
  /\ tick_pixel_fetcher(f, Tail(fifo))
  /\ pixels_to_discard' = 0
  /\ \E object : shown' = [pixel |-> pixels_drawn_in_scanline, background |-> Head(fifo),
                           object |-> object]
  /\ pixels_drawn_in_scanline' = pixels_drawn_in_scanline + 1
  /\ current_mode' = IF pixels_drawn_in_scanline' = LcdWidth THEN "h_blank" ELSE "drawing"

BackgroundDone ==
  BackgroundReady(pixel_fetcher', background_fifo', pixels_to_discard',
                  window_active_in_scanline', window_start', pixels_drawn_in_scanline', shown')

LEMMA FetchLeftIs ==
  ASSUME NEW f, NEW fifo, NEW in_window, Sound(f, fifo, in_window)
  PROVE  FetchLeft(f) \in Nat /\ FetchLeft(f) <= 2 * FetchDots /\ (fifo # <<>> => FetchLeft(f) = 0)
<1>1. /\ f.x \in Nat /\ f.dot \in Nat /\ (f.x = 0 <=> fifo = <<>>)
      /\ f.x = 0 => f.dot < FetchDots
  BY Rest DEF Sound
<1>2. FetchDots \in Nat
  BY Sizes
<1>3. FetchLeft(f) = IF f.x > 0 THEN 0
                     ELSE IF f.first THEN 2 * FetchDots - f.dot ELSE FetchDots - f.dot
  BY DEF FetchLeft
<1>4. FetchLeft(f) \in Nat /\ FetchLeft(f) <= 2 * FetchDots
  BY ONLY <1>1, <1>2, <1>3
<1>5. fifo # <<>> => f.x > 0
  BY <1>1
<1>6. QED
  BY <1>3, <1>4, <1>5

LEMMA TickedPair ==
  ASSUME NEW f, NEW fifo, f \in FetcherStates, f.step # "push", tick_pixel_fetcher(f, fifo)
  PROVE  TickFetcher(f, fifo, window_active_in_scanline') = <<pixel_fetcher', background_fifo'>>
<1> DEFINE after == TickFetcher(f, fifo, window_active_in_scanline')
<1>1. pixel_fetcher' = after[1] /\ background_fifo' = after[2]
  BY DEF tick_pixel_fetcher
<1>2. f.step \in {"get_tile_address", "get_tile_data_low", "get_tile_data_high", "sleep"}
  BY DEF FetcherStates, FetchSteps
<1>3. \E a, b : after = <<a, b>>
  <2>1. /\ ~(f.cycle + 1 >= StepDots) => after = <<On(f, f.step, f.cycle + 1), fifo>>
        /\ f.cycle + 1 >= StepDots =>
             \/ after = <<[On(f, "get_tile_data_low", 0) EXCEPT
                             !.row = [window |-> window_active_in_scanline', tile |-> f.x]], fifo>>
             \/ after = <<On(f, "get_tile_data_high", 0), fifo>>
             \/ after = <<Restarted(f, f.x), fifo>>
             \/ after = IF HasRoom(fifo)
                        THEN <<Restarted(f, f.x + 1), fifo \o Pixels(f.row)>>
                        ELSE <<On(f, NextFetchStep[f.step], 0), fifo>>
    BY <1>2, TickValue
  <2> HIDE DEF after
  <2>2. QED
    BY <2>1
<1> HIDE DEF after
<1>4. after = <<after[1], after[2]>>
  BY <1>3
<1>5. QED
  BY <1>1, <1>4 DEF after

LEMMA NeverPushes ==
  ASSUME NEW f, NEW fifo, NEW in_window, Sound(f, fifo, in_window)
  PROVE  f \in FetcherStates /\ f.step # "push"
BY DEF Sound, InStep

LEMMA KeptIsDone ==
  ASSUME NEW f, NEW fifo, NEW discard, BackgroundKept(f, fifo, discard),
         current_mode = "drawing", pixels_drawn_in_scanline < LcdWidth,
         BackgroundReady(f, fifo, discard, window_active_in_scanline', window_start',
                         pixels_drawn_in_scanline, shown)
  PROVE  /\ BackgroundDone
         /\ current_mode' = "drawing" /\ pixels_drawn_in_scanline' < LcdWidth
         /\ pixels_drawn_in_scanline' = pixels_drawn_in_scanline
         /\ BackgroundLeft(pixel_fetcher', pixels_to_discard', pixels_drawn_in_scanline')
              = BackgroundLeft(f, discard, pixels_drawn_in_scanline)
         /\ FetchDone(pixels_drawn_in_scanline', pixel_fetcher')
              = FetchDone(pixels_drawn_in_scanline, f)
BY DEF BackgroundKept, BackgroundDone

LEMMA TicksIsDone ==
  ASSUME NEW f, NEW fifo, NEW discard, BackgroundTicks(f, fifo, discard),
         current_mode = "drawing", pixels_drawn_in_scanline < LcdWidth,
         window_active_in_scanline' \in BOOLEAN, fine_scroll \in Nat, window_start' \in Nat,
         BackgroundReady(f, fifo, discard, window_active_in_scanline', window_start',
                         pixels_drawn_in_scanline, shown)
  PROVE  /\ BackgroundDone
         /\ current_mode' = "drawing" /\ pixels_drawn_in_scanline' < LcdWidth
         /\ pixels_drawn_in_scanline' = pixels_drawn_in_scanline
         /\ BackgroundLeft(pixel_fetcher', pixels_to_discard', pixels_drawn_in_scanline') + 1
              = BackgroundLeft(f, discard, pixels_drawn_in_scanline)
         /\ FetchDone(pixels_drawn_in_scanline', pixel_fetcher')
              <= FetchDone(pixels_drawn_in_scanline, f) + 1
<1> DEFINE g == pixel_fetcher'
           after == background_fifo'
           in_window == window_active_in_scanline'
           start == window_start'
           drawn == pixels_drawn_in_scanline
           next == pixels_to_discard'
<1>1. /\ Sound(f, fifo, in_window) /\ discard \in 0 .. Row - 1 /\ (in_window => discard = 0)
      /\ drawn \in Nat /\ Row * f.x - Len(fifo) = Taken(in_window, start, drawn, discard)
      /\ ShownIs(in_window, start, drawn, shown)
  BY DEF BackgroundReady
<1>2. /\ pixels_drawn_in_scanline' = drawn /\ current_mode' = "drawing" /\ shown' = shown
  BY DEF BackgroundTicks
<1>3. /\ FetchLeft(f) \in Nat /\ FetchLeft(f) <= 2 * FetchDots
      /\ discard \in Nat /\ discard <= Row - 1 /\ Row \in Nat /\ FetchDots \in Nat
      /\ LcdWidth \in Nat /\ drawn \in Nat /\ drawn < LcdWidth
  BY <1>1, FetchLeftIs, Sizes
<1>4. /\ Sound(g, after, in_window)
      /\ Row * g.x - Len(after) = Taken(in_window, start, drawn, next)
      /\ next \in 0 .. Row - 1 /\ (in_window => next = 0)
      /\ next + FetchLeft(g) + 1 = discard + FetchLeft(f)
      /\ FetchLeft(g) \in Nat /\ FetchLeft(g) + 1 >= FetchLeft(f)
  <2>1. CASE fifo = <<>> /\ tick_pixel_fetcher(f, fifo) /\ next = discard
    <3>1. TickFetcher(f, fifo, in_window) = <<g, after>>
      BY <1>1, <2>1, TickedPair, NeverPushes
    <3>2. /\ Sound(g, after, in_window)
          /\ Row * g.x - Len(after) = Row * f.x - Len(fifo)
          /\ FetchLeft(g) = FetchLeft(f) - 1 /\ FetchLeft(g) \in Nat
      BY <1>1, <2>1, <3>1, FetchingDot
    <3>3. /\ next + FetchLeft(g) + 1 = discard + FetchLeft(f)
          /\ FetchLeft(g) + 1 >= FetchLeft(f)
      BY ONLY <1>3, <2>1, <3>2
    <3>4. QED
      BY <1>1, <2>1, <3>2, <3>3
  <2>2. CASE /\ fifo # <<>> /\ discard > 0 /\ tick_pixel_fetcher(f, Tail(fifo))
             /\ next = discard - 1
    <3>1. TickFetcher(f, Tail(fifo), in_window) = <<g, after>>
      BY <1>1, <2>2, TickedPair, NeverPushes
    <3>2. /\ Sound(g, after, in_window)
          /\ Row * g.x - Len(after) = Row * f.x - Len(fifo) + 1
          /\ FetchLeft(g) = 0 /\ FetchLeft(f) = 0
      BY <1>1, <2>2, <3>1, TakingDot
    <3>3. ~in_window
      BY <1>1, <1>3, <2>2
    <3>4. /\ Row * f.x - Len(fifo) = drawn + fine_scroll - discard
          /\ Taken(in_window, start, drawn, next) = drawn + fine_scroll - next
      BY <1>1, <3>3 DEF Taken
    <3>5. drawn + fine_scroll - next = drawn + fine_scroll - discard + 1
      BY ONLY <1>3, <2>2, fine_scroll \in Nat
    <3>6. /\ next \in 0 .. Row - 1
          /\ next + FetchLeft(g) + 1 = discard + FetchLeft(f)
          /\ FetchLeft(g) \in Nat /\ FetchLeft(g) + 1 >= FetchLeft(f)
      BY ONLY <1>3, <2>2, <3>2
    <3>7. QED
      BY <3>2, <3>3, <3>4, <3>5, <3>6
  <2>3. QED
    BY <2>1, <2>2 DEF BackgroundTicks
<1>5. BackgroundDone
  BY <1>1, <1>2, <1>4 DEF BackgroundDone, BackgroundReady
<1> HIDE DEF g, after, in_window, start, drawn, next
<1>6. BackgroundLeft(g, next, drawn) + 1 = BackgroundLeft(f, discard, drawn)
  <2>1. next \in Nat
    BY ONLY <1>3, <1>4
  <2>2. (LcdWidth - drawn) + next + FetchLeft(g) + 1 = (LcdWidth - drawn) + discard + FetchLeft(f)
    BY ONLY <1>3, <1>4, <2>1, SMTT(30)
  <2>3. QED
    BY <2>2 DEF BackgroundLeft
<1>7. FetchDone(drawn, g) <= FetchDone(drawn, f) + 1
  <2>1. /\ FetchDone(drawn, g) = IF drawn > 0 THEN 2 * FetchDots ELSE 2 * FetchDots - FetchLeft(g)
        /\ FetchDone(drawn, f) = IF drawn > 0 THEN 2 * FetchDots ELSE 2 * FetchDots - FetchLeft(f)
    BY DEF FetchDone
  <2>2. QED
    BY ONLY <1>3, <1>4, <2>1
<1>8. QED
  BY <1>2, <1>3, <1>5, <1>6, <1>7 DEF g, next, drawn

LEMMA DrawnIsDone ==
  ASSUME NEW f, NEW fifo, NEW discard, BackgroundDrawn(f, fifo, discard),
         current_mode = "drawing", pixels_drawn_in_scanline < LcdWidth,
         window_active_in_scanline' \in BOOLEAN, fine_scroll \in Nat, window_start' \in Nat,
         BackgroundReady(f, fifo, discard, window_active_in_scanline', window_start',
                         pixels_drawn_in_scanline, shown)
  PROVE  /\ BackgroundDone
         /\ pixels_drawn_in_scanline' = pixels_drawn_in_scanline + 1
         /\ \/ current_mode' = "drawing" /\ pixels_drawn_in_scanline' < LcdWidth
            \/ current_mode' = "h_blank" /\ pixels_drawn_in_scanline' = LcdWidth
         /\ BackgroundLeft(pixel_fetcher', pixels_to_discard', pixels_drawn_in_scanline') + 1
              = BackgroundLeft(f, discard, pixels_drawn_in_scanline)
         /\ FetchDone(pixels_drawn_in_scanline', pixel_fetcher')
              <= FetchDone(pixels_drawn_in_scanline, f)
<1> DEFINE g == pixel_fetcher'
           after == background_fifo'
           in_window == window_active_in_scanline'
           start == window_start'
           drawn == pixels_drawn_in_scanline
<1>1. /\ Sound(f, fifo, in_window) /\ discard = 0
      /\ drawn \in Nat /\ Row * f.x - Len(fifo) = Taken(in_window, start, drawn, discard)
  BY DEF BackgroundReady, BackgroundDrawn
<1>2. /\ pixels_drawn_in_scanline' = drawn + 1 /\ pixels_to_discard' = 0
      /\ current_mode' = IF drawn + 1 = LcdWidth THEN "h_blank" ELSE "drawing"
      /\ shown'.pixel = drawn /\ shown'.background = Head(fifo)
  BY DEF BackgroundDrawn
<1>3. TickFetcher(f, Tail(fifo), in_window) = <<g, after>>
  BY <1>1, TickedPair, NeverPushes DEF BackgroundDrawn
<1>4. /\ Sound(g, after, in_window)
      /\ Row * g.x - Len(after) = Row * f.x - Len(fifo) + 1
      /\ FetchLeft(g) = 0 /\ FetchLeft(f) = 0
      /\ Head(fifo) = [window |-> in_window, column |-> Row * f.x - Len(fifo)]
  BY <1>1, <1>3, TakingDot DEF BackgroundDrawn
<1>5. LcdWidth \in Nat /\ Row \in Nat /\ Row > 0 /\ FetchDots \in Nat
  BY Sizes
<1>6. /\ Taken(in_window, start, drawn, discard)
           = IF in_window THEN drawn - start ELSE drawn + fine_scroll
      /\ Taken(in_window, start, drawn + 1, 0)
           = (IF in_window THEN drawn - start ELSE drawn + fine_scroll) + 1
  <2>1. drawn + fine_scroll - 0 = drawn + fine_scroll
        /\ (drawn + 1) - start = drawn - start + 1
        /\ (drawn + 1) + fine_scroll - 0 = drawn + fine_scroll + 1
    BY <1>1
  <2>2. /\ Taken(in_window, start, drawn, discard)
             = IF in_window THEN drawn - start ELSE drawn + fine_scroll - 0
        /\ Taken(in_window, start, drawn + 1, 0)
             = IF in_window THEN (drawn + 1) - start ELSE (drawn + 1) + fine_scroll - 0
    BY <1>1, Zenon DEF Taken
  <2>3. QED
    BY <2>1, <2>2
<1>7. ShownIs(in_window, start, drawn + 1, shown')
  <2>1. CASE in_window
    <3>1. shown'.background = [window |-> TRUE, column |-> shown'.pixel - start]
      BY <1>1, <1>2, <1>4, <1>6, <2>1
    <3>2. QED
      BY <2>1, <3>1 DEF ShownIs
  <2>2. CASE ~in_window
    <3>1. in_window = FALSE
      BY <2>2
    <3>2. shown'.background = [window |-> FALSE, column |-> shown'.pixel + fine_scroll]
      BY <1>1, <1>2, <1>4, <1>6, <2>2, <3>1
    <3>3. QED
      BY <3>2 DEF ShownIs
  <2>3. QED
    BY <2>1, <2>2
<1>8. Row * g.x - Len(after) = Taken(in_window, start, drawn + 1, 0)
  BY <1>1, <1>4, <1>6
<1>9. 0 \in 0 .. Row - 1 /\ drawn + 1 \in Nat
  BY ONLY <1>1, <1>5
<1>10. BackgroundDone
  BY <1>2, <1>4, <1>7, <1>8, <1>9 DEF BackgroundDone, BackgroundReady
<1>11. BackgroundLeft(g, 0, drawn + 1) + 1 = BackgroundLeft(f, discard, drawn)
  <2>1. (LcdWidth - (drawn + 1)) + 0 + 0 + 1 = (LcdWidth - drawn) + 0 + 0
    BY ONLY <1>1, <1>5
  <2>2. QED
    BY <1>1, <1>4, <2>1 DEF BackgroundLeft
<1>12. FetchDone(drawn + 1, g) <= FetchDone(drawn, f)
  <2>1. FetchDone(drawn + 1, g) = 2 * FetchDots
    BY <1>1 DEF FetchDone
  <2>2. FetchDone(drawn, f) = 2 * FetchDots
    BY <1>4, <1>5 DEF FetchDone
  <2>3. QED
    BY <1>5, <2>1, <2>2
<1>13. \/ current_mode' = "drawing" /\ drawn + 1 < LcdWidth
       \/ current_mode' = "h_blank" /\ drawn + 1 = LcdWidth
  BY <1>1, <1>2, <1>5
<1>14. QED
  BY <1>2, <1>10, <1>11, <1>12, <1>13

-----------------------------------------------------------------------------
(* The objects in one dot of the pipeline. *)
SpriteReady(s, buffer) ==
  /\ s \in SpriteFetcherStates /\ SpriteTimed(s) /\ Len(s.target) <= 1
  /\ s.cycle \in 0 .. StepDots + MaxExtraDelay
  /\ buffer \in Seq(Objects) /\ Len(buffer) <= MaxObjects

FifoReady(fifo) == fifo \in Seq(SpritePixels) /\ Len(fifo) <= Row

LEMMA OneTarget ==
  ASSUME NEW s, SpriteFetching(s)
  PROVE  s.target[1] \in Objects /\ ToSet(s.target) = {s.target[1]}
<1>1. s.target \in Seq(Objects) /\ Len(s.target) <= 1 /\ s.target # <<>>
  BY DEF SpriteFetching, SpriteFetcherStates, is_fetching, NoObject
<1>2. Len(s.target) = 1
  <2> DEFINE n == Len(s.target)
  <2>1. n \in Nat \ {0}
    BY <1>1, EmptySeq
  <2>2. n <= 1
    BY <1>1
  <2> HIDE DEF n
  <2>3. n = 1
    BY ONLY <2>1, <2>2
  <2>4. QED
    BY <2>3 DEF n
<1>3. 1 \in 1 .. Len(s.target)
  BY <1>2
<1>4. s.target[1] \in Objects
  BY <1>1, <1>3, ElementOfSeq
<1>5. \A e : e \in ToSet(s.target) <=> \E i \in 1 .. 1 : e = s.target[i]
  BY <1>1, <1>2, ToSetOf
<1>6. \A i \in 1 .. 1 : i = 1
  OBVIOUS
<1>7. \A e : e \in ToSet(s.target) <=> e = s.target[1]
  BY <1>2, <1>3, <1>5, <1>6
<1>8. QED
  BY <1>4, <1>7

LEMMA ObjectLeftIs ==
  ASSUME NEW s, SpriteFetching(s) \/ ~is_fetching(s)
  PROVE  ObjectLeft(s) \in Nat
<1>1. CASE ~is_fetching(s)
  BY <1>1 DEF ObjectLeft
<1>2. CASE SpriteFetching(s)
  <2>1. /\ s.step \in {"get_tile_address", "get_tile_data_low", "get_tile_data_high"}
        /\ s.cycle \in Nat /\ s.extra_delay \in Nat
        /\ s.step # "get_tile_data_high" => s.cycle < StepDots
        /\ ObjectLeft(s) =
              s.extra_delay +
                (IF s.step = "get_tile_address" THEN 3 * StepDots - s.cycle
                 ELSE IF s.step = "get_tile_data_low" THEN 2 * StepDots - s.cycle
                 ELSE IF s.cycle < StepDots THEN StepDots - s.cycle ELSE 1)
    BY <1>2, SpriteFields
  <2>2. StepDots \in Nat
    BY Sizes
  <2>3. QED
    BY ONLY <2>1, <2>2
<1>3. QED
  BY <1>1, <1>2

(* A dot in which an object is being fetched. *)
LEMMA FetchObjectDone ==
  ASSUME NEW s, SpriteFetching(s), s.cycle \in 0 .. StepDots + MaxExtraDelay,
         FifoReady(sprite_fifo), line_objects \in Seq(Objects),
         pixels_drawn_in_scanline \in Nat,
         NEW f, NEW fifo \in Seq(BackgroundPixels), NEW discard, NEW buffer,
         FetchObject(s, f, fifo, discard)
  PROVE  /\ sprite_fetcher' \in SpriteFetcherStates /\ SpriteTimed(sprite_fetcher')
         /\ Len(sprite_fetcher'.target) <= 1
         /\ sprite_fetcher'.cycle \in 0 .. StepDots + MaxExtraDelay
         /\ FifoReady(sprite_fifo')
         /\ ObjectLeft(sprite_fetcher') \in Nat
         /\ \/ /\ BackgroundKept(f, fifo, discard)
               /\ ObjectLeft(sprite_fetcher') + 1 <= ObjectLeft(s)
            \/ /\ BackgroundTicks(f, fifo, discard)
               /\ ObjectLeft(sprite_fetcher') = ObjectLeft(s)
         /\ ObjectsAre(buffer, s, sprite_fifo, pixels_drawn_in_scanline) =>
              ObjectsAre(buffer, sprite_fetcher', sprite_fifo', pixels_drawn_in_scanline)
<1>1. CASE f.dot >= FetchDots \/ Len(fifo) > 0
  <2>1. tick_sprite_fetcher(s) /\ BackgroundKept(f, fifo, discard)
    BY <1>1 DEF FetchObject, BackgroundKept
  <2>2. /\ sprite_fetcher' \in SpriteFetcherStates /\ SpriteTimed(sprite_fetcher')
        /\ Len(sprite_fetcher'.target) <= 1
        /\ sprite_fetcher'.cycle \in 0 .. StepDots + MaxExtraDelay
        /\ ObjectLeft(sprite_fetcher') \in Nat
        /\ ObjectLeft(sprite_fetcher') + 1 <= ObjectLeft(s)
    BY <2>1, SpriteTick
  <2>3. \/ sprite_fifo' = sprite_fifo /\ sprite_fetcher'.target = s.target
        \/ sprite_fifo' = Merged(s.target[1]) /\ sprite_fetcher'.target = <<>>
    BY <2>1, SpriteTick
  <2>4. CASE sprite_fifo' = sprite_fifo /\ sprite_fetcher'.target = s.target
    <3>1. FifoReady(sprite_fifo')
      BY <2>4
    <3>2. ObjectsAre(buffer, s, sprite_fifo, pixels_drawn_in_scanline) =>
            ObjectsAre(buffer, sprite_fetcher', sprite_fifo', pixels_drawn_in_scanline)
      BY <2>4 DEF ObjectsAre, Pending
    <3>3. QED
      BY <2>1, <2>2, <3>1, <3>2
  <2>5. CASE sprite_fifo' = Merged(s.target[1]) /\ sprite_fetcher'.target = <<>>
    <3>1. s.target[1] \in Objects /\ ToSet(s.target) = {s.target[1]}
      BY OneTarget
    <3>2. FifoReady(sprite_fifo')
      BY <2>5, <3>1, MergedRow, Sizes DEF FifoReady
    <3>3. ToSet(sprite_fetcher'.target) = {}
      BY <2>5, ToSetOfNone
    <3>4. ObjectsAre(buffer, s, sprite_fifo, pixels_drawn_in_scanline) =>
            ObjectsAre(buffer, sprite_fetcher', Merged(s.target[1]), pixels_drawn_in_scanline)
      BY <3>1, <3>3, MergeKeeps DEF FifoReady
    <3>5. QED
      BY <2>1, <2>2, <2>5, <3>2, <3>4
  <2>6. QED
    BY <2>3, <2>4, <2>5
<1>2. CASE ~(f.dot >= FetchDots \/ Len(fifo) > 0)
  <2>1. /\ tick_pixel_fetcher(f, fifo) /\ sprite_fetcher' = s /\ sprite_fifo' = sprite_fifo
        /\ pixels_to_discard' = discard
        /\ UNCHANGED <<current_mode, pixels_drawn_in_scanline, shown>>
    BY <1>2 DEF FetchObject
  <2>2. fifo = <<>>
    BY <1>2, EmptySeq
  <2>3. BackgroundTicks(f, fifo, discard)
    BY <2>1, <2>2 DEF BackgroundTicks
  <2>4. /\ s \in SpriteFetcherStates /\ SpriteTimed(s) /\ Len(s.target) <= 1
        /\ ObjectLeft(s) \in Nat
    BY ObjectLeftIs DEF SpriteFetching
  <2>5. QED
    BY <2>1, <2>3, <2>4
<1>3. QED
  BY <1>1, <1>2

(* The object that is due is taken, with its delay. *)
LEMMA Target ==
  ASSUME NEW object \in Objects, NEW delay \in 0 .. MaxExtraDelay, NEW s,
         s = [ResetSpriteFetcher EXCEPT !.target = <<object>>, !.extra_delay = delay]
  PROVE  /\ SpriteFetching(s) /\ s.cycle \in 0 .. StepDots + MaxExtraDelay
         /\ s.target = <<object>> /\ ObjectLeft(s) <= ObjectCost
<1>1. /\ s.target = <<object>> /\ s.cycle = 0 /\ s.step = "get_tile_address"
      /\ s.extra_delay = delay
      /\ s = [step |-> s.step, cycle |-> s.cycle, target |-> s.target,
              extra_delay |-> s.extra_delay]
  BY DEF ResetSpriteFetcher
<1>2. /\ delay \in 0 .. 255 /\ delay \in Nat /\ delay <= MaxExtraDelay /\ MaxExtraDelay \in Nat
      /\ StepDots \in Nat /\ StepDots > 0
  <2>1. MaxExtraDelay \in 0 .. 255 /\ StepDots \in Nat /\ StepDots > 0
    BY Sizes
  <2>2. QED
    BY ONLY <2>1, delay \in 0 .. MaxExtraDelay
<1>3. <<object>> \in Seq(Objects) /\ Len(<<object>>) = 1 /\ <<object>> # <<>>
  OBVIOUS
<1>4. 0 \in 0 .. StepDots + MaxExtraDelay /\ 0 \in Nat
      /\ 0 + delay < StepDots + MaxExtraDelay
  BY ONLY <1>2
<1>5. s \in SpriteFetcherStates
  BY ONLY <1>1, <1>2, <1>3, <1>4 DEF SpriteFetcherStates
<1>6. is_fetching(s)
  BY <1>1, <1>3 DEF is_fetching, NoObject
<1>7. SpriteTimed(s)
  BY <1>1, <1>2, <1>4 DEF SpriteTimed
<1>8. SpriteFetching(s)
  BY <1>1, <1>3, <1>5, <1>6, <1>7 DEF SpriteFetching
<1>9. ObjectLeft(s) = delay + (3 * StepDots - 0)
  BY <1>1, <1>6 DEF ObjectLeft
<1>10. ObjectLeft(s) <= ObjectCost
  BY <1>2, <1>9, Sizes DEF ObjectCost
<1>11. QED
  BY <1>1, <1>4, <1>8, <1>10

-----------------------------------------------------------------------------
(* One dot of the pipeline. *)
ObjectsReady(s, buffer, fifo, drawn) ==
  /\ SpriteReady(s, buffer)
  /\ FifoReady(fifo)
  /\ objects_steady =>
       /\ ObjectsAre(buffer, s, fifo, drawn)
       /\ drawn > 0 => FrontShown(shown)

LineReady ==
  /\ current_mode = "drawing"
  /\ pixels_drawn_in_scanline \in Nat /\ pixels_drawn_in_scanline < LcdWidth
  /\ fine_scroll \in Nat /\ line_objects \in Seq(Objects)
  /\ objects_steady \in BOOLEAN /\ objects_enabled \in BOOLEAN
  /\ ObjectsReady(sprite_fetcher, sprite_buffer, sprite_fifo, pixels_drawn_in_scanline)

PipelineDone(f, fifo, discard) ==
  /\ BackgroundDone
  /\ SpriteReady(sprite_fetcher', sprite_buffer') /\ FifoReady(sprite_fifo')
  /\ \/ current_mode' = "drawing" /\ pixels_drawn_in_scanline' < LcdWidth
     \/ current_mode' = "h_blank" /\ pixels_drawn_in_scanline' = LcdWidth
  /\ BackgroundLeft(pixel_fetcher', pixels_to_discard', pixels_drawn_in_scanline')
       + ObjectsLeft(sprite_fetcher', sprite_buffer') + 1
       <= BackgroundLeft(f, discard, pixels_drawn_in_scanline)
            + ObjectsLeft(sprite_fetcher, sprite_buffer)
  /\ pixels_drawn_in_scanline' + FetchDone(pixels_drawn_in_scanline', pixel_fetcher')
       <= pixels_drawn_in_scanline + FetchDone(pixels_drawn_in_scanline, f) + 1
  /\ objects_steady' =>
       /\ ObjectsAre(sprite_buffer', sprite_fetcher', sprite_fifo', pixels_drawn_in_scanline')
       /\ pixels_drawn_in_scanline' > 0 => FrontShown(shown')

LEMMA Quantities ==
  ASSUME NEW f, NEW fifo, NEW discard, NEW in_window, NEW start, NEW drawn \in Nat, NEW pixel,
         drawn <= LcdWidth,
         BackgroundReady(f, fifo, discard, in_window, start, drawn, pixel)
  PROVE  /\ BackgroundLeft(f, discard, drawn) \in Nat
         /\ FetchDone(drawn, f) \in Nat /\ FetchDone(drawn, f) <= 2 * FetchDots
<1>1. FetchLeft(f) \in Nat /\ FetchLeft(f) <= 2 * FetchDots /\ discard \in 0 .. Row - 1
  BY FetchLeftIs DEF BackgroundReady
<1>2. LcdWidth \in Nat /\ FetchDots \in Nat /\ Row \in Nat
  BY Sizes
<1>3. BackgroundLeft(f, discard, drawn) \in Nat
  <2>1. (LcdWidth - drawn) + discard + FetchLeft(f) \in Nat
    BY ONLY <1>1, <1>2, drawn \in Nat, drawn <= LcdWidth
  <2>2. QED
    BY <2>1 DEF BackgroundLeft
<1>4. FetchDone(drawn, f) = IF drawn > 0 THEN 2 * FetchDots ELSE 2 * FetchDots - FetchLeft(f)
  BY DEF FetchDone
<1>5. QED
  BY <1>1, <1>2, <1>3, <1>4

(* The cost of the objects that are still to be fetched. *)
LEMMA Cost ==
  ASSUME NEW n \in Nat
  PROVE  /\ ObjectCost \in Nat /\ n * ObjectCost \in Nat
         /\ (n + 1) * ObjectCost = n * ObjectCost + ObjectCost
<1>1. FetchDots \in Nat /\ MaxExtraDelay \in 0 .. 255
  BY Sizes
<1>2. ObjectCost \in Nat
  BY <1>1 DEF ObjectCost
<1>3. QED
  BY ONLY <1>2, n \in Nat

LEMMA ObjectsLeftIs ==
  ASSUME NEW s, NEW buffer, SpriteReady(s, buffer)
  PROVE  ObjectsLeft(s, buffer) \in Nat
<1>1. Len(buffer) \in Nat
  BY DEF SpriteReady
<1>2. Len(buffer) * ObjectCost \in Nat
  BY <1>1, Cost
<1>3. ObjectLeft(s) \in Nat
  BY ObjectLeftIs DEF SpriteReady, SpriteFetching
<1>4. QED
  BY <1>2, <1>3 DEF ObjectsLeft

(* A fetch of an object, one that is taken now or one that goes on. *)
LEMMA FetchingIsDone ==
  ASSUME LineReady, NEW f, NEW fifo, NEW discard, NEW s, NEW buffer,
         window_active_in_scanline' \in BOOLEAN, window_start' \in Nat,
         BackgroundReady(f, fifo, discard, window_active_in_scanline', window_start',
                         pixels_drawn_in_scanline, shown),
         objects_steady' => objects_steady,
         SpriteFetching(s), SpriteReady(s, buffer),
         ObjectsLeft(s, buffer) <= ObjectsLeft(sprite_fetcher, sprite_buffer),
         objects_steady => ObjectsAre(buffer, s, sprite_fifo, pixels_drawn_in_scanline),
         sprite_buffer' = buffer,
         FetchObject(s, f, fifo, discard)
  PROVE  PipelineDone(f, fifo, discard)
<1> DEFINE drawn == pixels_drawn_in_scanline
           t == sprite_fetcher'
<1>1. /\ current_mode = "drawing" /\ drawn \in Nat /\ drawn < LcdWidth /\ fine_scroll \in Nat
      /\ line_objects \in Seq(Objects) /\ FifoReady(sprite_fifo)
      /\ s.cycle \in 0 .. StepDots + MaxExtraDelay
      /\ fifo \in Seq(BackgroundPixels)
  BY DEF LineReady, ObjectsReady, SpriteReady, BackgroundReady, Sound
<1>2. /\ t \in SpriteFetcherStates /\ SpriteTimed(t) /\ Len(t.target) <= 1
      /\ t.cycle \in 0 .. StepDots + MaxExtraDelay
      /\ FifoReady(sprite_fifo') /\ ObjectLeft(t) \in Nat
      /\ \/ BackgroundKept(f, fifo, discard) /\ ObjectLeft(t) + 1 <= ObjectLeft(s)
         \/ BackgroundTicks(f, fifo, discard) /\ ObjectLeft(t) = ObjectLeft(s)
      /\ ObjectsAre(buffer, s, sprite_fifo, drawn) =>
           ObjectsAre(buffer, t, sprite_fifo', drawn)
  BY <1>1, FetchObjectDone
<1>3. SpriteReady(t, sprite_buffer')
  BY <1>2 DEF SpriteReady
<1>4. pixels_drawn_in_scanline' = drawn /\ shown' = shown
  BY <1>2 DEF BackgroundKept, BackgroundTicks
<1>5. objects_steady' =>
        /\ ObjectsAre(sprite_buffer', t, sprite_fifo', pixels_drawn_in_scanline')
        /\ pixels_drawn_in_scanline' > 0 => FrontShown(shown')
  BY <1>2, <1>4 DEF LineReady, ObjectsReady
<1>6. /\ ObjectLeft(s) \in Nat /\ Len(buffer) * ObjectCost \in Nat
      /\ ObjectsLeft(s, buffer) = ObjectLeft(s) + Len(buffer) * ObjectCost
      /\ ObjectsLeft(t, sprite_buffer') = ObjectLeft(t) + Len(buffer) * ObjectCost
  BY ObjectLeftIs, Cost DEF ObjectsLeft, SpriteReady
<1>7. ObjectsLeft(sprite_fetcher, sprite_buffer) \in Nat
  BY ObjectsLeftIs DEF LineReady, ObjectsReady
<1>8. /\ BackgroundLeft(f, discard, drawn) \in Nat /\ FetchDone(drawn, f) \in Nat
  BY <1>1, Quantities, Sizes
<1>9. CASE BackgroundKept(f, fifo, discard) /\ ObjectLeft(t) + 1 <= ObjectLeft(s)
  <2>1. /\ BackgroundDone /\ current_mode' = "drawing" /\ pixels_drawn_in_scanline' < LcdWidth
        /\ BackgroundLeft(pixel_fetcher', pixels_to_discard', pixels_drawn_in_scanline')
             = BackgroundLeft(f, discard, drawn)
        /\ FetchDone(pixels_drawn_in_scanline', pixel_fetcher') = FetchDone(drawn, f)
    BY <1>1, <1>9, KeptIsDone
  <2>2. BackgroundLeft(f, discard, drawn) + ObjectsLeft(t, sprite_buffer') + 1
          <= BackgroundLeft(f, discard, drawn) + ObjectsLeft(sprite_fetcher, sprite_buffer)
    BY <1>2, <1>6, <1>7, <1>8, <1>9
  <2>3. drawn + FetchDone(drawn, f) <= drawn + FetchDone(drawn, f) + 1
    BY <1>1, <1>8
  <2>4. QED
    BY <1>2, <1>3, <1>4, <1>5, <2>1, <2>2, <2>3 DEF PipelineDone
<1>10. CASE BackgroundTicks(f, fifo, discard) /\ ObjectLeft(t) = ObjectLeft(s)
  <2>1. /\ BackgroundDone /\ current_mode' = "drawing" /\ pixels_drawn_in_scanline' < LcdWidth
        /\ BackgroundLeft(pixel_fetcher', pixels_to_discard', pixels_drawn_in_scanline') + 1
             = BackgroundLeft(f, discard, drawn)
        /\ FetchDone(pixels_drawn_in_scanline', pixel_fetcher') <= FetchDone(drawn, f) + 1
    BY <1>1, <1>10, TicksIsDone
  <2>2. BackgroundReady(pixel_fetcher', background_fifo', pixels_to_discard',
                        window_active_in_scanline', window_start', drawn, shown')
    BY <1>4, <2>1 DEF BackgroundDone
  <2>3. /\ BackgroundLeft(pixel_fetcher', pixels_to_discard', drawn) \in Nat
        /\ FetchDone(drawn, pixel_fetcher') \in Nat
    BY <1>1, <2>2, Quantities, Sizes
  <2>4. BackgroundLeft(pixel_fetcher', pixels_to_discard', pixels_drawn_in_scanline')
          + ObjectsLeft(t, sprite_buffer') + 1
          <= BackgroundLeft(f, discard, drawn) + ObjectsLeft(sprite_fetcher, sprite_buffer)
    BY <1>4, <1>6, <1>7, <1>8, <1>10, <2>1, <2>3
  <2>5. pixels_drawn_in_scanline' + FetchDone(pixels_drawn_in_scanline', pixel_fetcher')
          <= drawn + FetchDone(drawn, f) + 1
    BY <1>1, <1>4, <1>8, <2>1, <2>3
  <2>6. QED
    BY <1>2, <1>3, <1>5, <2>1, <2>4, <2>5 DEF PipelineDone
<1>11. QED
  BY <1>2, <1>9, <1>10

LEMMA DrawPixelIsDone ==
  ASSUME LineReady, NEW f, NEW fifo, NEW discard,
         window_active_in_scanline' \in BOOLEAN, window_start' \in Nat,
         BackgroundReady(f, fifo, discard, window_active_in_scanline', window_start',
                         pixels_drawn_in_scanline, shown),
         objects_steady' => objects_steady /\ objects_enabled,
         ~TakesObject, ~is_fetching(sprite_fetcher),
         sprite_buffer' = sprite_buffer,
         DrawPixel(f, fifo, discard)
  PROVE  PipelineDone(f, fifo, discard)
<1> DEFINE drawn == pixels_drawn_in_scanline
           s == sprite_fetcher
<1>1. /\ current_mode = "drawing" /\ drawn \in Nat /\ drawn < LcdWidth /\ fine_scroll \in Nat
      /\ line_objects \in Seq(Objects) /\ FifoReady(sprite_fifo)
      /\ SpriteReady(s, sprite_buffer) /\ s.target = <<>>
  BY DEF LineReady, ObjectsReady, is_fetching, NoObject
<1>2. sprite_fetcher' = s
  BY DEF DrawPixel
<1>3. SpriteReady(sprite_fetcher', sprite_buffer')
  BY <1>1, <1>2
<1>4. ObjectsLeft(s, sprite_buffer) \in Nat
  BY <1>1, ObjectsLeftIs
<1>5. /\ BackgroundLeft(f, discard, drawn) \in Nat /\ FetchDone(drawn, f) \in Nat
  BY <1>1, Quantities, Sizes
<1>6. CASE BackgroundTicks(f, fifo, discard) /\ sprite_fifo' = sprite_fifo
  <2>1. /\ BackgroundDone /\ current_mode' = "drawing" /\ pixels_drawn_in_scanline' < LcdWidth
        /\ pixels_drawn_in_scanline' = drawn
        /\ BackgroundLeft(pixel_fetcher', pixels_to_discard', pixels_drawn_in_scanline') + 1
             = BackgroundLeft(f, discard, drawn)
        /\ FetchDone(pixels_drawn_in_scanline', pixel_fetcher') <= FetchDone(drawn, f) + 1
    BY <1>1, <1>6, TicksIsDone
  <2>2. shown' = shown
    BY <1>6 DEF BackgroundTicks
  <2>3. BackgroundReady(pixel_fetcher', background_fifo', pixels_to_discard',
                        window_active_in_scanline', window_start', drawn, shown')
    BY <2>1 DEF BackgroundDone
  <2>4. /\ BackgroundLeft(pixel_fetcher', pixels_to_discard', drawn) \in Nat
        /\ FetchDone(drawn, pixel_fetcher') \in Nat
    BY <1>1, <2>3, Quantities, Sizes
  <2>5. BackgroundLeft(pixel_fetcher', pixels_to_discard', pixels_drawn_in_scanline')
          + ObjectsLeft(sprite_fetcher', sprite_buffer') + 1
          <= BackgroundLeft(f, discard, drawn) + ObjectsLeft(sprite_fetcher, sprite_buffer)
    BY <1>2, <1>4, <1>5, <2>1, <2>4
  <2>6. pixels_drawn_in_scanline' + FetchDone(pixels_drawn_in_scanline', pixel_fetcher')
          <= drawn + FetchDone(drawn, f) + 1
    BY <1>1, <1>5, <2>1, <2>4
  <2>7. objects_steady' =>
          /\ ObjectsAre(sprite_buffer', sprite_fetcher', sprite_fifo', pixels_drawn_in_scanline')
          /\ pixels_drawn_in_scanline' > 0 => FrontShown(shown')
    BY <1>2, <1>6, <2>1, <2>2 DEF LineReady, ObjectsReady
  <2>8. QED
    BY <1>1, <1>3, <1>6, <2>1, <2>5, <2>6, <2>7 DEF PipelineDone
<1>7. CASE /\ BackgroundDrawn(f, fifo, discard)
           /\ sprite_fifo' = IF sprite_fifo = <<>> THEN <<>> ELSE Tail(sprite_fifo)
           /\ shown' = [pixel |-> drawn, background |-> Head(fifo), object |-> ShownObject]
  <2>1. /\ BackgroundDone /\ pixels_drawn_in_scanline' = drawn + 1
        /\ \/ current_mode' = "drawing" /\ pixels_drawn_in_scanline' < LcdWidth
           \/ current_mode' = "h_blank" /\ pixels_drawn_in_scanline' = LcdWidth
        /\ BackgroundLeft(pixel_fetcher', pixels_to_discard', pixels_drawn_in_scanline') + 1
             = BackgroundLeft(f, discard, drawn)
        /\ FetchDone(pixels_drawn_in_scanline', pixel_fetcher') <= FetchDone(drawn, f)
    BY <1>1, <1>7, DrawnIsDone
  <2>2. BackgroundReady(pixel_fetcher', background_fifo', pixels_to_discard',
                        window_active_in_scanline', window_start', drawn + 1, shown')
    BY <2>1 DEF BackgroundDone
  <2>3. /\ BackgroundLeft(pixel_fetcher', pixels_to_discard', drawn + 1) \in Nat
        /\ FetchDone(drawn + 1, pixel_fetcher') \in Nat
    <3>1. drawn + 1 \in Nat /\ drawn + 1 <= LcdWidth
      BY <1>1, Sizes
    <3>2. QED
      BY <2>2, <3>1, Quantities
  <2>4. BackgroundLeft(pixel_fetcher', pixels_to_discard', pixels_drawn_in_scanline')
          + ObjectsLeft(sprite_fetcher', sprite_buffer') + 1
          <= BackgroundLeft(f, discard, drawn) + ObjectsLeft(sprite_fetcher, sprite_buffer)
    BY <1>2, <1>4, <1>5, <2>1, <2>3
  <2>5. pixels_drawn_in_scanline' + FetchDone(pixels_drawn_in_scanline', pixel_fetcher')
          <= drawn + FetchDone(drawn, f) + 1
    BY <1>1, <1>5, <2>1, <2>3
  <2>6. FifoReady(sprite_fifo')
    <3>1. CASE sprite_fifo = <<>>
      BY <1>1, <1>7, <3>1 DEF FifoReady
    <3>2. CASE sprite_fifo # <<>>
      <4>1. Tail(sprite_fifo) \in Seq(SpritePixels) /\ Len(Tail(sprite_fifo)) = Len(sprite_fifo) - 1
        BY <1>1, <3>2, HeadTailProperties DEF FifoReady
      <4>2. Len(sprite_fifo) \in Nat /\ Len(sprite_fifo) <= Row /\ Row \in Nat
        BY <1>1, Sizes DEF FifoReady
      <4>3. QED
        BY <1>7, <3>2, <4>1, <4>2 DEF FifoReady
    <3>3. QED
      BY <3>1, <3>2
  <2>7. ASSUME objects_steady'
        PROVE  /\ ObjectsAre(sprite_buffer', sprite_fetcher', sprite_fifo', pixels_drawn_in_scanline')
               /\ FrontShown(shown')
    <3>1. objects_steady /\ objects_enabled
      BY <2>7
    <3>2. ObjectsAre(sprite_buffer, s, sprite_fifo, drawn)
      BY <3>1 DEF LineReady, ObjectsReady
    <3>3. sprite_buffer \in Seq(Objects) /\ sprite_fifo \in Seq(SpritePixels)
      BY <1>1 DEF SpriteReady, FifoReady
    <3>4. \A i \in 1 .. Len(sprite_buffer) : ~(sprite_buffer[i].x - Row <= drawn)
      BY <3>1, <3>3 DEF TakesObject, IsDue
    <3>5. /\ ObjectsAre(sprite_buffer, s,
                        IF sprite_fifo = <<>> THEN <<>> ELSE Tail(sprite_fifo), drawn + 1)
          /\ LET covering == Covering(drawn)
                 object   == IF sprite_fifo # <<>> /\ Head(sprite_fifo).opaque
                             THEN Head(sprite_fifo).index ELSE NoIndex
             IN  IF covering = {} THEN object = NoIndex
                 ELSE \E front \in covering :
                        /\ \A other \in covering : InFrontOf(front, other)
                        /\ object = front.index
      BY <1>1, <3>2, <3>3, <3>4, DrawKeeps
    <3>6. ShownObject = IF sprite_fifo # <<>> /\ Head(sprite_fifo).opaque
                        THEN Head(sprite_fifo).index ELSE NoIndex
      BY <3>1 DEF ShownObject
    <3>7. shown'.pixel = drawn /\ shown'.object = ShownObject
      BY <1>7
    <3>8. FrontShown(shown')
      BY <3>5, <3>6, <3>7 DEF FrontShown
    <3>9. QED
      BY <1>2, <1>7, <2>1, <3>5, <3>8
  <2>8. QED
    BY <1>3, <2>1, <2>4, <2>5, <2>6, <2>7 DEF PipelineDone
<1>8. QED
  BY <1>6, <1>7 DEF DrawPixel, BackgroundTicks, BackgroundDrawn

LEMMA PipelineIsDone ==
  ASSUME LineReady, NEW f, NEW fifo, NEW discard,
         window_active_in_scanline' \in BOOLEAN, window_start' \in Nat,
         BackgroundReady(f, fifo, discard, window_active_in_scanline', window_start',
                         pixels_drawn_in_scanline, shown),
         objects_steady' => objects_steady /\ objects_enabled,
         Pipeline(f, fifo, discard)
  PROVE  PipelineDone(f, fifo, discard)
<1> DEFINE drawn == pixels_drawn_in_scanline
<1>1. /\ sprite_buffer \in Seq(Objects) /\ Len(sprite_buffer) <= MaxObjects
      /\ SpriteReady(sprite_fetcher, sprite_buffer) /\ drawn \in Nat
  BY DEF LineReady, ObjectsReady, SpriteReady
<1>2. ASSUME TakesObject, NEW i \in DOMAIN sprite_buffer, NEW delay \in 0 .. MaxExtraDelay,
             FirstDue(i), sprite_buffer' = RemoveAt(sprite_buffer, i),
             FetchObject([ResetSpriteFetcher EXCEPT !.target = <<sprite_buffer[i]>>,
                                                    !.extra_delay = delay],
                         f, fifo, discard)
      PROVE  PipelineDone(f, fifo, discard)
  <2> DEFINE s == [ResetSpriteFetcher EXCEPT !.target = <<sprite_buffer[i]>>, !.extra_delay = delay]
             rest == RemoveAt(sprite_buffer, i)
             n == Len(sprite_buffer)
  <2>1. i \in 1 .. n /\ n \in Nat /\ sprite_buffer[i] \in Objects
    BY <1>1, <1>2, LenProperties, ElementOfSeq
  <2>2. /\ SpriteFetching(s) /\ s.cycle \in 0 .. StepDots + MaxExtraDelay
        /\ s.target = <<sprite_buffer[i]>> /\ ObjectLeft(s) <= ObjectCost
    BY <2>1, Target
  <2>3. rest \in Seq(Objects) /\ Len(rest) = n - 1
    BY <1>1, <2>1, Removed
  <2> HIDE DEF s, rest
  <2>4. SpriteReady(s, rest)
    BY <1>1, <2>1, <2>2, <2>3, Sizes DEF SpriteReady, SpriteFetching
  <2>5. ObjectsLeft(s, rest) <= ObjectsLeft(sprite_fetcher, sprite_buffer)
    <3>1. ObjectLeft(sprite_fetcher) = 0
      BY <1>2 DEF TakesObject, ObjectLeft
    <3>2. n - 1 \in Nat /\ (n - 1) + 1 = n
      BY <2>1
    <3>3. /\ ObjectCost \in Nat /\ (n - 1) * ObjectCost \in Nat
          /\ ((n - 1) + 1) * ObjectCost = (n - 1) * ObjectCost + ObjectCost
      BY <3>2, Cost
    <3>4. n * ObjectCost = (n - 1) * ObjectCost + ObjectCost
      BY <3>2, <3>3
    <3>5. /\ ObjectsLeft(sprite_fetcher, sprite_buffer) = 0 + n * ObjectCost
          /\ ObjectsLeft(s, rest) = ObjectLeft(s) + (n - 1) * ObjectCost
      BY <2>3, <3>1 DEF ObjectsLeft
    <3>6. ObjectLeft(s) \in Nat
      BY <2>2, ObjectLeftIs
    <3> HIDE DEF n
    <3>7. QED
      BY <2>2, <3>3, <3>4, <3>5, <3>6
  <2>6. objects_steady => ObjectsAre(rest, s, sprite_fifo, drawn)
    <3>1. sprite_buffer[i].x - Row <= drawn
      BY <1>2 DEF FirstDue, IsDue
    <3>2. ToSet(sprite_fetcher.target) = {}
      BY <1>2, ToSetOfNone DEF TakesObject, is_fetching, NoObject
    <3>3. ToSet(s.target) = {sprite_buffer[i]}
      BY <2>2, ToSetOfOne
    <3>4. objects_steady => ObjectsAre(sprite_buffer, sprite_fetcher, sprite_fifo, drawn)
      BY DEF LineReady, ObjectsReady
    <3>5. QED
      BY <1>1, <2>1, <3>1, <3>2, <3>3, <3>4, TakeKeeps DEF rest
  <2>7. FetchObject(s, f, fifo, discard) /\ sprite_buffer' = rest
    BY <1>2 DEF s, rest
  <2>8. QED
    BY <2>2, <2>4, <2>5, <2>6, <2>7, FetchingIsDone
<1>3. CASE /\ ~TakesObject /\ sprite_buffer' = sprite_buffer
           /\ is_fetching(sprite_fetcher) /\ FetchObject(sprite_fetcher, f, fifo, discard)
  <2>1. SpriteFetching(sprite_fetcher)
    BY <1>1, <1>3 DEF SpriteReady, SpriteFetching
  <2>2. ObjectsLeft(sprite_fetcher, sprite_buffer) <= ObjectsLeft(sprite_fetcher, sprite_buffer)
    BY <1>1, ObjectsLeftIs
  <2>3. objects_steady => ObjectsAre(sprite_buffer, sprite_fetcher, sprite_fifo, drawn)
    BY DEF LineReady, ObjectsReady
  <2>4. QED
    BY <1>1, <1>3, <2>1, <2>2, <2>3, FetchingIsDone
<1>4. CASE /\ ~TakesObject /\ sprite_buffer' = sprite_buffer
           /\ ~is_fetching(sprite_fetcher) /\ DrawPixel(f, fifo, discard)
  BY <1>4, DrawPixelIsDone
<1>5. QED
  BY <1>2, <1>3, <1>4 DEF Pipeline

-----------------------------------------------------------------------------
(* The drawing mode keeps the invariant.  What a dot leaves: *)
DrawDone ==
  /\ BackgroundDone
  /\ SpriteReady(sprite_fetcher', sprite_buffer') /\ FifoReady(sprite_fifo')
  /\ \/ current_mode' = "drawing" /\ pixels_drawn_in_scanline' < LcdWidth
     \/ /\ current_mode' = "h_blank" /\ pixels_drawn_in_scanline' = LcdWidth
        /\ window_fetcher_penalty' = 0
  /\ window_active_in_scanline' \in BOOLEAN /\ window_start' \in Nat
  /\ window_fetcher_penalty' \in 0 .. FetchDots - 1
  /\ window_fetcher_penalty' > 0 => window_active_in_scanline'
  /\ BackgroundLeft(pixel_fetcher', pixels_to_discard', pixels_drawn_in_scanline')
       + ObjectsLeft(sprite_fetcher', sprite_buffer')
       + WindowLeft(window_active_in_scanline', window_fetcher_penalty') + 1 <= DotsLeft
  /\ pixels_drawn_in_scanline' + FetchDone(pixels_drawn_in_scanline', pixel_fetcher')
       <= pixels_drawn_in_scanline + FetchDone(pixels_drawn_in_scanline, pixel_fetcher) + 1
  /\ objects_steady' =>
       /\ ObjectsAre(sprite_buffer', sprite_fetcher', sprite_fifo', pixels_drawn_in_scanline')
       /\ pixels_drawn_in_scanline' > 0 => FrontShown(shown')

LEMMA ResetIsSound ==
  ASSUME NEW in_window
  PROVE  /\ Sound(ResetFetcher, <<>>, in_window)
         /\ ResetFetcher.x = 0 /\ FetchLeft(ResetFetcher) = 2 * FetchDots
<1>1. /\ ResetFetcher.x = 0 /\ ResetFetcher.step = "get_tile_address" /\ ResetFetcher.cycle = 0
      /\ ResetFetcher.dot = 0 /\ ResetFetcher.first = TRUE
  BY DEF ResetFetcher
<1>2. 0 \in Nat /\ 0 \in 0 .. StepDots - 1 /\ 0 \in 0 .. Row /\ 0 <= Row
  BY Sizes
<1>3. ResetFetcher \in FetcherStates
  BY ONLY <1>2 DEF ResetFetcher, FetcherStates, FetchSteps, TileRows
<1>4. <<>> \in Seq(BackgroundPixels) /\ Len(<<>>) = 0
  BY EmptySeq
<1>5. InStep(ResetFetcher, <<>>, 0)
  BY <1>1 DEF InStep
<1>6. RightRow(ResetFetcher, in_window) /\ RightPixels(ResetFetcher, <<>>, in_window)
  BY <1>1, <1>4 DEF RightRow, RightPixels
<1>7. FetchLeft(ResetFetcher) = 2 * FetchDots - 0
  BY <1>1 DEF FetchLeft
<1>8. FetchLeft(ResetFetcher) = 2 * FetchDots
  BY <1>7, Sizes
<1>9. QED
  BY <1>1, <1>2, <1>3, <1>4, <1>5, <1>6, <1>8 DEF Sound

LEMMA LineIsReady ==
  ASSUME IInv, current_mode = "drawing"
  PROVE  /\ LineReady
         /\ BackgroundReady(pixel_fetcher, background_fifo, pixels_to_discard,
                            window_active_in_scanline, window_start,
                            pixels_drawn_in_scanline, shown)
         /\ window_active_in_scanline \in BOOLEAN /\ window_start \in Nat
         /\ window_fetcher_penalty \in 0 .. FetchDots - 1
         /\ window_fetcher_penalty > 0 => window_active_in_scanline
<1>1. SpriteReady(sprite_fetcher, sprite_buffer) /\ FifoReady(sprite_fifo)
  BY DEF IInv, TypeOK, Placed, SpriteReady, FifoReady
<1>2. objects_steady =>
        /\ ObjectsAre(sprite_buffer, sprite_fetcher, sprite_fifo, pixels_drawn_in_scanline)
        /\ pixels_drawn_in_scanline > 0 => FrontShown(shown)
  BY DEF IInv, ObjectsShown
<1>3. pixels_drawn_in_scanline \in Nat /\ pixels_drawn_in_scanline < LcdWidth
  <2>1. pixels_drawn_in_scanline \in 0 .. LcdWidth /\ LcdWidth \in Nat
    BY Sizes DEF IInv, TypeOK
  <2>2. pixels_drawn_in_scanline < LcdWidth
    BY DEF IInv, OnTime
  <2>3. QED
    BY <2>1, <2>2
<1>4. /\ fine_scroll \in Nat /\ line_objects \in Seq(Objects) /\ window_start \in Nat
      /\ objects_steady \in BOOLEAN /\ objects_enabled \in BOOLEAN
      /\ window_active_in_scanline \in BOOLEAN
      /\ window_fetcher_penalty > 0 => window_active_in_scanline
  BY DEF IInv, TypeOK, Placed
<1>5. window_fetcher_penalty \in 0 .. FetchDots - 1
  <2>1. /\ window_fetcher_penalty \in 0 .. FetchDots /\ window_fetcher_penalty < FetchDots
        /\ FetchDots \in Nat
    BY Sizes DEF IInv, TypeOK, Placed
  <2>2. QED
    BY <2>1
<1>6. LineReady
  BY <1>1, <1>2, <1>3, <1>4 DEF LineReady, ObjectsReady
<1>7. QED
  BY <1>4, <1>5, <1>6 DEF IInv, LineDrawn

LEMMA DrawIsDone ==
  ASSUME IInv, Draw
  PROVE  DrawDone
<1> DEFINE f == pixel_fetcher
           fifo == background_fifo
           discard == pixels_to_discard
           drawn == pixels_drawn_in_scanline
           objects == ObjectsLeft(sprite_fetcher, sprite_buffer)
<1>1. current_mode = "drawing"
  BY DEF Draw
<1>2. /\ LineReady
      /\ BackgroundReady(f, fifo, discard, window_active_in_scanline, window_start, drawn, shown)
      /\ window_active_in_scanline \in BOOLEAN /\ window_start \in Nat
      /\ window_fetcher_penalty \in 0 .. FetchDots - 1
      /\ window_fetcher_penalty > 0 => window_active_in_scanline
  BY <1>1, LineIsReady
<1>3. /\ drawn \in Nat /\ drawn < LcdWidth /\ LcdWidth \in Nat /\ drawn <= LcdWidth
      /\ FetchDots \in Nat /\ FetchDots > 0 /\ Row \in Nat /\ Row > 0
  BY <1>2, Sizes DEF LineReady
<1>4. objects_steady' => objects_steady /\ objects_enabled
  BY DEF Draw
<1>5. objects \in Nat
  BY <1>2, ObjectsLeftIs DEF LineReady, ObjectsReady
<1>6. /\ BackgroundLeft(f, discard, drawn) \in Nat
      /\ FetchDone(drawn, f) \in Nat /\ FetchDone(drawn, f) <= 2 * FetchDots
  BY <1>2, <1>3, Quantities
<1>7. DotsLeft = BackgroundLeft(f, discard, drawn) + objects
                   + WindowLeft(window_active_in_scanline, window_fetcher_penalty)
  BY DEF DotsLeft
<1>8. CASE RunPipeline
  <2>1. /\ window_active_in_scanline' = window_active_in_scanline
        /\ window_fetcher_penalty' = 0 /\ window_fetcher_penalty = 0
        /\ window_start' = window_start
        /\ Pipeline(f, fifo, discard)
    BY <1>8 DEF RunPipeline, window
  <2>2. PipelineDone(f, fifo, discard)
    BY <1>2, <1>4, <2>1, PipelineIsDone
  <2>3. WindowLeft(window_active_in_scanline, window_fetcher_penalty) \in Nat
    BY <1>3, <2>1 DEF WindowLeft
  <2> DEFINE left == BackgroundLeft(pixel_fetcher', pixels_to_discard', pixels_drawn_in_scanline')
             objectsNext == ObjectsLeft(sprite_fetcher', sprite_buffer')
  <2>4. left + objectsNext + 1 <= BackgroundLeft(f, discard, drawn) + objects
    BY <2>2 DEF PipelineDone
  <2>5. objectsNext \in Nat
    BY <2>2, ObjectsLeftIs DEF PipelineDone
  <2>6. left \in Nat
    <3>1. /\ BackgroundReady(pixel_fetcher', background_fifo', pixels_to_discard',
                             window_active_in_scanline', window_start',
                             pixels_drawn_in_scanline', shown')
          /\ pixels_drawn_in_scanline' < LcdWidth \/ pixels_drawn_in_scanline' = LcdWidth
      BY <2>2 DEF PipelineDone, BackgroundDone
    <3>2. pixels_drawn_in_scanline' \in Nat
      BY <3>1 DEF BackgroundReady
    <3>3. pixels_drawn_in_scanline' <= LcdWidth
      BY <1>3, <3>1, <3>2
    <3>4. QED
      BY <3>1, <3>2, <3>3, Quantities
  <2> HIDE DEF left, objectsNext, objects
  <2>7. left + objectsNext
          + WindowLeft(window_active_in_scanline', window_fetcher_penalty') + 1 <= DotsLeft
    BY <1>5, <1>6, <1>7, <2>1, <2>3, <2>4, <2>5, <2>6
  <2>8. 0 \in 0 .. FetchDots - 1
    BY <1>3
  <2>9. QED
    BY <1>2, <2>1, <2>2, <2>7, <2>8 DEF DrawDone, PipelineDone, left, objectsNext
<1>9. CASE WaitPenalty
  <2>1. /\ window_fetcher_penalty > 0 /\ window_fetcher_penalty' = window_fetcher_penalty - 1
        /\ window_active_in_scanline' = window_active_in_scanline
        /\ window_start' = window_start
        /\ current_mode' = current_mode /\ shown' = shown
        /\ pixels_drawn_in_scanline' = drawn /\ pixels_to_discard' = discard
        /\ background_fifo' = fifo /\ pixel_fetcher' = f /\ sprite_fifo' = sprite_fifo
        /\ sprite_fetcher' = sprite_fetcher /\ sprite_buffer' = sprite_buffer
    BY <1>9 DEF WaitPenalty, progress, pipeline
  <2>2. BackgroundDone
    BY <1>2, <2>1 DEF BackgroundDone
  <2>3. /\ SpriteReady(sprite_fetcher', sprite_buffer') /\ FifoReady(sprite_fifo')
        /\ objects_steady' =>
             /\ ObjectsAre(sprite_buffer', sprite_fetcher', sprite_fifo', pixels_drawn_in_scanline')
             /\ pixels_drawn_in_scanline' > 0 => FrontShown(shown')
    BY <1>2, <1>4, <2>1 DEF LineReady, ObjectsReady
  <2>4. window_fetcher_penalty' \in 0 .. FetchDots - 1
    BY <1>2, <1>3, <2>1
  <2>5. /\ WindowLeft(window_active_in_scanline, window_fetcher_penalty) = window_fetcher_penalty
        /\ WindowLeft(window_active_in_scanline', window_fetcher_penalty')
             = window_fetcher_penalty - 1
    BY <1>2, <2>1 DEF WindowLeft
  <2> HIDE DEF objects
  <2>6. BackgroundLeft(f, discard, drawn) + objects + (window_fetcher_penalty - 1) + 1 <= DotsLeft
    BY <1>2, <1>3, <1>5, <1>6, <1>7, <2>5
  <2>7. drawn + FetchDone(drawn, f) <= drawn + FetchDone(drawn, f) + 1
    BY <1>3, <1>6
  <2>8. current_mode' = "drawing" /\ pixels_drawn_in_scanline' < LcdWidth
    BY <1>1, <1>3, <2>1
  <2>9. QED
    BY <1>2, <2>1, <2>2, <2>3, <2>4, <2>5, <2>6, <2>7, <2>8 DEF DrawDone, objects
<1>10. CASE StartWindow
  <2>1. /\ window_active_in_scanline = FALSE /\ window_active_in_scanline' = TRUE
        /\ window_start' = drawn
    BY <1>2, <1>10 DEF StartWindow, WindowStarts
  <2>2. /\ Sound(ResetFetcher, <<>>, TRUE)
        /\ ResetFetcher.x = 0 /\ FetchLeft(ResetFetcher) = 2 * FetchDots
    BY ResetIsSound
  <2>3. BackgroundReady(ResetFetcher, <<>>, 0, TRUE, drawn, drawn, shown)
    <3>1. ShownIs(TRUE, drawn, drawn, shown)
      BY <1>2, <2>1 DEF BackgroundReady, ShownIs
    <3>2. Row * ResetFetcher.x = 0
      BY <1>3, <2>2
    <3>3. Len(<<>>) = 0
      BY EmptySeq
    <3>4. Row * ResetFetcher.x - Len(<<>>) = Taken(TRUE, drawn, drawn, 0)
      BY <1>3, <3>2, <3>3 DEF Taken
    <3>5. 0 \in 0 .. Row - 1
      BY <1>3
    <3>6. QED
      BY <1>3, <2>2, <3>1, <3>4, <3>5 DEF BackgroundReady
  <2>4. WindowLeft(window_active_in_scanline, window_fetcher_penalty) = 3 * FetchDots
    BY <2>1 DEF WindowLeft
  <2>5. BackgroundLeft(ResetFetcher, 0, drawn) <= BackgroundLeft(f, discard, drawn) + 2 * FetchDots
    <3>1. /\ BackgroundLeft(ResetFetcher, 0, drawn) = (LcdWidth - drawn) + 0 + 2 * FetchDots
          /\ BackgroundLeft(f, discard, drawn) = (LcdWidth - drawn) + discard + FetchLeft(f)
      BY <2>2 DEF BackgroundLeft
    <3>2. discard \in 0 .. Row - 1 /\ FetchLeft(f) \in Nat
      BY <1>2, FetchLeftIs DEF BackgroundReady
    <3>3. QED
      BY ONLY <1>3, <3>1, <3>2
  <2>6. FetchDone(drawn, ResetFetcher) \in Nat /\ FetchDone(drawn, ResetFetcher) <= FetchDone(drawn, f)
    <3>1. /\ FetchDone(drawn, ResetFetcher) = IF drawn > 0 THEN 2 * FetchDots
                                              ELSE 2 * FetchDots - 2 * FetchDots
          /\ FetchDone(drawn, f) = IF drawn > 0 THEN 2 * FetchDots
                                   ELSE 2 * FetchDots - FetchLeft(f)
      BY <2>2 DEF FetchDone
    <3>2. FetchLeft(f) \in Nat /\ FetchLeft(f) <= 2 * FetchDots
      BY <1>2, FetchLeftIs DEF BackgroundReady
    <3>3. QED
      BY ONLY <1>3, <3>1, <3>2
  <2>7. BackgroundLeft(ResetFetcher, 0, drawn) \in Nat
    BY <1>3, <2>3, Quantities
  <2>8. CASE window_fetcher_penalty' = 0 /\ Pipeline(ResetFetcher, <<>>, 0)
    <3>1. PipelineDone(ResetFetcher, <<>>, 0)
      <4>1. window_active_in_scanline' \in BOOLEAN /\ window_start' \in Nat
        BY <1>3, <2>1
      <4>2. BackgroundReady(ResetFetcher, <<>>, 0, window_active_in_scanline', window_start',
                            drawn, shown)
        BY <2>1, <2>3
      <4>3. QED
        BY <1>2, <1>4, <2>8, <4>1, <4>2, PipelineIsDone
    <3> DEFINE left == BackgroundLeft(pixel_fetcher', pixels_to_discard', pixels_drawn_in_scanline')
               objectsNext == ObjectsLeft(sprite_fetcher', sprite_buffer')
               done == pixels_drawn_in_scanline'
                         + FetchDone(pixels_drawn_in_scanline', pixel_fetcher')
    <3>2. /\ left + objectsNext + 1 <= BackgroundLeft(ResetFetcher, 0, drawn) + objects
          /\ done <= drawn + FetchDone(drawn, ResetFetcher) + 1
      BY <3>1 DEF PipelineDone
    <3>3. objectsNext \in Nat
      BY <3>1, ObjectsLeftIs DEF PipelineDone
    <3>4. left \in Nat /\ done \in Nat
      <4>1. /\ BackgroundReady(pixel_fetcher', background_fifo', pixels_to_discard',
                               window_active_in_scanline', window_start',
                               pixels_drawn_in_scanline', shown')
            /\ pixels_drawn_in_scanline' < LcdWidth \/ pixels_drawn_in_scanline' = LcdWidth
        BY <3>1 DEF PipelineDone, BackgroundDone
      <4>2. pixels_drawn_in_scanline' \in Nat
        BY <4>1 DEF BackgroundReady
      <4>3. pixels_drawn_in_scanline' <= LcdWidth
        BY <1>3, <4>1, <4>2
      <4>4. QED
        BY <4>1, <4>2, <4>3, Quantities
    <3>5. WindowLeft(window_active_in_scanline', window_fetcher_penalty') = 0
      BY <2>1, <2>8 DEF WindowLeft
    <3> HIDE DEF left, objectsNext, objects, done
    <3>6. left + objectsNext + 0 + 1 <= DotsLeft
      BY <1>3, <1>5, <1>6, <1>7, <2>4, <2>5, <2>7, <3>2, <3>3, <3>4
    <3>7. done <= drawn + FetchDone(drawn, f) + 1
      BY <1>3, <1>6, <2>6, <3>2, <3>4
    <3>8. 0 \in 0 .. FetchDots - 1
      BY <1>3
    <3>9. QED
      BY <1>3, <2>1, <2>8, <3>1, <3>5, <3>6, <3>7, <3>8
         DEF DrawDone, PipelineDone, left, objectsNext, done
  <2>9. CASE /\ window_fetcher_penalty' = FetchDots - 1
             /\ pixel_fetcher' = ResetFetcher
             /\ background_fifo' = <<>>
             /\ pixels_to_discard' = 0
             /\ UNCHANGED <<current_mode, pixels_drawn_in_scanline, shown, sprite_fifo,
                            sprite_fetcher, sprite_buffer>>
    <3>1. BackgroundDone
      BY <2>1, <2>3, <2>9 DEF BackgroundDone
    <3>2. /\ SpriteReady(sprite_fetcher', sprite_buffer') /\ FifoReady(sprite_fifo')
          /\ objects_steady' =>
               /\ ObjectsAre(sprite_buffer', sprite_fetcher', sprite_fifo', pixels_drawn_in_scanline')
               /\ pixels_drawn_in_scanline' > 0 => FrontShown(shown')
      BY <1>2, <1>4, <2>9 DEF LineReady, ObjectsReady
    <3>3. WindowLeft(window_active_in_scanline', window_fetcher_penalty') = FetchDots - 1
      BY <2>1, <2>9 DEF WindowLeft
    <3> HIDE DEF objects
    <3>4. BackgroundLeft(ResetFetcher, 0, drawn) + objects + (FetchDots - 1) + 1 <= DotsLeft
      BY <1>3, <1>5, <1>6, <1>7, <2>4, <2>5, <2>7
    <3>5. drawn + FetchDone(drawn, ResetFetcher) <= drawn + FetchDone(drawn, f) + 1
      BY <1>3, <1>6, <2>6
    <3>6. FetchDots - 1 \in 0 .. FetchDots - 1
      BY <1>3
    <3>7. current_mode' = "drawing" /\ pixels_drawn_in_scanline' < LcdWidth
      BY <1>1, <1>3, <2>9
    <3>8. QED
      BY <1>3, <2>1, <2>9, <3>1, <3>2, <3>3, <3>4, <3>5, <3>6, <3>7 DEF DrawDone, objects
  <2>10. QED
    BY <1>10, <2>8, <2>9 DEF StartWindow
<1>11. QED
  BY <1>8, <1>9, <1>10 DEF Draw

(* The parts of the invariant, from what a dot of the drawing mode does.   *)
LEMMA OneMore ==
  ASSUME NEW drawn \in Nat, NEW done \in Nat, NEW before \in Nat, NEW n \in Nat,
         drawn + done <= before + 1, before <= n
  PROVE  drawn + done <= n + 1
OBVIOUS

LEMMA DrawKeepsInv ==
  ASSUME IInv, Draw
  PROVE  IInv'
<1> DEFINE left == BackgroundLeft(pixel_fetcher', pixels_to_discard', pixels_drawn_in_scanline')
           objects == ObjectsLeft(sprite_fetcher', sprite_buffer')
           window_ == WindowLeft(window_active_in_scanline', window_fetcher_penalty')
           done == FetchDone(pixels_drawn_in_scanline', pixel_fetcher')
<1>1. DrawDone
  BY DrawIsDone
<1>2. /\ current_mode = "drawing"
      /\ dots' = IF dots < MaxDraw THEN dots + 1 ELSE dots
      /\ objects_steady' = (objects_steady /\ objects_enabled)
      /\ window_enabled' = window_enabled /\ objects_enabled' = objects_enabled /\ wx' = wx
      /\ fine_scroll' = fine_scroll /\ line_objects' = line_objects
  BY DEF Draw, registers
<1>3. BackgroundReady(pixel_fetcher', background_fifo', pixels_to_discard',
                      window_active_in_scanline', window_start', pixels_drawn_in_scanline', shown')
  BY <1>1 DEF DrawDone, BackgroundDone
<1>4. /\ \/ current_mode' = "drawing" /\ pixels_drawn_in_scanline' < LcdWidth
         \/ /\ current_mode' = "h_blank" /\ pixels_drawn_in_scanline' = LcdWidth
            /\ window_fetcher_penalty' = 0
      /\ window_active_in_scanline' \in BOOLEAN /\ window_start' \in Nat
      /\ window_fetcher_penalty' \in 0 .. FetchDots - 1
      /\ window_fetcher_penalty' > 0 => window_active_in_scanline'
  BY <1>1 DEF DrawDone
<1>5. /\ LcdWidth \in Nat /\ LcdWidth > 0 /\ FetchDots \in Nat /\ Row \in Nat
      /\ pixels_drawn_in_scanline' \in Nat /\ pixels_drawn_in_scanline' <= LcdWidth
  <2>1. pixels_drawn_in_scanline' \in Nat
    BY <1>3 DEF BackgroundReady
  <2>2. QED
    BY <1>4, <2>1, Sizes
<1>6. /\ SpriteReady(sprite_fetcher', sprite_buffer') /\ FifoReady(sprite_fifo')
  BY <1>1 DEF DrawDone
<1>7. /\ left \in Nat /\ done \in Nat /\ objects \in Nat /\ window_ \in Nat
  <2>1. left \in Nat /\ done \in Nat
    BY <1>3, <1>5, Quantities
  <2>2. objects \in Nat
    BY <1>6, ObjectsLeftIs
  <2>3. window_fetcher_penalty' \in Nat
    BY <1>4, <1>5
  <2>4. window_ \in Nat
    BY <1>5, <2>3 DEF WindowLeft
  <2>5. QED
    BY <2>1, <2>2, <2>4
<1>8. /\ left + objects + window_ + 1 <= DotsLeft
      /\ pixels_drawn_in_scanline' + done
           <= pixels_drawn_in_scanline + FetchDone(pixels_drawn_in_scanline, pixel_fetcher) + 1
  BY <1>1 DEF DrawDone
<1>9. /\ dots \in Nat /\ dots + DotsLeft <= MaxDraw
      /\ pixels_drawn_in_scanline + FetchDone(pixels_drawn_in_scanline, pixel_fetcher) <= dots
      /\ DotsLeft \in Nat /\ MaxDraw \in Nat
      /\ pixels_drawn_in_scanline + FetchDone(pixels_drawn_in_scanline, pixel_fetcher) \in Nat
  <2>1. /\ dots \in Nat /\ dots + DotsLeft <= MaxDraw
        /\ pixels_drawn_in_scanline + FetchDone(pixels_drawn_in_scanline, pixel_fetcher) <= dots
    BY <1>2 DEF IInv, Placed, OnTime
  <2>2. /\ LineReady
        /\ BackgroundReady(pixel_fetcher, background_fifo, pixels_to_discard,
                           window_active_in_scanline, window_start,
                           pixels_drawn_in_scanline, shown)
        /\ window_active_in_scanline \in BOOLEAN
        /\ window_fetcher_penalty \in 0 .. FetchDots - 1
    BY <1>2, LineIsReady
  <2>3. pixels_drawn_in_scanline \in Nat /\ pixels_drawn_in_scanline <= LcdWidth
    BY <1>5, <2>2 DEF LineReady
  <2>4. /\ BackgroundLeft(pixel_fetcher, pixels_to_discard, pixels_drawn_in_scanline) \in Nat
        /\ FetchDone(pixels_drawn_in_scanline, pixel_fetcher) \in Nat
    BY <2>2, <2>3, Quantities
  <2>5. ObjectsLeft(sprite_fetcher, sprite_buffer) \in Nat
    BY <2>2, ObjectsLeftIs DEF LineReady, ObjectsReady
  <2>6. window_fetcher_penalty \in Nat
    BY <1>5, <2>2
  <2>7. WindowLeft(window_active_in_scanline, window_fetcher_penalty) \in Nat
    BY <1>5, <2>6 DEF WindowLeft
  <2>8. DotsLeft \in Nat
    BY <2>4, <2>5, <2>7 DEF DotsLeft
  <2>9. MaxDraw \in Nat
    <3>1. MaxObjects \in Nat /\ MaxObjects * ObjectCost \in Nat
      BY Sizes, Cost
    <3>2. Row - 1 \in Nat
      BY Sizes
    <3>3. QED
      BY <1>5, <3>1, <3>2 DEF MaxDraw, ObjectCost
  <2>10. QED
    BY <2>1, <2>3, <2>4, <2>8, <2>9
<1>10. /\ dots' = dots + 1 /\ dots' \in Nat
       /\ dots' + (left + objects + window_) <= MaxDraw
       /\ pixels_drawn_in_scanline' + done <= dots'
  <2> HIDE DEF left, objects, window_, done
  <2>1. dots < MaxDraw
    BY <1>7, <1>8, <1>9
  <2>2. dots' = dots + 1
    BY <1>2, <2>1
  <2>3. dots' \in Nat /\ dots' + (left + objects + window_) <= MaxDraw
    <3>1. dots \in Nat /\ dots + DotsLeft <= MaxDraw /\ DotsLeft \in Nat /\ MaxDraw \in Nat
          /\ left + objects + window_ + 1 <= DotsLeft
      BY <1>8, <1>9
    <3>2. QED
      BY ONLY <1>7, <2>2, <3>1
  <2>4. pixels_drawn_in_scanline' + done <= dots'
    <3>1. /\ pixels_drawn_in_scanline' \in Nat /\ done \in Nat
          /\ dots \in Nat /\ dots' = dots + 1
      BY <1>5, <1>7, <1>9, <2>2
    <3>2. QED
      BY <1>8, <1>9, <3>1, OneMore
  <2>5. QED
    BY <2>2, <2>3, <2>4
<1>11. OnTime'
  <2>1. CASE current_mode' = "drawing" /\ pixels_drawn_in_scanline' < LcdWidth
    <3>1. DotsLeft' = left + objects + window_
      BY DEF DotsLeft, BackgroundLeft, ObjectsLeft, WindowLeft, FetchLeft, ObjectLeft,
             ObjectCost, is_fetching
    <3>2. (FetchDone(pixels_drawn_in_scanline, pixel_fetcher))' = done
      BY DEF FetchDone, FetchLeft
    <3>3. MaxDraw' = MaxDraw
      BY DEF MaxDraw
    <3>4. QED
      BY <1>10, <2>1, <3>1, <3>2, <3>3 DEF OnTime
  <2>2. CASE current_mode' = "h_blank" /\ pixels_drawn_in_scanline' = LcdWidth
    <3>1. done = 2 * FetchDots
      BY <1>5, <2>2 DEF FetchDone
    <3> HIDE DEF left, objects, window_, done
    <3>2. LcdWidth + 2 * FetchDots <= dots' /\ dots' <= MaxDraw
      BY <1>5, <1>7, <1>9, <1>10, <2>2, <3>1
    <3>3. dots' \in MinDraw .. MaxDraw
      <4>1. MinDraw = LcdWidth + 2 * FetchDots
        BY DEF MinDraw
      <4>2. QED
        BY <1>5, <1>9, <1>10, <3>2, <4>1
    <3>4. QED
      BY <2>2, <3>3 DEF OnTime, MinDraw, MaxDraw
  <2>3. QED
    BY <1>4, <2>1, <2>2
<1>12. TypeOK'
  <2>1. /\ current_mode' \in {"oam_scan", "drawing", "h_blank"}
        /\ window_active_in_scanline' \in BOOLEAN
    BY <1>4
  <2>2. window_enabled' \in BOOLEAN /\ objects_enabled' \in BOOLEAN /\ wx' \in WxValues
    BY <1>2 DEF IInv, TypeOK
  <2>3. pixels_drawn_in_scanline' \in 0 .. LcdWidth
    BY <1>5
  <2>4. window_fetcher_penalty' \in 0 .. FetchDots
    BY <1>4, <1>5
  <2>5. /\ pixels_to_discard' \in 0 .. Row - 1
        /\ background_fifo' \in Seq(BackgroundPixels) /\ Len(background_fifo') <= Row
        /\ pixel_fetcher' \in FetcherStates
    BY <1>3 DEF BackgroundReady, Sound
  <2>6. /\ sprite_fifo' \in Seq(SpritePixels) /\ Len(sprite_fifo') <= Row
        /\ sprite_fetcher' \in SpriteFetcherStates
        /\ sprite_fetcher'.cycle \in 0 .. StepDots + MaxExtraDelay
        /\ Len(sprite_fetcher'.target) <= 1
        /\ sprite_buffer' \in Seq(Objects) /\ Len(sprite_buffer') <= MaxObjects
    BY <1>6 DEF SpriteReady, FifoReady
  <2>7. /\ sprite_fetcher'.step \in DOMAIN NextSpriteStep
        /\ sprite_fetcher'.extra_delay \in 0 .. 255
        /\ sprite_fetcher'.target \in Seq(Objects)
    BY <2>6 DEF SpriteFetcherStates, NextSpriteStep
  <2>8. QED
    BY <2>1, <2>2, <2>3, <2>4, <2>5, <2>6, <2>7 DEF TypeOK
<1>13. Placed'
  <2>1. /\ current_mode' # "oam_scan"
        /\ window_fetcher_penalty' > 0 => window_active_in_scanline' /\ current_mode' = "drawing"
    BY <1>4
  <2>2. window_fetcher_penalty' < FetchDots
    BY <1>4, <1>5
  <2>3. objects_steady' \in BOOLEAN /\ (objects_steady' => objects_enabled')
    BY <1>2
  <2>4. dots' \in Nat /\ fine_scroll' \in Nat /\ window_start' \in Nat
    BY <1>2, <1>4, <1>10 DEF IInv, Placed
  <2>5. sprite_fetcher' \in SpriteFetcherStates /\ line_objects' \in Seq(Objects)
    BY <1>2, <1>6 DEF SpriteReady, IInv, Placed
  <2>6. QED
    BY <2>1, <2>2, <2>3, <2>4, <2>5 DEF Placed
<1>14. /\ (InStep(pixel_fetcher, background_fifo, 0))'
       /\ (SpriteTimed(sprite_fetcher))'
  BY <1>3, <1>6 DEF BackgroundReady, Sound, InStep, SpriteReady, SpriteTimed, is_fetching
<1>15. LineDrawn'
  <2>1. (BackgroundReady(pixel_fetcher, background_fifo, pixels_to_discard,
                         window_active_in_scanline, window_start,
                         pixels_drawn_in_scanline, shown))'
    BY <1>2, <1>3 DEF BackgroundReady, ShownIs, Taken
  <2>2. QED
    BY <2>1 DEF LineDrawn
<1>16. ObjectsShown'
  <2>1. objects_steady' =>
          /\ ObjectsAre(sprite_buffer', sprite_fetcher', sprite_fifo', pixels_drawn_in_scanline')
          /\ pixels_drawn_in_scanline' > 0 => FrontShown(shown')
    BY <1>1 DEF DrawDone
  <2>2. QED
    BY <1>2, <2>1 DEF ObjectsShown, ObjectsAre, Pending, LineObjects, FrontShown, Covering
<1>17. QED
  BY <1>11, <1>12, <1>13, <1>14, <1>15, <1>16 DEF IInv

-----------------------------------------------------------------------------
(* A line begins.  The scan finds no more objects than the buffer holds.   *)
LEMMA Found ==
  ASSUME NEW buffer \in Seq(Objects), NEW scan \in Scans, NEW found,
         found = SubSeq(buffer \o scan, 1,
                        IF Len(buffer \o scan) < MaxObjects
                        THEN Len(buffer \o scan) ELSE MaxObjects)
  PROVE  found \in Seq(Objects) /\ Len(found) <= MaxObjects
<1> DEFINE all == buffer \o scan
           n == IF Len(all) < MaxObjects THEN Len(all) ELSE MaxObjects
<1>1. all \in Seq(Objects)
  BY ScansAssumption, ConcatProperties
<1> HIDE DEF all
<1>2. Len(all) \in Nat /\ MaxObjects \in Nat
  BY <1>1, Sizes
<1>3. n \in Nat /\ n <= Len(all) /\ n <= MaxObjects
  BY <1>2
<1> HIDE DEF n
<1>4. \A i \in 1 .. n : all[i] \in Objects
  <2>1. \A i \in 1 .. n : i \in 1 .. Len(all)
    BY <1>2, <1>3
  <2>2. QED
    BY <1>1, <2>1, ElementOfSeq
<1>5. 1 \in Int /\ n \in Int
  BY <1>3
<1>6. /\ SubSeq(all, 1, n) \in Seq(Objects)
      /\ Len(SubSeq(all, 1, n)) = IF 1 <= n THEN n - 1 + 1 ELSE 0
  BY <1>4, <1>5, SubSeqProperties
<1>7. (IF 1 <= n THEN n - 1 + 1 ELSE 0) <= MaxObjects
  BY <1>2, <1>3
<1>8. QED
  BY <1>6, <1>7 DEF n, all

LEMMA ResetSprite ==
  /\ ResetSpriteFetcher \in SpriteFetcherStates /\ SpriteTimed(ResetSpriteFetcher)
  /\ ResetSpriteFetcher.target = <<>> /\ ResetSpriteFetcher.cycle = 0
  /\ ObjectLeft(ResetSpriteFetcher) = 0
<1> DEFINE s == ResetSpriteFetcher
<1>1. /\ s.target = <<>> /\ s.cycle = 0 /\ s.step = "get_tile_address" /\ s.extra_delay = 0
      /\ s = [step |-> s.step, cycle |-> s.cycle, target |-> s.target,
              extra_delay |-> s.extra_delay]
  BY DEF ResetSpriteFetcher, NoObject
<1> HIDE DEF s
<1>2. <<>> \in Seq(Objects) /\ 0 < StepDots /\ 0 \in 0 .. 255 /\ 0 \in Nat
  BY Sizes
<1>3. ~is_fetching(s)
  BY <1>1 DEF is_fetching, NoObject
<1>4. s \in SpriteFetcherStates
  BY ONLY <1>1, <1>2 DEF SpriteFetcherStates
<1>5. SpriteTimed(s) /\ ObjectLeft(s) = 0
  BY <1>1, <1>2, <1>3 DEF SpriteTimed, ObjectLeft
<1>6. QED
  BY <1>1, <1>4, <1>5 DEF s

LEMMA CostGrows ==
  ASSUME NEW m \in Nat, NEW n \in Nat, m <= n
  PROVE  m * ObjectCost \in Nat /\ m * ObjectCost <= n * ObjectCost
<1>1. ObjectCost \in Nat /\ n - m \in Nat
  BY Cost
<1>2. (n - m) * ObjectCost \in Nat /\ m * ObjectCost \in Nat /\ n * ObjectCost \in Nat
  BY <1>1, Cost
<1>3. n * ObjectCost = m * ObjectCost + (n - m) * ObjectCost
  BY ONLY <1>1, m \in Nat, n \in Nat
<1>4. QED
  BY <1>2, <1>3

LEMMA StartKeepsInv ==
  ASSUME IInv, NEW scan \in Scans, NEW scroll \in FineScrolls, StartLine(scan, scroll)
  PROVE  IInv'
<1>1. /\ current_mode = "oam_scan" /\ current_mode' = "drawing"
      /\ pixel_fetcher' = ResetFetcher /\ background_fifo' = <<>>
      /\ sprite_fetcher' = ResetSpriteFetcher /\ sprite_fifo' = <<>>
      /\ pixels_drawn_in_scanline' = 0 /\ pixels_to_discard' = scroll
      /\ dots' = 0 /\ fine_scroll' = scroll /\ line_objects' = sprite_buffer'
      /\ objects_steady' = objects_enabled
      /\ window_enabled' = window_enabled /\ objects_enabled' = objects_enabled /\ wx' = wx
      /\ window_fetcher_penalty' = window_fetcher_penalty
      /\ window_active_in_scanline' = window_active_in_scanline
      /\ shown' = shown /\ window_start' = window_start
  BY DEF StartLine, registers, window
<1>2. sprite_buffer' \in Seq(Objects) /\ Len(sprite_buffer') <= MaxObjects
  <2>1. sprite_buffer \in Seq(Objects)
    BY DEF IInv, TypeOK
  <2>2. QED
    BY <2>1, Found DEF StartLine
<1>3. window_active_in_scanline' = FALSE /\ window_fetcher_penalty' = 0
  <2>1. window_active_in_scanline \in BOOLEAN /\ ~window_active_in_scanline
    BY <1>1 DEF IInv, TypeOK, Placed
  <2>2. ~(window_fetcher_penalty > 0)
    BY <1>1 DEF IInv, Placed
  <2>3. window_fetcher_penalty \in 0 .. FetchDots /\ FetchDots \in Nat
    BY Sizes DEF IInv, TypeOK
  <2>4. QED
    BY <1>1, <2>1, <2>2, <2>3
<1>4. /\ LcdWidth \in Nat /\ LcdWidth > 0 /\ FetchDots \in Nat /\ FetchDots > 0
      /\ Row \in Nat /\ Row > 0 /\ MaxObjects \in Nat
  BY Sizes
<1>5. scroll \in 0 .. Row - 1 /\ scroll \in Nat /\ scroll <= Row - 1
  <2>1. scroll \in 0 .. Row - 1
    BY ScrollAssumption
  <2>2. QED
    BY <1>4, <2>1
<1>6. /\ ResetSpriteFetcher \in SpriteFetcherStates /\ SpriteTimed(ResetSpriteFetcher)
      /\ ResetSpriteFetcher.target = <<>> /\ ResetSpriteFetcher.cycle = 0
      /\ ObjectLeft(ResetSpriteFetcher) = 0
  BY ResetSprite
<1>7. /\ Sound(ResetFetcher, <<>>, FALSE)
      /\ ResetFetcher.x = 0 /\ FetchLeft(ResetFetcher) = 2 * FetchDots
  BY ResetIsSound
<1>8. Len(<<>>) = 0
  BY EmptySeq
<1>9. TypeOK'
  <2>1. current_mode' \in {"oam_scan", "drawing", "h_blank"} /\ window_active_in_scanline' \in BOOLEAN
    BY <1>1, <1>3
  <2>2. window_enabled' \in BOOLEAN /\ objects_enabled' \in BOOLEAN /\ wx' \in WxValues
    BY <1>1 DEF IInv, TypeOK
  <2>3. pixels_drawn_in_scanline' \in 0 .. LcdWidth /\ window_fetcher_penalty' \in 0 .. FetchDots
    BY <1>1, <1>3, <1>4
  <2>4. /\ pixels_to_discard' \in 0 .. Row - 1
        /\ background_fifo' \in Seq(BackgroundPixels) /\ Len(background_fifo') <= Row
        /\ pixel_fetcher' \in FetcherStates
    BY <1>1, <1>5, <1>7 DEF Sound
  <2>5. sprite_fifo' \in Seq(SpritePixels) /\ Len(sprite_fifo') <= Row
    BY <1>1, <1>4, <1>8
  <2>6. Len(sprite_fetcher'.target) <= 1
    BY <1>1, <1>6, <1>8
  <2>7. sprite_fetcher'.cycle \in 0 .. StepDots + MaxExtraDelay
    <3>1. StepDots \in Nat /\ MaxExtraDelay \in 0 .. 255
      BY Sizes
    <3>2. 0 \in 0 .. StepDots + MaxExtraDelay
      BY <3>1
    <3>3. QED
      BY <1>1, <1>6, <3>2
  <2>8. sprite_fetcher' \in SpriteFetcherStates
    BY <1>1, <1>6
  <2>9. /\ sprite_fetcher'.step \in DOMAIN NextSpriteStep
        /\ sprite_fetcher'.extra_delay \in 0 .. 255
        /\ sprite_fetcher'.target \in Seq(Objects)
    BY <2>8 DEF SpriteFetcherStates, NextSpriteStep
  <2>10. QED
    BY <1>2, <2>1, <2>2, <2>3, <2>4, <2>5, <2>6, <2>7, <2>9 DEF TypeOK
<1>10. Placed'
  <2>1. objects_steady' \in BOOLEAN /\ (objects_steady' => objects_enabled')
    BY <1>1 DEF IInv, TypeOK
  <2>2. ~(window_fetcher_penalty' > 0) /\ window_fetcher_penalty' < FetchDots
    BY <1>3, <1>4
  <2>3. dots' \in Nat /\ fine_scroll' \in Nat /\ window_start' \in Nat
    BY <1>1, <1>5 DEF IInv, Placed
  <2>4. QED
    BY <1>1, <1>2, <1>6, <2>1, <2>2, <2>3 DEF Placed
<1>11. (InStep(pixel_fetcher, background_fifo, 0))' /\ (SpriteTimed(sprite_fetcher))'
  BY <1>1, <1>6, <1>7 DEF Sound, InStep, SpriteTimed, is_fetching
<1>12. LineDrawn'
  <2>1. Row * ResetFetcher.x = 0
    BY <1>4, <1>7
  <2>2. Row * ResetFetcher.x - Len(<<>>) = 0
    BY <1>8, <2>1
  <2>3. (Taken(window_active_in_scanline, window_start, pixels_drawn_in_scanline,
               pixels_to_discard))' = 0
    <3>1. (Taken(window_active_in_scanline, window_start, pixels_drawn_in_scanline,
                 pixels_to_discard))' = 0 + scroll - scroll
      BY <1>1, <1>3 DEF Taken
    <3>2. 0 + scroll - scroll = 0
      BY <1>5
    <3>3. QED
      BY <3>1, <3>2
  <2>4. (Sound(pixel_fetcher, background_fifo, window_active_in_scanline))'
    BY <1>1, <1>3, <1>7, ZenonT(60) DEF Sound, InStep, RightRow, RightPixels
  <2>5. (Row * pixel_fetcher.x - Len(background_fifo))' = 0
    BY <1>1, <2>2
  <2>6. /\ pixels_to_discard' \in 0 .. Row - 1 /\ ~window_active_in_scanline'
        /\ pixels_drawn_in_scanline' \in Nat /\ ~(pixels_drawn_in_scanline' > 0)
    BY <1>1, <1>3, <1>5
  <2>7. (ShownIs(window_active_in_scanline, window_start, pixels_drawn_in_scanline, shown))'
    BY <2>6 DEF ShownIs
  <2>8. (BackgroundReady(pixel_fetcher, background_fifo, pixels_to_discard,
                         window_active_in_scanline, window_start,
                         pixels_drawn_in_scanline, shown))'
    BY <2>3, <2>4, <2>5, <2>6, <2>7 DEF BackgroundReady
  <2>9. QED
    BY <2>8 DEF LineDrawn
<1>13. ObjectsShown'
  <2>1. Pending(sprite_buffer', sprite_fetcher') = ToSet(sprite_buffer')
    BY <1>1, <1>6, ToSetOfNone DEF Pending
  <2>2. ToSet(sprite_buffer') \subseteq Objects
    BY <1>2, ToSetOf
  <2>3. \A object \in ToSet(sprite_buffer') : 0 <= LeftEdge(object)
    BY <2>2, ObjectFields
  <2>4. LineObjects' = ToSet(sprite_buffer')
    BY <1>1 DEF LineObjects
  <2>5. ToSet(sprite_fetcher'.target) = {}
    BY <1>1, <1>6, ToSetOfNone
  <2>6. (ObjectsAre(sprite_buffer, sprite_fetcher, sprite_fifo, pixels_drawn_in_scanline))'
    BY <1>1, <1>8, <2>1, <2>3, <2>4, <2>5 DEF ObjectsAre
  <2>7. QED
    BY <1>1, <2>6 DEF ObjectsShown
<1>14. OnTime'
  <2>1. (FetchDone(pixels_drawn_in_scanline, pixel_fetcher))' = 2 * FetchDots - 2 * FetchDots
    BY <1>1, <1>7 DEF FetchDone, FetchLeft
  <2>2. /\ BackgroundLeft(pixel_fetcher', pixels_to_discard', pixels_drawn_in_scanline')
             = (LcdWidth - 0) + scroll + 2 * FetchDots
        /\ ObjectsLeft(sprite_fetcher', sprite_buffer') = 0 + Len(sprite_buffer') * ObjectCost
        /\ WindowLeft(window_active_in_scanline', window_fetcher_penalty') = 3 * FetchDots
    BY <1>1, <1>3, <1>6, <1>7 DEF BackgroundLeft, ObjectsLeft, WindowLeft
  <2>3. DotsLeft' = ((LcdWidth - 0) + scroll + 2 * FetchDots)
                      + (0 + Len(sprite_buffer') * ObjectCost) + 3 * FetchDots
    <3>1. DotsLeft' = BackgroundLeft(pixel_fetcher', pixels_to_discard', pixels_drawn_in_scanline')
                        + ObjectsLeft(sprite_fetcher', sprite_buffer')
                        + WindowLeft(window_active_in_scanline', window_fetcher_penalty')
      BY DEF DotsLeft, BackgroundLeft, ObjectsLeft, WindowLeft, FetchLeft, ObjectLeft,
             ObjectCost, is_fetching
    <3>2. QED
      BY <2>2, <3>1
  <2>4. Len(sprite_buffer') \in Nat
    BY <1>2, LenProperties
  <2>5. /\ Len(sprite_buffer') * ObjectCost \in Nat
        /\ Len(sprite_buffer') * ObjectCost <= MaxObjects * ObjectCost
        /\ MaxObjects * ObjectCost \in Nat
    BY <1>2, <1>4, <2>4, CostGrows, Cost
  <2> DEFINE cost == Len(sprite_buffer') * ObjectCost
             most == MaxObjects * ObjectCost
  <2>6. MaxDraw = LcdWidth + (Row - 1) + 2 * FetchDots + 3 * FetchDots + most
    BY DEF MaxDraw, ObjectCost
  <2> HIDE DEF cost, most
  <2>7. 0 + (((LcdWidth - 0) + scroll + 2 * FetchDots) + (0 + cost) + 3 * FetchDots) <= MaxDraw
    <3>1. cost \in Nat /\ most \in Nat /\ cost <= most
      BY <2>5 DEF cost, most
    <3>2. QED
      BY ONLY <1>4, <1>5, <2>6, <3>1
  <2>8. 0 + (2 * FetchDots - 2 * FetchDots) <= 0 /\ 0 < LcdWidth
    BY <1>4
  <2>9. MaxDraw' = MaxDraw
    BY DEF MaxDraw
  <2>10. QED
    BY <1>1, <2>1, <2>3, <2>7, <2>8, <2>9 DEF OnTime, cost
<1>15. QED
  BY <1>9, <1>10, <1>11, <1>12, <1>13, <1>14 DEF IInv

-----------------------------------------------------------------------------
(* Between the lines only the types and the fetchers matter.               *)
LEMMA BetweenLines ==
  ASSUME current_mode' = "oam_scan"
  PROVE  LineDrawn' /\ ObjectsShown' /\ OnTime'
BY DEF LineDrawn, ObjectsShown, OnTime

LEMMA EndKeepsInv ==
  ASSUME IInv, EndLine
  PROVE  IInv'
<1>1. /\ current_mode = "h_blank" /\ current_mode' = "oam_scan"
      /\ window_active_in_scanline' = FALSE /\ sprite_buffer' = <<>>
      /\ window_enabled' = window_enabled /\ objects_enabled' = objects_enabled /\ wx' = wx
      /\ window_fetcher_penalty' = window_fetcher_penalty
      /\ pixels_drawn_in_scanline' = pixels_drawn_in_scanline
      /\ pixels_to_discard' = pixels_to_discard
      /\ background_fifo' = background_fifo /\ pixel_fetcher' = pixel_fetcher
      /\ sprite_fifo' = sprite_fifo /\ sprite_fetcher' = sprite_fetcher
  BY DEF EndLine, registers, progress
<1>2. /\ dots' = 0 /\ fine_scroll' = 0 /\ window_start' = 0 /\ line_objects' = <<>>
      /\ objects_steady' = FALSE
  BY DEF EndLine, ForgetLine
<1>3. Len(<<>>) <= MaxObjects /\ <<>> \in Seq(Objects)
  BY EmptySeq, Sizes
<1>4. TypeOK'
  <2>1. /\ current_mode' \in {"oam_scan", "drawing", "h_blank"}
        /\ window_active_in_scanline' \in BOOLEAN
        /\ sprite_buffer' \in Seq(Objects) /\ Len(sprite_buffer') <= MaxObjects
    BY <1>1, <1>3
  <2>2. QED
    BY <1>1, <2>1 DEF IInv, TypeOK
<1>5. Placed'
  <2>1. ~(window_fetcher_penalty > 0) /\ window_fetcher_penalty < FetchDots
    BY <1>1 DEF IInv, Placed
  <2>2. sprite_fetcher \in SpriteFetcherStates
    BY DEF IInv, Placed
  <2>3. QED
    BY <1>1, <1>2, <1>3, <2>1, <2>2 DEF Placed
<1>6. (InStep(pixel_fetcher, background_fifo, 0))' /\ (SpriteTimed(sprite_fetcher))'
  BY <1>1 DEF IInv, InStep, SpriteTimed, is_fetching
<1>7. QED
  BY <1>1, <1>4, <1>5, <1>6, BetweenLines DEF IInv

LEMMA SwitchKeepsInv ==
  ASSUME IInv, SwitchOff
  PROVE  IInv'
<1>1. /\ current_mode' = "oam_scan"
      /\ window_active_in_scanline' = FALSE /\ window_fetcher_penalty' = 0
      /\ pixels_drawn_in_scanline' = 0 /\ pixels_to_discard' = 0
      /\ background_fifo' = <<>> /\ pixel_fetcher' = ResetFetcher
      /\ window_enabled' = window_enabled /\ objects_enabled' = objects_enabled /\ wx' = wx
      /\ sprite_fifo' = sprite_fifo /\ sprite_fetcher' = sprite_fetcher
      /\ sprite_buffer' = sprite_buffer
  BY DEF SwitchOff, registers
<1>2. /\ dots' = 0 /\ fine_scroll' = 0 /\ window_start' = 0 /\ line_objects' = <<>>
      /\ objects_steady' = FALSE
  BY DEF SwitchOff, ForgetLine
<1>3. Sound(ResetFetcher, <<>>, FALSE)
  BY ResetIsSound
<1>4. /\ 0 \in 0 .. LcdWidth /\ 0 \in 0 .. Row - 1 /\ 0 \in 0 .. FetchDots /\ 0 < FetchDots
      /\ <<>> \in Seq(Objects)
  BY Sizes
<1>5. TypeOK'
  <2>1. /\ current_mode' \in {"oam_scan", "drawing", "h_blank"}
        /\ window_active_in_scanline' \in BOOLEAN
        /\ pixels_drawn_in_scanline' \in 0 .. LcdWidth
        /\ pixels_to_discard' \in 0 .. Row - 1
        /\ window_fetcher_penalty' \in 0 .. FetchDots
    BY <1>1, <1>4
  <2>2. /\ background_fifo' \in Seq(BackgroundPixels) /\ Len(background_fifo') <= Row
        /\ pixel_fetcher' \in FetcherStates
    BY <1>1, <1>3 DEF Sound
  <2>3. QED
    BY <1>1, <2>1, <2>2 DEF IInv, TypeOK
<1>6. Placed'
  <2>1. ~(window_fetcher_penalty' > 0) /\ window_fetcher_penalty' < FetchDots
    BY <1>1, <1>4
  <2>2. sprite_fetcher \in SpriteFetcherStates
    BY DEF IInv, Placed
  <2>3. QED
    BY <1>1, <1>2, <1>4, <2>1, <2>2 DEF Placed
<1>7. (InStep(pixel_fetcher, background_fifo, 0))'
  BY <1>1, <1>3 DEF Sound, InStep
<1>8. (SpriteTimed(sprite_fetcher))'
  BY <1>1 DEF IInv, SpriteTimed, is_fetching
<1>9. QED
  BY <1>1, <1>5, <1>6, <1>7, <1>8, BetweenLines DEF IInv

(* Nothing but the registers changes: the properties of a line are those   *)
(* of its own state, and a change of the enable bit only ends the claim    *)
(* about the objects.                                                      *)
LEMMA KeptState ==
  ASSUME IInv,
         UNCHANGED <<current_mode, window, progress, pipeline, dots, shown, fine_scroll,
                     window_start, line_objects>>,
         window_enabled' \in BOOLEAN, objects_enabled' \in BOOLEAN, wx' \in WxValues,
         objects_steady' \in BOOLEAN, objects_steady' => objects_steady /\ objects_enabled'
  PROVE  IInv'
<1>1. /\ current_mode' = current_mode
      /\ window_fetcher_penalty' = window_fetcher_penalty
      /\ window_active_in_scanline' = window_active_in_scanline
      /\ pixels_drawn_in_scanline' = pixels_drawn_in_scanline
      /\ pixels_to_discard' = pixels_to_discard
      /\ background_fifo' = background_fifo /\ pixel_fetcher' = pixel_fetcher
      /\ sprite_fifo' = sprite_fifo /\ sprite_fetcher' = sprite_fetcher
      /\ sprite_buffer' = sprite_buffer
      /\ dots' = dots /\ shown' = shown /\ fine_scroll' = fine_scroll
      /\ window_start' = window_start /\ line_objects' = line_objects
  BY DEF window, progress, pipeline
<1>2. TypeOK'
  BY <1>1 DEF IInv, TypeOK
<1>3. Placed'
  <2>1. /\ current_mode = "oam_scan" => ~window_active_in_scanline
        /\ window_fetcher_penalty > 0 => window_active_in_scanline /\ current_mode = "drawing"
        /\ window_fetcher_penalty < FetchDots
        /\ dots \in Nat /\ fine_scroll \in Nat /\ window_start \in Nat
        /\ sprite_fetcher \in SpriteFetcherStates /\ line_objects \in Seq(Objects)
    BY DEF IInv, Placed
  <2>2. QED
    BY <1>1, <2>1 DEF Placed
<1>4. (InStep(pixel_fetcher, background_fifo, 0))' /\ (SpriteTimed(sprite_fetcher))'
  BY <1>1 DEF IInv, InStep, SpriteTimed, is_fetching
<1>5. LineDrawn'
  BY <1>1 DEF IInv, LineDrawn, BackgroundReady, Sound, InStep, RightRow, RightPixels, Taken, ShownIs
<1>6. ObjectsShown'
  BY <1>1 DEF IInv, ObjectsShown, ObjectsAre, Pending, LineObjects, FrontShown, Covering
<1>7. OnTime'
  BY <1>1 DEF IInv, OnTime, DotsLeft, BackgroundLeft, ObjectsLeft, WindowLeft, FetchLeft,
              ObjectLeft, is_fetching, FetchDone
<1>8. QED
  BY <1>2, <1>3, <1>4, <1>5, <1>6, <1>7 DEF IInv

LEMMA WriteKeepsInv ==
  ASSUME IInv, WriteRegisters
  PROVE  IInv'
<1>1. objects_steady \in BOOLEAN
  BY DEF IInv, Placed
<1>2. objects_steady' = (objects_steady /\ objects_enabled') /\ objects_enabled' \in BOOLEAN
  BY DEF WriteRegisters
<1>3. objects_steady' \in BOOLEAN /\ (objects_steady' => objects_steady /\ objects_enabled')
  BY <1>1, <1>2
<1>4. QED
  BY <1>3, KeptState DEF WriteRegisters

LEMMA StutterKeepsInv ==
  ASSUME IInv, UNCHANGED vars
  PROVE  IInv'
<1>1. /\ objects_steady \in BOOLEAN /\ (objects_steady => objects_enabled)
      /\ window_enabled \in BOOLEAN /\ objects_enabled \in BOOLEAN /\ wx \in WxValues
  BY DEF IInv, Placed, TypeOK
<1>2. /\ objects_steady' = objects_steady /\ objects_enabled' = objects_enabled
      /\ window_enabled' = window_enabled /\ wx' = wx
      /\ UNCHANGED <<current_mode, window, progress, pipeline, dots, shown, fine_scroll,
                     window_start, line_objects>>
  BY DEF vars, registers, history
<1>3. /\ objects_steady' \in BOOLEAN /\ (objects_steady' => objects_steady /\ objects_enabled')
      /\ window_enabled' \in BOOLEAN /\ objects_enabled' \in BOOLEAN /\ wx' \in WxValues
  BY <1>1, <1>2
<1>4. QED
  BY <1>2, <1>3, KeptState

LEMMA InitInv == Init => IInv
<1> SUFFICES ASSUME Init PROVE IInv
  OBVIOUS
<1>1. /\ current_mode = "oam_scan" /\ window_enabled = FALSE /\ objects_enabled = FALSE
      /\ wx \in WxValues
      /\ pixels_drawn_in_scanline = 0 /\ pixels_to_discard = 0
      /\ window_fetcher_penalty = 0 /\ window_active_in_scanline = FALSE
      /\ background_fifo = <<>> /\ pixel_fetcher = ResetFetcher
      /\ sprite_fifo = <<>> /\ sprite_fetcher = ResetSpriteFetcher /\ sprite_buffer = <<>>
      /\ dots = 0 /\ fine_scroll = 0 /\ window_start = 0 /\ line_objects = <<>>
      /\ objects_steady = FALSE
  BY DEF Init
<1>2. Sound(ResetFetcher, <<>>, FALSE)
  BY ResetIsSound
<1>3. /\ ResetSpriteFetcher \in SpriteFetcherStates /\ SpriteTimed(ResetSpriteFetcher)
      /\ ResetSpriteFetcher.target = <<>> /\ ResetSpriteFetcher.cycle = 0
  BY ResetSprite
<1>4. /\ 0 \in 0 .. LcdWidth /\ 0 \in 0 .. Row - 1 /\ 0 \in 0 .. FetchDots /\ 0 < FetchDots
      /\ Row \in Nat /\ MaxObjects \in Nat
  BY Sizes
<1>5. Len(<<>>) = 0 /\ <<>> \in Seq(Objects) /\ <<>> \in Seq(SpritePixels)
  BY EmptySeq
<1>6. 0 \in 0 .. StepDots + MaxExtraDelay
  <2>1. StepDots \in Nat /\ MaxExtraDelay \in Nat
    BY Sizes
  <2>2. QED
    BY <2>1
<1>7. /\ ResetSpriteFetcher.step \in DOMAIN NextSpriteStep
      /\ ResetSpriteFetcher.extra_delay \in 0 .. 255
  BY <1>3 DEF SpriteFetcherStates, NextSpriteStep
<1>8. TypeOK
  <2>1. /\ background_fifo \in Seq(BackgroundPixels) /\ Len(background_fifo) <= Row
        /\ pixel_fetcher \in FetcherStates
    BY <1>1, <1>2 DEF Sound
  <2>2. Len(sprite_fifo) <= Row /\ Len(sprite_buffer) <= MaxObjects
    BY <1>1, <1>4, <1>5
  <2>3. Len(sprite_fetcher.target) <= 1
    BY <1>1, <1>3, <1>5
  <2>4. QED
    BY <1>1, <1>3, <1>4, <1>5, <1>6, <1>7, <2>1, <2>2, <2>3 DEF TypeOK
<1>9. Placed
  <2>1. ~(window_fetcher_penalty > 0) /\ window_fetcher_penalty < FetchDots
    BY <1>1, <1>4
  <2>2. sprite_fetcher \in SpriteFetcherStates /\ line_objects \in Seq(Objects)
    BY <1>1, <1>3, <1>5
  <2>3. dots \in Nat /\ fine_scroll \in Nat /\ window_start \in Nat
    BY <1>1
  <2>4. QED
    BY <1>1, <2>1, <2>2, <2>3 DEF Placed
<1>10. InStep(pixel_fetcher, background_fifo, 0) /\ SpriteTimed(sprite_fetcher)
  BY <1>1, <1>2, <1>3 DEF Sound
<1>11. LineDrawn /\ ObjectsShown /\ OnTime
  BY <1>1 DEF LineDrawn, ObjectsShown, OnTime
<1>12. QED
  BY <1>8, <1>9, <1>10, <1>11 DEF IInv

-----------------------------------------------------------------------------
(* The invariant, for every run of the drawing mode.                       *)
THEOREM Invariance == Spec => []IInv
<1>1. IInv /\ [Next]_vars => IInv'
  <2> SUFFICES ASSUME IInv, [Next]_vars PROVE IInv'
    OBVIOUS
  <2>1. CASE Draw
    BY <2>1, DrawKeepsInv
  <2>2. ASSUME NEW scan \in Scans, NEW scroll \in FineScrolls, StartLine(scan, scroll)
        PROVE  IInv'
    BY <2>2, StartKeepsInv
  <2>3. CASE EndLine
    BY <2>3, EndKeepsInv
  <2>4. CASE SwitchOff
    BY <2>4, SwitchKeepsInv
  <2>5. CASE WriteRegisters
    BY <2>5, WriteKeepsInv
  <2>6. CASE UNCHANGED vars
    BY <2>6, StutterKeepsInv
  <2>7. QED
    BY <2>1, <2>2, <2>3, <2>4, <2>5, <2>6 DEF Next
<1>2. QED
  BY <1>1, InitInv, PTL DEF Spec

(* The counters of handle_draw and of the fetchers and the FIFOs stay      *)
(* within their bounds: no FIFO and no buffer of objects overflows.        *)
THEOREM TypeCorrect == Spec => []TypeOK
<1>1. IInv => TypeOK
  BY DEF IInv
<1>2. QED
  BY <1>1, Invariance, PTL

(* The drawing mode of handle_draw leaves h-blank its dots: a line takes   *)
(* at least MinDraw and at most MaxDraw dots, whatever the objects, the    *)
(* window and the scroll registers.                                        *)
THEOREM BoundedDrawing == Spec => []DrawingIsBounded
<1>1. IInv => DrawingIsBounded
  <2> SUFFICES ASSUME IInv PROVE DrawingIsBounded
    OBVIOUS
  <2>1. ASSUME current_mode = "drawing" PROVE dots < MaxDraw
    <3>1. /\ LineReady
          /\ BackgroundReady(pixel_fetcher, background_fifo, pixels_to_discard,
                             window_active_in_scanline, window_start,
                             pixels_drawn_in_scanline, shown)
          /\ window_active_in_scanline \in BOOLEAN
          /\ window_fetcher_penalty \in 0 .. FetchDots - 1
      BY <2>1, LineIsReady
    <3>2. /\ dots \in Nat /\ dots + DotsLeft <= MaxDraw
          /\ pixels_drawn_in_scanline < LcdWidth
      BY <2>1 DEF IInv, Placed, OnTime
    <3>3. /\ LcdWidth \in Nat /\ FetchDots \in Nat /\ pixels_drawn_in_scanline \in Nat
          /\ pixels_to_discard \in Nat /\ window_fetcher_penalty \in Nat
      <4>1. LcdWidth \in Nat /\ FetchDots \in Nat /\ Row \in Nat
        BY Sizes
      <4>2. pixels_drawn_in_scanline \in Nat /\ pixels_to_discard \in 0 .. Row - 1
        BY <3>1 DEF BackgroundReady
      <4>3. QED
        BY <3>1, <4>1, <4>2
    <3>4. FetchLeft(pixel_fetcher) \in Nat
      BY <3>1, FetchLeftIs DEF BackgroundReady
    <3>5. ObjectsLeft(sprite_fetcher, sprite_buffer) \in Nat
      BY <3>1, ObjectsLeftIs DEF LineReady, ObjectsReady
    <3>6. WindowLeft(window_active_in_scanline, window_fetcher_penalty) \in Nat
      BY <3>3 DEF WindowLeft
    <3> DEFINE fetch == FetchLeft(pixel_fetcher)
               objects == ObjectsLeft(sprite_fetcher, sprite_buffer)
               window_ == WindowLeft(window_active_in_scanline, window_fetcher_penalty)
    <3>7. DotsLeft = ((LcdWidth - pixels_drawn_in_scanline) + pixels_to_discard + fetch)
                       + objects + window_
      BY DEF DotsLeft, BackgroundLeft
    <3>8. fetch \in Nat /\ objects \in Nat /\ window_ \in Nat
      BY <3>4, <3>5, <3>6
    <3> HIDE DEF fetch, objects, window_
    <3>9. DotsLeft \in Nat /\ DotsLeft > 0
      BY ONLY <3>2, <3>3, <3>7, <3>8
    <3>10. MaxDraw \in Int
      <4>1. MaxObjects * ObjectCost \in Nat /\ Row \in Nat /\ LcdWidth \in Nat /\ FetchDots \in Nat
        BY Cost, Sizes
      <4>2. QED
        BY <4>1 DEF MaxDraw, ObjectCost
    <3>11. QED
      BY <3>2, <3>9, <3>10
  <2>2. current_mode = "h_blank" => dots \in MinDraw .. MaxDraw
    BY DEF IInv, OnTime
  <2>3. QED
    BY <2>1, <2>2 DEF DrawingIsBounded
<1>2. QED
  BY <1>1, Invariance, PTL

(* pixel_fetcher::tick never finds the FIFO without room for a row, and    *)
(* handle_draw never finds it empty once the first row of the line or the  *)
(* window is there.                                                        *)
THEOREM KeepsUp == Spec => []FetcherKeepsUp
<1>1. IInv => FetcherKeepsUp
  <2> SUFFICES ASSUME IInv PROVE FetcherKeepsUp
    OBVIOUS
  <2>1. InStep(pixel_fetcher, background_fifo, 0)
    BY DEF IInv
  <2>2. pixel_fetcher.step # "push"
    BY <2>1 DEF InStep
  <2>3. ASSUME pixel_fetcher.x > 0 PROVE Len(background_fifo) + pixel_fetcher.dot = Row
    <3>1. Len(background_fifo) + pixel_fetcher.dot + 0 = Row
      BY <2>1, <2>3 DEF InStep
    <3>2. Len(background_fifo) \in Nat
      BY LenProperties DEF IInv, TypeOK
    <3>3. pixel_fetcher.dot \in 0 .. Row
      BY DEF IInv, TypeOK, FetcherStates
    <3>4. QED
      BY ONLY <3>1, <3>2, <3>3, Sizes
  <2>4. QED
    BY <2>2, <2>3 DEF FetcherKeepsUp
<1>2. QED
  BY <1>1, Invariance, PTL

(* Every pixel handle_draw shows is the next column of the background, or  *)
(* of the window from where it began: whatever fetches of objects come in  *)
(* between, no column is lost or shown twice.                              *)
THEOREM Seamless == Spec => []SeamlessBackground
<1>1. IInv => SeamlessBackground
  <2> SUFFICES ASSUME IInv, current_mode = "drawing", pixels_drawn_in_scanline > 0
               PROVE  \/ shown.background = [window |-> TRUE,
                                             column |-> shown.pixel - window_start]
                      \/ shown.background = [window |-> FALSE,
                                             column |-> shown.pixel + fine_scroll]
    BY DEF SeamlessBackground
  <2>1. ShownIs(window_active_in_scanline, window_start, pixels_drawn_in_scanline, shown)
    BY DEF IInv, LineDrawn, BackgroundReady
  <2>2. QED
    BY <2>1 DEF ShownIs
<1>2. QED
  BY <1>1, Invariance, PTL

(* In whatever order the object fetcher merges its rows into the FIFO, the *)
(* pixel shown is that of the object in front of all that cover it.        *)
THEOREM Frontmost == Spec => []FrontmostObject
<1>1. IInv => FrontmostObject
  BY DEF IInv, ObjectsShown, FrontShown, FrontmostObject
<1>2. QED
  BY <1>1, Invariance, PTL
================================================================================
