----------------------------- MODULE DisplayProofs -----------------------------
(***************************************************************************)
(* The proof that the display implements FrameRegister, for all items and  *)
(* any number of frames.                                                   *)
(***************************************************************************)
EXTENDS Display, TLAPS

(* Writer, reader and the exchange between them have a cell each.          *)
CellsApart ==
  /\ write_cell # read_cell
  /\ write_cell # spare.cell
  /\ read_cell # spare.cell

(* One thread ticks at a time, and whoever pushes a frame ticks.           *)
OneWriter ==
  /\ \A t \in ticking : ticking = {t}
  /\ \A t \in Tickers : push[t] # "no" => t \in ticking

(* The cell of the writer holds the next frame once it was filled; else    *)
(* every frame has been published.                                         *)
InOrder ==
  /\ \A t \in Tickers : push[t] = "filled" =>
       cells[write_cell] = frame /\ frame = Latest + 1
  /\ (\A t \in Tickers : push[t] # "filled") => frame = Latest

IInv == TypeOK /\ CellsApart /\ OneWriter /\ InOrder

-----------------------------------------------------------------------------
LEMMA InitIInv == Init => IInv
<1>1. SUFFICES ASSUME Init PROVE IInv
  OBVIOUS
<1>2. TypeOK
  <2>1. mode \in Session!Statuses /\ engine \in BOOLEAN /\ ticking \subseteq Tickers
    BY <1>1 DEF Init, Session!Init, Session!Statuses
  <2>2. 0 \in 0 .. MaxFrames
    BY FramesAssumption
  <2>3. cells \in [Cells -> 0 .. MaxFrames] /\ shown \in [Items -> 0 .. MaxFrames]
    BY <1>1, <2>2 DEF Init
  <2>4. push \in [Tickers -> {"no", "filled", "published"}]
    BY <1>1 DEF Init
  <2>5. write_cell \in Cells /\ read_cell \in Cells /\ spare \in [cell : Cells, fresh : BOOLEAN]
    BY <1>1 DEF Init, Cells
  <2>6. /\ open \subseteq Items /\ queued \subseteq Items /\ dirty \subseteq Items
        /\ syncing \in Items \cup {NoItem} /\ frame \in 0 .. MaxFrames
    BY <1>1, <2>2, ItemsAssumption DEF Init
  <2>7. QED
    BY <2>1, <2>3, <2>4, <2>5, <2>6 DEF TypeOK
<1>3. CellsApart
  BY <1>1 DEF Init, CellsApart
<1>4. OneWriter
  BY <1>1 DEF Init, OneWriter, Session!Init
<1>5. InOrder
  BY <1>1 DEF Init, InOrder, Latest, Cells
<1>6. QED
  BY <1>2, <1>3, <1>4, <1>5 DEF IInv

(* A step that leaves the value and its writer alone. *)
LEMMA ValueUntouched ==
  ASSUME IInv, TypeOK', UNCHANGED <<ticking, frame, push, value_vars>>
  PROVE  IInv'
BY DEF IInv, CellsApart, OneWriter, InOrder, Latest, value_vars

(* What an operation of the session leaves alone. *)
LEMMA OperationFacts ==
  ASSUME Session!Operation, IInv
  PROVE  /\ ticking' = ticking
         /\ mode' \in Session!Statuses \cup {"busy", "leaving", "crashed", "gone"}
         /\ engine' \in BOOLEAN
BY DEF Session!Operation, Session!Leave, Session!BeginOperation, Session!EndOperation,
       Session!ReleaseEngine, Session!StartEngine, Session!ResumeEngine, Session!Statuses,
       IInv, TypeOK

LEMMA OperateKeepsIInv == ASSUME IInv, Operate PROVE IInv'
<1>1. /\ ticking' = ticking /\ engine' \in BOOLEAN
      /\ mode' \in Session!Statuses \cup {"busy", "leaving", "crashed", "gone"}
  BY OperationFacts DEF Operate
<1>2. UNCHANGED <<frame, push, value_vars, item_vars>>
  BY DEF Operate
<1>3. TypeOK'
  BY <1>1, <1>2 DEF IInv, TypeOK, value_vars, item_vars
<1>4. QED
  BY <1>1, <1>2, <1>3, ValueUntouched

LEMMA BeginTickKeepsIInv ==
  ASSUME IInv, NEW ticker \in Tickers, BeginTick(ticker)
  PROVE  IInv'
<1>1. /\ ticking = {} /\ ticking' = {ticker} /\ UNCHANGED <<mode, engine>>
      /\ UNCHANGED <<frame, push, value_vars, item_vars>>
  BY DEF BeginTick, Session!BeginTick
<1>2. TypeOK'
  BY <1>1 DEF IInv, TypeOK, value_vars, item_vars
<1>3. CellsApart' /\ InOrder'
  BY <1>1 DEF IInv, CellsApart, InOrder, Latest, value_vars
<1>4. OneWriter'
  BY <1>1 DEF IInv, OneWriter
<1>5. QED
  BY <1>2, <1>3, <1>4 DEF IInv

LEMMA EndTickKeepsIInv ==
  ASSUME IInv, NEW ticker \in Tickers, EndTick(ticker)
  PROVE  IInv'
<1>1. /\ ticking = {ticker} /\ ticking' = {} /\ engine' = engine /\ push[ticker] = "no"
      /\ mode' \in {mode, "Paused"} /\ UNCHANGED <<frame, push, value_vars, item_vars>>
  BY DEF EndTick, Session!EndTick
<1>2. TypeOK'
  BY <1>1 DEF IInv, TypeOK, value_vars, item_vars, Session!Statuses
<1>3. CellsApart' /\ InOrder'
  BY <1>1 DEF IInv, CellsApart, InOrder, Latest, value_vars
<1>4. OneWriter'
  BY <1>1 DEF IInv, OneWriter
<1>5. QED
  BY <1>2, <1>3, <1>4 DEF IInv

LEMMA FillKeepsIInv ==
  ASSUME IInv, NEW ticker \in Tickers, Fill(ticker)
  PROVE  IInv'
<1>1. /\ ticker \in ticking /\ push[ticker] = "no" /\ frame' = frame + 1 /\ frame < MaxFrames
      /\ cells' = [cells EXCEPT ![write_cell] = frame + 1]
      /\ push' = [push EXCEPT ![ticker] = "filled"]
      /\ UNCHANGED <<mode, engine, ticking, write_cell, read_cell, spare>>
      /\ UNCHANGED <<open, queued, dirty, syncing, shown>>
  BY DEF Fill, session_vars, item_vars
<1>2. frame + 1 \in 0 .. MaxFrames
  BY <1>1, FramesAssumption DEF IInv, TypeOK
<1>3. TypeOK'
  <2>1. cells' \in [Cells -> 0 .. MaxFrames] /\ frame' \in 0 .. MaxFrames
    BY <1>1, <1>2 DEF IInv, TypeOK
  <2>2. push' \in [Tickers -> {"no", "filled", "published"}]
    BY <1>1 DEF IInv, TypeOK
  <2>3. QED
    BY <1>1, <2>1, <2>2 DEF IInv, TypeOK
<1>4. CellsApart'
  BY <1>1 DEF IInv, CellsApart
<1>5. OneWriter'
  BY <1>1 DEF IInv, TypeOK, OneWriter
<1>6. Latest' = Latest /\ Latest \in Nat
  <2>1. cells'[read_cell] = cells[read_cell] /\ cells'[spare.cell] = cells[spare.cell]
    BY <1>1 DEF IInv, TypeOK, CellsApart
  <2>2. Latest \in Nat
    BY DEF IInv, TypeOK, Latest
  <2>3. QED
    BY <1>1, <2>1, <2>2 DEF Latest
<1>7. InOrder'
  <2>1. \A t \in Tickers : t # ticker => push[t] = "no"
    BY <1>1 DEF IInv, OneWriter
  <2>2. frame = Latest
    BY <1>1, <2>1 DEF IInv, InOrder
  <2>3. cells'[write_cell] = frame + 1 /\ push'[ticker] = "filled"
    BY <1>1 DEF IInv, TypeOK
  <2>4. QED
    BY <1>1, <1>6, <2>2, <2>3 DEF InOrder
<1>8. QED
  BY <1>3, <1>4, <1>5, <1>7 DEF IInv

LEMMA PublishFacts ==
  ASSUME IInv, NEW ticker \in Tickers, Publish(ticker)
  PROVE  /\ frame = Latest + 1 /\ Latest' = frame
         /\ \A t \in Tickers : push'[t] # "filled"
<1>1. push[ticker] = "filled" /\ push' = [push EXCEPT ![ticker] = "published"]
  BY DEF Publish
<1>2. frame = Latest + 1 /\ cells[write_cell] = frame
  BY <1>1 DEF IInv, InOrder
<1>3. Latest' = cells[write_cell]
  BY DEF Publish, Latest
<1>4. \A t \in Tickers : t # ticker => push[t] = "no"
  BY <1>1 DEF IInv, OneWriter
<1>5. QED
  BY <1>1, <1>2, <1>3, <1>4 DEF IInv, TypeOK

LEMMA PublishKeepsIInv ==
  ASSUME IInv, NEW ticker \in Tickers, Publish(ticker)
  PROVE  IInv'
<1>1. /\ spare' = [cell |-> write_cell, fresh |-> TRUE] /\ write_cell' = spare.cell
      /\ push[ticker] = "filled" /\ push' = [push EXCEPT ![ticker] = "published"]
      /\ UNCHANGED <<mode, engine, ticking, frame, cells, read_cell>>
      /\ UNCHANGED <<open, queued, dirty, syncing, shown>>
  BY DEF Publish, session_vars, item_vars
<1>2. TypeOK'
  <2>1. push' \in [Tickers -> {"no", "filled", "published"}]
    BY <1>1 DEF IInv, TypeOK
  <2>2. write_cell' \in Cells /\ spare' \in [cell : Cells, fresh : BOOLEAN]
    BY <1>1 DEF IInv, TypeOK
  <2>3. QED
    BY <1>1, <2>1, <2>2 DEF IInv, TypeOK
<1>3. CellsApart'
  BY <1>1 DEF IInv, CellsApart
<1>4. OneWriter'
  BY <1>1 DEF IInv, TypeOK, OneWriter
<1>5. InOrder'
  BY <1>1, PublishFacts DEF InOrder
<1>6. QED
  BY <1>2, <1>3, <1>4, <1>5 DEF IInv

LEMMA EmitKeepsIInv ==
  ASSUME IInv, NEW ticker \in Tickers, Emit(ticker)
  PROVE  IInv'
<1>1. /\ push[ticker] = "published" /\ push' = [push EXCEPT ![ticker] = "no"]
      /\ queued' = queued \cup open
      /\ UNCHANGED <<mode, engine, ticking, frame, cells, write_cell, read_cell, spare>>
      /\ UNCHANGED <<open, dirty, syncing, shown>>
  BY DEF Emit, session_vars, value_vars
<1>2. TypeOK'
  <2>1. push' \in [Tickers -> {"no", "filled", "published"}]
    BY <1>1 DEF IInv, TypeOK
  <2>2. QED
    BY <1>1, <2>1 DEF IInv, TypeOK
<1>3. CellsApart'
  BY <1>1 DEF IInv, CellsApart
<1>4. OneWriter'
  BY <1>1 DEF IInv, TypeOK, OneWriter
<1>5. InOrder'
  <2>1. \A t \in Tickers : push'[t] = "filled" <=> push[t] = "filled"
    BY <1>1 DEF IInv, TypeOK
  <2>2. Latest' = Latest
    BY <1>1 DEF Latest
  <2>3. QED
    BY <1>1, <2>1, <2>2 DEF IInv, InOrder
<1>6. QED
  BY <1>2, <1>3, <1>4, <1>5 DEF IInv

(* The events of an item. *)
LEMMA ItemKeepsIInv ==
  ASSUME IInv, NEW item \in Items, set_source(item) \/ CloseItem(item) \/ Update(item)
  PROVE  IInv'
<1>1. /\ UNCHANGED <<mode, engine, ticking, frame, push, value_vars, syncing>>
      /\ open' \subseteq Items /\ queued' \subseteq Items /\ dirty' \subseteq Items
  BY DEF set_source, CloseItem, Update, session_vars, IInv, TypeOK
<1>2. shown' \in [Items -> 0 .. MaxFrames]
  <2>1. 0 \in 0 .. MaxFrames
    BY FramesAssumption
  <2>2. QED
    BY <2>1 DEF set_source, CloseItem, Update, IInv, TypeOK
<1>3. TypeOK'
  BY <1>1, <1>2 DEF IInv, TypeOK, value_vars
<1>4. QED
  BY <1>1, <1>3, ValueUntouched

LEMMA SyncFacts ==
  ASSUME IInv, NEW item \in Items, Sync(item)
  PROVE  /\ syncing = NoItem /\ syncing' = item
         /\ UNCHANGED <<mode, engine, ticking, frame, push, cells, write_cell, open, queued, shown>>
         /\ cells[read_cell'] = Latest /\ Latest' = Latest
         /\ dirty' \subseteq Items /\ read_cell' \in Cells
         /\ spare' \in [cell : Cells, fresh : BOOLEAN] /\ CellsApart'
<1>1. /\ syncing = NoItem /\ syncing' = item /\ dirty' \subseteq Items
      /\ UNCHANGED <<mode, engine, ticking, frame, push, cells, write_cell, open, queued, shown>>
  BY DEF Sync, UiIsFree, session_vars, IInv, TypeOK
<1>2. CASE spare.fresh
  <2>1. read_cell' = spare.cell /\ spare' = [cell |-> read_cell, fresh |-> FALSE]
    BY <1>2 DEF Sync
  <2>2. QED
    BY <1>1, <1>2, <2>1 DEF IInv, TypeOK, CellsApart, Latest
<1>3. CASE ~spare.fresh
  <2>1. read_cell' = read_cell /\ spare' = spare
    BY <1>3 DEF Sync
  <2>2. QED
    BY <1>1, <1>3, <2>1 DEF IInv, TypeOK, CellsApart, Latest
<1>4. QED
  BY <1>2, <1>3

LEMMA SyncKeepsIInv ==
  ASSUME IInv, NEW item \in Items, Sync(item)
  PROVE  IInv'
<1>1. TypeOK'
  BY SyncFacts DEF IInv, TypeOK
<1>2. OneWriter' /\ InOrder'
  BY SyncFacts DEF IInv, OneWriter, InOrder
<1>3. QED
  BY <1>1, <1>2, SyncFacts DEF IInv

LEMMA PaintKeepsIInv == ASSUME IInv, Paint PROVE IInv'
<1>1. /\ UNCHANGED <<mode, engine, ticking, frame, push, value_vars, open, queued, dirty>>
      /\ syncing' = NoItem /\ shown' = [shown EXCEPT ![syncing] = cells[read_cell]]
  BY DEF Paint, session_vars
<1>2. shown' \in [Items -> 0 .. MaxFrames]
  BY <1>1 DEF IInv, TypeOK
<1>3. TypeOK'
  BY <1>1, <1>2 DEF IInv, TypeOK, value_vars
<1>4. QED
  BY <1>1, <1>3, ValueUntouched

(* The inductive invariant holds always. *)
THEOREM Invariance == Spec => []IInv
<1>1. ASSUME IInv, [Next]_vars PROVE IInv'
  <2>1. CASE Operate
    BY <1>1, <2>1, OperateKeepsIInv
  <2>2. CASE Ticking
    BY <1>1, <2>2, BeginTickKeepsIInv, FillKeepsIInv, PublishKeepsIInv, EmitKeepsIInv,
       EndTickKeepsIInv
    DEF Ticking
  <2>3. CASE Showing
    BY <1>1, <2>3, ItemKeepsIInv, SyncKeepsIInv DEF Showing
  <2>4. CASE Paint
    BY <1>1, <2>4, PaintKeepsIInv
  <2>5. CASE UNCHANGED vars
    <3>1. TypeOK'
      BY <1>1, <2>5 DEF vars, session_vars, value_vars, item_vars, IInv, TypeOK
    <3>2. QED
      BY <1>1, <2>5, <3>1, ValueUntouched DEF vars, session_vars
  <2>6. QED
    BY <1>1, <2>1, <2>2, <2>3, <2>4, <2>5 DEF Next
<1>2. QED
  BY <1>1, InitIInv, PTL DEF Spec

(* Every variable keeps its type. *)
THEOREM TypeCorrect == Spec => []TypeOK
<1>1. IInv => TypeOK
  BY DEF IInv
<1>2. QED
  BY <1>1, Invariance, PTL

(* The writer never fills the cell that is being read or is to be read:    *)
(* this is all that keeps a frame in one piece.                            *)
THEOREM CellsNeverShared == Spec => []CellsApart
<1>1. IInv => CellsApart
  BY DEF IInv
<1>2. QED
  BY <1>1, Invariance, PTL

-----------------------------------------------------------------------------
(* A step the register does not see. *)
LEMMA Unseen ==
  ASSUME UNCHANGED <<cells, read_cell, spare, syncing, shown>>
  PROVE  UNCHANGED Register!register_vars
BY DEF Latest, Shown, Register!register_vars

(* The display implements the register of the latest frame.                *)
THEOREM RegisterIsImplemented == Spec => ImplementsRegister
<1>1. ASSUME Init PROVE Register!Init
  <2>1. Latest = 0
    BY <1>1 DEF Init, Latest, Cells
  <2>2. Shown = [item \in Items |-> 0]
    BY <1>1 DEF Init, Shown, Cells
  <2>3. QED
    BY <2>1, <2>2 DEF Register!Init
<1>2. ASSUME IInv, [Next]_vars PROVE [Register!Next]_Register!register_vars
  <2>1. CASE Operate
    BY <2>1, Unseen DEF Operate, value_vars, item_vars
  <2>2. ASSUME NEW ticker \in Tickers,
               BeginTick(ticker) \/ EndTick(ticker) \/ Emit(ticker)
        PROVE  UNCHANGED Register!register_vars
    BY <2>2, Unseen DEF BeginTick, EndTick, Emit, value_vars, item_vars
  <2>3. ASSUME NEW ticker \in Tickers, Fill(ticker)
        PROVE  UNCHANGED Register!register_vars
    <3>1. /\ cells' = [cells EXCEPT ![write_cell] = frame']
          /\ UNCHANGED <<read_cell, spare, syncing, shown>>
      BY <2>3 DEF Fill, item_vars
    <3>2. cells'[read_cell] = cells[read_cell] /\ cells'[spare.cell] = cells[spare.cell]
      BY <1>2, <3>1 DEF IInv, TypeOK, CellsApart
    <3>3. QED
      BY <3>1, <3>2 DEF Latest, Shown, Register!register_vars
  <2>4. ASSUME NEW ticker \in Tickers, Publish(ticker)
        PROVE  Register!Put
    <3>1. Latest' = Latest + 1
      BY <1>2, <2>4, PublishFacts
    <3>2. Shown' = Shown
      BY <2>4 DEF Publish, Shown, item_vars
    <3>3. QED
      BY <3>1, <3>2 DEF Register!Put
  <2>5. ASSUME NEW item \in Items, set_source(item) \/ Update(item)
        PROVE  UNCHANGED Register!register_vars
    BY <2>5, Unseen DEF set_source, Update, value_vars
  <2>6. ASSUME NEW item \in Items, CloseItem(item)
        PROVE  Register!Forget(item)
    <3>1. /\ syncing = NoItem /\ syncing' = NoItem /\ UNCHANGED <<cells, read_cell, spare>>
          /\ shown' = [shown EXCEPT ![item] = 0]
      BY <2>6 DEF CloseItem, UiIsFree, value_vars
    <3>2. Shown = shown /\ Shown' = shown'
      BY <1>2, <3>1, ItemsAssumption DEF Shown, IInv, TypeOK
    <3>3. Latest' = Latest
      BY <3>1 DEF Latest
    <3>4. QED
      BY <3>1, <3>2, <3>3 DEF Register!Forget
  <2>7. ASSUME NEW item \in Items, Sync(item)
        PROVE  Register!Show(item)
    <3>1. /\ syncing = NoItem /\ syncing' = item /\ UNCHANGED <<cells, shown>>
          /\ cells[read_cell'] = Latest /\ Latest' = Latest
      BY <1>2, <2>7, SyncFacts
    <3>2. Shown = shown
      BY <1>2, <3>1, ItemsAssumption DEF Shown, IInv, TypeOK
    <3>3. Shown' = [shown EXCEPT ![item] = Latest]
      BY <1>2, <3>1 DEF Shown, IInv, TypeOK
    <3>4. QED
      BY <3>1, <3>2, <3>3 DEF Register!Show
  <2>8. CASE Paint
    <3>1. /\ syncing \in Items /\ syncing' = NoItem /\ UNCHANGED <<cells, read_cell, spare>>
          /\ shown' = [shown EXCEPT ![syncing] = cells[read_cell]]
      BY <1>2, <2>8 DEF Paint, value_vars, IInv, TypeOK
    <3>2. Shown' = [shown EXCEPT ![syncing] = cells[read_cell]]
      BY <1>2, <3>1, ItemsAssumption DEF Shown, IInv, TypeOK
    <3>3. Shown = [shown EXCEPT ![syncing] = cells[read_cell]]
      BY <1>2, <3>1 DEF Shown, IInv, TypeOK
    <3>4. QED
      BY <3>1, <3>2, <3>3 DEF Latest, Register!register_vars
  <2>9. CASE UNCHANGED vars
    BY <2>9, Unseen DEF vars, value_vars, item_vars
  <2>10. CASE Ticking
    BY <2>2, <2>3, <2>4, <2>10 DEF Ticking, Register!Next
  <2>11. CASE Showing
    BY <2>5, <2>6, <2>7, <2>11 DEF Showing, Register!Next
  <2>12. QED
    BY <1>2, <2>1, <2>8, <2>9, <2>10, <2>11 DEF Next
<1>3. QED
  BY <1>1, <1>2, Invariance, PTL DEF Spec, ImplementsRegister, Register!Spec
================================================================================
