-------------------------------- MODULE Display --------------------------------
(***************************************************************************)
(* From the frame the engine has drawn to the picture on the screen:       *)
(* emulator_ui_framebuffer_source and emulator_ui_video of the Qt          *)
(* interface, with a session that keeps SessionContract.                   *)
(*                                                                         *)
(* The thread that ticks the engine copies each frame into a               *)
(* boost::lockfree::spsc_value and emits frameAvailable, which is queued   *)
(* to every video item and asks it for an update.  To paint an item the    *)
(* UI thread waits while the render thread of its window reads the value   *)
(* and makes a texture of it; the engine thread goes on meanwhile.         *)
(*                                                                         *)
(* The value is three cells: the writer has one, the reader has one, and   *)
(* each exchanges its own for the third, which is marked when it holds a   *)
(* value that was not read.  That is safe for one writer and one reader.   *)
(***************************************************************************)
EXTENDS Naturals, FiniteSets

CONSTANTS
  Items,       (* The video items: of the window and of the viewers.       *)
  Window,      (* The item that is always there.                           *)
  MaxFrames    (* Bound on the frames of a behaviour.                      *)

NoItem == "none"

ASSUME ItemsAssumption  == Window \in Items /\ NoItem \notin Items
ASSUME FramesAssumption == MaxFrames \in Nat

VARIABLES
  mode, engine, ticking,  (* The session; see SessionContract.             *)
  frame,       (* How many frames were pushed.                             *)
  push,        (* Where each ticker is in push_frame.                      *)
  cells,       (* The three cells of the spsc_value.                       *)
  write_cell,  (* The cell of the writer.                                  *)
  read_cell,   (* The cell of the reader.                                  *)
  spare,       (* The third cell, and whether it is fresh.                 *)
  open,        (* The items that exist.                                    *)
  queued,      (* The items with a frameAvailable in the event queue.      *)
  dirty,       (* The items that asked for an update.                      *)
  syncing,     (* The item the render thread is painting, or NoItem.       *)
  shown        (* The frame each item shows, 0 for none.                   *)

session_vars == <<mode, engine, ticking>>
value_vars   == <<cells, write_cell, read_cell, spare>>
item_vars    == <<open, queued, dirty, syncing, shown>>
vars         == <<session_vars, frame, push, value_vars, item_vars>>

Session == INSTANCE SessionContract

Cells   == 1 .. 3
Tickers == Session!Tickers

(* The event loop of the UI thread is free to handle an event. *)
UiIsFree == mode \in Session!Statuses /\ syncing = NoItem

-----------------------------------------------------------------------------
(* The session.  What it does on the UI thread waits for a paint to end. *)

Operate ==
  /\ syncing = NoItem
  /\ Session!Operation
  /\ UNCHANGED <<frame, push, value_vars, item_vars>>

BeginTick(ticker) ==
  /\ Session!BeginTick(ticker)
  /\ UNCHANGED <<frame, push, value_vars, item_vars>>

EndTick(ticker) ==
  /\ push[ticker] = "no"
  /\ Session!EndTick(ticker)
  /\ UNCHANGED <<frame, push, value_vars, item_vars>>

-----------------------------------------------------------------------------
(* push_frame, on the thread that ticks the engine. *)

(* The frame is copied into the cell of the writer, ... *)
Fill(ticker) ==
  /\ ticker \in ticking
  /\ push[ticker] = "no"
  /\ frame < MaxFrames
  /\ frame' = frame + 1
  /\ cells' = [cells EXCEPT ![write_cell] = frame']
  /\ push' = [push EXCEPT ![ticker] = "filled"]
  /\ UNCHANGED <<session_vars, write_cell, read_cell, spare, item_vars>>

(* ... which is exchanged for the third one, ... *)
Publish(ticker) ==
  /\ push[ticker] = "filled"
  /\ spare' = [cell |-> write_cell, fresh |-> TRUE]
  /\ write_cell' = spare.cell
  /\ push' = [push EXCEPT ![ticker] = "published"]
  /\ UNCHANGED <<session_vars, frame, cells, read_cell, item_vars>>

(* Seeded fault: only the window is connected to the source. *)
EmitToWindow(ticker) ==
  /\ push[ticker] = "published"
  /\ queued' = queued \cup {Window}
  /\ push' = [push EXCEPT ![ticker] = "no"]
  /\ UNCHANGED <<session_vars, frame, value_vars, open, dirty, syncing, shown>>

(* ... and frameAvailable is posted to the items that are connected. *)
Emit(ticker) ==
  /\ push[ticker] = "published"
  /\ queued' = queued \cup open
  /\ push' = [push EXCEPT ![ticker] = "no"]
  /\ UNCHANGED <<session_vars, frame, value_vars, open, dirty, syncing, shown>>

-----------------------------------------------------------------------------
(* The video items. *)

(* A viewer is opened while there is a ROM.  set_source connects its item, *)
(* and a new item is to be painted.                                        *)
set_source(item) ==
  /\ UiIsFree
  /\ mode # "Stopped"
  /\ item \notin open
  /\ open' = open \cup {item}
  /\ dirty' = dirty \cup {item}
  /\ UNCHANGED <<session_vars, frame, push, value_vars, queued, syncing, shown>>

(* Its window is closed; what was posted to the item goes with it. *)
CloseItem(item) ==
  /\ UiIsFree
  /\ item \in open \ {Window}
  /\ open' = open \ {item}
  /\ queued' = queued \ {item}
  /\ dirty' = dirty \ {item}
  /\ shown' = [shown EXCEPT ![item] = 0]
  /\ UNCHANGED <<session_vars, frame, push, value_vars, syncing>>

(* QQuickItem::update, called by the event loop. *)
Update(item) ==
  /\ UiIsFree
  /\ item \in queued
  /\ queued' = queued \ {item}
  /\ dirty' = dirty \cup {item}
  /\ UNCHANGED <<session_vars, frame, push, value_vars, open, syncing, shown>>

(* Seeded fault: the reader takes the third cell also when it is stale. *)
SyncStale(item) ==
  /\ UiIsFree
  /\ item \in dirty
  /\ dirty' = dirty \ {item}
  /\ syncing' = item
  /\ read_cell' = spare.cell
  /\ spare' = [cell |-> read_cell, fresh |-> FALSE]
  /\ UNCHANGED <<session_vars, frame, push, cells, write_cell, open, queued, shown>>

(* updatePaintNode, on the render thread while the UI thread waits: frame  *)
(* reads the value, which exchanges the cell of the reader when there is   *)
(* something new, ...                                                      *)
Sync(item) ==
  /\ UiIsFree
  /\ item \in dirty
  /\ dirty' = dirty \ {item}
  /\ syncing' = item
  /\ IF spare.fresh
     THEN read_cell' = spare.cell /\ spare' = [cell |-> read_cell, fresh |-> FALSE]
     ELSE UNCHANGED <<read_cell, spare>>
  /\ UNCHANGED <<session_vars, frame, push, cells, write_cell, open, queued, shown>>

(* ... and the texture is made of what is in the cell. *)
Paint ==
  /\ syncing # NoItem
  /\ shown' = [shown EXCEPT ![syncing] = cells[read_cell]]
  /\ syncing' = NoItem
  /\ UNCHANGED <<session_vars, frame, push, value_vars, open, queued, dirty>>

-----------------------------------------------------------------------------
Init ==
  /\ Session!Init
  /\ frame = 0
  /\ push = [ticker \in Tickers |-> "no"]
  /\ cells = [cell \in Cells |-> 0]
  /\ write_cell = 1
  /\ read_cell = 2
  /\ spare = [cell |-> 3, fresh |-> FALSE]
  /\ open = {Window}
  /\ queued = {}
  /\ dirty = {Window}
  /\ syncing = NoItem
  /\ shown = [item \in Items |-> 0]

Ticking ==
  \E ticker \in Tickers :
    BeginTick(ticker) \/ Fill(ticker) \/ Publish(ticker) \/ Emit(ticker) \/ EndTick(ticker)

Showing == \E item \in Items : set_source(item) \/ CloseItem(item) \/ Update(item) \/ Sync(item)

Next == Operate \/ Ticking \/ Showing \/ Paint

(* A frame that was begun ends and an operation returns (UiReturns of      *)
(* Session).  The events of the UI thread are handled in the order they    *)
(* are posted, so that an item is not passed over for ever, and a paint    *)
(* ends.                                                                   *)
Spec ==
  /\ Init /\ [][Next]_vars
  /\ \A ticker \in Session!Tickers :
       WF_vars(Publish(ticker) \/ Emit(ticker) \/ EndTick(ticker))
  /\ WF_vars(Operate /\ mode = "busy" /\ mode' # "busy")
  /\ \A item \in Items : SF_vars(Update(item)) /\ SF_vars(Sync(item))
  /\ WF_vars(Paint)

-----------------------------------------------------------------------------
TypeOK ==
  /\ mode \in Session!Statuses \cup {"busy", "leaving", "crashed", "gone"}
  /\ engine \in BOOLEAN
  /\ ticking \subseteq Tickers
  /\ frame \in 0 .. MaxFrames
  /\ push \in [Tickers -> {"no", "filled", "published"}]
  /\ cells \in [Cells -> 0 .. MaxFrames]
  /\ write_cell \in Cells
  /\ read_cell \in Cells
  /\ spare \in [cell : Cells, fresh : BOOLEAN]
  /\ open \subseteq Items
  /\ queued \subseteq Items
  /\ dirty \subseteq Items
  /\ syncing \in Items \cup {NoItem}
  /\ shown \in [Items -> 0 .. MaxFrames]

(* The display is a register of the latest frame.  A read takes place when *)
(* the reader has exchanged its cell: what the writer does from then on is *)
(* not seen, and what it did before is seen whole.                         *)
Latest == IF spare.fresh THEN cells[spare.cell] ELSE cells[read_cell]
Shown  == [item \in Items |-> IF item = syncing THEN cells[read_cell] ELSE shown[item]]

Register == INSTANCE FrameRegister WITH latest <- Latest, shown <- Shown

(* No item shows a frame in pieces, an older frame after a newer one, or   *)
(* one that is not the latest when it is painted.                          *)
ImplementsRegister == Register!Spec

(* A frame that was pushed is shown by every item that stays, or a later   *)
(* one is, unless the program ends: also the last one before a pause.  It  *)
(* is the texture of the item that is meant; QML does not display the item *)
(* of the window while the session is stopped (EmulatorUI.qml:100).        *)
LatestIsShown ==
  \A item \in Items, n \in 1 .. MaxFrames :
    frame = n /\ item \in open ~>
      shown[item] >= n \/ item \notin open \/ mode \notin Session!Statuses \cup {"busy"}
================================================================================
