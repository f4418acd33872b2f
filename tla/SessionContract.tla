---------------------------- MODULE SessionContract ----------------------------
(***************************************************************************)
(* What an emulation session promises the parts of the interface that      *)
(* share the engine with it: the display, which is given the frames, and   *)
(* the viewers, which read the memory.  An engine is ticked by one thread  *)
(* at a time, it is replaced or released only while nobody ticks it, and   *)
(* outside the operations of the interface a session that is not running   *)
(* leaves its engine alone.  Session implements this contract; Display and *)
(* Viewers are built on it.                                                *)
(***************************************************************************)
VARIABLES
  mode,     (* The status shown between two operations; busy inside one;   *)
            (* leaving when the event loop has returned; crashed or gone   *)
            (* when the process has ended.                                 *)
  engine,   (* There is an engine.                                         *)
  ticking   (* The threads inside engine::tick.                            *)

session_vars == <<mode, engine, ticking>>

Statuses == {"Stopped", "Paused", "Running"}
Tickers  == {"engine", "ui"}

(* The event loop returns; nothing has been stopped yet. *)
Leave ==
  /\ mode \in Statuses
  /\ mode' = "leaving"
  /\ UNCHANGED <<engine, ticking>>

(* The interface starts an operation; the engine thread may be in a frame. *)
BeginOperation ==
  /\ mode \in Statuses \cup {"leaving"}
  /\ mode' = "busy"
  /\ UNCHANGED <<engine, ticking>>

(* The operation is over and the interface shows the new status. *)
EndOperation ==
  /\ mode = "busy"
  /\ ticking = {}
  /\ mode' \in IF engine THEN {"Paused", "Running"} ELSE {"Stopped", "crashed", "gone"}
  /\ UNCHANGED <<engine, ticking>>

(* stop releases the engine. *)
ReleaseEngine ==
  /\ mode = "busy"
  /\ ticking = {}
  /\ engine
  /\ engine' = FALSE
  /\ mode' \in {"busy", "Stopped"}
  /\ UNCHANGED ticking

(* load_rom has a new one and starts it. *)
StartEngine ==
  /\ mode = "busy"
  /\ ticking = {}
  /\ ~engine
  /\ engine' = TRUE
  /\ mode' = "Running"
  /\ UNCHANGED ticking

(* resume, which begins and ends at once. *)
ResumeEngine ==
  /\ mode = "Paused"
  /\ mode' = "Running"
  /\ UNCHANGED <<engine, ticking>>

(* The engine thread ticks until an operation asks it to stop, the         *)
(* interface inside an operation of its own.                               *)
BeginTick(ticker) ==
  /\ engine
  /\ ticking = {}
  /\ mode \in IF ticker = "engine" THEN {"Running", "leaving"} ELSE {"busy"}
  /\ ticking' = {ticker}
  /\ UNCHANGED <<mode, engine>>

EndTick(ticker) ==
  /\ ticking = {ticker}
  /\ ticking' = {}
  /\ mode' = IF ticker = "engine" THEN mode ELSE "Paused"
  /\ UNCHANGED engine

(* A viewer that outlived its session reads the memory of no engine. *)
MissEngine ==
  /\ mode = "Stopped"
  /\ ~engine
  /\ mode' = "crashed"
  /\ UNCHANGED <<engine, ticking>>

Init ==
  /\ mode = "Stopped"
  /\ engine = FALSE
  /\ ticking = {}

Operation ==
  \/ Leave \/ BeginOperation \/ EndOperation
  \/ ReleaseEngine \/ StartEngine \/ ResumeEngine
Tick      == \E ticker \in Tickers : BeginTick(ticker) \/ EndTick(ticker)

Next == Operation \/ Tick \/ MissEngine

Spec == Init /\ [][Next]_session_vars
================================================================================
