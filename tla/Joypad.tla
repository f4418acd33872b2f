-------------------------------- MODULE Joypad --------------------------------
(***************************************************************************)
(* The joypad (joypad_core.cppm, joypad_memory.cppm) and the interrupt     *)
(* request flags (interrupts_control.cppm) between the joypad thread, which*)
(* runs joypad::set_state every 16 ms (emulator_tasks.cppm), and the engine*)
(* thread, which runs everything else.  Neither takes a lock.              *)
(*                                                                         *)
(* request and clear_request update a plain byte: a load and a store, with *)
(* room for the other thread in between.  The array of inputs is copied    *)
(* while the engine thread may read it, and is itself copied from the      *)
(* array the interface writes on key events; every input is one bool, and  *)
(* the copy is modelled one input at a time in any order, which covers a   *)
(* copy of any width.                                                      *)
(***************************************************************************)
EXTENDS Integers, Sequences

CONSTANTS
  Lines   (* The four lines of the register; each shows a button and a   *)
          (* direction.                                                  *)

VARIABLES
  keys,            (* The state array of the interface: what is held.    *)
  state,           (* joypad::state                                      *)
  source,          (* joypad::source                                     *)
  request_flags,   (* interrupt_controller::request_flags                *)
  joypad_pc,       (* Where the joypad thread is in set_state.           *)
  prev_state,      (* The lines it read first.                           *)
  to_copy,         (* The inputs it has still to copy.                   *)
  joypad_loaded,   (* The flags its request has loaded.                  *)
  engine_calls,    (* Calls on the flags the engine thread has to make.  *)
  engine_loaded,   (* The flags the first of them has loaded.            *)
  held_before,     (* state when the update began, and                   *)
  source_before    (* source then: what the properties compare with.     *)

update_vars == <<joypad_pc, prev_state, to_copy, held_before, source_before>>
engine_vars == <<engine_calls, engine_loaded>>
joypad_vars == <<keys, state, source, request_flags, update_vars, joypad_loaded, engine_vars>>

Groups     == {"button", "d_pad"}
Inputs     == Lines \X Groups
Sources    == {"none", "buttons", "d_pad", "both"}
Interrupts == {"joypad", "other"}
NotLoaded  == {"nothing"}

(* is_multiplexed_input_pressed, for every line: the lines pulled low. *)
Selects(src, group) ==
  \/ src = "both"
  \/ src = "buttons" /\ group = "button"
  \/ src = "d_pad" /\ group = "d_pad"
PressedLines(src, held) ==
  {line \in Lines : \E group \in Groups : Selects(src, group) /\ <<line, group>> \in held}

(* detect_input_bits_falling_edge: a pressed line reads as 0. *)
FallingEdge(previous, current) == current \ previous # {}

-----------------------------------------------------------------------------
(* The interface writes one element of its array per key event. *)
KeyEvent(input) ==
  /\ keys' = IF input \in keys THEN keys \ {input} ELSE keys \cup {input}
  /\ UNCHANGED <<state, source, request_flags, update_vars, joypad_loaded, engine_vars>>

-----------------------------------------------------------------------------
(* The joypad thread: set_state. *)

ReadPrevious ==
  /\ joypad_pc = "idle"
  /\ prev_state' = PressedLines(source, state)
  /\ to_copy' = Inputs
  /\ joypad_pc' = "copy"
  /\ held_before' = state
  /\ source_before' = source
  /\ UNCHANGED <<keys, state, source, request_flags, joypad_loaded, engine_vars>>

(* Seeded fault: the buttons alone are copied. *)
CopyButtons(input) ==
  /\ joypad_pc = "copy"
  /\ input \in to_copy
  /\ state' = IF input \in keys /\ input[2] = "button"
              THEN state \cup {input} ELSE state \ {input}
  /\ to_copy' = to_copy \ {input}
  /\ UNCHANGED <<keys, source, request_flags, joypad_pc, prev_state, held_before,
                 source_before, joypad_loaded, engine_vars>>

(* std::ranges::copy *)
Copy(input) ==
  /\ joypad_pc = "copy"
  /\ input \in to_copy
  /\ state' = IF input \in keys THEN state \cup {input} ELSE state \ {input}
  /\ to_copy' = to_copy \ {input}
  /\ UNCHANGED <<keys, source, request_flags, joypad_pc, prev_state, held_before,
                 source_before, joypad_loaded, engine_vars>>

(* Seeded fault: every new press counts, selected or not. *)
DetectEdgeUnselected ==
  /\ joypad_pc = "copy"
  /\ to_copy = {}
  /\ joypad_pc' = IF state \ held_before # {} THEN "request" ELSE "idle"
  /\ UNCHANGED <<keys, state, source, request_flags, prev_state, to_copy, held_before,
                 source_before, joypad_loaded, engine_vars>>

DetectEdge ==
  /\ joypad_pc = "copy"
  /\ to_copy = {}
  /\ joypad_pc' = IF FallingEdge(prev_state, PressedLines(source, state))
                  THEN "request" ELSE "idle"
  /\ UNCHANGED <<keys, state, source, request_flags, prev_state, to_copy, held_before,
                 source_before, joypad_loaded, engine_vars>>

(* request(joypad_interrupt): request_flags |= if_flag *)
JoypadLoad ==
  /\ joypad_pc = "request"
  /\ joypad_loaded = NotLoaded
  /\ joypad_loaded' = request_flags
  /\ UNCHANGED <<keys, state, source, request_flags, update_vars, engine_vars>>

JoypadStore ==
  /\ joypad_loaded # NotLoaded
  /\ request_flags' = joypad_loaded \cup {"joypad"}
  /\ joypad_loaded' = NotLoaded
  /\ joypad_pc' = "idle"
  /\ UNCHANGED <<keys, state, source, prev_state, to_copy, held_before, source_before,
                 engine_vars>>

-----------------------------------------------------------------------------
(* The engine thread.  It makes one call at a time. *)

(* A CPU write to the joypad register. *)
SetSource(src) ==
  /\ engine_calls = <<>>
  /\ source' = src
  /\ UNCHANGED <<keys, state, request_flags, update_vars, joypad_loaded, engine_vars>>

Call(interrupt, requested) == [interrupt |-> interrupt, requested |-> requested]

(* A component requests its interrupt; the last step of a dispatch clears  *)
(* the request it found; a CPU write to IF goes through the interrupts one *)
(* by one.                                                                 *)
MakeCalls ==
  /\ engine_calls = <<>>
  /\ \/ engine_calls' = <<Call("other", TRUE)>>
     \/ \E interrupt \in request_flags : engine_calls' = <<Call(interrupt, FALSE)>>
     \/ \E data \in SUBSET Interrupts :
          engine_calls' = <<Call("joypad", "joypad" \in data), Call("other", "other" \in data)>>
  /\ UNCHANGED <<keys, state, source, request_flags, update_vars, joypad_loaded, engine_loaded>>

EngineLoad ==
  /\ engine_calls # <<>>
  /\ engine_loaded = NotLoaded
  /\ engine_loaded' = request_flags
  /\ UNCHANGED <<keys, state, source, request_flags, update_vars, joypad_loaded, engine_calls>>

EngineStore ==
  /\ engine_loaded # NotLoaded
  /\ LET call == Head(engine_calls) IN
       request_flags' = IF call.requested THEN engine_loaded \cup {call.interrupt}
                                          ELSE engine_loaded \ {call.interrupt}
  /\ engine_calls' = Tail(engine_calls)
  /\ engine_loaded' = NotLoaded
  /\ UNCHANGED <<keys, state, source, update_vars, joypad_loaded>>

-----------------------------------------------------------------------------
JoypadInit ==
  /\ keys = {}
  /\ state = {}
  /\ source = "both"
  /\ request_flags = {"other"}
  /\ joypad_pc = "idle"
  /\ prev_state = {}
  /\ to_copy = {}
  /\ joypad_loaded = NotLoaded
  /\ engine_calls = <<>>
  /\ engine_loaded = NotLoaded
  /\ held_before = {}
  /\ source_before = "both"

JoypadThread ==
  \/ ReadPrevious
  \/ \E input \in Inputs : Copy(input)
  \/ DetectEdge \/ JoypadLoad \/ JoypadStore

EngineThread ==
  \/ \E src \in Sources : SetSource(src)
  \/ MakeCalls \/ EngineLoad \/ EngineStore

JoypadNext == JoypadThread \/ EngineThread \/ \E input \in Inputs : KeyEvent(input)

(* The joypad thread polls for ever; games and users do as they like. *)
JoypadSpec == JoypadInit /\ [][JoypadNext]_joypad_vars /\ WF_joypad_vars(JoypadThread)

-----------------------------------------------------------------------------
JoypadTypeOK ==
  /\ keys \subseteq Inputs
  /\ state \subseteq Inputs
  /\ source \in Sources
  /\ request_flags \subseteq Interrupts
  /\ joypad_pc \in {"idle", "copy", "request"}
  /\ prev_state \subseteq Lines
  /\ to_copy \subseteq Inputs
  /\ joypad_loaded \in {NotLoaded} \cup SUBSET Interrupts
  /\ engine_calls \in {<<>>} \cup
       UNION {[1 .. n -> [interrupt : Interrupts, requested : BOOLEAN]] : n \in {1, 2}}
  /\ engine_loaded \in {NotLoaded} \cup SUBSET Interrupts
  /\ held_before \subseteq Inputs
  /\ source_before \in Sources

(* The lines a game sees pressed that nobody held when the update began.   *)
FreshLines == PressedLines(source, state) \ PressedLines(source, held_before)

(* An update asks for the interrupt exactly when a selected line went low, *)
(* as long as the game does not select other lines during the update: key  *)
(* events and reads by the game in the middle of the copy do not matter.   *)
EdgesAreReported ==
  [][joypad_pc = "copy" /\ joypad_pc' # "copy" /\ source = source_before =>
       (joypad_pc' = "request" <=> FreshLines # {})]_joypad_vars

(* A key that stays pressed, or released, shows so in the joypad for good: *)
(* torn copies are repaired by the next update.                            *)
KeysReachTheGame ==
  \A input \in Inputs :
    /\ <>[](input \in keys) => <>[](input \in state)
    /\ <>[](input \notin keys) => <>[](input \notin state)

(* What the unit tests of the controller expect of request and             *)
(* clear_request: a requested interrupt has its flag set until it is       *)
(* cleared.  A request of the joypad thread between the load and the store *)
(* of a call of the engine thread, or the other way round, is lost.        *)
RequestedStaysSet ==
  [][\A interrupt \in request_flags \ request_flags' :
       engine_calls # <<>> /\ Head(engine_calls) = Call(interrupt, FALSE)]_joypad_vars
==============================================================================
