-------------------------------- MODULE Session --------------------------------
(***************************************************************************)
(* An emulation session: emulator::gameboy (emulator_gameboy.cppm) driven  *)
(* by the controls of the Qt interface, with the two threads it starts     *)
(* (emulator_tasks.cppm), the audio device (emulator_audio_qt.cppm) and    *)
(* the callback thread the device reads samples from.                      *)
(*                                                                         *)
(* Four threads share the state: the UI thread runs load_rom, resume,      *)
(* pause, stop and nextFrame to their end; the engine thread runs frames   *)
(* and writes samples; the joypad thread updates the inputs; the callback  *)
(* thread of the audio library drains the samples while the sink is        *)
(* active.  The UI thread waits for the others only in the destructors of  *)
(* the two std::jthread, which ask for a stop and join.  It is also the    *)
(* thread of main, which constructs everything, runs the event loop and,   *)
(* when the window is closed, destroys everything in the reverse order     *)
(* with the threads still running.                                         *)
(***************************************************************************)
EXTENDS Integers

CONSTANTS
  Capacity,      (* Samples audio_buffer holds: 500 ms.                  *)
  FrameSamples   (* Samples the longest call of engine::tick writes.     *)

ASSUME CapacityAssumption     == Capacity \in Nat \ {0}
ASSUME FrameSamplesAssumption == FrameSamples \in Nat \ {0}

VARIABLES
  ui,             (* Where the UI thread is in the operation it runs.    *)
  locals,         (* How many of the locals of main exist.               *)
  task,           (* The operation it runs.                              *)
  status,         (* emulator_ui_controls::current_status                *)
  viewer,         (* A debug viewer is open; it offers nextFrame.        *)
  engine,         (* gameboy::engine is not null.                        *)
  tick_thread,    (* none, running, or stopping: asked to stop           *)
  joypad_thread,
  in_frame,       (* The engine thread is inside engine::tick.           *)
  in_update,      (* The joypad thread is inside update_joypad_state.    *)
  samples_left,   (* What a call of engine::tick has still to write, for *)
                  (* the engine thread and the UI thread.                *)
  sink,           (* audio_device::sink: none, active or suspended       *)
  buffer,         (* Samples in audio_device::buffer, or NoBuffer.       *)
  callback        (* The audio library is inside audio_callback.         *)

thread_vars == <<tick_thread, joypad_thread, in_frame, in_update, samples_left>>
audio_vars  == <<sink, buffer, callback>>
shell_vars  == <<locals, viewer>>
ui_vars     == <<ui, task, status, shell_vars>>
vars == <<ui_vars, engine, thread_vars, audio_vars>>

NoBuffer == -1
Tickers  == {"engine", "ui"}

(* update_current_status, from has_rom and is_running. *)
current_status(has_rom, thread) ==
  IF ~has_rom THEN "Stopped" ELSE IF thread = "none" THEN "Paused" ELSE "Running"

AskToStop(thread) == IF thread = "running" THEN "stopping" ELSE thread

-----------------------------------------------------------------------------
(* The operations of the UI thread. *)

(* Pause, stop, load_rom and the button for the next frame all begin with  *)
(* gameboy::pause, and that with the destructor of tick_thread.  The menu  *)
(* offers the first two in some states only.                               *)
Begin(operation) ==
  /\ ui = "idle"
  /\ operation = "pause" => status = "Running"
  /\ operation = "stop" => status # "Stopped"
  /\ operation = "next" => viewer
  /\ task' = operation
  /\ ui' = "join_tick"
  /\ tick_thread' = AskToStop(tick_thread)
  /\ UNCHANGED <<status, shell_vars, engine, joypad_thread, in_frame, in_update, samples_left,
                 audio_vars>>

(* Seeded fault: the thread is detached. *)
JoinTickDetached ==
  /\ ui = "join_tick"
  /\ joypad_thread' = AskToStop(joypad_thread)
  /\ ui' = "join_joypad"
  /\ UNCHANGED <<task, status, shell_vars, engine, tick_thread, in_frame, in_update, samples_left,
                 audio_vars>>

JoinTick ==
  /\ ui = "join_tick"
  /\ tick_thread = "none"
  /\ joypad_thread' = AskToStop(joypad_thread)
  /\ ui' = "join_joypad"
  /\ UNCHANGED <<task, status, shell_vars, engine, tick_thread, in_frame, in_update, samples_left,
                 audio_vars>>

(* Seeded fault: the thread is detached. *)
JoinJoypadDetached ==
  /\ ui = "join_joypad"
  /\ sink' = IF sink = "none" THEN "none" ELSE "suspended"
  /\ ui' = CASE task = "pause" -> "idle" [] task = "next" -> "step" [] OTHER -> "close"
  /\ status' = IF task \in {"pause", "next"}
               THEN current_status(engine, tick_thread) ELSE status
  /\ UNCHANGED <<task, shell_vars, engine, thread_vars, buffer, callback>>

(* The end of gameboy::pause; the interface then updates its status, or    *)
(* gameboy::stop goes on.                                                  *)
JoinJoypad ==
  /\ ui = "join_joypad"
  /\ joypad_thread = "none"
  /\ sink' = IF sink = "none" THEN "none" ELSE "suspended"
  /\ ui' = CASE task = "pause" -> "idle" [] task = "next" -> "step" [] OTHER -> "close"
  /\ status' = IF task \in {"pause", "next"}
               THEN current_status(engine, tick_thread) ELSE status
  /\ UNCHANGED <<task, shell_vars, engine, thread_vars, buffer, callback>>

(* Seeded fault: the buffer is released before the sink. *)
CloseSinkLast ==
  /\ ui = "close"
  /\ buffer' = NoBuffer
  /\ ui' = "release"
  /\ UNCHANGED <<task, status, shell_vars, engine, thread_vars, sink, callback>>

(* audio_device::close, first the sink: its destructor waits for a         *)
(* callback that is running.                                               *)
CloseSink ==
  /\ ui = "close"
  /\ ~callback
  /\ sink' = "none"
  /\ ui' = "release"
  /\ UNCHANGED <<task, status, shell_vars, engine, thread_vars, buffer, callback>>

(* Seeded fault: stop does not update the status. *)
ReleaseUnseen ==
  /\ ui = "release"
  /\ buffer' = NoBuffer
  /\ engine' = FALSE
  /\ ui' = CASE task = "load" -> "create" [] task = "quit" -> "unwind" [] OTHER -> "idle"
  /\ locals' = IF task = "quit" THEN locals - 1 ELSE locals
  /\ UNCHANGED <<task, status, viewer, thread_vars, sink, callback>>

(* Then the buffer, and the rest of gameboy::stop. *)
Release ==
  /\ ui = "release"
  /\ buffer' = NoBuffer
  /\ engine' = FALSE
  /\ ui' = CASE task = "load" -> "create" [] task = "quit" -> "unwind" [] OTHER -> "idle"
  /\ status' = IF task = "stop" THEN current_status(engine', tick_thread) ELSE status
  /\ locals' = IF task = "quit" THEN locals - 1 ELSE locals
  /\ UNCHANGED <<task, viewer, thread_vars, sink, callback>>

StartThreads ==
  /\ tick_thread' = "running"
  /\ joypad_thread' = "running"
  /\ UNCHANGED <<in_frame, in_update, samples_left>>

(* The rest of load_rom when create_engine accepts the cartridge: the      *)
(* audio device is opened and the session resumed.                         *)
CreateEngine ==
  /\ ui = "create"
  /\ engine' = TRUE
  /\ sink' = "active"
  /\ buffer' = 0
  /\ StartThreads
  /\ status' = current_status(engine', tick_thread')
  /\ ui' = "idle"
  /\ UNCHANGED <<task, shell_vars, callback>>

(* And when it refuses: the session that was running is gone.  A file that *)
(* cannot be read is refused before, and the session goes on.              *)
RejectRom ==
  /\ ui = "create"
  /\ status' = current_status(engine, tick_thread)
  /\ ui' = "idle"
  /\ UNCHANGED <<task, shell_vars, engine, thread_vars, audio_vars>>

(* Seeded fault: the sound is not resumed. *)
ResumeSilent ==
  /\ ui = "idle"
  /\ status = "Paused"
  /\ StartThreads
  /\ status' = "Running"
  /\ UNCHANGED <<ui, task, shell_vars, engine, audio_vars>>

(* gameboy::resume, in a session that has an engine and no threads.  The   *)
(* menu offers it in a paused session, a viewer whenever none is running.  *)
Resume ==
  /\ ui = "idle"
  /\ status = "Paused" \/ (viewer /\ status = "Stopped")
  /\ IF engine /\ tick_thread = "none"
     THEN /\ sink' = IF sink = "suspended" THEN "active" ELSE sink
          /\ StartThreads
     ELSE UNCHANGED <<sink, thread_vars>>
  /\ status' = current_status(engine, tick_thread')
  /\ UNCHANGED <<ui, task, shell_vars, engine, buffer, callback>>

(* nextFrame: the UI thread itself ticks the engine to the end of the      *)
(* frame.  Without an engine it calls through a null pointer, which ends   *)
(* the process.                                                            *)
StepFrame ==
  /\ ui = "step"
  /\ IF engine
     THEN /\ ui' = "stepping"
          /\ \E n \in 1 .. FrameSamples : samples_left' = [samples_left EXCEPT !["ui"] = n]
     ELSE ui' = "crashed" /\ UNCHANGED samples_left
  /\ UNCHANGED <<task, status, shell_vars, engine, tick_thread, joypad_thread, in_frame, in_update,
                 audio_vars>>

StepFrameEnd ==
  /\ ui = "stepping"
  /\ samples_left["ui"] = 0
  /\ ui' = "idle"
  /\ UNCHANGED <<task, status, shell_vars, engine, thread_vars, audio_vars>>

(* The menu opens a viewer while a ROM is loaded; it stays open until the  *)
(* user closes it.                                                         *)
OpenViewer ==
  /\ ui = "idle"
  /\ status # "Stopped"
  /\ viewer' = TRUE
  /\ UNCHANGED <<ui, locals, task, status, engine, thread_vars, audio_vars>>

CloseViewer ==
  /\ ui = "idle"
  /\ viewer' = FALSE
  /\ UNCHANGED <<ui, locals, task, status, engine, thread_vars, audio_vars>>

(* The buttons that update a viewer, and its pictures when it is scrolled, *)
(* read the memory of the engine; Viewers has what they read.              *)
ReadMemory ==
  /\ ui = "idle"
  /\ viewer
  /\ ui' = IF engine THEN "idle" ELSE "crashed"
  /\ UNCHANGED <<task, status, shell_vars, engine, thread_vars, audio_vars>>

-----------------------------------------------------------------------------
(* The end of main. *)

(* Seeded fault: the session is the first thing main constructs. *)
SessionFirst == [emulator |-> 1, ui |-> 2, joypad |-> 3, audio |-> 4, serial |-> 5]

(* The locals of main in the order it constructs them. *)
Constructed == [ui |-> 1, joypad |-> 2, audio |-> 3, serial |-> 4, emulator |-> 5]

IsAlive(local) == Constructed[local] <= locals

(* The window is closed and the event loop returns; the session runs on.   *)
Quit ==
  /\ ui = "idle"
  /\ ui' = "unwind"
  /\ task' = "quit"
  /\ UNCHANGED <<status, shell_vars, engine, thread_vars, audio_vars>>

(* The locals are destroyed, the last one first.  The destructor of        *)
(* gameboy stops the session; the others have nothing to wait for.         *)
Unwind ==
  /\ ui = "unwind"
  /\ locals > 0
  /\ IF locals = Constructed["emulator"]
     THEN ui' = "join_tick" /\ tick_thread' = AskToStop(tick_thread) /\ UNCHANGED locals
     ELSE /\ ui' = IF locals = 1 THEN "gone" ELSE "unwind"
          /\ locals' = locals - 1
          /\ UNCHANGED tick_thread
  /\ UNCHANGED <<task, status, viewer, engine, joypad_thread, in_frame,
                 in_update, samples_left, audio_vars>>

-----------------------------------------------------------------------------
(* The engine thread. *)

(* Seeded fault: the loop does not look at its stop token. *)
BeginFrameAlways ==
  /\ tick_thread # "none"
  /\ ~in_frame
  /\ in_frame' = TRUE
  /\ \E n \in 1 .. FrameSamples : samples_left' = [samples_left EXCEPT !["engine"] = n]
  /\ UNCHANGED <<ui_vars, engine, tick_thread, joypad_thread, in_update, audio_vars>>

BeginFrame ==
  /\ tick_thread = "running"
  /\ ~in_frame
  /\ in_frame' = TRUE
  /\ \E n \in 1 .. FrameSamples : samples_left' = [samples_left EXCEPT !["engine"] = n]
  /\ UNCHANGED <<ui_vars, engine, tick_thread, joypad_thread, in_update, audio_vars>>

EndFrame ==
  /\ in_frame
  /\ samples_left["engine"] = 0
  /\ in_frame' = FALSE
  /\ UNCHANGED <<ui_vars, engine, tick_thread, joypad_thread, in_update, samples_left,
                 audio_vars>>

(* The stop is seen between frames only. *)
ExitTick ==
  /\ tick_thread = "stopping"
  /\ ~in_frame
  /\ tick_thread' = "none"
  /\ UNCHANGED <<ui_vars, engine, joypad_thread, in_frame, in_update, samples_left, audio_vars>>

(* audio_device::write, called by engine::tick for every sample: the       *)
(* queue takes what it has room for.                                       *)
Write(ticker) ==
  /\ samples_left[ticker] > 0
  /\ samples_left' = [samples_left EXCEPT ![ticker] = @ - 1]
  /\ buffer' = IF buffer \in {NoBuffer, Capacity} THEN buffer ELSE buffer + 1
  /\ UNCHANGED <<ui_vars, engine, tick_thread, joypad_thread, in_frame, in_update, sink,
                 callback>>

-----------------------------------------------------------------------------
(* The joypad thread. *)

BeginUpdate ==
  /\ joypad_thread = "running"
  /\ ~in_update
  /\ in_update' = TRUE
  /\ UNCHANGED <<ui_vars, engine, tick_thread, joypad_thread, in_frame, samples_left,
                 audio_vars>>

EndUpdate ==
  /\ in_update
  /\ in_update' = FALSE
  /\ UNCHANGED <<ui_vars, engine, tick_thread, joypad_thread, in_frame, samples_left,
                 audio_vars>>

ExitJoypad ==
  /\ joypad_thread = "stopping"
  /\ ~in_update
  /\ joypad_thread' = "none"
  /\ UNCHANGED <<ui_vars, engine, tick_thread, in_frame, in_update, samples_left, audio_vars>>

-----------------------------------------------------------------------------
(* The thread of the audio library, as audio_device uses it: it calls back *)
(* while the sink is active, and a callback may still run when the sink is *)
(* suspended.                                                              *)
BeginCallback ==
  /\ sink = "active"
  /\ ~callback
  /\ callback' = TRUE
  /\ UNCHANGED <<ui_vars, engine, thread_vars, sink, buffer>>

EndCallback ==
  /\ callback
  /\ buffer' \in 0 .. buffer
  /\ callback' = FALSE
  /\ UNCHANGED <<ui_vars, engine, thread_vars, sink>>

-----------------------------------------------------------------------------
(* gameboy's members at construction. *)
Init ==
  /\ ui = "idle"
  /\ locals = 5
  /\ task = "stop"
  /\ status = "Stopped"
  /\ viewer = FALSE
  /\ engine = FALSE
  /\ tick_thread = "none"
  /\ joypad_thread = "none"
  /\ in_frame = FALSE
  /\ in_update = FALSE
  /\ samples_left = [ticker \in Tickers |-> 0]
  /\ sink = "none"
  /\ buffer = NoBuffer
  /\ callback = FALSE

(* What the UI thread does on its own once an operation has begun. *)
UiStep ==
  \/ JoinTick \/ JoinJoypad \/ CloseSink \/ Release
  \/ CreateEngine \/ RejectRom \/ Unwind
  \/ StepFrame \/ Write("ui") \/ StepFrameEnd

UserInput ==
  \/ \E operation \in {"pause", "stop", "load", "next"} : Begin(operation)
  \/ Resume \/ OpenViewer \/ CloseViewer \/ ReadMemory \/ Quit

EngineThread == BeginFrame \/ Write("engine") \/ EndFrame \/ ExitTick
JoypadThread == BeginUpdate \/ EndUpdate \/ ExitJoypad

Next == UiStep \/ UserInput \/ EngineThread \/ JoypadThread \/ BeginCallback \/ EndCallback

(* The operating system runs every thread; a callback ends.  The user need *)
(* do nothing, and the audio library need not call back.                   *)
Spec ==
  /\ Init /\ [][Next]_vars
  /\ WF_vars(UiStep) /\ WF_vars(EngineThread) /\ WF_vars(JoypadThread) /\ WF_vars(EndCallback)

-----------------------------------------------------------------------------
(* Types; the queue never holds more than its capacity. *)
TypeOK ==
  /\ ui \in {"idle", "join_tick", "join_joypad", "close", "release", "create", "step",
             "stepping", "unwind", "crashed", "gone"}
  /\ locals \in 0 .. 5
  /\ task \in {"pause", "stop", "load", "next", "quit"}
  /\ status \in {"Stopped", "Paused", "Running"}
  /\ viewer \in BOOLEAN
  /\ engine \in BOOLEAN
  /\ tick_thread \in {"none", "running", "stopping"}
  /\ joypad_thread \in {"none", "running", "stopping"}
  /\ in_frame \in BOOLEAN
  /\ in_update \in BOOLEAN
  /\ samples_left \in [Tickers -> 0 .. FrameSamples]
  /\ sink \in {"none", "active", "suspended"}
  /\ buffer \in {NoBuffer} \cup 0 .. Capacity
  /\ callback \in BOOLEAN

(* engine::tick is not meant for two threads: while the UI thread steps a  *)
(* frame the engine thread is not in one.                                  *)
OneTicker == ~(ui = "stepping" /\ in_frame)

(* The threads dereference gameboy::engine without asking: it is released  *)
(* only when neither is inside it.                                         *)
EngineOutlivesThreads == in_frame \/ in_update => engine

(* The callback reads *buffer without asking: close releases the sink,     *)
(* which waits for it, before the buffer, and open makes the buffer before *)
(* it starts the sink.                                                     *)
CallbackHasBuffer == callback \/ sink # "none" => buffer # NoBuffer

(* Between two operations the status shown, the two threads, the engine    *)
(* and the sound say the same.                                             *)
StatusIsTrue ==
  ui = "idle" =>
    /\ status = "Stopped" => /\ ~engine /\ sink = "none" /\ buffer = NoBuffer
                             /\ tick_thread = "none" /\ joypad_thread = "none"
    /\ status = "Paused"  => /\ engine /\ sink = "suspended"
                             /\ tick_thread = "none" /\ joypad_thread = "none"
    /\ status = "Running" => /\ engine /\ sink = "active"
                             /\ tick_thread = "running" /\ joypad_thread = "running"

(* Every operation of the interface returns: no join waits for ever. *)
UiReturns == ui # "idle" ~> ui \in {"idle", "crashed", "gone"}

(* Whatever a thread uses is there until the thread is joined, also when   *)
(* main unwinds: the engine thread writes frames to ui, samples to audio   *)
(* and bytes to serial, the joypad thread reads joypad, the callback reads *)
(* the buffer of audio, and both threads belong to emulator.               *)
UsedIsAlive ==
  /\ EngineOutlivesThreads
  /\ CallbackHasBuffer
  /\ tick_thread # "none" \/ joypad_thread # "none" => IsAlive("emulator")
  /\ in_frame => IsAlive("ui") /\ IsAlive("audio") /\ IsAlive("serial")
  /\ in_update => IsAlive("joypad")
  /\ callback \/ sink # "none" => IsAlive("audio")

(* The interface keeps everything that needs a ROM for the states that     *)
(* have one; only a viewer that outlives its session finds no engine.      *)
OnlyViewersMissTheEngine == ui = "crashed" => viewer /\ status = "Stopped" /\ ~engine

(* What the parts that share the engine see of the session. *)
ContractMode ==
  CASE ui = "idle" -> status
    [] ui = "unwind" /\ locals = 5 -> "leaving"
    [] ui \in {"crashed", "gone"} -> ui
    [] OTHER -> "busy"
ContractTicking ==
  {ticker \in Tickers : IF ticker = "engine" THEN in_frame ELSE ui = "stepping"}

Contract == INSTANCE SessionContract WITH mode <- ContractMode, ticking <- ContractTicking

(* Whoever shares the engine with the session may rely on the contract:    *)
(* Session implements SessionContract.                                     *)
ImplementsContract == Contract!Spec
==============================================================================
