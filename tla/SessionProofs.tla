----------------------------- MODULE SessionProofs -----------------------------
(***************************************************************************)
(* Proofs about Session, for every size of the audio buffer and of a       *)
(* frame: its invariants, and that it implements SessionContract; and      *)
(* about SessionSound, for every set of volumes.                           *)
(***************************************************************************)
EXTENDS SessionSound, TLAPS

(* Where the UI thread has joined a thread, that thread is gone; where it  *)
(* waits for one, the thread was asked to stop.                            *)
Joined ==
  /\ in_frame => tick_thread # "none"
  /\ in_update => joypad_thread # "none"
  /\ ui \notin {"idle", "join_tick", "unwind"} => tick_thread = "none"
  /\ ui \notin {"idle", "join_tick", "join_joypad", "unwind"} => joypad_thread = "none"
  /\ ui \in {"idle", "unwind"} => tick_thread # "stopping" /\ joypad_thread # "stopping"
  /\ ui = "join_tick" => tick_thread # "running"

(* The engine, the sink and the buffer come and go together, but for the   *)
(* steps of stop and load_rom that replace them.                           *)
Resources ==
  /\ tick_thread # "none" \/ joypad_thread # "none" => engine
  /\ callback => sink # "none"
  /\ sink # "none" => buffer # NoBuffer
  /\ ui = "release" => sink = "none"
  /\ ui = "create" => ~engine /\ sink = "none" /\ buffer = NoBuffer
  /\ ui \notin {"release", "create"} => (engine <=> sink # "none")
  /\ ~engine /\ ui # "release" => buffer = NoBuffer

(* Main destroys its locals one by one; when the session is destroyed it   *)
(* is stopped as well.                                                     *)
Quitting ==
  /\ locals < 5 => /\ ui \in {"unwind", "gone"} /\ tick_thread = "none"
                   /\ joypad_thread = "none" /\ ~engine
  /\ ui = "gone" => locals < 5
  /\ ui \in {"close", "release"} => task \in {"stop", "load", "quit"}
  /\ ui = "unwind" => task = "quit"
  /\ task = "quit" => ui \notin {"idle", "create", "step", "stepping", "crashed"}

(* What the interface shows between operations, and after the pause that   *)
(* comes before a step.                                                    *)
Shown ==
  /\ StatusIsTrue
  /\ ui \in {"step", "stepping"} =>
       /\ engine => status = "Paused" /\ sink = "suspended"
       /\ ~engine => status = "Stopped"
  /\ ui = "stepping" => engine
  /\ ui = "step" \/ (task = "next" /\ ui \in {"join_tick", "join_joypad"}) => viewer
  /\ OnlyViewersMissTheEngine

IInv == TypeOK /\ Joined /\ Resources /\ Quitting /\ Shown

-----------------------------------------------------------------------------
LEMMA InitIInv == Init => IInv
<1>1. SUFFICES ASSUME Init PROVE IInv
  OBVIOUS
<1>2. /\ samples_left \in [Tickers -> 0 .. FrameSamples]
      /\ buffer \in {NoBuffer} \cup 0 .. Capacity
  BY <1>1, FrameSamplesAssumption DEF Init
<1>3. TypeOK
  <2>1. locals \in 0 .. 5
    BY <1>1 DEF Init
  <2>2. QED
    BY <1>1, <1>2, <2>1 DEF Init, TypeOK
<1>4. Joined /\ Resources /\ Quitting /\ Shown
  BY <1>1 DEF Init, Joined, Resources, Quitting, Shown, StatusIsTrue,
     OnlyViewersMissTheEngine
<1>5. QED
  BY <1>3, <1>4 DEF IInv

(* The operations that begin and the joins. *)
LEMMA BeginKeepsIInv ==
  ASSUME IInv, NEW operation \in {"pause", "stop", "load", "next"}, Begin(operation)
  PROVE  IInv'
<1>1. TypeOK'
  BY DEF Begin, AskToStop, audio_vars, shell_vars, IInv, TypeOK, Joined, Resources,
         Quitting, Shown, StatusIsTrue, OnlyViewersMissTheEngine
<1>2. Joined'
  BY DEF Begin, AskToStop, audio_vars, shell_vars, IInv, TypeOK, Joined, Resources,
         Quitting, Shown, StatusIsTrue, OnlyViewersMissTheEngine
<1>3. Resources'
  BY DEF Begin, AskToStop, audio_vars, shell_vars, IInv, TypeOK, Joined, Resources,
         Quitting, Shown, StatusIsTrue, OnlyViewersMissTheEngine
<1>4. Quitting'
  BY DEF Begin, AskToStop, audio_vars, shell_vars, IInv, TypeOK, Joined, Resources,
         Quitting, Shown, StatusIsTrue, OnlyViewersMissTheEngine
<1>5. Shown'
  BY DEF Begin, AskToStop, audio_vars, shell_vars, IInv, TypeOK, Joined, Resources,
         Quitting, Shown, StatusIsTrue, OnlyViewersMissTheEngine
<1>6. QED
  BY <1>1, <1>2, <1>3, <1>4, <1>5 DEF IInv

LEMMA JoinTickKeepsIInv == ASSUME IInv, JoinTick PROVE IInv'
<1>1. TypeOK'
  BY DEF JoinTick, AskToStop, audio_vars, shell_vars, IInv, TypeOK, Joined,
         Resources, Quitting, Shown, StatusIsTrue, OnlyViewersMissTheEngine
<1>2. Joined'
  BY DEF JoinTick, AskToStop, audio_vars, shell_vars, IInv, TypeOK, Joined,
         Resources, Quitting, Shown, StatusIsTrue, OnlyViewersMissTheEngine
<1>3. Resources'
  BY DEF JoinTick, AskToStop, audio_vars, shell_vars, IInv, TypeOK, Joined,
         Resources, Quitting, Shown, StatusIsTrue, OnlyViewersMissTheEngine
<1>4. Quitting'
  BY DEF JoinTick, AskToStop, audio_vars, shell_vars, IInv, TypeOK, Joined,
         Resources, Quitting, Shown, StatusIsTrue, OnlyViewersMissTheEngine
<1>5. Shown'
  BY DEF JoinTick, AskToStop, audio_vars, shell_vars, IInv, TypeOK, Joined,
         Resources, Quitting, Shown, StatusIsTrue, OnlyViewersMissTheEngine
<1>6. QED
  BY <1>1, <1>2, <1>3, <1>4, <1>5 DEF IInv

LEMMA JoinJoypadKeepsIInv == ASSUME IInv, JoinJoypad PROVE IInv'
<1>1. TypeOK'
  BY DEF JoinJoypad, current_status, thread_vars, shell_vars, IInv, TypeOK, Joined,
         Resources, Quitting, Shown, StatusIsTrue, OnlyViewersMissTheEngine
<1>2. Joined'
  BY DEF JoinJoypad, current_status, thread_vars, shell_vars, IInv, TypeOK, Joined,
         Resources, Quitting, Shown, StatusIsTrue, OnlyViewersMissTheEngine
<1>3. Resources'
  BY DEF JoinJoypad, current_status, thread_vars, shell_vars, IInv, TypeOK, Joined,
         Resources, Quitting, Shown, StatusIsTrue, OnlyViewersMissTheEngine
<1>4. Quitting'
  BY DEF JoinJoypad, current_status, thread_vars, shell_vars, IInv, TypeOK, Joined,
         Resources, Quitting, Shown, StatusIsTrue, OnlyViewersMissTheEngine
<1>5. Shown'
  BY DEF JoinJoypad, current_status, thread_vars, shell_vars, IInv, TypeOK, Joined,
         Resources, Quitting, Shown, StatusIsTrue, OnlyViewersMissTheEngine
<1>6. QED
  BY <1>1, <1>2, <1>3, <1>4, <1>5 DEF IInv

(* The steps of stop and load_rom. *)
LEMMA CloseSinkKeepsIInv == ASSUME IInv, CloseSink PROVE IInv'
<1>1. TypeOK'
  BY DEF CloseSink, thread_vars, shell_vars, IInv, TypeOK, Joined, Resources,
         Quitting, Shown, StatusIsTrue, OnlyViewersMissTheEngine
<1>2. Joined'
  BY DEF CloseSink, thread_vars, shell_vars, IInv, TypeOK, Joined, Resources,
         Quitting, Shown, StatusIsTrue, OnlyViewersMissTheEngine
<1>3. Resources'
  BY DEF CloseSink, thread_vars, shell_vars, IInv, TypeOK, Joined, Resources,
         Quitting, Shown, StatusIsTrue, OnlyViewersMissTheEngine
<1>4. Quitting'
  BY DEF CloseSink, thread_vars, shell_vars, IInv, TypeOK, Joined, Resources,
         Quitting, Shown, StatusIsTrue, OnlyViewersMissTheEngine
<1>5. Shown'
  BY DEF CloseSink, thread_vars, shell_vars, IInv, TypeOK, Joined, Resources,
         Quitting, Shown, StatusIsTrue, OnlyViewersMissTheEngine
<1>6. QED
  BY <1>1, <1>2, <1>3, <1>4, <1>5 DEF IInv

LEMMA ReleaseKeepsIInv == ASSUME IInv, Release PROVE IInv'
<1>1. TypeOK'
  <2>1. locals = 5
    BY DEF Release, IInv, TypeOK, Quitting
  <2>2. locals' \in 0 .. 5
    BY <2>1 DEF Release
  <2>3. QED
    BY <2>2, ZenonT(60) DEF Release, current_status, NoBuffer, thread_vars, IInv, TypeOK
<1>2. Joined'
  BY DEF Release, current_status, NoBuffer, thread_vars, IInv, TypeOK, Joined,
         Resources, Quitting, Shown, StatusIsTrue, OnlyViewersMissTheEngine
<1>3. Resources'
  BY DEF Release, current_status, NoBuffer, thread_vars, IInv, TypeOK, Joined,
         Resources, Quitting, Shown, StatusIsTrue, OnlyViewersMissTheEngine
<1>4. Quitting'
  BY DEF Release, current_status, NoBuffer, thread_vars, IInv, TypeOK, Joined,
         Resources, Quitting, Shown, StatusIsTrue, OnlyViewersMissTheEngine
<1>5. Shown'
  BY DEF Release, current_status, NoBuffer, thread_vars, IInv, TypeOK, Joined,
         Resources, Quitting, Shown, StatusIsTrue, OnlyViewersMissTheEngine
<1>6. QED
  BY <1>1, <1>2, <1>3, <1>4, <1>5 DEF IInv

LEMMA CreateEngineKeepsIInv == ASSUME IInv, CreateEngine PROVE IInv'
<1>1. TypeOK'
  BY CapacityAssumption DEF CreateEngine, current_status, StartThreads, NoBuffer, shell_vars, IInv,
         TypeOK, Joined, Resources, Quitting, Shown, StatusIsTrue,
         OnlyViewersMissTheEngine
<1>2. Joined'
  BY CapacityAssumption DEF CreateEngine, current_status, StartThreads, NoBuffer, shell_vars, IInv,
         TypeOK, Joined, Resources, Quitting, Shown, StatusIsTrue,
         OnlyViewersMissTheEngine
<1>3. Resources'
  BY CapacityAssumption DEF CreateEngine, current_status, StartThreads, NoBuffer, shell_vars, IInv,
         TypeOK, Joined, Resources, Quitting, Shown, StatusIsTrue,
         OnlyViewersMissTheEngine
<1>4. Quitting'
  BY CapacityAssumption DEF CreateEngine, current_status, StartThreads, NoBuffer, shell_vars, IInv,
         TypeOK, Joined, Resources, Quitting, Shown, StatusIsTrue,
         OnlyViewersMissTheEngine
<1>5. Shown'
  BY CapacityAssumption DEF CreateEngine, current_status, StartThreads, NoBuffer, shell_vars, IInv,
         TypeOK, Joined, Resources, Quitting, Shown, StatusIsTrue,
         OnlyViewersMissTheEngine
<1>6. QED
  BY <1>1, <1>2, <1>3, <1>4, <1>5 DEF IInv

LEMMA RejectRomKeepsIInv == ASSUME IInv, RejectRom PROVE IInv'
<1>1. TypeOK'
  BY DEF RejectRom, current_status, thread_vars, audio_vars, shell_vars, IInv,
         TypeOK, Joined, Resources, Quitting, Shown, StatusIsTrue,
         OnlyViewersMissTheEngine
<1>2. Joined'
  BY DEF RejectRom, current_status, thread_vars, audio_vars, shell_vars, IInv,
         TypeOK, Joined, Resources, Quitting, Shown, StatusIsTrue,
         OnlyViewersMissTheEngine
<1>3. Resources'
  BY DEF RejectRom, current_status, thread_vars, audio_vars, shell_vars, IInv,
         TypeOK, Joined, Resources, Quitting, Shown, StatusIsTrue,
         OnlyViewersMissTheEngine
<1>4. Quitting'
  BY DEF RejectRom, current_status, thread_vars, audio_vars, shell_vars, IInv,
         TypeOK, Joined, Resources, Quitting, Shown, StatusIsTrue,
         OnlyViewersMissTheEngine
<1>5. Shown'
  BY DEF RejectRom, current_status, thread_vars, audio_vars, shell_vars, IInv,
         TypeOK, Joined, Resources, Quitting, Shown, StatusIsTrue,
         OnlyViewersMissTheEngine
<1>6. QED
  BY <1>1, <1>2, <1>3, <1>4, <1>5 DEF IInv

LEMMA ResumeKeepsIInv == ASSUME IInv, Resume PROVE IInv'
<1>1. TypeOK'
  BY DEF Resume, current_status, StartThreads, thread_vars, shell_vars, IInv,
         TypeOK, Joined, Resources, Quitting, Shown, StatusIsTrue,
         OnlyViewersMissTheEngine
<1>2. Joined'
  BY DEF Resume, current_status, StartThreads, thread_vars, shell_vars, IInv,
         TypeOK, Joined, Resources, Quitting, Shown, StatusIsTrue,
         OnlyViewersMissTheEngine
<1>3. Resources'
  BY DEF Resume, current_status, StartThreads, thread_vars, shell_vars, IInv,
         TypeOK, Joined, Resources, Quitting, Shown, StatusIsTrue,
         OnlyViewersMissTheEngine
<1>4. Quitting'
  BY DEF Resume, current_status, StartThreads, thread_vars, shell_vars, IInv,
         TypeOK, Joined, Resources, Quitting, Shown, StatusIsTrue,
         OnlyViewersMissTheEngine
<1>5. Shown'
  BY DEF Resume, current_status, StartThreads, thread_vars, shell_vars, IInv,
         TypeOK, Joined, Resources, Quitting, Shown, StatusIsTrue,
         OnlyViewersMissTheEngine
<1>6. QED
  BY <1>1, <1>2, <1>3, <1>4, <1>5 DEF IInv

(* The step of one frame, and the viewer that offers it. *)
LEMMA StepFrameKeepsIInv == ASSUME IInv, StepFrame PROVE IInv'
<1>1. TypeOK'
  BY DEF StepFrame, Tickers, audio_vars, shell_vars, IInv, TypeOK, Joined,
         Resources, Quitting, Shown, StatusIsTrue, OnlyViewersMissTheEngine
<1>2. Joined'
  BY DEF StepFrame, Tickers, audio_vars, shell_vars, IInv, TypeOK, Joined,
         Resources, Quitting, Shown, StatusIsTrue, OnlyViewersMissTheEngine
<1>3. Resources'
  BY DEF StepFrame, Tickers, audio_vars, shell_vars, IInv, TypeOK, Joined,
         Resources, Quitting, Shown, StatusIsTrue, OnlyViewersMissTheEngine
<1>4. Quitting'
  BY DEF StepFrame, Tickers, audio_vars, shell_vars, IInv, TypeOK, Joined,
         Resources, Quitting, Shown, StatusIsTrue, OnlyViewersMissTheEngine
<1>5. Shown'
  BY DEF StepFrame, Tickers, audio_vars, shell_vars, IInv, TypeOK, Joined,
         Resources, Quitting, Shown, StatusIsTrue, OnlyViewersMissTheEngine
<1>6. QED
  BY <1>1, <1>2, <1>3, <1>4, <1>5 DEF IInv

LEMMA StepFrameEndKeepsIInv == ASSUME IInv, StepFrameEnd PROVE IInv'
<1>1. TypeOK'
  BY DEF StepFrameEnd, thread_vars, audio_vars, shell_vars, IInv, TypeOK, Joined,
         Resources, Quitting, Shown, StatusIsTrue, OnlyViewersMissTheEngine
<1>2. Joined'
  BY DEF StepFrameEnd, thread_vars, audio_vars, shell_vars, IInv, TypeOK, Joined,
         Resources, Quitting, Shown, StatusIsTrue, OnlyViewersMissTheEngine
<1>3. Resources'
  BY DEF StepFrameEnd, thread_vars, audio_vars, shell_vars, IInv, TypeOK, Joined,
         Resources, Quitting, Shown, StatusIsTrue, OnlyViewersMissTheEngine
<1>4. Quitting'
  BY DEF StepFrameEnd, thread_vars, audio_vars, shell_vars, IInv, TypeOK, Joined,
         Resources, Quitting, Shown, StatusIsTrue, OnlyViewersMissTheEngine
<1>5. Shown'
  BY DEF StepFrameEnd, thread_vars, audio_vars, shell_vars, IInv, TypeOK, Joined,
         Resources, Quitting, Shown, StatusIsTrue, OnlyViewersMissTheEngine
<1>6. QED
  BY <1>1, <1>2, <1>3, <1>4, <1>5 DEF IInv

LEMMA OpenViewerKeepsIInv == ASSUME IInv, OpenViewer PROVE IInv'
<1>1. TypeOK'
  BY DEF OpenViewer, thread_vars, audio_vars, IInv, TypeOK, Joined, Resources,
         Quitting, Shown, StatusIsTrue, OnlyViewersMissTheEngine
<1>2. Joined'
  BY DEF OpenViewer, thread_vars, audio_vars, IInv, TypeOK, Joined, Resources,
         Quitting, Shown, StatusIsTrue, OnlyViewersMissTheEngine
<1>3. Resources'
  BY DEF OpenViewer, thread_vars, audio_vars, IInv, TypeOK, Joined, Resources,
         Quitting, Shown, StatusIsTrue, OnlyViewersMissTheEngine
<1>4. Quitting'
  BY DEF OpenViewer, thread_vars, audio_vars, IInv, TypeOK, Joined, Resources,
         Quitting, Shown, StatusIsTrue, OnlyViewersMissTheEngine
<1>5. Shown'
  BY DEF OpenViewer, thread_vars, audio_vars, IInv, TypeOK, Joined, Resources,
         Quitting, Shown, StatusIsTrue, OnlyViewersMissTheEngine
<1>6. QED
  BY <1>1, <1>2, <1>3, <1>4, <1>5 DEF IInv

LEMMA CloseViewerKeepsIInv == ASSUME IInv, CloseViewer PROVE IInv'
<1>1. TypeOK'
  BY DEF CloseViewer, thread_vars, audio_vars, IInv, TypeOK, Joined, Resources,
         Quitting, Shown, StatusIsTrue, OnlyViewersMissTheEngine
<1>2. Joined'
  BY DEF CloseViewer, thread_vars, audio_vars, IInv, TypeOK, Joined, Resources,
         Quitting, Shown, StatusIsTrue, OnlyViewersMissTheEngine
<1>3. Resources'
  BY DEF CloseViewer, thread_vars, audio_vars, IInv, TypeOK, Joined, Resources,
         Quitting, Shown, StatusIsTrue, OnlyViewersMissTheEngine
<1>4. Quitting'
  BY DEF CloseViewer, thread_vars, audio_vars, IInv, TypeOK, Joined, Resources,
         Quitting, Shown, StatusIsTrue, OnlyViewersMissTheEngine
<1>5. Shown'
  BY DEF CloseViewer, thread_vars, audio_vars, IInv, TypeOK, Joined, Resources,
         Quitting, Shown, StatusIsTrue, OnlyViewersMissTheEngine
<1>6. QED
  BY <1>1, <1>2, <1>3, <1>4, <1>5 DEF IInv

LEMMA ReadMemoryKeepsIInv == ASSUME IInv, ReadMemory PROVE IInv'
<1>1. TypeOK'
  BY DEF ReadMemory, thread_vars, audio_vars, shell_vars, IInv, TypeOK, Joined,
         Resources, Quitting, Shown, StatusIsTrue, OnlyViewersMissTheEngine
<1>2. Joined'
  BY DEF ReadMemory, thread_vars, audio_vars, shell_vars, IInv, TypeOK, Joined,
         Resources, Quitting, Shown, StatusIsTrue, OnlyViewersMissTheEngine
<1>3. Resources'
  BY DEF ReadMemory, thread_vars, audio_vars, shell_vars, IInv, TypeOK, Joined,
         Resources, Quitting, Shown, StatusIsTrue, OnlyViewersMissTheEngine
<1>4. Quitting'
  BY DEF ReadMemory, thread_vars, audio_vars, shell_vars, IInv, TypeOK, Joined,
         Resources, Quitting, Shown, StatusIsTrue, OnlyViewersMissTheEngine
<1>5. Shown'
  BY DEF ReadMemory, thread_vars, audio_vars, shell_vars, IInv, TypeOK, Joined,
         Resources, Quitting, Shown, StatusIsTrue, OnlyViewersMissTheEngine
<1>6. QED
  BY <1>1, <1>2, <1>3, <1>4, <1>5 DEF IInv

(* The end of main. *)
LEMMA QuitKeepsIInv == ASSUME IInv, Quit PROVE IInv'
<1>1. TypeOK'
  BY DEF Quit, thread_vars, audio_vars, shell_vars, IInv, TypeOK, Joined, Resources,
         Quitting, Shown, StatusIsTrue, OnlyViewersMissTheEngine
<1>2. Joined'
  BY DEF Quit, thread_vars, audio_vars, shell_vars, IInv, TypeOK, Joined, Resources,
         Quitting, Shown, StatusIsTrue, OnlyViewersMissTheEngine
<1>3. Resources'
  BY DEF Quit, thread_vars, audio_vars, shell_vars, IInv, TypeOK, Joined, Resources,
         Quitting, Shown, StatusIsTrue, OnlyViewersMissTheEngine
<1>4. Quitting'
  BY DEF Quit, thread_vars, audio_vars, shell_vars, IInv, TypeOK, Joined, Resources,
         Quitting, Shown, StatusIsTrue, OnlyViewersMissTheEngine
<1>5. Shown'
  BY DEF Quit, thread_vars, audio_vars, shell_vars, IInv, TypeOK, Joined, Resources,
         Quitting, Shown, StatusIsTrue, OnlyViewersMissTheEngine
<1>6. QED
  BY <1>1, <1>2, <1>3, <1>4, <1>5 DEF IInv

LEMMA UnwindKeepsIInv == ASSUME IInv, Unwind PROVE IInv'
<1>1. TypeOK'
  BY DEF Unwind, Constructed, AskToStop, audio_vars, IInv, TypeOK, Joined,
         Resources, Quitting, Shown, StatusIsTrue, OnlyViewersMissTheEngine
<1>2. Joined'
  BY DEF Unwind, Constructed, AskToStop, audio_vars, IInv, TypeOK, Joined,
         Resources, Quitting, Shown, StatusIsTrue, OnlyViewersMissTheEngine
<1>3. Resources'
  BY DEF Unwind, Constructed, AskToStop, audio_vars, IInv, TypeOK, Joined,
         Resources, Quitting, Shown, StatusIsTrue, OnlyViewersMissTheEngine
<1>4. Quitting'
  BY DEF Unwind, Constructed, AskToStop, audio_vars, IInv, TypeOK, Joined,
         Resources, Quitting, Shown, StatusIsTrue, OnlyViewersMissTheEngine
<1>5. Shown'
  BY DEF Unwind, Constructed, AskToStop, audio_vars, IInv, TypeOK, Joined,
         Resources, Quitting, Shown, StatusIsTrue, OnlyViewersMissTheEngine
<1>6. QED
  BY <1>1, <1>2, <1>3, <1>4, <1>5 DEF IInv

(* The other threads. *)
LEMMA BeginFrameKeepsIInv == ASSUME IInv, BeginFrame PROVE IInv'
<1>1. TypeOK'
  BY DEF BeginFrame, Tickers, audio_vars, ui_vars, shell_vars, IInv, TypeOK, Joined,
         Resources, Quitting, Shown, StatusIsTrue, OnlyViewersMissTheEngine
<1>2. Joined'
  BY DEF BeginFrame, Tickers, audio_vars, ui_vars, shell_vars, IInv, TypeOK, Joined,
         Resources, Quitting, Shown, StatusIsTrue, OnlyViewersMissTheEngine
<1>3. Resources'
  BY DEF BeginFrame, Tickers, audio_vars, ui_vars, shell_vars, IInv, TypeOK, Joined,
         Resources, Quitting, Shown, StatusIsTrue, OnlyViewersMissTheEngine
<1>4. Quitting'
  BY DEF BeginFrame, Tickers, audio_vars, ui_vars, shell_vars, IInv, TypeOK, Joined,
         Resources, Quitting, Shown, StatusIsTrue, OnlyViewersMissTheEngine
<1>5. Shown'
  BY DEF BeginFrame, Tickers, audio_vars, ui_vars, shell_vars, IInv, TypeOK, Joined,
         Resources, Quitting, Shown, StatusIsTrue, OnlyViewersMissTheEngine
<1>6. QED
  BY <1>1, <1>2, <1>3, <1>4, <1>5 DEF IInv

LEMMA EndFrameKeepsIInv == ASSUME IInv, EndFrame PROVE IInv'
<1>1. TypeOK'
  BY ZenonT(60) DEF EndFrame, audio_vars, ui_vars, shell_vars, IInv, TypeOK, Joined, Resources,
         Quitting, Shown, StatusIsTrue, OnlyViewersMissTheEngine
<1>2. Joined'
  BY DEF EndFrame, audio_vars, ui_vars, shell_vars, IInv, TypeOK, Joined, Resources,
         Quitting, Shown, StatusIsTrue, OnlyViewersMissTheEngine
<1>3. Resources'
  BY DEF EndFrame, audio_vars, ui_vars, shell_vars, IInv, TypeOK, Joined, Resources,
         Quitting, Shown, StatusIsTrue, OnlyViewersMissTheEngine
<1>4. Quitting'
  BY DEF EndFrame, audio_vars, ui_vars, shell_vars, IInv, TypeOK, Joined, Resources,
         Quitting, Shown, StatusIsTrue, OnlyViewersMissTheEngine
<1>5. Shown'
  BY DEF EndFrame, audio_vars, ui_vars, shell_vars, IInv, TypeOK, Joined, Resources,
         Quitting, Shown, StatusIsTrue, OnlyViewersMissTheEngine
<1>6. QED
  BY <1>1, <1>2, <1>3, <1>4, <1>5 DEF IInv

LEMMA ExitTickKeepsIInv == ASSUME IInv, ExitTick PROVE IInv'
<1>1. TypeOK'
  BY DEF ExitTick, audio_vars, ui_vars, shell_vars, IInv, TypeOK, Joined, Resources,
         Quitting, Shown, StatusIsTrue, OnlyViewersMissTheEngine
<1>2. Joined'
  BY DEF ExitTick, audio_vars, ui_vars, shell_vars, IInv, TypeOK, Joined, Resources,
         Quitting, Shown, StatusIsTrue, OnlyViewersMissTheEngine
<1>3. Resources'
  BY DEF ExitTick, audio_vars, ui_vars, shell_vars, IInv, TypeOK, Joined, Resources,
         Quitting, Shown, StatusIsTrue, OnlyViewersMissTheEngine
<1>4. Quitting'
  BY DEF ExitTick, audio_vars, ui_vars, shell_vars, IInv, TypeOK, Joined, Resources,
         Quitting, Shown, StatusIsTrue, OnlyViewersMissTheEngine
<1>5. Shown'
  BY DEF ExitTick, audio_vars, ui_vars, shell_vars, IInv, TypeOK, Joined, Resources,
         Quitting, Shown, StatusIsTrue, OnlyViewersMissTheEngine
<1>6. QED
  BY <1>1, <1>2, <1>3, <1>4, <1>5 DEF IInv

LEMMA BeginUpdateKeepsIInv == ASSUME IInv, BeginUpdate PROVE IInv'
<1>1. TypeOK'
  BY DEF BeginUpdate, audio_vars, ui_vars, shell_vars, IInv, TypeOK, Joined,
         Resources, Quitting, Shown, StatusIsTrue, OnlyViewersMissTheEngine
<1>2. Joined'
  BY DEF BeginUpdate, audio_vars, ui_vars, shell_vars, IInv, TypeOK, Joined,
         Resources, Quitting, Shown, StatusIsTrue, OnlyViewersMissTheEngine
<1>3. Resources'
  BY DEF BeginUpdate, audio_vars, ui_vars, shell_vars, IInv, TypeOK, Joined,
         Resources, Quitting, Shown, StatusIsTrue, OnlyViewersMissTheEngine
<1>4. Quitting'
  BY DEF BeginUpdate, audio_vars, ui_vars, shell_vars, IInv, TypeOK, Joined,
         Resources, Quitting, Shown, StatusIsTrue, OnlyViewersMissTheEngine
<1>5. Shown'
  BY DEF BeginUpdate, audio_vars, ui_vars, shell_vars, IInv, TypeOK, Joined,
         Resources, Quitting, Shown, StatusIsTrue, OnlyViewersMissTheEngine
<1>6. QED
  BY <1>1, <1>2, <1>3, <1>4, <1>5 DEF IInv

LEMMA EndUpdateKeepsIInv == ASSUME IInv, EndUpdate PROVE IInv'
<1>1. TypeOK'
  BY ZenonT(60) DEF EndUpdate, audio_vars, ui_vars, shell_vars, IInv, TypeOK, Joined,
         Resources, Quitting, Shown, StatusIsTrue, OnlyViewersMissTheEngine
<1>2. Joined'
  BY DEF EndUpdate, audio_vars, ui_vars, shell_vars, IInv, TypeOK, Joined,
         Resources, Quitting, Shown, StatusIsTrue, OnlyViewersMissTheEngine
<1>3. Resources'
  BY DEF EndUpdate, audio_vars, ui_vars, shell_vars, IInv, TypeOK, Joined,
         Resources, Quitting, Shown, StatusIsTrue, OnlyViewersMissTheEngine
<1>4. Quitting'
  BY DEF EndUpdate, audio_vars, ui_vars, shell_vars, IInv, TypeOK, Joined,
         Resources, Quitting, Shown, StatusIsTrue, OnlyViewersMissTheEngine
<1>5. Shown'
  BY DEF EndUpdate, audio_vars, ui_vars, shell_vars, IInv, TypeOK, Joined,
         Resources, Quitting, Shown, StatusIsTrue, OnlyViewersMissTheEngine
<1>6. QED
  BY <1>1, <1>2, <1>3, <1>4, <1>5 DEF IInv

LEMMA ExitJoypadKeepsIInv == ASSUME IInv, ExitJoypad PROVE IInv'
<1>1. TypeOK'
  BY DEF ExitJoypad, audio_vars, ui_vars, shell_vars, IInv, TypeOK, Joined,
         Resources, Quitting, Shown, StatusIsTrue, OnlyViewersMissTheEngine
<1>2. Joined'
  BY DEF ExitJoypad, audio_vars, ui_vars, shell_vars, IInv, TypeOK, Joined,
         Resources, Quitting, Shown, StatusIsTrue, OnlyViewersMissTheEngine
<1>3. Resources'
  BY DEF ExitJoypad, audio_vars, ui_vars, shell_vars, IInv, TypeOK, Joined,
         Resources, Quitting, Shown, StatusIsTrue, OnlyViewersMissTheEngine
<1>4. Quitting'
  BY DEF ExitJoypad, audio_vars, ui_vars, shell_vars, IInv, TypeOK, Joined,
         Resources, Quitting, Shown, StatusIsTrue, OnlyViewersMissTheEngine
<1>5. Shown'
  BY DEF ExitJoypad, audio_vars, ui_vars, shell_vars, IInv, TypeOK, Joined,
         Resources, Quitting, Shown, StatusIsTrue, OnlyViewersMissTheEngine
<1>6. QED
  BY <1>1, <1>2, <1>3, <1>4, <1>5 DEF IInv

LEMMA BeginCallbackKeepsIInv == ASSUME IInv, BeginCallback PROVE IInv'
<1>1. TypeOK'
  BY DEF BeginCallback, thread_vars, ui_vars, shell_vars, IInv, TypeOK, Joined,
         Resources, Quitting, Shown, StatusIsTrue, OnlyViewersMissTheEngine
<1>2. Joined'
  BY DEF BeginCallback, thread_vars, ui_vars, shell_vars, IInv, TypeOK, Joined,
         Resources, Quitting, Shown, StatusIsTrue, OnlyViewersMissTheEngine
<1>3. Resources'
  BY DEF BeginCallback, thread_vars, ui_vars, shell_vars, IInv, TypeOK, Joined,
         Resources, Quitting, Shown, StatusIsTrue, OnlyViewersMissTheEngine
<1>4. Quitting'
  BY DEF BeginCallback, thread_vars, ui_vars, shell_vars, IInv, TypeOK, Joined,
         Resources, Quitting, Shown, StatusIsTrue, OnlyViewersMissTheEngine
<1>5. Shown'
  BY DEF BeginCallback, thread_vars, ui_vars, shell_vars, IInv, TypeOK, Joined,
         Resources, Quitting, Shown, StatusIsTrue, OnlyViewersMissTheEngine
<1>6. QED
  BY <1>1, <1>2, <1>3, <1>4, <1>5 DEF IInv

LEMMA WriteKeepsIInv ==
  ASSUME IInv, NEW ticker \in Tickers, Write(ticker)
  PROVE  IInv'
<1>1. samples_left' \in [Tickers -> 0 .. FrameSamples]
  BY FrameSamplesAssumption DEF Write, IInv, TypeOK
<1>2. buffer' \in {NoBuffer} \cup 0 .. Capacity /\ (buffer' = NoBuffer <=> buffer = NoBuffer)
  BY CapacityAssumption DEF Write, IInv, TypeOK, NoBuffer
<1>3. UNCHANGED <<ui_vars, engine, tick_thread, joypad_thread, in_frame, in_update, sink,
                  callback>>
  BY DEF Write
<1>4. TypeOK' /\ Joined' /\ Resources' /\ Quitting'
  BY <1>1, <1>2, <1>3 DEF IInv, TypeOK, Joined, Resources, Quitting, ui_vars, shell_vars
<1>5. Shown'
  BY <1>2, <1>3 DEF IInv, Shown, StatusIsTrue, OnlyViewersMissTheEngine, ui_vars, shell_vars
<1>6. QED
  BY <1>4, <1>5 DEF IInv

LEMMA EndCallbackKeepsIInv == ASSUME IInv, EndCallback PROVE IInv'
<1>1. buffer \in 0 .. Capacity /\ sink # "none"
  BY DEF EndCallback, IInv, TypeOK, Resources, NoBuffer
<1>2. buffer' \in 0 .. Capacity /\ buffer' # NoBuffer
  BY <1>1, CapacityAssumption DEF EndCallback, NoBuffer
<1>3. ui \notin {"release", "create"} /\ engine
  BY <1>1 DEF IInv, Resources
<1>4. /\ callback' = FALSE
      /\ UNCHANGED <<ui, locals, task, status, viewer, engine, tick_thread, joypad_thread>>
      /\ UNCHANGED <<in_frame, in_update, samples_left, sink>>
  BY DEF EndCallback, thread_vars, ui_vars, shell_vars
<1>5. TypeOK'
  <2>1. buffer' \in {NoBuffer} \cup 0 .. Capacity
    BY <1>2
  <2>2. callback' \in BOOLEAN
    BY <1>4
  <2>3. TypeOK
    BY DEF IInv
  <2>4. QED
    BY <1>4, <2>1, <2>2, <2>3 DEF TypeOK
<1>6. Joined' /\ Quitting'
  BY <1>4 DEF IInv, Joined, Quitting
<1>7. Resources'
  BY <1>1, <1>2, <1>3, <1>4 DEF IInv, Resources
<1>8. Shown'
  <2>1. ui = "idle" => status # "Stopped"
    BY <1>1 DEF IInv, Shown, StatusIsTrue
  <2>2. StatusIsTrue'
    BY <1>4, <2>1 DEF IInv, Shown, StatusIsTrue
  <2>3. QED
    BY <1>4, <2>2 DEF IInv, Shown, OnlyViewersMissTheEngine
<1>9. QED
  BY <1>5, <1>6, <1>7, <1>8 DEF IInv

-----------------------------------------------------------------------------
(* Every step of every thread keeps the invariant. *)
LEMMA StepKeepsIInv ==
  ASSUME IInv, [Next]_vars
  PROVE  IInv'
<1>1. CASE UiStep
  BY <1>1, JoinTickKeepsIInv, JoinJoypadKeepsIInv, CloseSinkKeepsIInv,
     ReleaseKeepsIInv, CreateEngineKeepsIInv, RejectRomKeepsIInv, UnwindKeepsIInv,
     StepFrameKeepsIInv, StepFrameEndKeepsIInv, WriteKeepsIInv
  DEF UiStep, Tickers
<1>2. CASE UserInput
  BY <1>2, BeginKeepsIInv, ResumeKeepsIInv, OpenViewerKeepsIInv,
     CloseViewerKeepsIInv, ReadMemoryKeepsIInv, QuitKeepsIInv
  DEF UserInput
<1>3. CASE EngineThread
  BY <1>3, BeginFrameKeepsIInv, EndFrameKeepsIInv, ExitTickKeepsIInv, WriteKeepsIInv
  DEF EngineThread, Tickers
<1>4. CASE JoypadThread
  BY <1>4, BeginUpdateKeepsIInv, EndUpdateKeepsIInv, ExitJoypadKeepsIInv
  DEF JoypadThread
<1>5. CASE BeginCallback \/ EndCallback
  BY <1>5, BeginCallbackKeepsIInv, EndCallbackKeepsIInv
<1>6. CASE UNCHANGED vars
  <2>1. TypeOK'
    BY <1>6 DEF vars, ui_vars, shell_vars, thread_vars, audio_vars, IInv, TypeOK
  <2>2. Joined' /\ Resources' /\ Quitting'
    BY <1>6 DEF vars, ui_vars, shell_vars, thread_vars, audio_vars,
       IInv, Joined, Resources, Quitting
  <2>3. Shown'
    BY <1>6 DEF vars, ui_vars, shell_vars, thread_vars, audio_vars,
       IInv, Shown, StatusIsTrue, OnlyViewersMissTheEngine
  <2>4. QED
    BY <2>1, <2>2, <2>3 DEF IInv
<1>7. QED
  BY <1>1, <1>2, <1>3, <1>4, <1>5, <1>6 DEF Next

(* The inductive invariant holds always. *)
THEOREM Invariance == Spec => []IInv
<1>1. IInv /\ [Next]_vars => IInv'
  BY StepKeepsIInv
<1>2. QED
  BY <1>1, InitIInv, PTL DEF Spec

(* Every variable keeps its type; the queue never exceeds its capacity. *)
THEOREM TypeCorrect == Spec => []TypeOK
<1>1. IInv => TypeOK
  BY DEF IInv
<1>2. QED
  BY <1>1, Invariance, PTL

(* The engine is never ticked by two threads. *)
THEOREM OneTickerAlways == Spec => []OneTicker
<1>1. IInv => OneTicker
  BY DEF IInv, Joined, OneTicker
<1>2. QED
  BY <1>1, Invariance, PTL

(* No thread uses an engine, a buffer or a local of main that is gone.     *)
THEOREM LocalsOutliveThreads == Spec => []UsedIsAlive
<1>1. ASSUME IInv PROVE UsedIsAlive
  <2>1. EngineOutlivesThreads /\ CallbackHasBuffer
    BY <1>1 DEF IInv, Joined, Resources, EngineOutlivesThreads, CallbackHasBuffer
  <2>2. \/ tick_thread # "none" \/ joypad_thread # "none" \/ in_frame \/ in_update
        \/ callback \/ sink # "none"
        => engine \/ ui \in {"release", "create"}
    BY <1>1 DEF IInv, Joined, Resources
  <2>3. engine \/ ui \in {"release", "create"} => locals >= 5
    BY <1>1 DEF IInv, TypeOK, Quitting
  <2>4. locals >= 5 => \A local \in {"ui", "joypad", "audio", "serial", "emulator"} :
                         IsAlive(local)
    BY <1>1 DEF IInv, TypeOK, IsAlive, Constructed
  <2>5. \/ tick_thread # "none" \/ joypad_thread # "none" \/ in_frame \/ in_update
        \/ callback \/ sink # "none"
        => /\ IsAlive("ui") /\ IsAlive("joypad") /\ IsAlive("audio")
           /\ IsAlive("serial") /\ IsAlive("emulator")
    BY <2>2, <2>3, <2>4
  <2>6. QED
    BY <2>1, <2>5 DEF UsedIsAlive
<1>2. QED
  BY <1>1, Invariance, PTL

(* The status shown agrees with the threads, the engine and the sound. *)
THEOREM StatusAgrees == Spec => []StatusIsTrue
<1>1. ASSUME IInv PROVE StatusIsTrue
  BY <1>1 DEF IInv, Shown
<1>2. QED
  BY <1>1, Invariance, PTL

(* Nothing but a viewer that outlived its session finds no engine. *)
THEOREM OthersFindTheEngine == Spec => []OnlyViewersMissTheEngine
<1>1. IInv => OnlyViewersMissTheEngine
  BY DEF IInv, Shown
<1>2. QED
  BY <1>1, Invariance, PTL
-----------------------------------------------------------------------------
(* Session implements SessionContract. *)

(* The two refined variables, state by state. *)
LEMMA ModeByState ==
  /\ ui = "idle" => ContractMode = status
  /\ ui = "unwind" /\ locals = 5 => ContractMode = "leaving"
  /\ ui = "crashed" => ContractMode = "crashed"
  /\ ui = "gone" => ContractMode = "gone"
  /\ ui \in {"join_tick", "join_joypad", "close", "release", "create", "step", "stepping"}
       => ContractMode = "busy"
  /\ ui = "unwind" /\ locals # 5 => ContractMode = "busy"
BY DEF ContractMode

LEMMA NextModeByState ==
  /\ ui' = "idle" => ContractMode' = status'
  /\ ui' = "unwind" /\ locals' = 5 => ContractMode' = "leaving"
  /\ ui' = "crashed" => ContractMode' = "crashed"
  /\ ui' = "gone" => ContractMode' = "gone"
  /\ ui' \in {"join_tick", "join_joypad", "close", "release", "create", "step", "stepping"}
       => ContractMode' = "busy"
  /\ ui' = "unwind" /\ locals' # 5 => ContractMode' = "busy"
BY DEF ContractMode

LEMMA TickingByState ==
  /\ ~in_frame /\ ui # "stepping" => ContractTicking = {}
  /\ in_frame /\ ui # "stepping" => ContractTicking = {"engine"}
  /\ ~in_frame /\ ui = "stepping" => ContractTicking = {"ui"}
BY DEF ContractTicking, Tickers

LEMMA NextTickingByState ==
  /\ ~in_frame' /\ ui' # "stepping" => ContractTicking' = {}
  /\ in_frame' /\ ui' # "stepping" => ContractTicking' = {"engine"}
  /\ ~in_frame' /\ ui' = "stepping" => ContractTicking' = {"ui"}
BY DEF ContractTicking, Tickers

(* A step that changes nothing the contract sees. *)
LEMMA Unseen ==
  ASSUME UNCHANGED <<ui, locals, status, engine, in_frame>>
  PROVE  UNCHANGED Contract!session_vars
BY DEF ContractMode, ContractTicking, Contract!session_vars

(* A step from one busy state to another. *)
LEMMA StillBusy ==
  ASSUME ContractMode = "busy", ContractMode' = "busy", UNCHANGED <<engine, in_frame>>,
         ui # "stepping", ui' # "stepping"
  PROVE  UNCHANGED Contract!session_vars
BY DEF ContractTicking, Contract!session_vars

LEMMA BeginIsAllowed ==
  ASSUME IInv, NEW operation \in {"pause", "stop", "load", "next"}, Begin(operation)
  PROVE  Contract!BeginOperation
<1>1. ContractMode \in {"Stopped", "Paused", "Running"} /\ ContractMode' = "busy"
  BY ModeByState, NextModeByState DEF Begin, IInv, TypeOK
<1>2. UNCHANGED <<engine, ContractTicking>>
  BY DEF Begin, ContractTicking
<1>3. QED
  BY <1>1, <1>2 DEF Contract!BeginOperation, Contract!Statuses

LEMMA JoinJoypadIsAllowed ==
  ASSUME IInv, JoinJoypad
  PROVE  Contract!EndOperation \/ UNCHANGED Contract!session_vars
<1>1. ~in_frame /\ ~in_frame' /\ engine' = engine
  BY DEF IInv, Joined, JoinJoypad, thread_vars
<1>2. ContractMode = "busy" /\ ContractTicking = {} /\ ContractTicking' = {}
  BY <1>1, ModeByState, TickingByState, NextTickingByState DEF JoinJoypad
<1>3. CASE task = "pause"
  <2>1. ContractMode' = IF engine THEN "Paused" ELSE "Stopped"
    <3>1. tick_thread = "none"
      BY DEF IInv, TypeOK, Joined, JoinJoypad
    <3>2. QED
      BY <1>3, <3>1, NextModeByState DEF JoinJoypad, current_status
  <2>2. QED
    BY <1>1, <1>2, <2>1 DEF Contract!EndOperation
<1>4. CASE task # "pause"
  <2>1. ui' \in {"step", "close"}
    BY <1>4 DEF JoinJoypad
  <2>2. ContractMode' = "busy"
    BY <2>1, NextModeByState
  <2>3. QED
    BY <1>1, <1>2, <2>2 DEF Contract!session_vars
<1>5. QED
  BY <1>3, <1>4

LEMMA ReleaseIsAllowed ==
  ASSUME IInv, Release
  PROVE  \/ Contract!ReleaseEngine \/ Contract!EndOperation
         \/ UNCHANGED Contract!session_vars
<1>1. ~in_frame /\ ~in_frame' /\ ~engine' /\ locals = 5
  BY DEF IInv, TypeOK, Joined, Quitting, Release, thread_vars
<1>2. task \in {"stop", "load", "quit"}
  BY DEF IInv, Quitting, Release
<1>3. ui' \in {"create", "unwind", "idle"}
  BY <1>2 DEF Release
<1>4. ContractMode = "busy" /\ ContractTicking = {} /\ ContractTicking' = {}
  BY <1>1, <1>3, ModeByState, TickingByState, NextTickingByState DEF Release
<1>5. ContractMode' = IF task = "stop" THEN "Stopped" ELSE "busy"
  <2>1. CASE task = "stop"
    BY <2>1, NextModeByState DEF Release, current_status
  <2>2. CASE task = "load"
    BY <2>2, NextModeByState DEF Release, current_status
  <2>3. CASE task = "quit"
    <3>1. ui' = "unwind" /\ locals' = 4
      BY <1>1, <2>3 DEF Release
    <3>2. QED
      BY <2>3, <3>1, NextModeByState
  <2>4. QED
    BY <1>2, <2>1, <2>2, <2>3
<1>6. CASE engine
  BY <1>1, <1>4, <1>5, <1>6 DEF Contract!ReleaseEngine
<1>7. CASE ~engine
  <2>1. engine' = engine
    BY <1>1, <1>7 DEF IInv, TypeOK, Release
  <2>2. QED
    BY <1>4, <1>5, <1>7, <2>1 DEF Contract!EndOperation, Contract!session_vars
<1>8. QED
  BY <1>6, <1>7

LEMMA CreateEngineIsAllowed == ASSUME IInv, CreateEngine PROVE Contract!StartEngine
<1>1. ~in_frame /\ ~in_frame' /\ ~engine /\ engine'
  BY DEF IInv, Joined, Resources, CreateEngine, StartThreads
<1>2. ContractMode = "busy" /\ ContractMode' = "Running"
  BY <1>1, ModeByState, NextModeByState DEF CreateEngine, StartThreads, current_status
<1>3. ContractTicking = {} /\ ContractTicking' = {}
  BY <1>1, TickingByState, NextTickingByState DEF CreateEngine
<1>4. engine' = TRUE
  BY DEF CreateEngine
<1>5. QED
  BY <1>1, <1>2, <1>3, <1>4 DEF Contract!StartEngine

LEMMA RejectRomIsAllowed == ASSUME IInv, RejectRom PROVE Contract!EndOperation
<1>1. ~in_frame /\ ~in_frame' /\ ~engine /\ engine' = engine
  BY DEF IInv, Joined, Resources, RejectRom, thread_vars
<1>2. ContractMode = "busy" /\ ContractMode' = "Stopped"
  BY <1>1, ModeByState, NextModeByState DEF RejectRom, current_status
<1>3. ContractTicking = {} /\ ContractTicking' = {}
  BY <1>1, TickingByState, NextTickingByState DEF RejectRom
<1>4. QED
  BY <1>1, <1>2, <1>3 DEF Contract!EndOperation

LEMMA UnwindIsAllowed ==
  ASSUME IInv, Unwind
  PROVE  \/ Contract!BeginOperation \/ Contract!EndOperation
         \/ UNCHANGED Contract!session_vars
<1>1. engine' = engine /\ in_frame' = in_frame /\ ui # "stepping" /\ ui' # "stepping"
  BY DEF Unwind, Constructed
<1>2. ContractTicking' = ContractTicking
  BY <1>1 DEF ContractTicking
<1>3. CASE locals = 5
  <2>1. ContractMode = "leaving" /\ ContractMode' = "busy"
    BY <1>3, ModeByState, NextModeByState DEF Unwind, Constructed
  <2>2. QED
    BY <1>1, <1>2, <2>1 DEF Contract!BeginOperation
<1>4. CASE locals # 5
  <2>1. locals' = locals - 1 /\ ~engine /\ ~in_frame
    BY <1>4 DEF IInv, TypeOK, Joined, Quitting, Unwind, Constructed
  <2>2. ContractMode = "busy" /\ ContractTicking = {}
    BY <1>1, <1>4, <2>1, ModeByState, TickingByState DEF Unwind
  <2>3. locals' # 5
    BY <1>4, <2>1 DEF IInv, TypeOK
  <2>4. CASE locals = 1
    <3>1. ContractMode' = "gone"
      BY <1>4, <2>4, NextModeByState DEF Unwind, Constructed
    <3>2. QED
      BY <1>1, <1>2, <2>1, <2>2, <3>1 DEF Contract!EndOperation
  <2>5. CASE locals # 1
    <3>1. ContractMode' = "busy"
      BY <1>4, <2>3, <2>5, NextModeByState DEF Unwind, Constructed
    <3>2. QED
      BY <1>1, <2>2, <3>1, StillBusy
  <2>6. QED
    BY <2>4, <2>5
<1>5. QED
  BY <1>3, <1>4

LEMMA StepFrameIsAllowed ==
  ASSUME IInv, StepFrame
  PROVE  Contract!BeginTick("ui") \/ Contract!EndOperation
<1>1. ~in_frame /\ ~in_frame' /\ engine' = engine
  BY DEF IInv, Joined, StepFrame
<1>2. ContractMode = "busy" /\ ContractTicking = {}
  BY <1>1, ModeByState, TickingByState DEF StepFrame
<1>3. CASE engine
  <2>1. ContractMode' = "busy" /\ ContractTicking' = {"ui"}
    BY <1>1, <1>3, NextModeByState, NextTickingByState DEF StepFrame
  <2>2. QED
    BY <1>1, <1>2, <1>3, <2>1 DEF Contract!BeginTick
<1>4. CASE ~engine
  <2>1. ContractMode' = "crashed" /\ ContractTicking' = {}
    BY <1>1, <1>4, NextModeByState, NextTickingByState DEF StepFrame
  <2>2. QED
    BY <1>1, <1>2, <1>4, <2>1 DEF Contract!EndOperation
<1>5. QED
  BY <1>3, <1>4

LEMMA StepFrameEndIsAllowed == ASSUME IInv, StepFrameEnd PROVE Contract!EndTick("ui")
<1>1. ~in_frame /\ ~in_frame' /\ engine' = engine /\ status' = status
  BY DEF IInv, Joined, StepFrameEnd, thread_vars
<1>2. status = "Paused"
  BY DEF IInv, Shown, StepFrameEnd
<1>3. ContractTicking = {"ui"} /\ ContractTicking' = {}
  BY <1>1, TickingByState, NextTickingByState DEF StepFrameEnd
<1>4. ContractMode' = "Paused"
  BY <1>1, <1>2, NextModeByState DEF StepFrameEnd
<1>5. QED
  BY <1>1, <1>3, <1>4 DEF Contract!EndTick

LEMMA ResumeIsAllowed ==
  ASSUME IInv, Resume
  PROVE  Contract!ResumeEngine \/ UNCHANGED Contract!session_vars
<1>1. /\ ui' = ui /\ ui = "idle" /\ engine' = engine /\ in_frame' = in_frame
      /\ locals' = locals
  BY DEF Resume, StartThreads, thread_vars, shell_vars
<1>2. ContractTicking' = ContractTicking
  BY <1>1 DEF ContractTicking
<1>3. CASE status = "Paused"
  <2>1. engine
    BY <1>1, <1>3 DEF IInv, Shown, StatusIsTrue
  <2>2. ContractMode = "Paused" /\ ContractMode' = "Running"
    <3>1. tick_thread' # "none"
      BY <2>1 DEF Resume, StartThreads, thread_vars
    <3>2. status' = "Running"
      BY <2>1, <3>1 DEF Resume, current_status
    <3>3. QED
      BY <1>1, <1>3, <3>2, ModeByState, NextModeByState
  <2>3. QED
    BY <1>1, <1>2, <2>2 DEF Contract!ResumeEngine
<1>4. CASE status # "Paused"
  <2>1. status = "Stopped" /\ ~engine
    BY <1>1, <1>4 DEF Resume, IInv, Shown, StatusIsTrue
  <2>2. status' = status
    BY <2>1 DEF Resume, current_status
  <2>3. QED
    BY <1>1, <2>2, Unseen
<1>5. QED
  BY <1>3, <1>4

LEMMA ReadMemoryIsAllowed ==
  ASSUME IInv, ReadMemory
  PROVE  Contract!MissEngine \/ UNCHANGED Contract!session_vars
<1>1. engine' = engine /\ in_frame' = in_frame /\ locals' = locals /\ status' = status
  BY DEF ReadMemory, thread_vars, shell_vars
<1>2. CASE engine
  BY <1>1, <1>2, Unseen DEF ReadMemory
<1>3. CASE ~engine
  <2>1. status = "Stopped"
    BY <1>3 DEF ReadMemory, IInv, TypeOK, Shown, StatusIsTrue
  <2>2. ContractMode = "Stopped" /\ ContractMode' = "crashed"
    BY <1>3, <2>1, ModeByState, NextModeByState DEF ReadMemory
  <2>3. ContractTicking' = ContractTicking
    BY <1>1, <1>3 DEF ReadMemory, ContractTicking
  <2>4. QED
    BY <1>1, <1>3, <2>2, <2>3 DEF Contract!MissEngine
<1>4. QED
  BY <1>2, <1>3

LEMMA QuitIsAllowed == ASSUME IInv, Quit PROVE Contract!Leave
<1>1. engine' = engine /\ in_frame' = in_frame /\ ui' = "unwind" /\ locals' = 5
  BY DEF Quit, thread_vars, shell_vars, IInv, TypeOK, Quitting
<1>2. ContractMode \in {"Stopped", "Paused", "Running"} /\ ContractMode' = "leaving"
  BY <1>1, ModeByState, NextModeByState DEF Quit, IInv, TypeOK
<1>3. ContractTicking' = ContractTicking
  BY <1>1 DEF Quit, ContractTicking
<1>4. QED
  BY <1>1, <1>2, <1>3 DEF Contract!Leave, Contract!Statuses

LEMMA BeginFrameIsAllowed == ASSUME IInv, BeginFrame PROVE Contract!BeginTick("engine")
<1>1. /\ ~in_frame /\ in_frame' /\ engine /\ engine' = engine /\ ui' = ui /\ locals' = locals
      /\ status' = status /\ tick_thread = "running"
  BY DEF BeginFrame, ui_vars, shell_vars, IInv, Resources
<1>2. ui = "idle" \/ (ui = "unwind" /\ locals = 5)
  BY <1>1 DEF IInv, TypeOK, Joined, Quitting
<1>3. ui = "idle" => status = "Running"
  BY <1>1 DEF IInv, TypeOK, Shown, StatusIsTrue
<1>4. ContractMode \in {"Running", "leaving"} /\ ContractMode' = ContractMode
  BY <1>1, <1>2, <1>3, ModeByState, NextModeByState
<1>5. ContractTicking = {} /\ ContractTicking' = {"engine"}
  BY <1>1, <1>2, TickingByState, NextTickingByState
<1>6. QED
  BY <1>1, <1>4, <1>5 DEF Contract!BeginTick

LEMMA EndFrameIsAllowed == ASSUME IInv, EndFrame PROVE Contract!EndTick("engine")
<1>1. in_frame /\ ~in_frame' /\ engine' = engine
  BY DEF EndFrame
<1>2. UNCHANGED <<ui, locals, status>> /\ ui # "stepping"
  BY <1>1 DEF EndFrame, ui_vars, shell_vars, IInv, Joined
<1>3. ContractMode' = ContractMode
  BY <1>2 DEF ContractMode
<1>4. ContractTicking = {"engine"} /\ ContractTicking' = {}
  BY <1>1, <1>2, TickingByState, NextTickingByState
<1>5. QED
  BY <1>1, <1>3, <1>4 DEF Contract!EndTick

(* Whoever relies on the contract may rely on every session. *)
THEOREM ContractIsKept == Spec => ImplementsContract
<1>1. ASSUME Init PROVE Contract!Init
  BY <1>1, ModeByState, TickingByState DEF Init, Contract!Init
<1>2. ASSUME IInv, [Next]_vars PROVE [Contract!Next]_Contract!session_vars
  <2>1. CASE UNCHANGED <<ui, locals, status, engine, in_frame>>
    BY <2>1, Unseen
  <2>2. CASE \E operation \in {"pause", "stop", "load", "next"} : Begin(operation)
    BY <1>2, <2>2, BeginIsAllowed DEF Contract!Next, Contract!Operation
  <2>3. CASE JoinTick \/ CloseSink
    <3>1. /\ ui \in {"join_tick", "close"} /\ ui' \in {"join_joypad", "release"}
          /\ UNCHANGED <<engine, in_frame>>
      BY <2>3 DEF JoinTick, CloseSink, thread_vars
    <3>2. ContractMode = "busy" /\ ContractMode' = "busy"
      BY <3>1, ModeByState, NextModeByState
    <3>3. QED
      BY <3>1, <3>2, StillBusy
  <2>4. CASE JoinJoypad
    BY <1>2, <2>4, JoinJoypadIsAllowed DEF Contract!Next, Contract!Operation
  <2>5. CASE Release
    BY <1>2, <2>5, ReleaseIsAllowed DEF Contract!Next, Contract!Operation
  <2>6. CASE CreateEngine
    BY <1>2, <2>6, CreateEngineIsAllowed DEF Contract!Next, Contract!Operation
  <2>7. CASE RejectRom
    BY <1>2, <2>7, RejectRomIsAllowed DEF Contract!Next, Contract!Operation
  <2>8. CASE Unwind
    BY <1>2, <2>8, UnwindIsAllowed DEF Contract!Next, Contract!Operation
  <2>9. CASE StepFrame
    BY <1>2, <2>9, StepFrameIsAllowed
    DEF Contract!Next, Contract!Operation, Contract!Tick, Contract!Tickers
  <2>10. CASE StepFrameEnd
    BY <1>2, <2>10, StepFrameEndIsAllowed
    DEF Contract!Next, Contract!Tick, Contract!Tickers
  <2>11. CASE Resume
    BY <1>2, <2>11, ResumeIsAllowed DEF Contract!Next, Contract!Operation
  <2>12. CASE ReadMemory
    BY <1>2, <2>12, ReadMemoryIsAllowed DEF Contract!Next
  <2>13. CASE Quit
    BY <1>2, <2>13, QuitIsAllowed DEF Contract!Next, Contract!Operation
  <2>14. CASE BeginFrame
    BY <1>2, <2>14, BeginFrameIsAllowed
    DEF Contract!Next, Contract!Tick, Contract!Tickers
  <2>15. CASE EndFrame
    BY <1>2, <2>15, EndFrameIsAllowed
    DEF Contract!Next, Contract!Tick, Contract!Tickers
  <2>16. CASE OpenViewer \/ CloseViewer
    BY <2>1, <2>16 DEF OpenViewer, CloseViewer, thread_vars
  <2>17. CASE ExitTick \/ \E ticker \in Tickers : Write(ticker)
    BY <2>1, <2>17 DEF ExitTick, Write, ui_vars, shell_vars
  <2>18. CASE JoypadThread \/ BeginCallback \/ EndCallback
    BY <2>1, <2>18
    DEF JoypadThread, BeginUpdate, EndUpdate, ExitJoypad, BeginCallback, EndCallback,
        ui_vars, shell_vars, thread_vars
  <2>19. CASE UNCHANGED vars
    BY <2>1, <2>19 DEF vars, ui_vars, shell_vars, thread_vars
  <2>20. CASE Next
    <3>1. CASE UiStep
      BY <2>3, <2>4, <2>5, <2>6, <2>7, <2>8, <2>9, <2>10, <2>17, <3>1
      DEF UiStep, Tickers
    <3>2. CASE UserInput
      BY <2>2, <2>11, <2>12, <2>13, <2>16, <3>2 DEF UserInput
    <3>3. CASE EngineThread
      BY <2>14, <2>15, <2>17, <3>3 DEF EngineThread, Tickers
    <3>4. QED
      BY <2>18, <2>20, <3>1, <3>2, <3>3 DEF Next
  <2>21. QED
    BY <1>2, <2>19, <2>20
<1>3. QED
  BY <1>1, <1>2, Invariance, PTL DEF Spec, ImplementsContract, Contract!Spec
-----------------------------------------------------------------------------
(* SessionSound.  What is set and what is heard.                           *)

(* A muted sink is silent. *)
MutedIsSilent == is_muted /\ sink # "none" => sink_volume = 0

SoundIInv == IInv /\ SoundTypeOK /\ MutedIsSilent

(* The session moves on or stays; the controls never touch it. *)
LEMMA SoundStepIsSessionStep ==
  ASSUME [SoundNext]_all_vars
  PROVE  [Next]_vars
BY DEF SoundNext, all_vars, setVolume, setMuted

(* A sink that appears was opened by load_rom, and is active. *)
LEMMA SinkOpensActive ==
  ASSUME Next, sink = "none"
  PROVE  sink' \in {"none", "active"}
<1>1. CASE UiStep
  <2>1. CASE JoinTick
    BY <2>1 DEF JoinTick, audio_vars
  <2>2. CASE JoinJoypad
    BY <2>2 DEF JoinJoypad
  <2>3. CASE CloseSink
    BY <2>3 DEF CloseSink
  <2>4. CASE Release
    BY <2>4 DEF Release
  <2>5. CASE CreateEngine
    BY <2>5 DEF CreateEngine
  <2>6. CASE RejectRom \/ Unwind \/ StepFrame \/ StepFrameEnd
    BY <2>6 DEF RejectRom, Unwind, StepFrame, StepFrameEnd, audio_vars
  <2>7. CASE Write("ui")
    BY <2>7 DEF Write
  <2>8. QED
    BY <1>1, <2>1, <2>2, <2>3, <2>4, <2>5, <2>6, <2>7 DEF UiStep
<1>2. CASE UserInput
  <2>1. CASE \E operation \in {"pause", "stop", "load", "next"} : Begin(operation)
    BY <2>1 DEF Begin, audio_vars
  <2>2. CASE Resume
    BY <2>2 DEF Resume
  <2>3. CASE OpenViewer \/ CloseViewer \/ ReadMemory \/ Quit
    BY <2>3 DEF OpenViewer, CloseViewer, ReadMemory, Quit, audio_vars
  <2>4. QED
    BY <1>2, <2>1, <2>2, <2>3 DEF UserInput
<1>3. CASE EngineThread \/ JoypadThread \/ BeginCallback \/ EndCallback
  BY <1>3 DEF EngineThread, BeginFrame, Write, EndFrame, ExitTick, JoypadThread, BeginUpdate,
              EndUpdate, ExitJoypad, BeginCallback, EndCallback, audio_vars
<1>4. QED
  BY <1>1, <1>2, <1>3 DEF Next

(* The controls are there while there is a session, and then there is a    *)
(* sink.                                                                   *)
LEMMA ControlsHaveSink ==
  ASSUME IInv, ui = "idle", status # "Stopped"
  PROVE  sink # "none"
BY DEF IInv, TypeOK, Shown, StatusIsTrue

LEMMA SoundInitIInv == SoundInit => SoundIInv
BY InitIInv, VolumesAssumption
   DEF SoundInit, SoundIInv, SoundTypeOK, MutedIsSilent

LEMMA SoundStepKeepsIInv ==
  ASSUME SoundIInv, IInv', [SoundNext]_all_vars
  PROVE  SoundIInv'
<1>1. CASE Next /\ FollowSink
  <2>1. SoundTypeOK'
    BY <1>1, VolumesAssumption DEF FollowSink, SoundIInv, SoundTypeOK
  <2>2. MutedIsSilent'
    BY <1>1 DEF FollowSink, SoundIInv, MutedIsSilent
  <2>3. QED
    BY <2>1, <2>2 DEF SoundIInv
<1>2. ASSUME NEW v \in Volumes, setVolume(v) PROVE SoundIInv'
  <2>1. /\ sink' = sink /\ is_muted' = is_muted /\ sink # "none"
        /\ sink_volume' = IF is_muted THEN sink_volume ELSE v
        /\ muted_volume' = IF is_muted THEN v ELSE muted_volume
        /\ current_volume' = v
    BY <1>2, ControlsHaveSink
    DEF setVolume, volume, SoundIInv, SoundTypeOK, vars, audio_vars
  <2>2. SoundTypeOK'
    BY <2>1 DEF SoundIInv, SoundTypeOK
  <2>3. MutedIsSilent'
    BY <2>1 DEF SoundIInv, MutedIsSilent
  <2>4. QED
    BY <2>2, <2>3 DEF SoundIInv
<1>3. CASE setMuted
  <2>1. SoundTypeOK'
    BY <1>3, VolumesAssumption DEF setMuted, SoundIInv, SoundTypeOK
  <2>2. MutedIsSilent'
    BY <1>3 DEF setMuted, SoundIInv, SoundTypeOK, MutedIsSilent
  <2>3. QED
    BY <2>1, <2>2 DEF SoundIInv
<1>4. CASE UNCHANGED all_vars
  BY <1>4 DEF all_vars, vars, audio_vars, sound_vars, SoundIInv, SoundTypeOK, MutedIsSilent
<1>5. QED
  BY <1>1, <1>2, <1>3, <1>4 DEF SoundNext

(* The inductive invariant of the volumes, together with that of the       *)
(* session underneath: an open device that is muted plays at volume zero,  *)
(* for every set of volumes.                                               *)
THEOREM SoundInvariance == SoundSpec => []SoundIInv
<1>1. SoundSpec => []IInv
  <2>1. SoundInit => IInv
    BY SoundInitIInv DEF SoundIInv
  <2>2. IInv /\ [SoundNext]_all_vars => IInv'
    BY SoundStepIsSessionStep, StepKeepsIInv
  <2>3. QED
    BY <2>1, <2>2, PTL DEF SoundSpec
<1>2. SoundIInv /\ IInv' /\ [SoundNext]_all_vars => SoundIInv'
  BY SoundStepKeepsIInv
<1>3. QED
  BY <1>1, <1>2, SoundInitIInv, PTL DEF SoundSpec

(* The copies of the volume never tell the user a lie: a muted device is   *)
(* silent, whatever is set, loaded or opened meanwhile; the slider goes    *)
(* wrong only where a device is opened unmuted; and to end the mute        *)
(* restores the volume the slider shows.                                   *)
THEOREM VolumeIsShown == SoundSpec => VolumeFollowsControls
<1>1. SoundIInv => (is_muted /\ sink # "none" => sink_volume = 0)
  BY DEF SoundIInv, MutedIsSilent
<1>2. SoundIInv /\ [SoundNext]_all_vars
        => [ShownIsSet /\ ~ShownIsSet' =>
              sink = "none" /\ sink' = "active" /\ ~is_muted]_all_vars
  <2> SUFFICES ASSUME SoundIInv, SoundNext, ShownIsSet, ~ShownIsSet'
               PROVE  sink = "none" /\ sink' = "active" /\ ~is_muted
    BY DEF all_vars
  <2>1. CASE Next /\ FollowSink
    <3>1. sink_volume' # sink_volume /\ ~is_muted
      BY <2>1 DEF FollowSink, ShownIsSet
    <3>2. sink = "none" /\ sink' # "none"
      BY <2>1, <3>1 DEF FollowSink
    <3>3. QED
      BY <2>1, <3>1, <3>2, SinkOpensActive
  <2>2. ASSUME NEW v \in Volumes, setVolume(v) PROVE FALSE
    <3>1. sink # "none" /\ is_muted \in BOOLEAN
      BY <2>2, ControlsHaveSink DEF setVolume, SoundIInv, SoundTypeOK
    <3>2. QED
      BY <2>2, <3>1 DEF setVolume, volume, ShownIsSet
  <2>3. CASE setMuted
    BY <2>3 DEF setMuted, ShownIsSet, SoundIInv, SoundTypeOK
  <2>4. QED
    BY <2>1, <2>2, <2>3 DEF SoundNext
<1>3. SoundIInv /\ [SoundNext]_all_vars
        => [ShownIsSet /\ is_muted /\ ~is_muted' => sink_volume' = current_volume]_all_vars
  <2> SUFFICES ASSUME SoundIInv, SoundNext, ShownIsSet, is_muted, ~is_muted'
               PROVE  sink_volume' = current_volume
    BY DEF all_vars
  <2>1. CASE Next /\ FollowSink
    BY <2>1 DEF FollowSink
  <2>2. ASSUME NEW v \in Volumes, setVolume(v) PROVE FALSE
    BY <2>2 DEF setVolume
  <2>3. CASE setMuted
    BY <2>3 DEF setMuted, ShownIsSet
  <2>4. QED
    BY <2>1, <2>2, <2>3 DEF SoundNext
<1>4. QED
  BY <1>1, <1>2, <1>3, SoundInvariance, PTL DEF SoundSpec, VolumeFollowsControls
================================================================================
