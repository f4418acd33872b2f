---------------------------- MODULE InterfaceProofs ----------------------------
(***************************************************************************)
(* Proofs about what connects the machine to the outside: about Serial,    *)
(* for every number of bits and every clock; about Joypad, for every set   *)
(* of lines; and about Viewers, for every memory and whatever becomes of   *)
(* it while it is read.                                                    *)
(***************************************************************************)
EXTENDS Serial, Joypad, Viewers, TLAPS, SequenceTheorems, FiniteSetTheorems

Leftover == cycle_accumulator < ClockSteps

(* The bits that came in lie at the end of the register. *)
TailReceived ==
  \A i \in 1 .. Bits :
    i > Bits - num_bits_transferred => transfer_data[i] = "received" \/ disturbed

IInv == TypeOK /\ Leftover /\ TailReceived

-----------------------------------------------------------------------------
LEMMA DivisionFacts ==
  ASSUME NEW a \in Nat, NEW b \in Nat \ {0}
  PROVE  /\ a = (b * (a \div b)) + (a % b)
         /\ a % b \in 0 .. b - 1
         /\ a \div b \in Nat
  OBVIOUS

LEMMA ProductGrows ==
  ASSUME NEW c \in Nat \ {0}, NEW m \in Nat, NEW q \in Nat, q > m
  PROVE  c * q >= (c * m) + c
<1>1. c * (q - (m + 1)) >= 0
  OBVIOUS
<1>2. c * q = (c * m) + c + (c * (q - (m + 1)))
  OBVIOUS
<1>3. c * m \in Nat /\ c * q \in Nat /\ c * (q - (m + 1)) \in Nat
  OBVIOUS
<1>4. QED
  BY <1>1, <1>2, <1>3

(* What a batch and the T-cycles left over give is less than one bit more  *)
(* than the byte still lacks.                                              *)
LEMMA BatchFacts ==
  ASSUME IInv, NEW ticks \in Nat, ticks <= tick_batch
  PROVE  /\ (cycle_accumulator + ticks) \div ClockSteps \in 0 .. Bits - num_bits_transferred
         /\ (cycle_accumulator + ticks) % ClockSteps \in 0 .. ClockSteps - 1
<1> DEFINE m == Bits - num_bits_transferred
           a == cycle_accumulator + ticks
           q == a \div ClockSteps
<1>1. m \in Nat /\ ClockSteps \in Nat \ {0} /\ cycle_accumulator \in 0 .. ClockSteps - 1
  BY BitsAssumption, ClockStepsAssumption DEF IInv, TypeOK, Leftover
<1>2. a \in Nat
  BY <1>1
<1>3. ticks <= m * ClockSteps
  BY DEF tick_batch
<1>4. q \in Nat /\ a = (ClockSteps * q) + (a % ClockSteps) /\ a % ClockSteps \in 0 .. ClockSteps - 1
  BY <1>1, <1>2, DivisionFacts
<1> HIDE DEF m, q
<1>5. m * ClockSteps = ClockSteps * m /\ ClockSteps * m \in Nat
  BY <1>1
<1>6. a < (ClockSteps * m) + ClockSteps
  BY <1>1, <1>3, <1>5
<1>7. ClockSteps * q <= a
  BY <1>1, <1>2, <1>4
<1>8. ~(q > m)
  <2>1. SUFFICES ASSUME q > m PROVE FALSE
    OBVIOUS
  <2>2. ClockSteps * q >= (ClockSteps * m) + ClockSteps
    BY <1>1, <1>4, <2>1, ProductGrows
  <2>3. ClockSteps * q \in Nat
    BY <1>1, <1>4
  <2>4. QED
    BY <1>1, <1>2, <1>5, <1>6, <1>7, <2>2, <2>3
<1>9. q \in 0 .. m
  BY <1>1, <1>4, <1>8
<1>10. QED
  BY <1>4, <1>9 DEF q, m

(* Shifting at most the bits the byte lacks keeps what came in together,   *)
(* and an interrupt then comes with a whole byte.                          *)
LEMMA TransferBitsFacts ==
  ASSUME IInv, NEW n \in 0 .. Bits - num_bits_transferred, TransferBits(n),
         cycle_accumulator' \in Nat, cycle_accumulator' < ClockSteps, master' \in BOOLEAN
  PROVE  /\ IInv'
         /\ ~requested /\ requested' /\ ~disturbed =>
              \A i \in 1 .. Bits : transfer_data'[i] = "received"
<1>1. Bits \in Nat \ {0} /\ num_bits_transferred \in 0 .. Bits - 1 /\ n \in 0 .. Bits
  BY BitsAssumption DEF IInv, TypeOK
<1>2. transfer_data \in [1 .. Bits -> {"written", "received"}]
  BY DEF IInv, TypeOK
<1>3. \A i \in 1 .. Bits :
        transfer_data'[i] = IF i + n <= Bits THEN transfer_data[i + n] ELSE "received"
  BY DEF TransferBits
<1>4. transfer_data' \in [1 .. Bits -> {"written", "received"}]
  <2>1. \A i \in 1 .. Bits : i + n <= Bits => i + n \in 1 .. Bits
    BY <1>1
  <2>2. QED
    BY <1>2, <2>1 DEF TransferBits
<1>5. \A i \in 1 .. Bits :
        i > Bits - (num_bits_transferred + n) => transfer_data'[i] = "received" \/ disturbed
  <2>1. SUFFICES ASSUME NEW i \in 1 .. Bits, i > Bits - (num_bits_transferred + n)
                 PROVE  transfer_data'[i] = "received" \/ disturbed
    OBVIOUS
  <2>2. CASE i + n <= Bits
    <3>1. i + n \in 1 .. Bits /\ i + n > Bits - num_bits_transferred
      BY <1>1, <2>1, <2>2
    <3>2. transfer_data[i + n] = "received" \/ disturbed
      BY <3>1 DEF IInv, TailReceived
    <3>3. QED
      BY <1>3, <2>2, <3>2
  <2>3. CASE ~(i + n <= Bits)
    BY <1>3, <2>3
  <2>4. QED
    BY <2>2, <2>3
<1>6. CASE num_bits_transferred + n < Bits
  <2>1. (num_bits_transferred + n) % Bits = num_bits_transferred + n
    BY <1>1, <1>6
  <2>2. /\ num_bits_transferred' = num_bits_transferred + n
        /\ UNCHANGED <<transfer_enabled, requested, disturbed>>
    BY <1>1, <1>6, <2>1 DEF TransferBits
  <2>3. TypeOK'
    BY <1>1, <1>4, <1>6, <2>2 DEF IInv, TypeOK
  <2>4. Leftover' /\ TailReceived'
    BY <1>5, <2>2 DEF Leftover, TailReceived
  <2>5. QED
    BY <2>2, <2>3, <2>4 DEF IInv
<1>7. CASE num_bits_transferred + n = Bits
  <2>1. (num_bits_transferred + n) % Bits = 0
    BY <1>1, <1>7
  <2>2. /\ num_bits_transferred' = 0
        /\ transfer_enabled' = FALSE /\ requested' = TRUE /\ disturbed' = FALSE
    BY <1>1, <1>7, <2>1 DEF TransferBits
  <2>3. TypeOK'
    <3>1. num_bits_transferred' \in 0 .. Bits - 1
      BY <1>1, <2>2
    <3>2. QED
      BY <1>4, <2>2, <3>1 DEF TypeOK
  <2>4. Leftover' /\ TailReceived'
    BY <1>1, <2>2 DEF Leftover, TailReceived
  <2>5. ~disturbed => \A i \in 1 .. Bits : transfer_data'[i] = "received"
    BY <1>1, <1>5, <1>7
  <2>6. QED
    BY <2>3, <2>4, <2>5 DEF IInv
<1>8. QED
  BY <1>1, <1>6, <1>7

-----------------------------------------------------------------------------
Promise == ~requested /\ requested' /\ ~disturbed =>
             \A i \in 1 .. Bits : transfer_data'[i] = "received"

LEMMA StepFacts ==
  ASSUME IInv, [Next]_vars
  PROVE  IInv' /\ Promise
<1>1. ASSUME NEW ticks \in 1 .. tick_batch, Tick(ticks) PROVE IInv' /\ Promise
  <2>1. tick_batch \in Nat
    BY BitsAssumption, ClockStepsAssumption DEF tick_batch, IInv, TypeOK
  <2>2. /\ (cycle_accumulator + ticks) \div ClockSteps \in 0 .. Bits - num_bits_transferred
        /\ (cycle_accumulator + ticks) % ClockSteps \in 0 .. ClockSteps - 1
    BY <1>1, <2>1, BatchFacts
  <2>3. cycle_accumulator' \in Nat /\ cycle_accumulator' < ClockSteps /\ master' \in BOOLEAN
    BY <1>1, <2>2, ClockStepsAssumption DEF Tick, IInv, TypeOK
  <2>4. QED
    BY <1>1, <2>2, <2>3, TransferBitsFacts DEF Tick, Promise
<1>2. CASE ExternalTick
  <2>1. 1 \in 0 .. Bits - num_bits_transferred
    BY BitsAssumption DEF IInv, TypeOK
  <2>2. cycle_accumulator' \in Nat /\ cycle_accumulator' < ClockSteps /\ master' \in BOOLEAN
    BY <1>2 DEF ExternalTick, IInv, TypeOK, Leftover
  <2>3. QED
    BY <1>2, <2>1, <2>2, TransferBitsFacts DEF ExternalTick, Promise
<1>3. CASE WriteData
  <2>1. TypeOK' /\ Leftover'
    BY <1>3 DEF WriteData, IInv, TypeOK, Leftover, control_vars, count_vars
  <2>2. TailReceived'
    <3>1. CASE num_bits_transferred = 0
      BY <1>3, <3>1, BitsAssumption DEF WriteData, TailReceived, count_vars
    <3>2. CASE num_bits_transferred # 0
      <4>1. disturbed'
        BY <1>3, <3>2 DEF WriteData
      <4>2. QED
        BY <4>1 DEF TailReceived
    <3>3. QED
      BY <3>1, <3>2
  <2>3. QED
    BY <1>3, <2>1, <2>2 DEF IInv, Promise, WriteData
<1>4. ASSUME NEW enabled \in BOOLEAN, NEW internal_clock \in BOOLEAN,
             WriteControl(enabled, internal_clock)
      PROVE  IInv' /\ Promise
  BY <1>4 DEF WriteControl, IInv, TypeOK, Leftover, TailReceived, count_vars, Promise
<1>5. CASE Acknowledge
  BY <1>5 DEF Acknowledge, IInv, TypeOK, Leftover, TailReceived, control_vars, count_vars,
              Promise
<1>6. CASE UNCHANGED vars
  BY <1>6 DEF vars, IInv, TypeOK, Leftover, TailReceived, control_vars, count_vars, Promise
<1>7. QED
  BY <1>1, <1>2, <1>3, <1>4, <1>5, <1>6 DEF Next, AnyTick

(* The inductive invariant holds always. *)
THEOREM Invariance == Spec => []IInv
<1>1. ASSUME Init PROVE IInv
  <2>1. num_bits_transferred \in 0 .. Bits - 1 /\ cycle_accumulator \in Nat
    BY <1>1, BitsAssumption DEF Init
  <2>2. TypeOK
    BY <1>1, <2>1 DEF Init, TypeOK
  <2>3. Leftover /\ TailReceived
    BY <1>1, BitsAssumption, ClockStepsAssumption DEF Init, Leftover, TailReceived
  <2>4. QED
    BY <2>2, <2>3 DEF IInv
<1>2. IInv /\ [Next]_vars => IInv'
  BY StepFacts
<1>3. QED
  BY <1>1, <1>2, PTL DEF Spec

(* Every variable keeps its type; the bit counter stays below a byte. *)
THEOREM TypeCorrect == Spec => []TypeOK
<1>1. IInv => TypeOK
  BY DEF IInv
<1>2. QED
  BY <1>1, Invariance, PTL

(* No tick shifts a bit beyond the byte, whatever an earlier transfer left *)
(* in the accumulator.                                                     *)
THEOREM BatchIsWithinByte == Spec => []BatchEndsWithByte
<1>1. ASSUME IInv PROVE BatchEndsWithByte
  <2>1. tick_batch \in Nat
    BY <1>1, BitsAssumption, ClockStepsAssumption DEF tick_batch, IInv, TypeOK
  <2>2. (cycle_accumulator + tick_batch) \div ClockSteps \in 0 .. Bits - num_bits_transferred
    BY <1>1, <2>1, BatchFacts
  <2>3. QED
    BY <1>1, <2>2, BitsAssumption DEF BatchEndsWithByte, IInv, TypeOK
<1>2. QED
  BY <1>1, Invariance, PTL

(* The interrupt brings a whole received byte, unless the program wrote SB *)
(* in the middle of it.                                                    *)
THEOREM InterruptMeansByte == Spec => InterruptBringsByte
<1>1. IInv /\ [Next]_vars => Promise
  BY StepFacts
<1>2. QED
  BY <1>1, Invariance, PTL DEF Spec, InterruptBringsByte, Promise
-----------------------------------------------------------------------------
(* Joypad.                                                                 *)

(* Between the two readings of the lines the first one is remembered as it *)
(* was, whatever the game selects; and a thread has loaded the flags only  *)
(* inside a call.                                                          *)
FirstReading ==
  /\ joypad_pc # "idle" => prev_state = PressedLines(source_before, held_before)
  /\ joypad_loaded # NotLoaded => joypad_pc = "request"
  /\ engine_loaded # NotLoaded => engine_calls # <<>>

JoypadIInv == JoypadTypeOK /\ FirstReading

Calls == [interrupt : Interrupts, requested : BOOLEAN]

(* The calls of the engine thread are a sequence of up to two.             *)
LEMMA CallSequences ==
  ASSUME NEW calls
  PROVE  calls \in {<<>>} \cup UNION {[1 .. n -> Calls] : n \in {1, 2}}
           <=> calls \in Seq(Calls) /\ Len(calls) <= 2
<1>1. ASSUME calls = <<>> PROVE calls \in Seq(Calls) /\ Len(calls) <= 2
  BY <1>1, EmptySeq
<1>2. ASSUME NEW n \in {1, 2}, calls \in [1 .. n -> Calls]
      PROVE  calls \in Seq(Calls) /\ Len(calls) <= 2
  <2>1. n \in Nat /\ n <= 2
    BY <1>2
  <2>2. calls \in Seq(Calls) /\ Len(calls) = n
    BY <1>2, <2>1
  <2>3. QED
    BY <2>1, <2>2
<1>3. ASSUME calls \in Seq(Calls), Len(calls) <= 2, calls # <<>>
      PROVE  \E n \in {1, 2} : calls \in [1 .. n -> Calls]
  <2>1. Len(calls) \in Nat /\ Len(calls) # 0
    BY <1>3, EmptySeq, LenProperties
  <2> DEFINE n == Len(calls)
  <2>2. n \in {1, 2}
    <3>1. n \in Nat /\ n # 0 /\ n <= 2
      BY <1>3, <2>1
    <3> HIDE DEF n
    <3>2. QED
      BY <3>1
  <2>3. calls \in [1 .. Len(calls) -> Calls]
    BY <1>3, LenProperties
  <2>4. QED
    BY <2>2, <2>3
<1>4. QED
  BY <1>1, <1>2, <1>3

LEMMA LinesOfInputs ==
  ASSUME NEW src, NEW held
  PROVE  PressedLines(src, held) \subseteq Lines
BY DEF PressedLines

LEMMA JoypadInitIInv == JoypadInit => JoypadIInv
BY DEF JoypadInit, JoypadIInv, JoypadTypeOK, FirstReading, Sources, Interrupts, NotLoaded

(* Every step of either thread, and every key event.                       *)
LEMMA JoypadStepKeepsIInv ==
  ASSUME JoypadIInv, [JoypadNext]_joypad_vars
  PROVE  JoypadIInv'
<1> USE DEF JoypadIInv, JoypadTypeOK, FirstReading
<1>1. CASE ReadPrevious
  BY <1>1, LinesOfInputs DEF ReadPrevious, engine_vars, Inputs
<1>2. ASSUME NEW input \in Inputs, Copy(input) PROVE JoypadIInv'
  BY <1>2 DEF Copy, engine_vars
<1>3. CASE DetectEdge
  BY <1>3 DEF DetectEdge, engine_vars
<1>4. CASE JoypadLoad
  BY <1>4 DEF JoypadLoad, update_vars, engine_vars
<1>5. CASE JoypadStore
  BY <1>5 DEF JoypadStore, engine_vars, Interrupts, NotLoaded
<1>6. ASSUME NEW src \in Sources, SetSource(src) PROVE JoypadIInv'
  BY <1>6 DEF SetSource, update_vars, engine_vars
<1>7. CASE MakeCalls
  <2>1. engine_calls' \in Seq(Calls) /\ Len(engine_calls') <= 2
    <3>1. \A interrupt \in Interrupts, requested_ \in BOOLEAN :
            Call(interrupt, requested_) \in Calls
      BY DEF Call, Calls
    <3>2. "other" \in Interrupts /\ "joypad" \in Interrupts /\ request_flags \subseteq Interrupts
      BY DEF Interrupts
    <3>3. \A data \in SUBSET Interrupts :
            ("joypad" \in data) \in BOOLEAN /\ ("other" \in data) \in BOOLEAN
      OBVIOUS
    <3>4. \/ \E call \in Calls : engine_calls' = <<call>>
          \/ \E first, second \in Calls : engine_calls' = <<first, second>>
      BY <1>7, <3>1, <3>2, <3>3, Zenon DEF MakeCalls
    <3>5. ASSUME NEW call \in Calls PROVE <<call>> \in Seq(Calls) /\ Len(<<call>>) <= 2
      OBVIOUS
    <3>6. ASSUME NEW first \in Calls, NEW second \in Calls
          PROVE  <<first, second>> \in Seq(Calls) /\ Len(<<first, second>>) <= 2
      OBVIOUS
    <3>7. QED
      BY <3>4, <3>5, <3>6, Zenon
  <2>2. QED
    BY <1>7, <2>1, CallSequences DEF MakeCalls, update_vars, Calls
<1>8. CASE EngineLoad
  BY <1>8 DEF EngineLoad, update_vars
<1>9. CASE EngineStore
  <2>1. engine_calls' \in Seq(Calls) /\ Len(engine_calls') <= 2
    <3>1. engine_calls \in Seq(Calls) /\ Len(engine_calls) <= 2
      BY CallSequences DEF Calls
    <3>2. CASE engine_calls # <<>>
      BY <1>9, <3>1, <3>2, HeadTailProperties DEF EngineStore
    <3>3. CASE engine_calls = <<>>
      BY <1>9, <3>1, <3>3 DEF EngineStore
    <3>4. QED
      BY <3>2, <3>3
  <2>2. request_flags' \subseteq Interrupts
    <3>1. engine_loaded \subseteq Interrupts /\ engine_calls # <<>>
      BY <1>9 DEF EngineStore
    <3>2. Head(engine_calls) \in Calls
      BY <3>1, CallSequences, HeadTailProperties DEF Calls
    <3>3. Head(engine_calls).interrupt \in Interrupts
      BY <3>2 DEF Calls
    <3>4. QED
      BY <1>9, <3>1, <3>3 DEF EngineStore
  <2>3. QED
    BY <1>9, <2>1, <2>2, CallSequences DEF EngineStore, update_vars, Calls
<1>10. ASSUME NEW input \in Inputs, KeyEvent(input) PROVE JoypadIInv'
  BY <1>10 DEF KeyEvent, update_vars, engine_vars
<1>11. CASE UNCHANGED joypad_vars
  BY <1>11 DEF joypad_vars, update_vars, engine_vars
<1>12. QED
  BY <1>1, <1>2, <1>3, <1>4, <1>5, <1>6, <1>7, <1>8, <1>9, <1>10, <1>11
  DEF JoypadNext, JoypadThread, EngineThread

(* The inductive invariant of the joypad holds always.                     *)
THEOREM JoypadInvariance == JoypadSpec => []JoypadIInv
<1>1. JoypadIInv /\ [JoypadNext]_joypad_vars => JoypadIInv'
  BY JoypadStepKeepsIInv
<1>2. QED
  BY <1>1, JoypadInitIInv, PTL DEF JoypadSpec

(* The inputs, flags and calls of the two threads keep their types.        *)
THEOREM JoypadTypeCorrect == JoypadSpec => []JoypadTypeOK
<1>1. JoypadIInv => JoypadTypeOK
  BY DEF JoypadIInv
<1>2. QED
  BY <1>1, JoypadInvariance, PTL

(* joypad::set_state asks for the interrupt exactly when a selected line   *)
(* went low, whatever keys are pressed and whatever the game reads or      *)
(* writes while it copies the inputs, for any number of lines.             *)
THEOREM EdgesReported == JoypadSpec => EdgesAreReported
<1>1. JoypadIInv /\ [JoypadNext]_joypad_vars
        => [joypad_pc = "copy" /\ joypad_pc' # "copy" /\ source = source_before =>
              (joypad_pc' = "request" <=> FreshLines # {})]_joypad_vars
  <2> SUFFICES ASSUME JoypadIInv, JoypadNext, joypad_pc = "copy", joypad_pc' # "copy",
                      source = source_before
               PROVE  joypad_pc' = "request" <=> FreshLines # {}
    OBVIOUS
  <2>1. DetectEdge
    BY DEF JoypadNext, JoypadThread, EngineThread, ReadPrevious, Copy, JoypadLoad, JoypadStore,
           SetSource, MakeCalls, EngineLoad, EngineStore, KeyEvent, update_vars,
           JoypadIInv, FirstReading
  <2>2. prev_state = PressedLines(source, held_before)
    BY DEF JoypadIInv, FirstReading
  <2>3. QED
    BY <2>1, <2>2 DEF DetectEdge, FallingEdge, FreshLines
<1>2. QED
  BY <1>1, JoypadInvariance, PTL DEF JoypadSpec, EdgesAreReported

-----------------------------------------------------------------------------
(* Viewers.                                                                *)

(* A session that is not running leaves its engine alone, and there is an  *)
(* engine as soon as there is a memory to read.                            *)
EngineAtRest ==
  /\ mode \in Session!Statuses \cup {"busy", "leaving", "crashed", "gone"}
  /\ engine \in BOOLEAN
  /\ mode \in {"Stopped", "Paused"} => ticking = {}
  /\ mode = "Stopped" => ~engine
  /\ engine => version > 0

(* While the list or the background is read the session is paused, and     *)
(* what has been read so far is what the memory holds; a picture may be    *)
(* read while the session runs.                                            *)
ReadSoFar ==
  /\ task # "none" => engine
  /\ task \in {"sprites", "background"} => mode = "Paused" /\ reads = {version}
  /\ task = "sprites" =>
       /\ step < RowCount
       /\ height = sprite_height(Memory(version, LcdControl))
       /\ \A r \in Rows : r < step => sprites[r] = object_of(version, r, height)
  /\ task = "background" => step < 2
  /\ task = "picture" =>
       /\ picture.uri = image_uri(sprites[row])
       /\ picture.palette \in 1 .. Versions
       /\ picture.tiles \in Seq(1 .. Versions) /\ Len(picture.tiles) = step
       /\ step <= 2

(* The background that is shown was read from one version.                 *)
BackgroundWhole == background = {} \/ \E v \in 1 .. Versions : background = {v}

SpriteRecords ==
  [y : 0 .. 255, x : 0 .. 255, tile_index : 0 .. 255, priority : BOOLEAN, y_flip : BOOLEAN,
   x_flip : BOOLEAN, alternate_palette : BOOLEAN, height : {0, 8, 16}]

(* The rows have objects and pictures; the pictures that are shown are     *)
(* kept and belong to the objects of their rows.                           *)
RowsFilled ==
  /\ sprites \in [Rows -> SpriteRecords]
  /\ shown \in [Rows -> cache \cup {NoPicture}]
  /\ task # "sprites" =>
       \A r \in Rows : shown[r] # NoPicture => shown[r].uri = image_uri(sprites[r])

ListWhole ==
  task # "sprites" =>
    \/ sprites = [r \in Rows |-> read_sprite([i \in 0 .. 3 |-> 0], 0)]
    \/ \E v \in 1 .. Versions :
         sprites = [r \in Rows |-> object_of(v, r, sprite_height(Memory(v, LcdControl)))]

ViewersIInv ==
  /\ ViewersTypeOK
  /\ EngineAtRest
  /\ ReadSoFar
  /\ BackgroundWhole
  /\ RowsFilled
  /\ ListWhole

-----------------------------------------------------------------------------
(* What is read from the memory. *)
LEMMA BitIs ==
  ASSUME NEW n \in 0 .. 7, NEW byte \in Nat
  PROVE  bit(n, byte) \in 0 .. 1
<1>1. ASSUME NEW d \in Nat \ {0} PROVE (byte \div d) % 2 \in 0 .. 1
  OBVIOUS
<1>2. 2^n \in Nat \ {0}
  <2>1. /\ 2^0 \in Nat \ {0} /\ 2^1 \in Nat \ {0} /\ 2^2 \in Nat \ {0} /\ 2^3 \in Nat \ {0}
        /\ 2^4 \in Nat \ {0} /\ 2^5 \in Nat \ {0} /\ 2^6 \in Nat \ {0} /\ 2^7 \in Nat \ {0}
    OBVIOUS
  <2>2. n = 0 \/ n = 1 \/ n = 2 \/ n = 3 \/ n = 4 \/ n = 5 \/ n = 6 \/ n = 7
    OBVIOUS
  <2>3. QED
    BY <2>1, <2>2, Zenon
<1>3. QED
  BY <1>1, <1>2 DEF bit

LEMMA LastBit ==
  ASSUME NEW t \in Nat
  PROVE  /\ bit(0, t) \in {0, 1}
         /\ t - bit(0, t) = (t \div 2) * 2
         /\ (t + 1) - bit(0, t) = (t \div 2) * 2 + 1
<1>1. bit(0, t) = t % 2
  <2>1. 2^0 = 1 /\ t \div 1 = t
    OBVIOUS
  <2>2. QED
    BY <2>1, Zenon DEF bit
<1> DEFINE half == t \div 2
           last == t % 2
<1>2. t = 2 * half + last /\ last \in 0 .. 1 /\ half \in Int
  OBVIOUS
<1> HIDE DEF half, last
<1>3. last \in {0, 1} /\ t - last = half * 2 /\ (t + 1) - last = half * 2 + 1
  BY <1>2
<1>4. QED
  BY <1>1, <1>3 DEF half, last

LEMMA HeightIs ==
  ASSUME NEW byte
  PROVE  sprite_height(byte) \in {8, 16}
BY DEF sprite_height

LEMMA SpriteIs ==
  ASSUME NEW byte \in [0 .. 3 -> 0 .. 255], NEW the_height \in {0, 8, 16}
  PROVE  read_sprite(byte, the_height) \in SpriteRecords
<1>1. /\ byte[0] \in 0 .. 255 /\ byte[1] \in 0 .. 255 /\ byte[2] \in 0 .. 255
  OBVIOUS
<1>2. \A n \in 0 .. 7 : (bit(n, byte[3]) = 1) \in BOOLEAN
  OBVIOUS
<1>3. QED
  BY <1>1, <1>2 DEF read_sprite, SpriteRecords

(* MemorySize stays folded: the provers would enumerate the addresses.     *)
LEMMA MemorySizeIs == MemorySize \in Nat /\ MemorySize >= 65536
BY DEF MemorySize

LEMMA ByteIs ==
  ASSUME NEW v \in 1 .. Versions, NEW address \in Nat, address < 65536
  PROVE  Memory(v, address) \in 0 .. 255 /\ Memory(v, address) \in Nat
<1>1. address \in 0 .. MemorySize - 1
  BY MemorySizeIs
<1>2. Memory(v, address) \in 0 .. 255
  BY ONLY <1>1, v \in 1 .. Versions, MemoryAssumption, Zenon
<1>3. ASSUME NEW byte \in 0 .. 255 PROVE byte \in Nat
  OBVIOUS
<1>4. QED
  BY ONLY <1>2, <1>3, Zenon

LEMMA ObjectAddress ==
  ASSUME NEW r \in Nat, r < 40, NEW i \in Nat, i < 4
  PROVE  oam_address(r, i) \in Nat /\ oam_address(r, i) < 65536
BY DEF oam_address

LEMMA ObjectByte ==
  ASSUME NEW v \in 1 .. Versions, NEW r \in Rows, NEW i \in 0 .. 3
  PROVE  Memory(v, oam_address(r, i)) \in 0 .. 255
<1>1. r \in Nat /\ r < 40 /\ i \in Nat /\ i < 4
  BY RowCountAssumption DEF Rows
<1> DEFINE address == oam_address(r, i)
<1>2. address \in Nat /\ address < 65536
  BY <1>1, ObjectAddress
<1> HIDE DEF address
<1>3. Memory(v, address) \in 0 .. 255
  BY <1>2, ByteIs
<1>4. QED
  BY <1>3 DEF address

LEMMA ObjectIs ==
  ASSUME NEW v \in 1 .. Versions, NEW r \in Rows, NEW the_height \in {0, 8, 16}
  PROVE  object_of(v, r, the_height) \in SpriteRecords
<1>1. [i \in 0 .. 3 |-> Memory(v, oam_address(r, i))] \in [0 .. 3 -> 0 .. 255]
  BY ObjectByte, Zenon
<1>2. QED
  BY <1>1, SpriteIs, Zenon DEF object_of

LEMMA ViewersInitIInv == ViewersInit => ViewersIInv
<1> SUFFICES ASSUME ViewersInit PROVE ViewersIInv
  OBVIOUS
<1> DEFINE nothing == read_sprite([i \in 0 .. 3 |-> 0], 0)
<1>1. /\ mode = "Stopped" /\ engine = FALSE /\ ticking = {} /\ version = 0 /\ open = FALSE
      /\ task = "none" /\ step = 0 /\ reads = {} /\ row = 0 /\ height = 8
      /\ sprites = [r \in Rows |-> nothing]
      /\ cache = {} /\ shown = [r \in Rows |-> NoPicture] /\ background = {}
  BY DEF ViewersInit, Session!Init
<1>2. nothing \in SpriteRecords
  BY SpriteIs
<1> HIDE DEF nothing
<1>3. 0 \in 0 .. Versions /\ 0 \in Rows /\ 0 \in 0 .. RowCount + 2
  BY VersionsAssumption, RowCountAssumption DEF Rows
<1>4. ViewersTypeOK
  BY <1>1, <1>3 DEF ViewersTypeOK
<1>5. EngineAtRest
  BY <1>1 DEF EngineAtRest, Session!Statuses
<1>6. ReadSoFar /\ BackgroundWhole
  BY <1>1 DEF ReadSoFar, BackgroundWhole
<1>7. RowsFilled
  BY <1>1, <1>2 DEF RowsFilled
<1>8. ListWhole
  BY <1>1 DEF ListWhole, nothing
<1>9. QED
  BY <1>4, <1>5, <1>6, <1>7, <1>8 DEF ViewersIInv

(* What a step that leaves the views and the task alone has to keep.       *)
LEMMA ViewsKept ==
  ASSUME ViewersIInv, UNCHANGED view_vars, task' # "sprites" => task # "sprites"
  PROVE  BackgroundWhole' /\ RowsFilled' /\ ListWhole'
<1>1. sprites' = sprites /\ cache' = cache /\ shown' = shown /\ background' = background
  BY DEF view_vars
<1>2. BackgroundWhole /\ RowsFilled /\ ListWhole
  BY DEF ViewersIInv
<1>3. BackgroundWhole'
  BY <1>1, <1>2 DEF BackgroundWhole
<1>4. RowsFilled'
  BY <1>1, <1>2 DEF RowsFilled
<1>5. ListWhole'
  BY <1>1, <1>2 DEF ListWhole
<1>6. QED
  BY <1>3, <1>4, <1>5

LEMMA ReadingKept ==
  ASSUME ViewersIInv, UNCHANGED <<task_vars, view_vars>>,
         task # "none" => engine',
         task \in {"sprites", "background"} => mode' = mode /\ version' = version
  PROVE  ReadSoFar'
<1>1. /\ task' = task /\ step' = step /\ reads' = reads /\ row' = row /\ height' = height
      /\ picture' = picture /\ sprites' = sprites
  BY DEF task_vars, view_vars
<1>2. ReadSoFar
  BY DEF ViewersIInv
<1>3. QED
  BY <1>1, <1>2 DEF ReadSoFar

LEMMA TypesKept ==
  ASSUME ViewersIInv, UNCHANGED <<task_vars, view_vars>>,
         open' \in BOOLEAN, version' \in 0 .. Versions
  PROVE  ViewersTypeOK'
<1>1. /\ task' = task /\ step' = step /\ reads' = reads /\ row' = row /\ height' = height
      /\ cache' = cache /\ shown' = shown /\ background' = background
  BY DEF task_vars, view_vars
<1>2. ViewersTypeOK
  BY DEF ViewersIInv
<1>3. QED
  BY <1>1, <1>2 DEF ViewersTypeOK

LEMMA OperateKeeps == ASSUME ViewersIInv, Operate PROVE ViewersIInv'
<1>1. /\ task = "none" /\ UNCHANGED <<task_vars, view_vars>> /\ open' = open
      /\ version' = IF engine' /\ ~engine /\ version < Versions THEN version + 1 ELSE version
      /\ Session!Operation
  BY DEF Operate
<1>2. EngineAtRest /\ version \in 0 .. Versions /\ open \in BOOLEAN
  BY DEF ViewersIInv, ViewersTypeOK
<1>3. version' \in 0 .. Versions /\ version' >= version /\ (engine' => version' > 0)
  <2>1. engine \in BOOLEAN /\ (engine => version > 0)
    BY <1>2 DEF EngineAtRest
  <2>2. engine' \in BOOLEAN
    BY <1>1, <2>1 DEF Session!Operation, Session!Leave, Session!BeginOperation,
       Session!EndOperation, Session!ReleaseEngine, Session!StartEngine, Session!ResumeEngine
  <2>3. QED
    BY <1>1, <1>2, <2>1, <2>2, VersionsAssumption
<1>4. /\ mode' \in Session!Statuses \cup {"busy", "leaving", "crashed", "gone"}
      /\ engine' \in BOOLEAN
      /\ mode' \in {"Stopped", "Paused"} => ticking' = {}
      /\ mode' = "Stopped" => ~engine'
  <2>1. CASE Session!Leave \/ Session!BeginOperation \/ Session!ResumeEngine
    BY <1>2, <2>1 DEF EngineAtRest, Session!Statuses, Session!Leave, Session!BeginOperation,
       Session!ResumeEngine
  <2>2. CASE Session!EndOperation
    <3>1. /\ mode' \in {"Paused", "Running", "Stopped", "crashed", "gone"} /\ ticking' = {}
          /\ engine' = engine /\ (mode' = "Stopped" => ~engine)
      BY <1>2, <2>2 DEF EngineAtRest, Session!EndOperation
    <3>2. QED
      BY <1>2, <3>1 DEF EngineAtRest, Session!Statuses
  <2>3. CASE Session!ReleaseEngine \/ Session!StartEngine
    <3>1. /\ mode' \in {"busy", "Stopped", "Running"} /\ ticking' = {}
          /\ engine' \in BOOLEAN /\ (mode' = "Stopped" => ~engine')
      BY <2>3 DEF Session!ReleaseEngine, Session!StartEngine
    <3>2. QED
      BY <3>1 DEF Session!Statuses
  <2>4. QED
    BY <1>1, <2>1, <2>2, <2>3 DEF Session!Operation
<1>5. EngineAtRest'
  BY <1>3, <1>4 DEF EngineAtRest, Session!Statuses
<1>6. ViewersTypeOK'
  BY <1>1, <1>2, <1>3, TypesKept
<1>7. task' = "none"
  BY <1>1 DEF task_vars
<1>8. ReadSoFar'
  BY <1>1, ReadingKept
<1>9. BackgroundWhole' /\ RowsFilled' /\ ListWhole'
  BY <1>1, ViewsKept
<1>10. QED
  BY <1>5, <1>6, <1>8, <1>9 DEF ViewersIInv

(* The engine is ticked only where no list and no background is read.      *)
LEMMA TickingKeeps == ASSUME ViewersIInv, Ticking PROVE ViewersIInv'
<1>1. /\ EngineAtRest /\ version \in 0 .. Versions /\ open \in BOOLEAN
      /\ task # "none" => engine
      /\ task \in {"sprites", "background"} => mode = "Paused"
  BY DEF ViewersIInv, ViewersTypeOK, ReadSoFar
<1>2. /\ UNCHANGED <<task_vars, view_vars>> /\ open' = open /\ engine' = engine
      /\ version' \in 0 .. Versions /\ version' >= version
  BY <1>1, VersionsAssumption DEF Ticking, Poke, BeginTick, EndTick, Session!BeginTick, Session!EndTick,
     session_vars
<1>3. mode # "Paused" /\ mode # "Stopped"
  BY <1>1 DEF EngineAtRest, Ticking, Poke, BeginTick, EndTick, Session!BeginTick, Session!EndTick
<1>4. /\ mode' \in Session!Statuses \cup {"busy", "leaving", "crashed", "gone"}
      /\ mode' \in {"Stopped", "Paused"} => ticking' = {} /\ mode' = "Paused"
  <2>1. ASSUME Poke PROVE mode' = mode
    BY <2>1 DEF Poke, session_vars
  <2>2. ASSUME NEW ticker \in Session!Tickers, BeginTick(ticker) PROVE mode' = mode
    BY <2>2 DEF BeginTick, Session!BeginTick
  <2>3. ASSUME NEW ticker \in Session!Tickers, EndTick(ticker)
        PROVE  (mode' = mode \/ mode' = "Paused") /\ ticking' = {}
    BY <2>3 DEF EndTick, Session!EndTick
  <2>4. QED
    BY <1>1, <1>3, <2>1, <2>2, <2>3 DEF Ticking, EngineAtRest, Session!Statuses
<1>5. EngineAtRest'
  BY <1>1, <1>2, <1>4 DEF EngineAtRest, Session!Statuses
<1>6. ViewersTypeOK'
  BY <1>1, <1>2, TypesKept
<1>7. ReadSoFar'
  BY <1>1, <1>2, <1>3, ReadingKept
<1>8. task' = task
  BY <1>2 DEF task_vars
<1>9. BackgroundWhole' /\ RowsFilled' /\ ListWhole'
  BY <1>2, <1>8, ViewsKept
<1>10. QED
  BY <1>5, <1>6, <1>7, <1>9 DEF ViewersIInv

(* The window is opened, or the process ends for want of an engine; or     *)
(* nothing happens.                                                        *)
LEMMA OpeningKeeps ==
  ASSUME ViewersIInv, OpenViewer \/ MissEngine \/ UNCHANGED viewers_vars
  PROVE  ViewersIInv'
<1>1. /\ EngineAtRest /\ version \in 0 .. Versions /\ open \in BOOLEAN
      /\ task # "none" => engine
  BY DEF ViewersIInv, ViewersTypeOK, ReadSoFar
<1>2. /\ UNCHANGED <<task_vars, view_vars>> /\ open' \in BOOLEAN
      /\ engine' = engine /\ ticking' = ticking /\ version' = version
      /\ mode' = mode \/ (mode' = "crashed" /\ task = "none")
  BY <1>1 DEF OpenViewer, MissEngine, Session!MissEngine, viewers_vars, session_vars, UiIsFree
<1>3. EngineAtRest'
  BY <1>1, <1>2 DEF EngineAtRest, Session!Statuses
<1>4. ViewersTypeOK'
  BY <1>1, <1>2, TypesKept
<1>5. ReadSoFar'
  BY <1>1, <1>2, ReadingKept
<1>6. task' = task
  BY <1>2 DEF task_vars
<1>7. BackgroundWhole' /\ RowsFilled' /\ ListWhole'
  BY <1>2, <1>6, ViewsKept
<1>8. QED
  BY <1>3, <1>4, <1>5, <1>7 DEF ViewersIInv

LEMMA EngineKept ==
  ASSUME ViewersIInv, UNCHANGED <<session_vars, version>>
  PROVE  EngineAtRest'
BY DEF ViewersIInv, EngineAtRest, session_vars, Session!Statuses

LEMMA CloseKeeps == ASSUME ViewersIInv, CloseViewer PROVE ViewersIInv'
<1>1. /\ ViewersTypeOK /\ ReadSoFar /\ BackgroundWhole /\ RowsFilled /\ ListWhole
  BY DEF ViewersIInv
<1>2. /\ open' = FALSE /\ shown' = [r \in Rows |-> NoPicture]
      /\ task = "none" /\ task' = task /\ step' = step /\ reads' = reads /\ row' = row
      /\ height' = height /\ picture' = picture /\ version' = version
      /\ sprites' = sprites /\ cache' = cache /\ background' = background
  BY DEF CloseViewer, task_vars, UiIsFree
<1>3. EngineAtRest'
  BY EngineKept DEF CloseViewer
<1>4. ViewersTypeOK'
  BY <1>1, <1>2 DEF ViewersTypeOK
<1>5. ReadSoFar'
  BY <1>2 DEF ReadSoFar
<1>6. BackgroundWhole'
  BY <1>1, <1>2 DEF BackgroundWhole
<1>7. RowsFilled'
  BY <1>1, <1>2 DEF RowsFilled
<1>8. ListWhole'
  BY <1>1, <1>2 DEF ListWhole
<1>9. QED
  BY <1>3, <1>4, <1>5, <1>6, <1>7, <1>8 DEF ViewersIInv

(* A button begins to read: with the height of the objects.                *)
LEMMA StartKeeps ==
  ASSUME ViewersIInv, NEW reading \in {"sprites", "background"}, Start(reading)
  PROVE  ViewersIInv'
<1>1. /\ ViewersTypeOK /\ EngineAtRest /\ ReadSoFar /\ BackgroundWhole /\ RowsFilled /\ ListWhole
  BY DEF ViewersIInv
<1>2. /\ task = "none" /\ task' = reading /\ step' = 0 /\ reads' = {version}
      /\ height' = sprite_height(Memory(version, LcdControl))
      /\ engine /\ mode \in Session!Statuses /\ mode # "Running"
      /\ mode' = mode /\ engine' = engine /\ ticking' = ticking /\ version' = version /\ open' = open
      /\ row' = row /\ sprites' = sprites /\ cache' = cache /\ shown' = shown
      /\ background' = background
  BY DEF Start, UiIsFree, session_vars, view_vars
<1>3. mode = "Paused" /\ version \in 1 .. Versions /\ height' \in {8, 16}
  BY <1>1, <1>2, HeightIs, VersionsAssumption DEF EngineAtRest, Session!Statuses, ViewersTypeOK
<1>4. EngineAtRest'
  BY EngineKept DEF Start
<1>5. ViewersTypeOK'
  <2>1. task' \in {"none", "sprites", "background", "picture"}
    BY <1>2
  <2>2. step' \in 0 .. RowCount + 2 /\ reads' \subseteq 1 .. Versions
    BY <1>2, <1>3, RowCountAssumption
  <2>3. QED
    BY <1>1, <1>2, <1>3, <2>1, <2>2 DEF ViewersTypeOK
<1>6. ReadSoFar'
  <2>1. 0 < RowCount /\ (\A r \in Rows : ~(r < 0))
    BY RowCountAssumption DEF Rows
  <2>2. task' # "picture"
    BY <1>2
  <2>3. QED
    BY <1>2, <1>3, <2>1, <2>2 DEF ReadSoFar
<1>7. BackgroundWhole' /\ RowsFilled' /\ ListWhole'
  BY <1>1, <1>2 DEF BackgroundWhole, RowsFilled, ListWhole
<1>8. QED
  BY <1>4, <1>5, <1>6, <1>7 DEF ViewersIInv

(* The last object makes the list that of one version, which has not       *)
(* changed since the height was read.                                      *)
LEMMA ReadSpriteKeeps == ASSUME ViewersIInv, ReadSprite PROVE ViewersIInv'
<1>1. /\ ViewersTypeOK /\ EngineAtRest /\ ReadSoFar /\ BackgroundWhole /\ RowsFilled /\ ListWhole
  BY DEF ViewersIInv
<1>2. /\ task = "sprites" /\ step' = step + 1
      /\ sprites' = [sprites EXCEPT ![step] = object_of(version, step, height)]
      /\ reads' = reads \cup {version}
      /\ mode' = mode /\ engine' = engine /\ ticking' = ticking /\ version' = version /\ open' = open
      /\ row' = row /\ height' = height /\ cache' = cache /\ background' = background
  BY DEF ReadSprite, object_of, Read, session_vars
<1>3. /\ step' = RowCount => task' = "none" /\ shown' = [r \in Rows |-> NoPicture]
      /\ step' # RowCount => task' = task /\ shown' = shown
  BY DEF ReadSprite
<1>4. /\ engine /\ mode = "Paused" /\ reads = {version} /\ step < RowCount
      /\ height = sprite_height(Memory(version, LcdControl))
      /\ \A r \in Rows : r < step => sprites[r] = object_of(version, r, height)
  BY <1>1, <1>2 DEF ReadSoFar
<1>5. /\ version \in 1 .. Versions /\ step \in Nat /\ RowCount \in Nat /\ step \in Rows
      /\ height \in {0, 8, 16}
  BY <1>1, <1>4, RowCountAssumption DEF EngineAtRest, ViewersTypeOK, Rows
<1>6. sprites \in [Rows -> SpriteRecords] /\ object_of(version, step, height) \in SpriteRecords
  BY <1>1, <1>5, ObjectIs DEF RowsFilled
<1>7. sprites' \in [Rows -> SpriteRecords]
  BY <1>2, <1>6
<1>8. \A r \in Rows : r < step + 1 => sprites'[r] = object_of(version, r, height)
  <2>1. ASSUME NEW r \in Rows, r < step + 1
        PROVE  sprites'[r] = object_of(version, r, height)
    <3>1. r = step \/ (r # step /\ r < step)
      BY <1>5, <2>1 DEF Rows
    <3>2. CASE r = step
      BY <1>2, <1>5, <1>6, <3>2
    <3>3. CASE r # step /\ r < step
      BY <1>2, <1>4, <1>6, <2>1, <3>3
    <3>4. QED
      BY <3>1, <3>2, <3>3
  <2>2. QED
    BY <2>1
<1>9. EngineAtRest'
  BY EngineKept DEF ReadSprite
<1>10. BackgroundWhole'
  BY <1>1, <1>2 DEF BackgroundWhole
<1>11. CASE step' = RowCount
  <2>1. task' = "none" /\ shown' = [r \in Rows |-> NoPicture]
    BY <1>3, <1>11
  <2>2. ViewersTypeOK'
    <3>1. step' \in 0 .. RowCount + 2 /\ reads' \subseteq 1 .. Versions
      BY <1>2, <1>4, <1>5
    <3>2. QED
      BY <1>1, <1>2, <2>1, <3>1 DEF ViewersTypeOK
  <2>3. ReadSoFar'
    BY <2>1 DEF ReadSoFar
  <2>4. RowsFilled'
    BY <1>7, <2>1 DEF RowsFilled
  <2>5. sprites' = [r \in Rows |-> object_of(version, r, sprite_height(Memory(version, LcdControl)))]
    <3>1. \A r \in Rows : sprites'[r] = object_of(version, r, height)
      BY <1>2, <1>5, <1>8, <1>11 DEF Rows
    <3>2. sprites' = [r \in Rows |-> sprites'[r]]
      BY <1>7
    <3>3. QED
      BY <1>4, <3>1, <3>2
  <2>6. ListWhole'
    BY <1>5, <2>5 DEF ListWhole
  <2>7. QED
    BY <1>9, <1>10, <2>2, <2>3, <2>4, <2>6 DEF ViewersIInv
<1>12. CASE step' # RowCount
  <2>1. task' = "sprites" /\ shown' = shown
    BY <1>2, <1>3, <1>12
  <2>2. ViewersTypeOK'
    <3>1. step' \in 0 .. RowCount + 2 /\ reads' \subseteq 1 .. Versions
      BY <1>2, <1>4, <1>5
    <3>2. QED
      BY <1>1, <1>2, <2>1, <3>1 DEF ViewersTypeOK
  <2>3. ReadSoFar'
    <3>1. reads' = {version} /\ step' < RowCount
      BY <1>2, <1>4, <1>5, <1>12
    <3>2. QED
      BY <1>2, <1>4, <1>8, <2>1, <3>1 DEF ReadSoFar
  <2>4. RowsFilled'
    BY <1>1, <1>2, <1>7, <2>1 DEF RowsFilled
  <2>5. ListWhole'
    BY <2>1 DEF ListWhole
  <2>6. QED
    BY <1>9, <1>10, <2>2, <2>3, <2>4, <2>5 DEF ViewersIInv
<1>13. QED
  BY <1>11, <1>12

LEMMA ReadBackgroundKeeps == ASSUME ViewersIInv, ReadBackground PROVE ViewersIInv'
<1>1. /\ ViewersTypeOK /\ EngineAtRest /\ ReadSoFar /\ BackgroundWhole /\ RowsFilled /\ ListWhole
  BY DEF ViewersIInv
<1>2. /\ task = "background" /\ step' = step + 1 /\ reads' = reads \cup {version}
      /\ mode' = mode /\ engine' = engine /\ version' = version /\ open' = open
      /\ row' = row /\ height' = height /\ picture' = picture
      /\ sprites' = sprites /\ cache' = cache /\ shown' = shown
      /\ (task' = "none" /\ background' = reads') \/ (step' # 2 /\ task' = task /\ background' = background)
  BY DEF ReadBackground, Read, session_vars
<1>3. engine /\ mode = "Paused" /\ reads = {version} /\ step \in Nat /\ step < 2
  BY <1>1, <1>2, RowCountAssumption DEF ReadSoFar, ViewersTypeOK
<1>4. version \in 1 .. Versions /\ reads' = {version} /\ step' \in 0 .. RowCount + 2
  BY <1>1, <1>2, <1>3, RowCountAssumption DEF EngineAtRest, ViewersTypeOK
<1>5. EngineAtRest'
  BY EngineKept DEF ReadBackground
<1>6. background' = background \/ background' = {version}
  BY <1>2, <1>4
<1>7. BackgroundWhole'
  BY <1>1, <1>4, <1>6 DEF BackgroundWhole
<1>8. task' \in {"none", "background"}
  BY <1>2
<1>9. ViewersTypeOK'
  <2>1. background' \subseteq 1 .. Versions /\ reads' \subseteq 1 .. Versions
    BY <1>1, <1>4, <1>6 DEF ViewersTypeOK
  <2>2. QED
    BY <1>1, <1>2, <1>4, <1>8, <2>1 DEF ViewersTypeOK
<1>10. ReadSoFar'
  <2>1. task' = "background" => step' < 2
    BY <1>2, <1>3
  <2>2. QED
    BY <1>2, <1>3, <1>4, <1>8, <2>1 DEF ReadSoFar
<1>11. RowsFilled' /\ ListWhole'
  <2>1. task # "sprites"
    BY <1>2
  <2>2. RowsFilled'
    BY <1>1, <1>2, <2>1 DEF RowsFilled
  <2>3. ListWhole'
    BY <1>1, <1>2, <2>1 DEF ListWhole
  <2>4. QED
    BY <2>2, <2>3
<1>12. QED
  BY <1>5, <1>7, <1>9, <1>10, <1>11 DEF ViewersIInv

(* The pictures: a cached one is shown, ...                                *)
LEMMA ShowCachedKeeps ==
  ASSUME ViewersIInv, NEW r \in Rows, ShowCached(r)
  PROVE  ViewersIInv'
<1>1. /\ ViewersTypeOK /\ ReadSoFar /\ BackgroundWhole /\ RowsFilled /\ ListWhole
  BY DEF ViewersIInv
<1>2. /\ task = "none" /\ task' = task /\ step' = step /\ reads' = reads /\ row' = row
      /\ height' = height /\ picture' = picture /\ version' = version /\ open' = open
      /\ sprites' = sprites /\ cache' = cache /\ background' = background
  BY DEF ShowCached, task_vars, UiIsFree
<1>3. PICK p \in cache : p.uri = image_uri(sprites[r]) /\ shown' = [shown EXCEPT ![r] = p]
  BY DEF ShowCached
<1>4. shown \in [Rows -> cache \cup {NoPicture}]
  BY <1>1 DEF RowsFilled
<1>5. /\ shown' \in [Rows -> cache \cup {NoPicture}]
      /\ shown'[r] = p /\ \A q \in Rows : q # r => shown'[q] = shown[q]
  BY <1>3, <1>4
<1>6. EngineAtRest'
  BY EngineKept DEF ShowCached
<1>7. ViewersTypeOK'
  BY <1>1, <1>2, <1>5 DEF ViewersTypeOK
<1>8. ReadSoFar'
  BY <1>2 DEF ReadSoFar
<1>9. BackgroundWhole' /\ ListWhole'
  BY <1>1, <1>2 DEF BackgroundWhole, ListWhole
<1>10. RowsFilled'
  BY <1>1, <1>2, <1>3, <1>5 DEF RowsFilled
<1>11. QED
  BY <1>6, <1>7, <1>8, <1>9, <1>10 DEF ViewersIInv

(* ... or one is read, whatever the engine thread does meanwhile.          *)
LEMMA RequestKeeps ==
  ASSUME ViewersIInv, NEW r \in Rows, requestImage(r)
  PROVE  ViewersIInv'
<1>1. /\ ViewersTypeOK /\ EngineAtRest /\ BackgroundWhole /\ RowsFilled /\ ListWhole
  BY DEF ViewersIInv
<1>2. /\ task = "none" /\ task' = "picture" /\ step' = 0 /\ row' = r /\ reads' = {version}
      /\ picture' = [uri |-> image_uri(sprites[r]), palette |-> version, tiles |-> <<>>]
      /\ engine /\ engine' = engine /\ height' = height /\ version' = version /\ open' = open
      /\ sprites' = sprites /\ cache' = cache /\ shown' = shown /\ background' = background
  BY DEF requestImage, UiIsFree, session_vars, view_vars
<1>3. version \in 1 .. Versions
  BY <1>1, <1>2 DEF EngineAtRest, ViewersTypeOK
<1>4. EngineAtRest'
  BY EngineKept DEF requestImage
<1>5. ViewersTypeOK'
  <2>1. step' \in 0 .. RowCount + 2 /\ reads' \subseteq 1 .. Versions
        /\ task' \in {"none", "sprites", "background", "picture"}
    BY <1>2, <1>3, RowCountAssumption
  <2>2. QED
    BY <1>1, <1>2, <2>1 DEF ViewersTypeOK
<1>6. ReadSoFar'
  <2>1. /\ picture'.uri = image_uri(sprites'[row']) /\ picture'.palette \in 1 .. Versions
        /\ picture'.tiles = <<>>
    BY <1>2, <1>3
  <2>2. picture'.tiles \in Seq(1 .. Versions) /\ Len(picture'.tiles) = 0
    BY <2>1, EmptySeq
  <2>3. task' \notin {"none", "sprites", "background"} /\ step' = 0 /\ engine' /\ 0 <= 2
    BY <1>2
  <2>4. QED
    BY <2>1, <2>2, <2>3 DEF ReadSoFar
<1>7. BackgroundWhole' /\ RowsFilled' /\ ListWhole'
  BY <1>2, ViewsKept DEF view_vars
<1>8. QED
  BY <1>4, <1>5, <1>6, <1>7 DEF ViewersIInv

LEMMA ReadTileKeeps == ASSUME ViewersIInv, ReadTile PROVE ViewersIInv'
<1>1. /\ ViewersTypeOK /\ EngineAtRest /\ ReadSoFar
  BY DEF ViewersIInv
<1>2. /\ task = "picture" /\ task' = task /\ step' = step + 1 /\ reads' = reads \cup {version}
      /\ picture' = [picture EXCEPT !.tiles = Append(picture.tiles, version)]
      /\ step < (IF picture.uri.double_height THEN 2 ELSE 1)
      /\ engine' = engine /\ version' = version /\ open' = open /\ row' = row /\ height' = height
      /\ sprites' = sprites /\ cache' = cache /\ shown' = shown /\ background' = background
  BY DEF ReadTile, Read, session_vars, view_vars
<1>3. /\ engine /\ picture.uri = image_uri(sprites[row]) /\ picture.palette \in 1 .. Versions
      /\ picture.tiles \in Seq(1 .. Versions) /\ Len(picture.tiles) = step
  BY <1>1, <1>2 DEF ReadSoFar
<1>4. version \in 1 .. Versions /\ step \in Nat /\ step < 2
  BY <1>1, <1>2, <1>3, RowCountAssumption DEF EngineAtRest, ViewersTypeOK
<1>5. EngineAtRest'
  BY EngineKept DEF ReadTile
<1>6. ViewersTypeOK'
  <2>1. step' \in 0 .. RowCount + 2
    <3>1. RowCount \in Nat
      BY RowCountAssumption
    <3>2. step' \in Nat /\ step' <= 2
      BY <1>2, <1>4
    <3>3. QED
      BY <3>1, <3>2
  <2>2. reads' \subseteq 1 .. Versions
    BY <1>1, <1>2, <1>4 DEF ViewersTypeOK
  <2>3. QED
    BY <1>1, <1>2, <2>1, <2>2 DEF ViewersTypeOK
<1>7. ReadSoFar'
  <2>1. /\ Append(picture.tiles, version) \in Seq(1 .. Versions)
        /\ Len(Append(picture.tiles, version)) = step'
    BY <1>2, <1>3, <1>4, AppendProperties
  <2>2. /\ picture'.uri = picture.uri /\ picture'.palette = picture.palette
        /\ picture'.tiles = Append(picture.tiles, version)
    BY <1>2
  <2>3. QED
    BY <1>2, <1>3, <1>4, <2>1, <2>2 DEF ReadSoFar
<1>8. BackgroundWhole' /\ RowsFilled' /\ ListWhole'
  BY <1>2, ViewsKept DEF view_vars
<1>9. QED
  BY <1>5, <1>6, <1>7, <1>8 DEF ViewersIInv

LEMMA DeliverKeeps == ASSUME ViewersIInv, Deliver PROVE ViewersIInv'
<1>1. /\ ViewersTypeOK /\ ReadSoFar /\ BackgroundWhole /\ RowsFilled /\ ListWhole
  BY DEF ViewersIInv
<1>2. /\ task = "picture" /\ task' = "none" /\ cache' = cache \cup {picture}
      /\ shown' = [shown EXCEPT ![row] = picture]
      /\ step = (IF picture.uri.double_height THEN 2 ELSE 1)
      /\ step' = step /\ reads' = reads /\ row' = row /\ height' = height
      /\ version' = version /\ open' = open /\ sprites' = sprites /\ background' = background
  BY DEF Deliver
<1>3. /\ picture.uri = image_uri(sprites[row]) /\ picture.palette \in 1 .. Versions
      /\ Len(picture.tiles) \in {1, 2}
  BY <1>1, <1>2 DEF ReadSoFar
<1>4. row \in Rows /\ shown \in [Rows -> cache \cup {NoPicture}]
  BY <1>1 DEF RowsFilled, ViewersTypeOK
<1>5. /\ shown' \in [Rows -> cache' \cup {NoPicture}]
      /\ shown'[row] = picture /\ \A q \in Rows : q # row => shown'[q] = shown[q]
  BY <1>2, <1>4
<1>6. EngineAtRest'
  BY EngineKept DEF Deliver
<1>7. ViewersTypeOK'
  BY <1>1, <1>2, <1>3, <1>5 DEF ViewersTypeOK
<1>8. ReadSoFar'
  BY <1>2 DEF ReadSoFar
<1>9. BackgroundWhole' /\ ListWhole'
  BY <1>1, <1>2 DEF BackgroundWhole, ListWhole
<1>10. RowsFilled'
  <2>1. task # "sprites"
    BY <1>2
  <2>2. QED
    BY <1>1, <1>2, <1>3, <1>5, <2>1 DEF RowsFilled
<1>11. QED
  BY <1>6, <1>7, <1>8, <1>9, <1>10 DEF ViewersIInv

LEMMA EvictKeeps ==
  ASSUME ViewersIInv, NEW p \in cache, Evict(p)
  PROVE  ViewersIInv'
<1>1. /\ ViewersTypeOK /\ ReadSoFar /\ BackgroundWhole /\ RowsFilled /\ ListWhole
  BY DEF ViewersIInv
<1>2. /\ task = "none" /\ task' = task /\ step' = step /\ reads' = reads /\ row' = row
      /\ height' = height /\ version' = version /\ open' = open
      /\ cache' = cache \ {p} /\ (\A r \in Rows : shown[r] # p)
      /\ sprites' = sprites /\ shown' = shown /\ background' = background
  BY DEF Evict, task_vars, UiIsFree
<1>3. shown' \in [Rows -> cache' \cup {NoPicture}]
  BY <1>1, <1>2 DEF RowsFilled
<1>4. EngineAtRest'
  BY EngineKept DEF Evict
<1>5. ViewersTypeOK'
  BY <1>1, <1>2 DEF ViewersTypeOK
<1>6. ReadSoFar'
  BY <1>2 DEF ReadSoFar
<1>7. BackgroundWhole' /\ ListWhole'
  BY <1>1, <1>2 DEF BackgroundWhole, ListWhole
<1>8. RowsFilled'
  BY <1>1, <1>2, <1>3 DEF RowsFilled
<1>9. QED
  BY <1>4, <1>5, <1>6, <1>7, <1>8 DEF ViewersIInv

LEMMA ViewersStepKeepsIInv ==
  ASSUME ViewersIInv, [ViewersNext]_viewers_vars
  PROVE  ViewersIInv'
<1>1. CASE Operate
  BY <1>1, OperateKeeps
<1>2. CASE Ticking
  BY <1>2, TickingKeeps
<1>3. CASE OpenViewer \/ MissEngine \/ UNCHANGED viewers_vars
  BY <1>3, OpeningKeeps
<1>4. CASE CloseViewer
  BY <1>4, CloseKeeps
<1>5. CASE Updating
  BY <1>5, StartKeeps, ReadSpriteKeeps, ReadBackgroundKeeps DEF Updating
<1>6. CASE Picturing
  BY <1>6, ShowCachedKeeps, RequestKeeps, ReadTileKeeps, DeliverKeeps, EvictKeeps DEF Picturing
<1>7. QED
  BY <1>1, <1>2, <1>3, <1>4, <1>5, <1>6 DEF ViewersNext

(* The inductive invariant of the viewers: a task that reads a list or the *)
(* background keeps the session paused, and so reads one version of the    *)
(* memory; a picture belongs to the object of its row.                     *)
THEOREM ViewersInvariance == ViewersSpec => []ViewersIInv
<1>1. ViewersIInv /\ [ViewersNext]_viewers_vars => ViewersIInv'
  BY ViewersStepKeepsIInv
<1>2. QED
  BY ViewersInitIInv, <1>1, PTL DEF ViewersSpec

(* The viewers keep the types of their variables.                          *)
THEOREM ViewersTypeCorrect == ViewersSpec => []ViewersTypeOK
<1>1. ViewersIInv => ViewersTypeOK
  BY DEF ViewersIInv
<1>2. QED
  BY <1>1, ViewersInvariance, PTL

(* The list of objects and the background are what the memory held at some *)
(* one time, for every memory and whatever the session does.               *)
THEOREM WholeSnapshots == ViewersSpec => []SnapshotsAreWhole
<1>1. ASSUME ViewersIInv PROVE SnapshotsAreWhole
  <2>1. BackgroundWhole /\ ListWhole
    BY <1>1 DEF ViewersIInv
  <2>2. Cardinality(background) <= 1
    <3>1. CASE background = {}
      BY <3>1, FS_EmptySet
    <3>2. CASE \E v \in 1 .. Versions : background = {v}
      BY <3>2, FS_Singleton
    <3>3. QED
      BY <2>1, <3>1, <3>2 DEF BackgroundWhole
  <2>3. QED
    BY <2>1, <2>2 DEF ListWhole, SnapshotsAreWhole
<1>2. QED
  BY <1>1, ViewersInvariance, PTL

(* Flips undo themselves: the line and the column of the picture are those *)
(* the pixel processing unit takes where it draws them.                    *)
LEMMA LineFlipsBack ==
  ASSUME NEW sprite \in SpriteRecords, NEW line \in Nat
  PROVE  compute_sprite_tile_line(sprite, drawn_row(sprite, line)) = line
<1>1. sprite.height \in Int
  BY DEF SpriteRecords
<1>2. CASE sprite.y_flip
  BY <1>1, <1>2 DEF compute_sprite_tile_line, drawn_row
<1>3. CASE ~sprite.y_flip
  BY <1>3 DEF compute_sprite_tile_line, drawn_row
<1>4. QED
  BY <1>2, <1>3

LEMMA ColumnFlipsBack ==
  ASSUME NEW sprite \in SpriteRecords, NEW column \in 0 .. 7
  PROVE  (IF sprite.x_flip THEN 7 - drawn_place(sprite, column)
          ELSE drawn_place(sprite, column)) = column
<1>1. CASE sprite.x_flip
  BY <1>1 DEF drawn_place
<1>2. CASE ~sprite.x_flip
  BY <1>2 DEF drawn_place
<1>3. QED
  BY <1>1, <1>2

(* Where the unit finds the line. *)
LEMMA DrawnLineAddress ==
  ASSUME NEW sprite \in SpriteRecords, NEW line \in Nat
  PROVE  object_line_address(sprite, drawn_row(sprite, line))
           = 32768 + compute_sprite_tile_index(sprite, line) * 16 + (line % 8) * 2
<1> DEFINE its_line == compute_sprite_tile_line(sprite, drawn_row(sprite, line))
<1>1. its_line = line
  BY LineFlipsBack
<1>2. object_line_address(sprite, drawn_row(sprite, line))
        = 32768 + compute_sprite_tile_index(sprite, its_line) * 16 + (its_line % 8) * 2
  BY DEF object_line_address
<1> HIDE DEF its_line
<1>3. QED
  BY <1>1, <1>2

(* The two ways to find a line of an object agree, ...                     *)
LEMMA SameLine ==
  ASSUME NEW sprite \in SpriteRecords, NEW line \in Nat
  PROVE  sprite_line_address(image_uri(sprite), line)
           = object_line_address(sprite, drawn_row(sprite, line))
<1> DEFINE uri   == image_uri(sprite)
           tile  == masked_tile_index(uri, line)
           drawn == compute_sprite_tile_index(sprite, line)
<1>1. /\ uri.tile_index = sprite.tile_index
      /\ uri.double_height = (sprite.height > 8)
  BY DEF image_uri
<1>2. sprite.tile_index \in Nat /\ sprite.height \in {0, 8, 16}
  BY DEF SpriteRecords
<1>3. sprite.height < 16 <=> ~uri.double_height
  <2>1. sprite.height < 16 <=> ~(sprite.height > 8)
    BY <1>2
  <2>2. QED
    BY <1>1, <2>1, Zenon
<1>4. /\ sprite.tile_index - bit(0, sprite.tile_index) = (sprite.tile_index \div 2) * 2
      /\ (sprite.tile_index + 1) - bit(0, sprite.tile_index) = (sprite.tile_index \div 2) * 2 + 1
  BY <1>2, LastBit
<1> HIDE DEF uri
<1>5. tile = drawn
  <2>1. CASE sprite.height < 16
    BY <1>1, <1>3, <2>1, Zenon DEF masked_tile_index, compute_sprite_tile_index
  <2>2. CASE ~(sprite.height < 16) /\ line < 8
    <3>1. tile = sprite.tile_index - bit(0, sprite.tile_index)
      BY <1>1, <1>3, <2>2, Zenon DEF masked_tile_index
    <3>2. QED
      BY <1>4, <2>2, <3>1, Zenon DEF compute_sprite_tile_index
  <2>3. CASE ~(sprite.height < 16) /\ ~(line < 8)
    <3>1. tile = sprite.tile_index + (1 - bit(0, sprite.tile_index))
      BY <1>1, <1>3, <2>3, Zenon DEF masked_tile_index
    <3>2. sprite.tile_index + (1 - bit(0, sprite.tile_index))
            = (sprite.tile_index + 1) - bit(0, sprite.tile_index)
      BY <1>2, LastBit
    <3>3. QED
      BY <1>4, <2>3, <3>1, <3>2, Zenon DEF compute_sprite_tile_index
  <2>4. QED
    BY <2>1, <2>2, <2>3, Zenon
<1>6. sprite_line_address(uri, line) = 32768 + tile * 16 + (line % 8) * 2
  BY DEF sprite_line_address, TileSize, LineSize
<1>7. object_line_address(sprite, drawn_row(sprite, line)) = 32768 + drawn * 16 + (line % 8) * 2
  BY DrawnLineAddress
<1> HIDE DEF tile, drawn
<1>8. QED
  BY <1>5, <1>6, <1>7 DEF uri

LEMMA LineInMemory ==
  ASSUME NEW sprite \in SpriteRecords, NEW line \in Nat, NEW v \in 1 .. Versions
  PROVE  /\ Memory(v, object_line_address(sprite, drawn_row(sprite, line))) \in Nat
         /\ Memory(v, object_line_address(sprite, drawn_row(sprite, line)) + 1) \in Nat
<1> DEFINE half  == sprite.tile_index \div 2
           drawn == IF sprite.height < 16 THEN sprite.tile_index
                    ELSE IF line < 8 THEN half * 2 ELSE half * 2 + 1
           low   == line % 8
           there == object_line_address(sprite, drawn_row(sprite, line))
           next  == there + 1
<1>1. sprite.tile_index \in Nat /\ sprite.tile_index < 256
  BY DEF SpriteRecords
<1>2. half \in Nat /\ half < 128
  BY <1>1
<1>3. low \in Nat /\ low < 8
  OBVIOUS
<1>4. there = 32768 + drawn * 16 + low * 2
  <2>1. compute_sprite_tile_index(sprite, line) = drawn
    BY DEF compute_sprite_tile_index
  <2>2. QED
    BY <2>1, DrawnLineAddress
<1> HIDE DEF half, low, there
<1>5. drawn \in Nat /\ drawn < 256
  BY <1>1, <1>2
<1> HIDE DEF drawn
<1>6. there \in Nat /\ there < 65536 /\ next \in Nat /\ next < 65536
  BY <1>3, <1>4, <1>5
<1> HIDE DEF next
<1>7. Memory(v, there) \in Nat /\ Memory(v, next) \in Nat
  BY <1>6, ByteIs
<1>8. QED
  BY <1>7 DEF there, next

(* ... and so do the two ways to make a pixel of it.                       *)
LEMMA SamePixel ==
  ASSUME NEW sprite \in SpriteRecords, NEW palette, UsualPalette(palette),
         NEW low \in Nat, NEW high \in Nat, NEW column \in 0 .. 7
  PROVE  sprite_pixel(palette, low, high, column)
           = object_pixel(sprite, palette, low, high, drawn_place(sprite, column))
<1> DEFINE index == color(low, high, column)
<1>1. index \in 0 .. 3
  <2>1. 7 - column \in 0 .. 7
    OBVIOUS
  <2>2. bit(7 - column, high) \in 0 .. 1 /\ bit(7 - column, low) \in 0 .. 1
    BY <2>1, BitIs
  <2>3. QED
    BY <2>2 DEF color
<1>2. shade(palette, 0) = 0 /\ \A i \in 1 .. 3 : shade(palette, i) # 0
  BY DEF UsualPalette
<1> HIDE DEF index
<1>3. shade(palette, index) = 0 <=> index = 0
  <2>1. index = 0 \/ index \in 1 .. 3
    BY <1>1
  <2>2. QED
    BY <1>2, <2>1
<1>4. sprite_pixel(palette, low, high, column)
        = IF shade(palette, index) = 0 THEN Transparent ELSE shade(palette, index)
  BY DEF sprite_pixel, index
<1>5. object_pixel(sprite, palette, low, high, drawn_place(sprite, column))
        = IF index = 0 THEN Transparent ELSE shade(palette, index)
  <2>1. (IF sprite.x_flip THEN 7 - drawn_place(sprite, column)
         ELSE drawn_place(sprite, column)) = column
    BY ColumnFlipsBack
  <2>2. QED
    BY <2>1, Zenon DEF object_pixel, index
<1>6. CASE index = 0
  BY <1>3, <1>4, <1>5, <1>6, Zenon
<1>7. CASE index # 0
  BY <1>3, <1>4, <1>5, <1>7, Zenon
<1>8. QED
  BY <1>6, <1>7

(* The picture of a row is of the object of the row; if it was read at one *)
(* moment, its pixels are those the pixel processing unit draws, flipped   *)
(* as the object is, for every content of the memory and every usual       *)
(* palette.                                                                *)
THEOREM PicturesMatch == ViewersSpec => []PicturesAreObjects
<1>1. ASSUME ViewersIInv PROVE PicturesAreObjects
  <2> SUFFICES ASSUME task # "sprites", NEW r \in Rows, shown[r] # NoPicture
               PROVE  LET p == shown[r]  sprite == sprites[r]  v == p.palette
                          palette == Memory(v, sprite_palette_address(p.uri))
                      IN  /\ p.uri = image_uri(sprite)
                          /\ Whole(p) /\ UsualPalette(palette) =>
                               \A line \in 0 .. 8 * Len(p.tiles) - 1, column \in 0 .. 7 :
                                 LET here  == sprite_line_address(p.uri, line)
                                     there == object_line_address(sprite, drawn_row(sprite, line))
                                 IN  sprite_pixel(palette, Memory(v, here), Memory(v, here + 1), column)
                                     = object_pixel(sprite, palette, Memory(v, there),
                                                    Memory(v, there + 1),
                                                    drawn_place(sprite, column))
    BY Zenon DEF PicturesAreObjects
  <2> DEFINE p == shown[r]
             sprite == sprites[r]
             v == p.palette
             palette == Memory(v, sprite_palette_address(p.uri))
  <2>1. p.uri = image_uri(sprite) /\ sprite \in SpriteRecords
    BY <1>1 DEF ViewersIInv, RowsFilled
  <2>2. v \in 1 .. Versions /\ Len(p.tiles) \in {1, 2}
    BY <1>1 DEF ViewersIInv, ViewersTypeOK
  <2> HIDE DEF p, sprite, v, palette
  <2>3. ASSUME UsualPalette(palette),
               NEW line \in 0 .. 8 * Len(p.tiles) - 1, NEW column \in 0 .. 7
        PROVE  sprite_pixel(palette, Memory(v, sprite_line_address(p.uri, line)),
                            Memory(v, sprite_line_address(p.uri, line) + 1), column)
               = object_pixel(sprite, palette,
                              Memory(v, object_line_address(sprite, drawn_row(sprite, line))),
                              Memory(v, object_line_address(sprite, drawn_row(sprite, line)) + 1),
                              drawn_place(sprite, column))
    <3> DEFINE there == object_line_address(sprite, drawn_row(sprite, line))
               here  == sprite_line_address(p.uri, line)
    <3>1. line \in Nat
      BY <2>2
    <3>2. here = there
      BY <2>1, <3>1, SameLine
    <3>3. Memory(v, there) \in Nat /\ Memory(v, there + 1) \in Nat
      BY <2>1, <2>2, <3>1, LineInMemory
    <3> HIDE DEF there, here
    <3>4. sprite_pixel(palette, Memory(v, there), Memory(v, there + 1), column)
            = object_pixel(sprite, palette, Memory(v, there), Memory(v, there + 1),
                           drawn_place(sprite, column))
      BY <2>1, <2>3, <3>3, SamePixel
    <3>5. QED
      BY <3>2, <3>4 DEF there, here
  <2>4. QED
    BY <2>1, <2>3, Zenon DEF p, sprite, v, palette
<1>2. QED
  BY <1>1, ViewersInvariance, PTL

LEMMA ControlIs ==
  ASSUME NEW v \in 1 .. Versions
  PROVE  Memory(v, LcdControl) \in Nat
<1>1. LcdControl \in Nat /\ LcdControl < 65536
  BY DEF LcdControl
<1>2. QED
  BY ONLY <1>1, v \in 1 .. Versions, ByteIs

LEMMA TileIs ==
  ASSUME NEW v \in 1 .. Versions, NEW entry \in Entries, NEW lcdc
  PROVE  Memory(v, tilemap_address(lcdc, entry)) \in 0 .. 255
<1> DEFINE address == tilemap_address(lcdc, entry)
<1>1. entry \in Nat /\ entry < 1024
  BY EntriesAssumption
<1>2. address \in Nat /\ address < 65536
  BY <1>1 DEF tilemap_address
<1> HIDE DEF address
<1>3. Memory(v, address) \in 0 .. 255
  BY <1>2, ByteIs
<1>4. QED
  BY <1>3 DEF address

(* Where the two addressing modes put a line of a tile.                    *)
LEMMA TileLines ==
  ASSUME NEW lcdc \in Nat, NEW tile \in Nat, tile < 256, NEW line \in Nat, line < 8
  PROVE  IF SameTile(lcdc, tile)
         THEN tile_line_address(lcdc, tile, line) = compute_tile_address(lcdc, tile, line)
         ELSE tile_line_address(lcdc, tile, line) < TileData
<1>1. bit(4, lcdc) \in 0 .. 1
  BY BitIs
<1> DEFINE mode4 == bit(4, lcdc)
<1>2. tile_line_address(lcdc, tile, line)
        = (IF mode4 = 1 THEN 32768 ELSE 36864) + signed(tile) * 16 + line * 2
  BY DEF tile_line_address, TileSize, LineSize
<1>3. compute_tile_address(lcdc, tile, line)
        = IF mode4 = 1 THEN 32768 + tile * 16 + line * 2
          ELSE 36864 + signed(tile) * 16 + line * 2
  BY DEF compute_tile_address
<1>4. SameTile(lcdc, tile) <=> mode4 = 0 \/ tile < 128
  BY DEF SameTile
<1> HIDE DEF mode4
<1>5. CASE mode4 = 0
  BY <1>2, <1>3, <1>4, <1>5
<1>6. CASE mode4 = 1 /\ tile < 128
  <2>1. signed(tile) = tile
    BY <1>6 DEF signed
  <2>2. QED
    BY <1>2, <1>3, <1>4, <1>6, <2>1
<1>7. CASE mode4 = 1 /\ ~(tile < 128)
  <2>1. signed(tile) = tile - 256
    BY <1>7 DEF signed
  <2>2. 32768 + (tile - 256) * 16 + line * 2 < 32768
    OBVIOUS
  <2>3. QED
    BY <1>2, <1>4, <1>7, <2>1, <2>2 DEF TileData
<1>8. mode4 = 0 \/ mode4 = 1
  BY <1>1 DEF mode4
<1>9. QED
  BY <1>5, <1>6, <1>7, <1>8

(* The background is drawn from the tiles the background fetcher uses and  *)
(* cut out where it was drawn, for every content of the memory; but for    *)
(* the tiles from 128 on under the unsigned mode, which are read below the *)
(* tile data.                                                              *)
THEOREM BackgroundFetched == ViewersSpec => []BackgroundIsFetched
<1>1. ASSUME ViewersIInv PROVE BackgroundIsFetched
  <2> SUFFICES ASSUME NEW v \in background, NEW entry \in Entries
               PROVE  LET lcdc == Memory(v, LcdControl)
                          tile == Memory(v, tilemap_address(lcdc, entry))
                      IN  /\ copied_at(entry) = drawn_at(entry)
                          /\ \A line \in 0 .. 7 :
                               IF SameTile(lcdc, tile)
                               THEN tile_line_address(lcdc, tile, line) = compute_tile_address(lcdc, tile, line)
                               ELSE tile_line_address(lcdc, tile, line) < TileData
    BY Zenon DEF BackgroundIsFetched
  <2> DEFINE lcdc == Memory(v, LcdControl)
             tile == Memory(v, tilemap_address(lcdc, entry))
  <2>1. v \in 1 .. Versions
    BY <1>1 DEF ViewersIInv, ViewersTypeOK
  <2>2. lcdc \in Nat
    BY <2>1, ControlIs
  <2> HIDE DEF lcdc
  <2>3. tile \in 0 .. 255
    BY <2>1, TileIs
  <2> HIDE DEF tile
  <2>4. tile \in Nat /\ tile < 256
    BY <2>3
  <2>5. copied_at(entry) = drawn_at(entry)
    BY DEF copied_at, drawn_at
  <2>6. ASSUME NEW line \in 0 .. 7
        PROVE  IF SameTile(lcdc, tile)
               THEN tile_line_address(lcdc, tile, line) = compute_tile_address(lcdc, tile, line)
               ELSE tile_line_address(lcdc, tile, line) < TileData
    <3>1. line \in Nat /\ line < 8
      OBVIOUS
    <3>2. QED
      BY <2>2, <2>4, <3>1, TileLines
  <2>7. QED
    BY <2>5, <2>6 DEF lcdc, tile
<1>2. QED
  BY <1>1, ViewersInvariance, PTL
================================================================================
