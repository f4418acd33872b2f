# A formal model of gameboy-cpp

gameboy-cpp is a Game Boy emulator in C++ modules. This directory holds TLA+ models of
its control logic, TLC configurations that check them on small instances, and proofs
that TLAPS checks for every value of the constants. `PROJECT.json` maps every
definition to the lines it models. Paths below are relative to `src/gameboy-cpp/`.

To check a model: `tlc -config MCTimer.cfg MCTimer`. To check a proof:
`tlapm TimerProofs.tla`.

## The system

| component | code | state it keeps | operations | module |
|---|---|---|---|---|
| engine and scheduler | `engine/engine.cppm`, `scheduler.cppm`, `factory.cppm` | one of each component | `tick(n)`: repeat, let each active component advance by the smallest batch any of them offers | planned |
| CPU runner and interrupt dispatch | `engine/cpu.cppm`, `interrupts/` | registers, IME with its countdown, HALT, state and cycle counters, IE, IF | one T-cycle or more; interrupt requests | `CpuRunner`, `CpuContract` |
| instruction set | `opcodes/` | none of its own | one step per M-cycle of each opcode | representatives in `CpuRunner`; arithmetic and flags in `Alu` |
| timer | `timer/` | DIV, TIMA, TMA, TAC, two delay windows | tick, register writes | `Timer`, `TimerContract` |
| OAM DMA | `graphics/graphics_oam.cppm`, `graphics_memory.cppm` | state, byte, two countdowns, two pages | tick, register write | `OamDma`, `OamContract` |
| PPU | `graphics/graphics_ppu.cppm`, `graphics_registers.cppm` | mode, line, dot, STAT line, window, scroll and palette registers | tick, register writes, switching on and off | `Ppu`, `LcdContract` |
| fetchers, FIFOs | `graphics/graphics_pixel_fetcher.cppm`, `graphics_fifo.cppm`, `graphics_object_buffer.cppm` | fetch state, two queues, ten objects | tick, reset | `Drawing` |
| memory | `memory/`, `engine/memory.cppm`, `graphics_memory.cppm` | map from addresses to handlers, access policies | read, write | planned (the OAM policy for writes is in `OamDma`, the PPU's in `Ppu`) |
| bank controllers | `mbc/` | bank registers, RAM enable | register writes, banked accesses | planned |
| serial link | `serial/` | data, control, bit counter, T-cycles | tick, external clock, register writes | `Serial` |
| joypad | `joypad/`, `emulator_joypad_qt.cppm` | inputs, selected lines | update from another thread, register write | `Joypad` |
| interrupt flags | `interrupts/interrupts_control.cppm` | IE, IF | request, clear, enable | `CpuRunner` (one thread), `Joypad` (two) |
| APU | `audio/audio_apu.cppm`, `audio_pulse.cppm`, ... | four channels with timers | tick, register writes, trigger | planned |
| audio signal chain | `audio/audio_mixer.cppm`, `audio_hpf.cppm`, ... | filter memory | arithmetic on floating-point samples | out of reach |
| session | `gameboy/main.cpp`, `emulator/emulator_gameboy.cppm`, `emulator_tasks.cppm`, `emulator_audio_qt.cppm`, `emulator_ui_qt.cpp` (controls), `EmulatorUI.qml` | engine, two threads, sink, queue of samples, status and volume shown | load, resume, pause, stop, next frame, volume, mute, quit | `Session`, `SessionSound`, `SessionContract` |
| display | `emulator_ui_qt.cpp` (framebuffer source, video items) | a lock-free value of three cells, update flags, textures | push, paint, connect, close | `Display`, `FrameRegister` |
| debug viewers | `emulator_ui_qt.cpp` (sprites, background, image providers) | list of objects, image of the background, cached pictures | update, scroll, request a picture | `Viewers`, `ViewerDecode` |
| cartridge parser, json, metadata, math, SDL front end, QML bindings | `cartridge/`, `json/`, ... | - | - | not modelled: sequential or pure code, constant data |

**How the parts interact.** The engine thread calls `engine::tick` frame by frame. The
scheduler asks every component for a batch, takes the smallest, and calls them in a
fixed order, the CPU first. A CPU write reaches the registers of the other components
through the memory map, in the middle of the CPU's own tick, hence before the others
advance by the same batch. Components request interrupts by setting a bit of a
shared byte. A second thread updates the joypad every 16 ms and sets a bit of the same
byte. The UI thread starts and joins both, and the audio library calls back from a
thread of its own. Each frame goes from the thread that ticks the engine to the render
thread of the interface through a lock-free value; the debug viewers read the memory of
the engine on the UI thread.

**What is hard.** Five things, and the list under `hazards` in `PROJECT.json` gives
their lines.

1. *Windows of a few T-cycles.* The timer reload, the start of a DMA transfer, the EI
   delay and the dispatch are counted down in separate variables, and a register
   write may fall anywhere in between.
2. *Stale state.* The runner fetches ahead of the interrupt check, HALT remembers IME,
   the dispatch remembers an interrupt that its own pushes may disable, and the serial
   link remembers the bits of a transfer that was called off.
3. *Threads without locks.* The joypad thread against the engine thread, and the order
   in which stop, pause, load and the end of `main` tear down what the other threads use.
4. *Limits.* The queue of samples, the last byte of a transfer, batches of zero.
5. *Two clocks in one dot.* The FIFOs lose pixels while the fetchers fill them, and
   objects, the window and the fine scroll stall or restart either of them.

**What makes each component correct.** Timer: an overflow is reloaded or called off,
never forgotten; no edge is lost. CPU: an interrupt is taken between two instructions,
with the right return address and priority; EI and HALT keep their timing. Arithmetic:
flags are those of the integers, whatever ran in between. OAM DMA: a
copy is seen whole or not at all. PPU: lines and frames keep their times whatever is
written, and the STAT line is never stale. Drawing: no column is lost, the object in front
is shown, the mode ends in time. Serial: an interrupt means a byte. Joypad: presses are
reported and held keys are seen. Session: nothing is used after it is released, every
operation returns, status and volume shown are true. Display: an item shows whole frames
in order, and the last one. Viewers: what is shown is of one moment and is what the PPU
makes of the same memory.

## The modules

### Timer, TimerContract, TimerProofs

`Timer` is `timer_system`: the variables are its members under their names, the
actions are the register handlers (`WriteDiv`, `WriteTima`, `WriteTma`,
`WriteTacDisabled`, `WriteTacEnabled`) and `Tick`. A CPU access happens on the grid
of M-cycles, except around HALT; the variable `ticks_since_access` states this
environment, and `AccessGrid` of `CpuRunner` proves it of the CPU.

`TimerContract` is what a game relies on, with a phase (counting, overflowed,
reloading) in place of two flags, two countdowns and the divider. `ImplementsContract`
maps the one to the other. `UnitBatch` says the batch the timer offers is always one
T-cycle: the divider bits that it waits for include one that changes every time. So the
scheduler never stalls on the timer, and every other component is driven one T-cycle at
a time in the engine, which `CpuRunner` and `OamDma` use.

`PendingCountsFromZero` and the windows located relative to the divider and to the last
CPU write (`PendingWindow`, `OverwriteWindow` in `TimerProofs`) are what makes the rest
inductive: without them a second overflow inside the first reload window could not be
excluded.

Run `timer`: DIV of 64 values, TIMA of 2 bits, three clocks. The divider is small but
each clock is a multiple of two M-cycles as in the code, so every window can end
before, with and after an edge. `PendingNeverDropped` is checked next to the contract, which
does not imply it: the contract's step that sets the counter carries no label, so a pending
overflow that a write of DIV or TAC dropped would pass for one that a write of TIMA
called off.

### CpuRunner, CpuContract, CpuProofs

`CpuRunner` is the state machine of `cpu_runner`, one T-cycle per step, with the
dispatcher and the interrupt controller. Memory content is left open: any opcode may be
read from any address, and a write goes to IE, IF, or anywhere else. The eleven opcodes
and two prefixed ones are those that the runner, IME, HALT or the program counter can
tell apart; every other instruction differs from one of them only in its number of
M-cycles or in data that is not modelled.

`CpuContract` knows no cycles: instructions begin, run and end, interrupts come between
two of them, EI arms and takes effect one instruction later, a dispatch ends at the
handler of the interrupt it accepted, or of the first one pending if its own pushes
disabled that one. The runner fetches ahead, so its program counter is mapped back by
one where the contract says `ready`.

`upcoming` is a history variable: where the opcode of the last instruction was read, or
where a halted CPU will go on. Nothing but a fetch and HALT sets it, so a dispatch cannot:
`StackHoldsReturnAddress` compares the bytes pushed with an address that was remembered
before step 0 of the dispatcher changed `pc`, over preemption and wake-up alike.

Run `cpu_runner`: four addresses in two pages (so the two bytes of a return address
differ), two interrupts (so priority matters).

### Alu, CpuProofs

`Alu` is what the instructions do to the accumulator and the flags. Operators named after
the instructions compute value and flags the way the code does (a wrapped sum
compared with an operand, a difference of 16 unsigned bits), and an action per group of
opcodes applies them. `carry`, `half` and `decimal` say what the integers say of the
same operations, so the invariants compare two computations: `CarriesAreExact` after
every sequence of instructions, whatever a loop does between two bytes of a sum, and
`DecimalArithmetic` for `daa` after any sum or difference of decimal numbers with or
without carry. Left open: the results of `and`, `or`, `xor`, which bit is
tested, and the flags `pop af` brings.

Run `alu`: all hundred pairs of decimal digits, and the bytes at which a digit, the
sign or the byte overflows; the proofs are for all bytes. `MCAlu` also evaluates
`RotationsUndo`, `WordsAreBytes` and `SignedOffsetCarries`, pure statements on rotations
and additions of words; `CpuProofs` proves them for all operands.

### OamDma, OamContract, OamDmaProofs

`OamDma` is `oam_dma` with the register write that starts a transfer and the access
policy that hides the OAM. A byte of the OAM is represented by the page it was copied
from. `OamContract` has one variable for what the game sees. The mapping hides the OAM
while a transfer is active and shows that it comes back only as a whole copy, however
often the transfer was restarted.

Run `oam_dma`: three bytes, three pages of which one is an echo. A restart may fall on
the first, a middle and the last byte, which are the cases the code distinguishes.

### Ppu, LcdContract, PpuProofs

`Ppu` is `pixel_processing_unit` without its pixels: the four modes, LY with its early
reading, LYC, the STAT line, the interrupts, and switching off and on, with the batch of
each mode. `Tick` takes any part of the batch, as a scheduler may. The drawing mode is one
step that lasts between `MinDraw` and `MaxDraw` dots; `DrawingIsBounded` of `Drawing` is
the property that justifies them. `latched_ly_lyc_bit`, `initial_state_after_on`
and the access policies of OAM and video RAM are the code's.

`LcdContract` is a counter of dots: a line is shown at the end of each visible line, a
frame is complete and the vertical blank requested at the end of the last. The mapping
forgets the modes. So `ImplementsContract` says that no write of the game and no batch
length moves a line, and that a frame cut short by switching off is never shown.

`PpuProofs` proves the properties of safety and the refinement. The dots of the contract
are a product of two variables of the PPU, so the proof first splits a dot into its line
and its place in the line (`DotSplit`, `DotInLine`) and compares the ends of lines
(`LineEndRefines`); the steps of the modes then only say which of the two ways time passes.

Run `ppu`: lines of 13 dots, three visible of five, LYC inside the frame and beyond it.
Every mode has at least two dots, and the dots the code singles out (the LYC gap,
the early LY, the first line after the LCD is on) are distinct.

### Drawing, DrawingProofs

`Drawing` is `handle_draw` dot by dot with `pixel_fetcher`, `object_fetcher`, both FIFOs and
the object buffer, from line to line. A background pixel is represented by its column and
whether the window shows it, a pixel of an object by its object and whether it is
opaque, so what reaches the screen can be compared with what should be there. An object
fetch takes any of the delays the code computes from the position.

`DrawingIsBounded` gives the bounds as a formula in the widths (for the code 172 to 307
dots; the mode must end before dot 452 of the line); `FetcherKeepsUp` is why: outside
the first row of a line or window the length of the FIFO and the dots of the fetcher
always add up to a row.

`DrawingProofs` proves the four properties of safety. Three arguments meet in one
invariant. The background (`BackgroundReady`): the fetcher counts its dots step by step
(`InStep`), so the pixels that wait are the columns before the tile fetched next, and the
next pixel is the right one. The dots (`OnTime`): a potential, `DotsLeft`, adds up what
every pixel, object, window start and discarded pixel still to come can cost, and with
the dots spent it never exceeds `MaxDraw`. The objects (`ObjectsAre`): at every pixel to
come the FIFO of objects holds the one in front of all that cover it, except for objects
not fetched yet, and those begin no earlier than the next pixel; this is what makes
merging independent of the order of the fetches. A first form of the invariant was not
inductive: the delay of an object fetch is counted down while its counter of dots
runs up, so only their sum stays bounded (`SpriteTimed`).

Run `drawing`: a line of four pixels, rows of four, two objects that overlap and hang over
the edge in either order of fetch, windows at the edge and inside, LCDC and WX
rewritten in any dot.

### Serial, InterfaceProofs

`Serial` is `serial::link` and its two registers. A bit is represented by where it came
from. A tick may be as long as the batch the link offers, longer than any it gets in
the engine. `InterruptBringsByte` says that a serial interrupt means a complete byte
although a transfer called off leaves its counter behind: what it had shifted in stays
at the end of the register, and that is the invariant (`TailReceived`).

Run `serial`: three bits of four T-cycles, so that a tick ends none, one or several
bits and stops at any point within one.

### Joypad, InterfaceProofs

`Joypad` is `joypad::set_state` on the joypad thread, against the engine thread that
selects lines and updates the request byte, and key events of the UI thread. The copy
of the inputs is one step per input, and a read-modify-write of the byte is a load and
a store. Data races are modelled as interleavings of these steps.

`EdgesAreReported` is proved for every set of lines and inputs: the first reading of an
update is of the inputs held and the lines selected when it began (`FirstReading`), and
the copy is complete when the second one compares.

Run `joypad` has one line with its button and its direction. The lines of the register
are independent of each other but for the interrupt they share, and one line with two
inputs already has every case of the multiplexing.

### Session, SessionContract, SessionSound, SessionProofs

`Session` is the `gameboy` class with the controls of the Qt interface, the two threads,
the sink and the queue, from the first local of `main` to the destruction of the last.
UI operations are split where they wait for another thread or where another thread can
see the difference; the user chooses among the buttons the interface enables, and may
close the window between any two operations. Work inside a frame is the samples it
writes. `UsedIsAlive` is about lifetimes: the engine, the sample buffer, and the locals of
`main` that the threads hold references to.

`SessionContract` is what the rest of the interface may assume of it: one thread ticks the
engine at a time, the engine is replaced only while nobody does, and a session that is
paused leaves it alone. `Session` implements it, and `Display` and `Viewers` are built on
the contract instead of the session, so that neither has to repeat the joins.

`SessionSound` adds volume and mute. The volume lives in the sink, which each load
makes anew. So `VolumeFollowsControls` says two things: muted is silent, also in
a sink that is opened while muted; and the slider is wrong only from the opening of a
sink until it is moved (see *Observations*). Its proof uses the invariant of the session
underneath: a sink appears only where there was none.

`SessionProofs` finds why nothing is used after its release: where the UI thread is in
an operation says which threads are gone (`Joined`), which of engine, sink and buffer
exist (`Resources`), and that the locals of `main` go only after the session has been
stopped (`Quitting`). The contract's variables are operators of the session's, and the
proof first says what they are in each state of the UI thread.

Run `session`: a queue of two samples and frames of one or two, so that the queue is
empty, in between and full; three volumes, one of them 0. Deadlock is not checked since
the program may end.

### Display, FrameRegister, DisplayProofs

`Display` follows a frame: copied and written by the thread that ticks the engine
(`Fill`, `Publish`), announced to the video items (`Emit`), merged by the event loop into a
request to paint (`Update`), read by the render thread (`Sync`) and turned into a texture
(`Paint`). The queue is `boost::lockfree::spsc_value`: three cells of which the writer and
the reader own one each and exchange it for the third. It is safe for one writer; that
the engine thread and the UI thread are never writers together is what the session's
contract is needed for. What an item shows is its texture: QML does not display the item of
the window while the session is stopped (`EmulatorUI.qml:100`), which is left out.

`FrameRegister` is the promise: a register of the latest frame. The mapping takes as
latest the fresh cell, or the reader's if none is fresh. An item that is being painted
counts as showing what the reader's cell holds from the moment of the exchange, since a
writer can no longer reach that cell. The invariant says so (the three indexes are a
permutation), and `DisplayProofs` proves the refinement for every set of items.

Run `display`: the window and one viewer, three frames. Two frames are written while one
is painted, which makes the writer come back to the cell it started from. The refinement
does not depend on the bound of frames, and `LatestIsShown` is checked for each of them.

### Viewers, ViewerDecode, InterfaceProofs

`ViewerDecode` has the arithmetic: how the viewers take an object, the address of a tile line
and a pixel from memory, next to how the PPU does it. The code has these twice, in
`emulator_ui_qt.cpp` and in `graphics_pixel_fetcher.cppm`; nothing but these definitions
relates them. `Viewers` has the order in which the memory is read, in steps between which
the engine thread may write: the memory is a number of versions, and a step notes the
version it read. The pictures of the list pass through the cache of the QML engine, by
their URI.

A picture's URI has no flips, so the picture of a flipped object is not mirrored, and the
pixel processing unit draws the object mirrored (`compute_sprite_tile_line`, and the
reversal of the row in `object_pixel`). `PicturesAreObjects` therefore says that a pixel of
the picture is the pixel the unit draws at the place the flips give it (`drawn_row`,
`drawn_place`): the same place only for an object that is not flipped.

`SnapshotsAreWhole` relates the thread of the engine to the state of a button: a
viewer's list is read byte by byte without a lock, but only while the session is not
running. `PicturesAreObjects` and `BackgroundIsFetched` compare the viewers' decoding with
the PPU's where the two agree, and name where they do not: flipped objects as above, and
under the unsigned addressing mode the background viewer reads the second half of the tiles
from below 0x8000.

Proved for every memory, number of its contents and list of up to 40 objects. While a
list or the background is read the session is paused, so by the contract nobody ticks the
engine and the version stays the one the height was read from (`ReadSoFar`); the last
object makes the list that of one version (`ListWhole`). That a row shows the picture of its
own object has to hold across the cache, which keeps pictures of earlier lists
(`RowsFilled`). The decoding is proved equal tile by tile and pixel by pixel (`SameLine`,
`SamePixel`, `TileLines`), the flips undone by `LineFlipsBack` and `ColumnFlipsBack`.

Run `viewers`: two objects, two contents of the memory that differ in object height,
addressing mode, palettes, flips and tiles, and entries of the map in the first and last row.
Deadlock is not checked since the program may end.

## Runs

| run | question | answer |
|---|---|---|
| `timer` | do register writes at any point of the reload window keep the timer to its contract? | yes |
| `cpu_runner` | do interrupts, EI and HALT keep to the contract at any T-cycle? | yes |
| `alu` | are carries exact and decimal results right after any sequence of instructions? | yes |
| `oam_dma` | can a restart leave half a copy or run past the OAM? | no |
| `ppu` | do lines, LY, the STAT line and the vertical blank keep to the contract under any writes and batches? | yes |
| `drawing` | is a column lost, a hidden object shown, or the mode too long? | no |
| `serial` | can an interrupted transfer bring half a byte or hang? | no |
| `joypad` | are presses reported and held keys seen in spite of torn copies? | yes |
| `joypad_request_lost` | does a requested interrupt stay requested until it is cleared? | no |
| `session` | is anything used after release, ticked twice, left hanging, shown wrongly, also when the program is closed? | no |
| `display` | does an item show torn, old or stale frames, or miss the last one? | no |
| `viewers` | are the viewers' snapshots of one moment and decoded as the PPU does? | yes, but for the flips and tiles named above |

Every property of a passing run has a mutant in `PROJECT.json`, a plausible mistake in
the code under which TLC finds the property violated. The operators for them are marked
*Seeded fault* and stand before the definition they mutate.

## Findings

- **A request can be lost** (`interrupts_control.cppm:15`). Two threads update the
  request byte with a plain read-modify-write.
- **A test that expects another return address** (`interrupts_dispatch.cppm:36`). The runner
  has fetched ahead when a dispatch begins, so step 0 takes one from the program counter
  before it is pushed. The unit test "Previous pc is push to stack"
  (`interrupts_dispatch.test.cpp:74-94`) gives the dispatcher 0xABCD and expects 0xAB and
  0xCD on the stack, where the code puts 0xABCC. Run `cpu_runner` and
  `ReturnAddressStacked` show that the address pushed is the one remembered before the
  dispatch, one below the program counter the dispatcher is given; that it is never the
  given one, as the test has it, is theorem `GivenPcIsNotStacked`. The code is right and
  the test is not.

## Observations

Behaviour the models have as the code has it, which contradicts no statement of the
repository that a run could check, or is met by no run:

- Stepping by frame ticks the engine while the sink is suspended; the queue of half a
  second fills, further samples are dropped and `Q_ASSERT` at `emulator_audio_qt.cppm:67`
  fails (`Write` with a full queue).
- A debug viewer survives Stop; its buttons reach a null engine
  (`emulator_ui_qt.cpp:140`). `OnlyViewersMissTheEngine` says that nothing else does.
- A volume that was set is lost when another cartridge is loaded, and the slider still
  shows it, since the binding at `emulator_ui_qt.cpp:91` depends on no property.
- After a load the display shows the last frame of the previous session until the first new
  one.
- `q_expected::visit` asserts a valid value (`emulator_ui_qt.cpp:72`), which a successful
  `load_rom` does not have (`emulator_ui_qt_types.hpp:58`).
- The background viewer reads tiles 128 to 255 from the wrong place under the unsigned
  addressing mode; the sprites viewer makes white transparent instead of colour 0, shows a
  flipped object not flipped, and may show cached pictures of an earlier content.
- `requestImage` swaps width and height when it reports the size of a picture
  (`emulator_ui_qt.cpp:426`), which matters for tall objects. The reported size is not
  modelled.
- The object buffer survives switching the LCD off, the row of the window is not reset in
  every frame, objects that hang over the left edge are drawn from it on instead of
  clipped, and LYC = 255 coincides in one dot of each line.

## Fairness

- `WF(Tick)` in `Timer`, `CpuRunner`, `OamDma`, `WF(AnyTick)` in `Serial`, `WF(TickStep)` in
  `Ppu` and `WF(Draw)` in `Drawing`: the loop of
  `batch_schedule` does not stop, and no batch is zero (`UnitBatch`, `PositiveBatch`).
  Nothing is assumed of the program that runs on the CPU, of interrupts or of the
  other end of the serial cable.
- `WF(JoypadThread)` in `Joypad`: the thread polls until it is asked to stop. Keys and
  the engine thread have no fairness.
- In `Session`, the operating system runs every thread and a callback of the audio
  library returns. The user need not do anything, and the library need not call back.
- In `Display`, a frame that was begun ends and an operation returns (`UiReturns` of
  `Session` shows it). Strong fairness of `Update` and `Sync` for each item: the UI thread
  handles its events in the order they are posted, between operations of the user.

## Proofs

Each `*Proofs` module defines an inductive invariant `IInv`, proves that `Init` gives it
and that every action keeps it (one lemma per action), and derives the properties. Where
one module proves about several models (`CpuProofs`, `InterfaceProofs`), the second and
third name their `Init`, `Next`, `Spec` and `TypeOK` after themselves (`AluSpec`,
`JoypadSpec`, `ViewersSpec`), and so the invariants.

| module | proved for | the invariant adds |
|---|---|---|
| `TimerProofs` | every divider and TIMA width, every set of clocks that are multiples of 8 and divide the divider | where the two windows lie relative to the divider and the last CPU write |
| `CpuProofs`, `CpuRunner` | every address space, page size, number of interrupts and vector table | the phase of CPU writes in an M-cycle; the bytes pushed so far; `Lookahead`: how far `pc` is past the instruction that is, or can be, preempted (neither `Lookahead` nor anything more is needed for the contract) |
| `CpuProofs`, `Alu` | every set of operand bytes; rotations and sums of words for all operands | that the flags and the accumulator are those of the last decimal sum or difference |
| `PpuProofs` | every number of dots and lines up to 254, every length of the drawing mode that ends before LY reads ahead, every set of LYC values | `Placed`: where each mode lies in the line; `LycCounted`: a line that has raised STAT for LYC is LYC or past it; `LinesShown` for the contract |
| `DrawingProofs` | every width of the screen, dots to a step, number and delay of objects, results of the OAM scan, and values of WX and fine scroll | `BackgroundReady`, `OnTime` with the potential `DotsLeft`, `ObjectsAre` |
| `OamDmaProofs` | every OAM of 1 to 255 bytes and every set of pages | what has been copied so far; the last byte while restarting |
| `InterfaceProofs`, `Serial` | every number of bits and T-cycles to a bit | received bits lie at the end of the register |
| `InterfaceProofs`, `Joypad` | every set of lines and inputs | `FirstReading` |
| `InterfaceProofs`, `Viewers` | every memory of bytes, number of its contents and entries of the map, up to 40 objects | `EngineAtRest`, `ReadSoFar`, `RowsFilled`, `ListWhole` |
| `SessionProofs`, `Session` | every size of queue and frame | `Joined`, `Resources`, `Quitting`, `Shown` |
| `SessionProofs`, `SessionSound` | every set of volumes | `MutedIsSilent` |
| `DisplayProofs` | every set of items and number of frames | that the three cells are distinct; which tickers may be in `push_frame`; that fresh and read frames are in order |

The assumptions are the named ASSUMEs on the constants of each module; TLC evaluates
them in the runs. Two of them are about the environment rather than about a width, and
they are conjuncts of guards, not ASSUMEs: register writes of the program come on the
CPU's grid, which is itself proved of the CPU (`AccessGrid`), and the batch is one
T-cycle in `CpuRunner`, which is itself proved of the timer (`UnitBatch`).

Every invariant, every action property and every refinement that a passing run checks is
proved as well. Only model-checked: the liveness properties (`PendingResolves`,
`HaltEnds`, `PendingIsTaken`, `TransferEnds`, `FramesEnd`, `LineEnds`, `UiReturns`,
`KeysReachTheGame`, `LatestIsShown`), since the prover does neither fairness nor ENABLED.
For a line that ends, `DrawingIsBounded` is the safe half: no drawing mode can last longer.
The memory of `Viewers` is assumed to hold bytes at the 65536 addresses of the bus, the list
to have the 40 objects of the OAM at most, and the map 1024 entries (`MemoryAssumption`,
`RowCountAssumption`, `EntriesAssumption`): outside of them there is no object or tile
to compare.

Some invariants are proved and not listed in a run, because a contract that a run checks
implies what they say of the program: `PendingCountsFromZero`, `WindowsDoNotInterfere`,
`CountersAgree`, `EiCountdownOnGrid`, `NoNestedDispatch`, `HaltFlagFresh`,
 `StartsNeverOverlap` of `OamDma`, `UnitBatch` of `Timer`,
`OneTicker` of `Session`, and the `TypeOK` of each proved module. `PositiveBatch`,
`ReadableIsWritable` and `CoincidenceSurvivesOff` of `Ppu` are proved only.

## Bounds

Each constant of a .cfg is a width or a size of the code made small. Two actions have a
bound of their own: `Fill` of `Display` stops at `MaxFrames`, and `Poke` of `Viewers` at
`Versions`. Variables that exist for the properties only and count are capped:
`ticks_since_access` at `LongGap`, beyond which no window of the code is open any more, and
`lyc_requests` of `Ppu` at 2, since the property is about the second.

## Plan

In this order:

1. `MemoryBus`: regions and policies of `memory_bus.cppm`, `memory_map.cppm` and
   `graphics_memory.cppm`, composed with `OamDma`. Property: what the CPU can reach
   while a transfer runs, through restarts onto another bus.
2. `Engine`: `batch_schedule` over abstract components with batches and deadlines, and
   the composition of CPU, timer, DMA and serial. Abstract specification: one T-cycle at
   a time. Refinement: batching is invisible. Theorem: the loop advances.
3. `FixedSizeQueue`: the ring as an implementation of a sequence (refinement, proved).
4. `Mbc`: MBC1, 2, 3 and 5 against a reference of the selected bank; theorem that an
   index is within the cartridge.
5. `AudioChannel`: length timer, envelope, sweep and trigger on divider edges.
6. Proofs for the modules above.

Not planned: floating-point sound, colours and palettes, the user interface's drawing, the parser of the cartridge header, json and
third-party code.
