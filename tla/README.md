# Verification of cybikorecomp in TLA+

cybikorecomp turns the ROM and memory image of a Cybiko handheld into a C
program. Python tools (`tools/`) trace and decode the H8S code of the image and
emit C for it; a C runtime (`src/`, `include/`) supplies memory and peripherals;
a frontend (`src/sdl_main.c`, `tests/smoke.c`) runs the result in slices. This
directory models the parts that carry the system's logic, checks them with TLC
and proves what matters most about each of them with TLAPS, for every value of
the constants.

Everything in one process is sequential. What interleaves is the *guest* with
the machinery around it: its register writes with the cycles that pass, its
interrupt mask with a deadline computed earlier, its loops with the slices of
the frontend and the chunks the emitter happened to cut. Most properties are
about that distance between where a value is computed and where it is used.

## 1. Inventory

| part | source | state | operations | what is hard | what makes it correct |
|---|---|---|---|---|---|
| timer and tick | `src/io.c` 15-91, 119-127, 179-197 | preload, anchor and flag of two channels, deadline `irq_at`, OVIE | TCNT, TCSR, TCR0 accesses, `cy_irq_poll`, `cy_interrupt` | a derived count and a precomputed deadline that must agree for ever after | exact deadline, one tick per arming, flags neither lost nor stuck |
| run loop and chunks | `tools/emit.py` 360-557, generated C | `pc` (stale inside a chunk), `trapped`, `cycles` | `cy_run`, chunk functions, `go`, fall through, traps | cuts at any entry point, budget and tick looked at in two places only | the image runs instruction by instruction whatever the cuts |
| instruction bodies | `tools/emit.py` 37-347 | registers, flags, memory | one list of C statements per instruction | aliased registers, operand kinds, order of stores | a contract with the decoder; exact results that disturb nothing else; frames undo each other |
| flags and conditions | `h8s.h` 180-250, `mem.c` 90-113 | I H N Z V C | the `SETFLAGS` macros, CCR packing, `cy_cond` | carry and overflow at every width | flags mean what the conditions take them for |
| decoder | `tools/h8s.py` | none | `decode` | variable length: one wrong length desynchronises the rest | a sweep always ends; prefixes and truncation |
| tracer, tables | `tools/analyze.py`, `tools/vtables.py` | worklist, reached set, seeds | `analyze`, `find`, `resolve` | order of the worklist, regions, a fixpoint over results | reachability exactly; a settled result |
| flash over SPI | `src/flash.c`, `src/io.c` 104-114, 155-173 | command state machine, receive register | `cy_flash_xfer`, `_deselect`, `_load`, four registers | commands cut short at any byte | the reply depends on the bytes since chip select only |
| LCD | `src/lcd.c`, `lcd.h` | index, 32 registers, frame | two ports, `cy_lcd_dot` | a column that counts by itself | a streamed row is the row shown |
| memory accessors | `src/mem.c` 34-88 | 16 MB | byte, word and long accesses | word and long ones bypass the peripheral hooks | what is written at one size reads back at any other |
| keyboard | `src/keyboard.c` | 9 columns of bits | `cy_key`, `cy_key_rows`, `cy_key_any` | host keys that share a guest key | no key sticks, none is lost |
| frontends | `src/sdl_main.c`, `tests/smoke.c` | a loop, `running` | slices, events, harness interrupt | interrupts and keys between slices | the guest does not notice |
| image and seeds | `tools/cyimage.py`, `tools/vtables.py` 83-99, `tools/analyze.py` 31-93 | none | `build`, five sources of entry points | sources with different checks, address 0 | named entries are traced and labelled |
| archive tool | `tools/cyapp.py` | members, files written | parse, list, extract | malformed archives, failure half way | extracted whole or refused |
| comparison tools | `tools/difftest.py`, `tools/diffwrites.py` | two logs, an offset | align, compare | chance alignments, ends of logs | the exit status means something |
| rest | debug serial, MAME scripts, probes | buffers nothing reads | -- | -- | not modelled |

How they interact: `vtables.resolve` calls `analyze`, which calls `decode` for
every address popped; `emit` cuts what was reached into chunks and gives every
decoded instruction its statements. The generated `cy_run` calls `cy_irq_poll`
once per dispatch; a chunk's backward edges read the same deadline through
`CY_IRQ_DUE`. Byte accesses of the guest reach `cy_io_read` and `cy_io_write`,
and through them timer, flash and LCD. A frontend calls `cy_run` with
`cycles + SLICE`, draws, and turns host events into key matrix bits in between.
`vtables.resolve` works on an image `cyimage.build` laid out. The comparison
tools and `cyapp` stand apart: they read files and end.

## 2. Modules

| module | models | correspondence |
|---|---|---|
| `Timer` | timer, tick interrupt | one action per register write, poll, back-edge; the guest is arbitrary |
| `Machine` | generated code, run loop, frontend; EXTENDS `Timer` | one action per control-flow class of `emit_chunk`, per step of `cy_run`, per frontend slice |
| `Cpu` | abstract: a processor with no chunks, budget or clock | `Machine` implements it (`ImplementsCpu`) |
| `SpiFlash` | flash state machine and SCI1 registers | one disjunct per `spi_state`, one action per register |
| `FlashChip` | abstract: a reply is a function of the bytes since chip select | `SpiFlash` implements it (`ImplementsChip`) |
| `Sdl` | the window: key matrix, events, quitting; EXTENDS `Machine` | one action per kind of event; a slice is `Machine`'s step |
| `Alu` | flag macros, CCR byte, conditions | one operator per macro or function |
| `Guest` | the guest's two ways to wait, run in the window; EXTENDS `Sdl` | two programs of the guest's, no new action |
| `Data` | what instructions compute, register views, memory accessors, the interrupt frame; EXTENDS `Alu` | one action per branch of `emit.body` |
| `H8s` | decoder | one operator per group and row of `decode` |
| `Body` | the emitter's contract with the decoder, frames, prologue seeds; EXTENDS `H8s` | one action per kind of frame instruction |
| `Lcd` | LCD | one action per port and kind of register |
| `Image` | address space and seeds | one operator per function |
| `Trace` | tracer, table finder, fixpoint; EXTENDS `Image` | one action per turn of each loop |
| `Tools` | the comparison tools and `cyapp` | one action per loop turn or exit of each `main` |
| `TimerProofs`, `MachineProofs`, `SpiFlashProofs`, `DataProofs`, `BodyProofs`, `LcdProofs`, `TraceProofs`, `ToolsProofs` | theorems about the module of that name; `MachineProofs` those about `Sdl`, `Guest` and `Cpu` too, `DataProofs` those about `Alu`, `BodyProofs` those about `H8s` | section 4 |
| `MC*` | instances for TLC | programs, images and bounds only |

Definitions keep the source's names where there is one (`cy_flash_xfer`,
`tmr_at`, `SETFLAGS_ADD`, `CHUNK`). Definitions whose comment begins with
*Variant* are plausible mistakes in the definition after them; nothing uses
them, and each breaks the property named in `PROJECT.json`.

`Machine` uses `Timer`'s handlers unchanged and replaces its arbitrary guest by
translated programs; `Sdl` uses `Machine`'s step unchanged between its events,
and `Guest` is `Sdl` with two programs of CyOS's: its image is not part of the
repository, so they are written from what `io.c` and `emit.py` say of them.
`served`, `sent`, `run`, `from`, `held`, `first`, `before`, `start` and `frames`
are history variables that only properties read, and so is `given` but for the
initial state.

What the models leave out, deliberately: `Timer` keeps of the CCR the mask and
one condition flag; `Machine` has the same two and a word of guest memory, the
tick counter; flash contents are their indexes; operands in `H8s` have a mode
and a register but no value; `Body` lets every other instruction change every
register but ER7 and leave the stack alone, so `FramesRestore` is about code
that keeps the stack discipline. `Data` runs straight-line code on the whole
register file, memory and flags, with instructions written as records rather
than decoded from bytes (the contract between the two is `Body`'s); the
peripherals behind its hooks are plain cells. In `Trace` an image is any
assignment of instructions to addresses; what the words of the vector table,
the interrupt table, the header, a recording and the prologues are is chosen
with the image rather than read from its bytes, since one address holds one
instruction, not its bytes. `Tools` keeps a log record as a key and the rest,
an archive as its bytes, entry count and entries. The `recent` ring of
dispatches is diagnostic and left out.

## 3. What is checked

Runs that pass:

| run | bounds | shows |
|---|---|---|
| `timer` | DIV 2, TOP 2, 32-bit count modelled modulo 6, 13 cycles, 2 frames | deadline, flag and tick hold together under every order of writes, cycles and masking, past the wrap of the count |
| `machine` | 867 programs of 7 addresses, every set of entry points, CHUNK 3, SLICE 3, 12 cycles, harness interrupts on | chunks and slices are invisible; budget overshoot is at most two cycles; every backward edge is polled; every call of `cy_run` returns |
| `guest` | two programs, every cut, 110 cycles, DIV 4, CHUNK 2, SLICE 4; four host keys, two sharing one of the matrix, one not in it | both of CyOS's wait loops end unless the window is closed; the timed one is never short; keys follow the host |
| `flash` | 3-valued bytes, 3 pages of 3 bytes with a 4-valued offset, 1 dummy, 7 bytes a selection | refinement, with clamped offsets, reads over the page and array end, aborted commands |
| `data` | bytes of 7 bits, half carry at 4, 16 cells of memory, one hooked; every byte and 15 edges of words and longs; limbs of three bytes at four edges; 34 idioms | results, untouched lanes, cells and flags, overflow, conditions, limbs, and idioms that undo themselves |
| `lcd` | 2 by 2 bytes of 2-level dots, 4 registers, runs of 3 | any order of port writes, columns past the row included |
| `trace` | 6 addresses of which 1 is unmapped fill, 512 ROMs, 2 RAMs and one of the wrong size, 4 data areas, 4 sets of seeds | exact reachability, settled result, entries honoured, termination |
| `body` | every first byte with 32 second bytes, cut at 1-10 bytes; prefixed groups with up to four free bytes; 6561 sequences of four frame instructions; 400 function entries | decoder and emitter agree; sweeps end; frames undo; entries are seeded |
| `tools` | logs of up to 3 and 5 records of three kinds, windows of 3 and 2, runs of 2; archives of two members anywhere in six bytes, names that flatten to one, truncated and malformed ones | what a verdict implies; whole extraction |

Powers are multiplied out (`Two`, `Weight`): the provers know nothing of `^`. The
bounds are the smallest at which the interesting cases happen. `timer`:
two counts before an overflow give every order of write, overflow and poll, and
13 cycles take the count past its wrap. `machine`: with CHUNK 3 of seven
addresses a cut falls between any two of the free instructions, loops are
entered from both sides and the tick handler may be in its own chunk. `data`:
seven bits are the widest byte whose long fits TLC's integers; the nibble of the
half carry stays inside it, all six flags have a place in it with one user bit
over, and a long is exactly as wide as the integers the macros compute in, which
is what the carry of a long addition depends on. `flash`: 7 bytes are opcode,
address, dummy and two of data, enough to cross a page and the end. `trace`:
pointers that overlap, a table that is one value repeated, a fill address that
decodes, a recording that begins at 0, an unfilled interrupt slot, an entry of
more than 24 bits and vectors outside. `tools`: theirs longer than the window and
a run together, so that the first offset, the last and one never tried all
exist, with two records of one key for lines that agree in the key only.

Deadlock is checked in `timer`, `flash` and `lcd`, where the guest can always
act (`timer`'s guest may rewrite a register without changing anything, so the
bounds do not stop it). The others run programs that end: a trap, the end of an
image, the last instruction, an exit, the exploration bound on cycles.

`machine` starts from programs whose conditional branches are followed in the
text by the next instruction (`BranchesFallInside`, which with `Machine`'s own
specification makes `InsideSpec`), `guest` from cuts that keep its loop's branch
off the end of a chunk; the run `gap` shows what happens otherwise (section 5).
`ResultsExact` excepts by name what the emitter gets wrong (`Faulty`) and the value
of a quotient that has no room (`Fits`; the least int32 by -1 is one, on which a
host may trap and the model wraps). `LimbsRight` excepts what `borrow` refutes: it
is about two bytes, and about three and four of an addition in which no source
byte in between is all ones. All else is unrestricted.

Fairness: the programs are sequential and nothing competes with them, so
`machine`, `body` and `trace` assume weak fairness of the whole next-state
relation -- the process keeps running -- and nothing more. `guest` assumes weak
fairness of the slice only: `SDL_PollEvent` empties a finite queue and the loop
goes on, but no event has to come. In particular no fairness is assumed of
interrupts or of the guest: ticks arrive because cycles are counted. The other
runs have safety properties only.

What the properties are for, beyond their names: `Restores` takes idioms that
cross several parts -- flags saved in a register round a critical section, an
interrupt frame pushed as one long and unpacked by rte with pushes between, a
long stored in pieces and read whole, a bit carried through C between bytes --
and asks that everything they should bring back is back. `ResultIsFixpoint` says
at once that the loop never stops early and that it never gains code.
`EntriesHonoured` is about address 0: the only ways the vector table may be
decoded as code. `VerdictRight` says what may be concluded from either exit
status; `ExtractedWhole` what an extraction leaves on disk, for archives that
parse but overlap, fall short, or name one file twice.

## 4. What is proved

Every proof has the same shape: an inductive invariant, one step per action and
one under it per conjunct an action can disturb, lemmas for the operators, and
the properties drawn from the invariant. TLC checked the invariants on the runs
of their modules, `TraceInv` over part of the states only; those of `Tools` are
too large for it to enumerate. Where an argument is an induction -- on where a
scan of RAM is, on the powers of two, on the members of an archive, on the bits
of a number and the bytes of a longer one -- it is by least counterexample:
`NatMin`, from the well-foundedness of the naturals. The library's induction
theorems take an operator as a parameter, which the provers cannot instantiate.

`TimerProofs`, for every divider, modulus, wrap, address set and handler:

* `InvariantHolds`: `Spec => []TimerInv`. `TimerInv` adds to the type invariant
  that anchors are never in the future, that a pending deadline is
  `tmr_at[0] + (TOP - tmr_pre[0]) * DIV`, that at most one tick was served since
  the last arming, and that every frame was unmasked. None of these is inductive
  alone: the deadline a write computes is that sum only because a preload is
  below TOP, and it is never early only because the anchor is in the past.
* From it `TypeCorrect`, `DeadlineCorrect`, `TickOnce`, `FramesUnmasked`,
  `TickNotEarly`, and the action properties `ClearTakesEffect`, `TickOnlyPolled`
  and `OverflowSticks` -- the last needs that the count at a later cycle, read
  off the anchor, is the earlier one plus what has passed.

`MachineProofs`, for every program, cut into chunks, chunk size, slice and
frontend, with or without harness interrupts:

* `MachineInvHolds`: `TimerInv`, the run loop's types, and how far past the
  budget each mode may be, which is what makes `BudgetKept` inductive: a chunk runs
  within the budget, the backward edge that notices leaves it one cycle past, and
  the loop head that returns counts one more.
* `MachineTypes`, `BudgetAlwaysKept`, `BackEdgesArePolled`.
* `TimerUnderCode`, `TickNotEarlyUnderCode`, `FlagsUnderCode`: what `Timer`
  promises an arbitrary guest holds of translated code; clearing the flag takes
  effect there too, and a handler's acknowledgement is such a clearing (`AckTakes`).
  Every action of `Machine` is shown to be, on the timer's variables, register
  writes and cycles of it.
* `OnlyGapsDiffer`: for *every* program a step of the machine is a step of the
  processor `Cpu`, a stutter, or a conditional branch not taken whose next
  instruction is not the next label of its chunk. So the disagreement of run
  `gap` is the only one there is. `ImplementsCpuHolds` follows for `InsideSpec`:
  the refinement `ImplementsCpu` the run `machine` checks.
* `WindowImplementsMachine`, `WindowKeepsMachine`: the window's events and
  quitting are stutters of `Machine` and its slices are `Machine`'s steps.
* `DelayAlwaysLasts`: the busy-wait on channel 1 is never short, for every preload,
  divider, cut and frontend, whatever ticks and keys come meanwhile. `DelayLasts`
  looks at the end only; `DelayInv` says what holds on the way. Between its arming
  and its end the channel counts from the preload, and wherever the program is
  about to leave the loop the time has passed (`Promised`) -- where it is, or where
  the handler will return to, since a tick may come between the read of the flag
  and the branch, and what the branch will test is then in the frame on the stack.
  Nobody else writes channel 1, and the flag seen means the time has passed
  although the count wraps (`FlagMeansWaited`). The theorem has one hypothesis,
  that the handler lies behind the program (Handler > 5), as `guest` has it.
* `KeysAreFollowed`: for every table of keys, a key reads down only while one of
  the host keys mapped to it is held, and always while all of them are. With
  types the property is inductive as it stands (`KeysInv`).

`SpiFlashProofs`, for every byte range, geometry and number of dummies:

* `FlashInvHolds`: the state machine's registers are a function of the bytes
  clocked since the last deselect (`StateFollowsBytes`) -- the invariant that
  makes leftovers of aborted commands harmless. `FlashTypes` and
  `StateFollowsBytesHolds` follow.
* `ImplementsChipHolds`: `Spec => Chip!ChipSpec`. Initial states map to initial
  states and every step to a step of the chip or a stutter; `XferReply` shows
  that the reply each state computes is the one the chip's formula gives.

`LcdProofs`, for every panel and number of dot levels:

* `LcdInvHolds`: the column register stands behind the run being streamed, and
  each byte of it not written over since is where it was put (`Drawn`). A byte
  can be written over by the run itself once the column wraps, which is why the
  invariant speaks of the last byte at each place.
* `LcdTypes`; `BlitsShow`, with the lemma that a byte is what its four dots make
  (`DotsMakeTheByte`); and the action property `RowsStayApart`.

`DataProofs`, for every width of the byte, every memory, and every straight-line
program of the instructions the emitter knows:

* `DataInvHolds`: registers stay as wide as they are, memory and peripherals hold
  bytes, the PC stays in memory, and the flags after a sum are the macro's of
  what its operands held. The views of a register, the digits of a word in
  memory, each addressing mode and each class of operation have a lemma.
* `OverflowHolds`: V says that the exact signed result does not fit, N and Z
  describe the wrapped one. `ComparisonsHold`: each of the ten conditions
  named for a comparison decides as it, for `cmp` and `sub` at each size.
  `CcrComesBack`: the CCR survives a byte, whatever places its flags have in it.
* `ResultsExactHolds`, for the twenty-three instructions that compute by whole
  numbers or by places of bits, and for five more that nothing else is disturbed.
  The property is about the last instruction alone, so its invariant (`LastExact`)
  is itself, regrouped: what makes it hold is in the lemmas. A register's write
  leaves the other lanes (`WriteLeavesLanes`), memory gives back what it took, at
  every address and across the end of the cells (`ReadsBack`); bits are what the
  arithmetic makes of them (`LeftIs`, `RightIs`, `RotatesAre`, `ComplementIs`);
  products have room (`ProductsAre`), and quotient and remainder of either sign
  come apart from the packed word (`UnsignedDivided`, `SignedDivided`).
* `LimbsHold`: arithmetic byte by byte, up to four. `LimbsInv` says of the first k
  limbs that what they should make is what they make and the carry at its weight,
  as long as no source byte was all ones, and that the operands still to come are
  untouched. The last limb needs only the limbs before it to have carried
  rightly, which is why the property reaches one byte further than the carry.
* `FrameComesBack`: the frame an interrupt pushes holds every flag, the mask, the PC
  and the stack pointer as rte reads them, wherever the interrupt is taken and
  wherever the stack lies, 0 and the end of memory included. The addresses of
  24 bits are to be a multiple of the cells, of which the source has 2^24 and the
  run 16.

`BodyProofs`, for every image:

* Each row of the decoder is shown to produce only instructions of known forms
  (`Decoded`): lengths within the window, operands by mode, sizes, where the
  bytes are that the emitter reads again. `EmitIsTotal` and `TransfersHold` are
  consequences of that and of what is emitted for each form, `PrefixMakesLong` of
  two decodes of overlapping windows.
* `SweepInvHolds`: types, alignment of the sweep, and `Chained`: the registers of
  each frame lie on the stack in the order they were saved, above the frame
  before it. `FramesAreRestored` needs the chain and not only the newest frame,
  because a restore uncovers the one below. `BodyTypeHolds`.
* `EntriesAreSeeded`: both halves of `EntriesSeeded`, by decoding forwards from
  the reservation and backwards from the save.

`TraceProofs`, for every image, recording, address map and round limit:

* `TraceInvHolds`. `Owed`: seeds and successors of what is reached are reached,
  outside or on the worklist, and every set closed under the successors that holds
  the seeds holds what is reached and waiting. With an empty worklist the two are
  the closure from both sides, so `TraceFindsClosure` needs nothing about the
  order of the worklist. `Rounds`: the second round starts from the first one's
  result and its tables' entries, which are in that result already; hence it
  reaches no more, finds no more, and is the last.
* `TraceTypes`, `NothingIsForgotten`, `ResultStands`, `EntriesAreHonoured`.
  `RoundsAssumption` asks for two rounds: with one, `vtables.resolve` returns a
  result whose tables were never traced from (it has 8).

`ToolsProofs`, for every pair of logs, window and run, and every archive:

* `VerdictHolds`, by an invariant of the search and of the comparison
  (`Comparing`): the logs are lined up at the first offset with a run in common
  or not at all, and the lines passed over agreed.
* `ExtractsWhole`, by an invariant of the extraction (`Extracting`): what is on
  disk after k members is the last stored member under each flattened name.

Assumptions are the named ASSUMEs of the modules, which TLC evaluates on every
run: dividers, pages, windows and runs are positive, TOP is at least 2 and below
the count's wrap, a page fits its offset field, a panel its column register,
`Never`, `FF` and `STATUS_READY` are not numbers, images are sequences of bytes,
text addresses and branch targets are addresses. `DataProofs` asks that programs
consist of instructions the decoder makes (`Formed`): a sum's operands have its
size, a store's destination is not an immediate, a shift has a constant count, a
product's destination is twice its source, a word or a long is what is extended.
It leaves out `adds` and `subs` of a register nibble above 7, which `h8s.py:16`
rules out but neither decoder nor emitter refuses (`emit.py:311` would index past
the eight registers), and bst and bist by a register's number, which the decoder
makes too and `body` checks the emitting of. MaxCycles, MaxFrames and MaxSent
bound only what TLC explores; the theorems hold for every value of them.

What the proofs changed. `EntriesHonoured` and `EntriesSeeded` were too strong
for images TLC's instances did not contain. The first took no account of a vector
or a header that points into the vector table beyond address 0 -- the instance had
a table of one address, and has two now. The second forgot two encodings (7A 3F
for 7A 37, and 6C for 6D behind 01 00) that the decoder takes for the instructions
`prologue_seeds` looks for and no assembler writes. Both say so now. `ResultsExact`
was false of programs `data` does not run: a post-incremented load into its own
address register, and `exts.l` and `extu.l` of a register numbered 8 or more, read
through the word view of that number; they are `Faulty` now. And it was vague where
a proof cannot be: a quotient without room, a rotate by more than one place, the
carry a rotate takes in are each said now.

Only model-checked:

* `Restores`: about the particular idioms the run lists; what its parts rest on,
  exact results, frames, the CCR in a byte and memory read back at the size it was
  written, is proved.
* Liveness -- `CyRunReturns`, `BothWaitsEnd`, `ResolveEnds`, `SweepEnds` --
  like all liveness and ENABLED out of the proof system's reach.
* The findings of section 5, which are counterexamples.

## 5. Disagreements found

* `gap` -- `emit_chunk`'s branch path skips the fall-through test that
  `emit.py:515` describes. A conditional branch that is the last instruction of
  a chunk and is not taken leaves the C function with `c->pc` still at the entry
  of the chunk, and the run loop dispatches that address again.
* `carry` -- for longs `SETFLAGS_ADD` compares a wrapped uint32 sum with the
  largest uint32: `add.l` never sets C (`h8s.h:205` against its comment).
* `borrow` -- `subx` subtracts the carry from the subtrahend it hands to the flag
  macro instead of adding it, so the borrow out is lost for a source of 0xFF and
  invented for a source of 0; arithmetic of three and more bytes goes wrong from
  the third.

Places where the code and its own words part without a run of their own:

* The table finder takes only targets already traced, so no round reveals code;
  `vtables.py:12-14` says new tables reveal code. The loop settles in two rounds
  because of that, and `ResultIsFixpoint` checks both.
* `exts.w` and `extu.w` extend the high byte of the word (`emit.py:326` against
  the register numbers of `h8s.py:14`), and so would longs of a number of 8 or
  more, which no assembler writes; rotates by two rotate once (`emit.py:253`);
  `divxu.w` treats its dividend as signed and `divxs.b` does not extend the sign
  of its own (`emit.py:194`); a load through a post-incremented register into that
  register increments what was loaded. These are the `Faulty` cases.
* `eepmov.b` counts in R4H (`emit.py:209`); `h8s.py:719` says R4L.
* The user bits of the CCR are dropped (`h8s.h:237-250`); `h8s.h:235` says they
  are kept for a store then load.
* Word and long accesses and interrupt frames bypass the peripheral hooks
  (`mem.c:51-88`); `h8s.h:166` asks every accessor to call them.
* `cyapp.py:72` says every byte belongs to exactly one member; the check compares
  the largest end with the file's length.

Further ones are under "hazards" in `PROJECT.json` with a note: shifts leave C
alone, large frames whose size ends in the bytes 1B 9n are seeded in
mid-instruction (`EntriesSeeded` excepts them), inverted bit operations on memory
lose their inversion.

## 6. Not modelled

* The debug serial buffers: appended to and never read by the program.
* The MAME scripts: they run in another emulator whose state is not here.
* Probes and tests: drivers of the modelled parts, read as claims about them.
* Rendering, options, `--shot`, reports and symbol listings: output only.
* `analyze.py`'s own report, which alone traces without regions or with `--base`.
* The packed members' codec: `cyapp.py` does not know it either.
* Data effects under the run loop: `Machine` keeps control, timer and one flag,
  `Data` everything else on straight-line code; a product of the two states
  would not add an interleaving, since control reads of the data only the
  flags (`cy_cond`) and a target register.

## 7. Plan

Done, in this order: `Timer`, `Machine` with `Cpu`, `SpiFlash` with `FlashChip`,
`Alu`, `Lcd`, `Trace`, `H8s` with `Body`, `Data` over `Alu`, `Sdl` over `Machine`,
`Image` under `Trace`, `Tools`; then the proofs of section 4, one module for each.

Left: idioms of `Restores` as theorems of their own, beyond the interrupt frame --
a critical section first; a composition of `Data` and `Machine`, should control
come to depend on more of the data than the flags.
