# TLA+ project for the C S 429 system emulator

The emulator (`bin/se`) runs chArm-v2 (a subset of AArch64) programs on a
simulated five-stage in-order pipeline with a demand-paged memory and an
optional data cache. This directory holds TLA+ modules that model it, TLC
configurations that check them on small instances, and TLAPS proofs of the
properties that matter most for every instance. Paths below are relative to
the repository.

The repository is a course project at its "week 1" state: hazard detection
and forwarding are stubs (`src/pipe/hazard_control.c:51-62`,
`src/pipe/forward.c`), and so is the replacement logic of the cache
(`src/cache/cache.c:136-184`). The models follow the code as it is, stubs
included; for the cache they also cover what the callers of the stubs make of a
solution.

## 1. Inventory

| Part | State | Operations | Talks to |
|---|---|---|---|
| Pipeline loop, `runElf` (`src/base/proc.c`) | ten pipeline register sides, `ctl` of each, `guest.proc->status`, `PC`, `num_instr` | one cycle: five stages in reverse order, `handle_hazards`, clock edge | calls every stage; the visualizer's socket is in the same loop |
| Stages (`src/pipe/instr_*.c`) | the globals `W_wval`, `F_PC`, `dmem_status` | `wback_instr`, `memory_instr`, `execute_instr`, `decode_instr`, `fetch_instr` | read the out side of their register, write the in side of the next; fetch also reads X and M |
| Hazard control (`src/pipe/hazard_control.c`) | `ctl` | `handle_hazards`, `pipe_control_stage` | sets what the clock edge does |
| Hardware elements (`src/base/hw_elts.c`) | `GPR`, `SP`, `NZCV` | `regfile`, `alu`, `cond_holds`, `imem`, `dmem` | called by the stages; memory |
| Instruction tables (`src/pipe/instr_base.c`, `instr.h`) | `itable` | `init_itable`, bit fields, `show_instr` | fetch, decode |
| Paged memory (`src/base/ptable.c`, `src/base/mem.c`) | hash chains of pages | `get_page`, `add_page`, loads and stores byte by byte | `imem`, `dmem`, loader, checkpoint |
| Trap addresses (`src/base/mem.c:31-52,81-149`) | standard input and output | NULL, IO and CHECKPOINT accesses | `dmem` |
| Miss delay (`src/base/mem.c:151-275`) | `inflight`, `inflight_addr`, `inflight_cycles`, `dmem_status` | `_mem_read_cache`, `_mem_write_cache` | cache, pages |
| Cache (`src/cache/cache.c`), simulator (`csim.c`) | sets of lines, LRU stamp, counters | `create_cache`, `check_hit`, `handle_miss`, `access_data`, `replayTrace` | miss delay, trace files |
| Machine, checkpoint (`src/base/machine.c`) | `guest` | `init_machine`, `log_machine_state` | walks the page table |
| ELF loader (`src/base/elf_loader.c`) | segment starts | `loadElf` | fills pages |
| Main program (`archsim.c`, `interface.c`) | the globals | `main`, `init`, `finalize` | every part, in sequence |
| Command line, logging (`handle_args.c`, `err_handler.c`) | option globals; `terminate`, `ignore_input` | option cases; `logging` | everything |
| Visualizer (`proc.c:60-109,159-192`, `proxy_server.js`, `visualization/app.js`) | socket buffers, the page's history | state messages one way, key presses the other | three processes |
| Test benches (`src/testbench`) | the files of a test, its verdict, the score | run both programs, compare, clean up, add up; the alarm | the binaries, through files and exit statuses |

What is hard here:

* *Order within a cycle.* The stages run in reverse order over shared
  registers; several read state that another has just written (`F_in->status`,
  the flags, `W_out` and `M_in`).
* *Speculation.* A conditional branch is predicted taken and corrected from M,
  a RET takes effect from X; instructions in between have begun, and there is
  no bubble logic that would undo them.
* *Statuses that travel.* A halt, a bad word or a bad address is only a status
  on an instruction; the machine stops when that instruction retires, with
  younger ones in flight.
* *Accesses of several bytes* over pages that appear on first touch.
* *Flags* at the ends of the number range.
* *Concurrency* only in the visualizer: emulator, proxy and page exchange
  messages over byte streams with no framing.
* *Delays* of a cache miss, counted down by repeated calls, with one countdown
  for all accesses and a caller that does not wait.
* *Partial failure*: a miss that fills and writes back in the middle of an access
  that is given up, a file that cannot be opened, a test whose program dies.

Correctness, component by component: the pipeline must compute what its
program says as long as the program keeps the distances the pipeline needs,
and something well defined when it does not; nothing may take effect behind a
halt; a fault must stop the run; a run that has seen its halt must end; memory
must be an array of bytes; flags must order operands; a word must decode to the
instruction it encodes; the cache must cost time and nothing else; a bench must
judge a program by its own runs.

## 2. Modules

| Module | Models | Uses |
|---|---|---|
| `ChArm` | opcodes, statuses, control signals, register selection, `cond_holds`: the pure tables of `instr.h`, `instr_Decode.c`, `hw_elts.c` | - |
| `Bits` | powers of two | - |
| `Alu` | `alu` and MOVK's mask on words of `WIDTH` bits | `Bits` |
| `Pipeline` | `runElf`: the loop, the stages, `handle_hazards`, the clock edge, halting, faults, traps | `ChArm` |
| `DelayedIsa` | two machines without a pipeline, and the properties that compare `Pipeline` with them | `Pipeline` |
| `AddressSpace` | addresses and data of accesses | - |
| `FlatMemory` | abstract specification: an array of bytes with atomic loads and stores | `AddressSpace` |
| `PageChains` | `ptable.c`: pages in hash chains, `get_page`, `add_page` | `AddressSpace` |
| `PageTable` | the byte loops of `mem.c` over the pages; implements `FlatMemory` | `PageChains`, `FlatMemory` |
| `Encoding` | `itable`, the bit fields, aliases and immediates; beside it the A64 encoding | `ChArm`, `Bits` |
| `Cache` | `cache.c`, its exercises as stubs and as solutions | `AddressSpace` |
| `MissDelay` | abstract specification: what a miss costs | - |
| `DataCache` | `_mem_read`, `_mem_write`, the miss protocol of `mem.c`; implements `MissDelay` | `Cache`, `MissDelay` |
| `Emulator` | `main`: options, initialization, the run's memory accesses, the statistics | `DataCache` |
| `Csim` | the cache simulator | `Cache` |
| `Testbench` | `test-csim`, `test-se` | - |
| `Image` | the life of the memory: `loadElf`, the program's accesses, `log_machine_state`'s walks | `PageChains`, `PageTable` |
| `Visualizer` | the emulator's end of the socket, `proxy_server.js`, `visualization/app.js` | - |
| `MCPipeline`, `MCSpaced`, `MCAlu`, `MCPageTable`, `MCImage`, `MCEmulator` | instances for TLC; `MCAlu` also drives the ALU and the decoder, `MCEmulator` puts the three programs `se`, `csim` and a bench side by side | the modules above |
| `PipelineProof` | theorems on halting, faults and the machine with delays | `DelayedIsa` |
| `PageChainsProof` | lemmas: what finding, adding and writing to a page does to the memory | `PageChains` |
| `PageTableProof` | theorems on the paged memory | `PageTable`, `PageChainsProof` |
| `ImageProof` | theorems on loading and the checkpoint | `Image`, `PageChainsProof` |
| `CacheProof` | lemmas: what the operators of `Cache` do, and the invariant and steps of `DataCache` whoever calls it | `DataCache` |
| `ProgramsProof` | theorems on the miss delay, the stubs, what the cache hides, its statistics, the output and the options; on `csim`'s counters; on the verdicts of the benches; on the types of all three | `MCEmulator`, `CacheProof` |
| `AluProof` | theorems on the ALU's arithmetic and on the decoder | `MCAlu` |
| `VisualizerProof` | theorems on keys and states | `Visualizer` |

`Pipeline` is parameterised by the ALU (`alu`, `clear_chunk`), so its theorems
hold for any ALU that returns words; the MC modules pass it the one of `Alu`.
Recursion is written as recursive functions over the naturals (powers of two, the run
of the delayed machine, the sums of a score), so that there are theorems about it.

### How `Pipeline` corresponds to the code

One action is one call of the loop body, in the loop's order; `stage` is the
program counter of the loop.

| Action | Code |
|---|---|
| `wback_instr` | `instr_Writeback.c:34-39` |
| `memory_instr`, `memory_trap` | `instr_Memory.c:36-55` with `dmem` and the trap addresses; `memory_trap` is a NULL read (`exit`) or a store to the checkpoint address (failed `assert`) |
| `execute_instr` | `instr_Execute.c:37-51` with `alu` |
| `decode_instr` | `instr_Decode.c:269-313` with `regfile`, which reads, then writes what W retires |
| `fetch_halt`, `fetch_instr` | the two branches of `instr_Fetch.c:135-179`, with `select_PC`, `imem`, `predict_PC` |
| `handle_hazards` | `proc.c:120-133` with `hazard_control.c:23-74` |
| `clock_edge` | `proc.c:204-227`, the exit test included |
| `run_over` | the loop has ended; keeps TLC's deadlock check meaningful |

`X_in`, `X_out` etc. are the two sides of a pipeline register; `gpr` is
`struct proc`'s `GPR`, `SP` and `PC` as one array, because `regfile` writes
`GPR[dst]` with `dst` up to 32 and the fields lie behind each other
(`include/base/proc.h:23-25`): slot 31 is SP and slot 32, where results for
the zero register go, is PC, overwritten by the loop in the same cycle.
`F_in.status` is the variable fetch uses as its memory of a halt
(`instr_Fetch.c:145,168-172`).

Abstractions, all of data:

* An instruction is a record of its bit fields, `op` being the `itable` entry
  after `fix_instr_aliases` (so a UBFM is already LSL or LSR; CMP and TST
  never occur, since `itable` has no entry for them).
* PCs count instructions from 1; 0 is `RET_FROM_MAIN_ADDR`. Fetches outside
  the text segment return a member of `OutsideWords`, those from the special addresses
  (`mem.c:81-105`), whose reads have effects in the code, included; padding is the zero word.
* `CycleMax` is at least 1. With `-l 0` the code, whose test comes behind the increment
  (`proc.c:226-227`), runs one cycle all the same; that is what `CycleMax` 1 does.
* A data address names an 8-byte cell. Misaligned addresses, which `dmem`
  reports and then accesses like any other, are not enumerated; overlapping
  accesses are the subject of `PageTable`.
* `print_op`, `this_PC` (never assigned) and everything printed are left out.
* There is no data cache, which is the default (`README.md:28`); `DataCache` has
  the accesses with one.

### How `PageTable` corresponds to the code

A page is found by its place in its chain, so `get_page` returns an index and
0 is NULL. `mem_read`/`mem_write` are the entries of `_mem_read_LE`/
`_mem_write_LE` for an address that is not a trap, `mem_read_byte`/
`mem_write_byte` one turn of their loops with `_mem_read_byte`/
`_mem_write_byte`, whole. `retval` is the word put together so far, a sequence
of bytes with the least significant first. The refinement maps `bytes` to the
pages' contents, zeros for absent pages, overlaid with the bytes of a store
under way that are still to be written, and `call` to `req`: a store takes
effect when its loop is entered, and a load returns the array's bytes at the
address it was called with.

### How `Image` corresponds to the code

`Image` shares the pages of `PageChains` with an INSTANCE of `PageTable`: it uses
`get_page`, `Touch` and `SetByte` where the code calls `get_page` and
`add_page`, and lets the program access memory through `PageTable`'s own
actions. `main` (`archsim.c:31-44`) orders the phases: `copy_byte` is one turn of
the loop at `elf_loader.c:77-86`, `map_bss` one of `90-96`, `read_sections` is
`102-119`; then the program runs; `log_page` is one turn of the outer loops of
`machine.c:135-191`, and `log_section_end` is where such a loop ends and the
next one is set up. Its addresses are unsigned and wrap (`Plus`, `Minus`), as a walk
down from the stack's start does that meets pages as far as address 0. `lines` is the set of memory lines printed; their order and
the registers before them are left out. Executables are `WellFormed`: only
PT_LOAD headers, which the linker writes in the order of their addresses.

### How `Encoding` corresponds to the code

`Entries` lists `init_itable`'s calls, with its assertion that they do not overlap
as an assumption TLC evaluates. `Insn` is what fetch and decode take from a word,
which is an `int32_t` where its fields are taken (`instr_base.c:176-189`), so
a word with bit 31 set is a negative number here. `Assemble` is external: the A64
formats, each a row of fields put behind one another with `##`, from bit 31 down. `MCAlu`
compares `DecodedOperands`, which is what `decode_instr` hands on of a word, with
`A64Operands`, a table of the operands A64 gives an instruction. That table is not taken
from the emulator's own, so an operand the emulator never looks for, or takes from the
wrong bits, shows as a difference. `Encodable` says what the formats have room for; the constant `Instructions` is
which of these are put through the decoder.

### How `Cache`, `DataCache` and `Emulator` correspond to the code

`solved` says whether the exercises of `cache.c` are done. If not, `check_hit`
returns false, `handle_miss` a malloc'ed struct whose fields are unknown (`Garbage`
bounds the addresses it may hold), and the word accessors do nothing; this is
the repository's code. If so, they keep lines by block address and count, and
evict any line of the set, so that what is checked holds for every replacement
policy, LRU included. `hit_count` and its like are only kept by solutions.

| Action | Code |
|---|---|
| `mem_read_uncached`, `mem_write_uncached` | `mem.c:204-214`, `265-275` without a cache, or below the data segment |
| `mem_read_cached`, `mem_write_cached` | entering `_mem_read_cache`, `_mem_write_cache` |
| `byte_hit` | a turn of their loops that hits |
| `byte_wait` | a miss whose countdown is not over: the access is given up (`160-172`, `225-235`) |
| `byte_fill` | one whose countdown is: fill, `handle_miss`, write-back (`174-195`, `236-256`) |
| `access_return` | the word accessor and the return (`198-202`, `259-262`) |

Loads and stores share these actions as they share `inflight`; `FillFrom` and
`CastWord` are where they differ: a load fills from `addr`, a store from the byte
that missed. `data` is the local the load returns if `get_word_cache` leaves it
alone; `Unknown` stands for a byte read behind the end of the block, because the
cast at `mem.c:184` counts words where the offset counts bytes.

`Emulator` reads the command line one option per step, then initializes, loads
and runs. A file name "NULL" is one that cannot be opened, or none. The run is a
sequence of the accesses the memory stage may make, to memory and to the trap
addresses, each begun when the last is over: `dmem_status` is read by nobody, so
an access given up is an access done, as in the pipeline. `-f` sets `frontend_vis` if
its argument begins with a 1 (`handle_args.c:82`), in `Assigns` if it is 1: it is a value
nothing here reads. `log_machine_state`
here is its statistics (`machine.c:192-200`); `Image` has the memory part. `Ends`
are the ways the program ends, a division by zero being one
(`cache.c:67`, `machine.c:197`).

`Csim` replays one of `Traces`, one access per step. Its globals are those of `cache.c`
in another process than the emulator's, hence `sim_cache` and `sim_counts`. `print_usage` has every early end of
its `main`; the memory of `free_cache` is gone with `sim_cache' = NULL`.

### How `Testbench` corresponds to the code

The two benches have one module, because they have one shape: `remove_results`,
`read_results`, `results_missing` and `compare` are `test-csim.c:63-126` and `180-192`;
`diff` and `cleanup` are `test-se.c:117-141`; `run_program` is both. A file holds
who wrote it, in which test, and the result printed, an empty sequence if it was
opened and not written. `Outcomes` (external) says what a program leaves and how
it ends: with 0, with 1, or by a signal, which the benches take for success
because they ask for `WIFEXITED` first. `sigalrm_handler` may end the bench at
any step and leaves the files; the files a bench begins with are what an earlier
one may have left. A score is in hundredths: `Total` adds, as the loops of the code do, a weight for each
directory times its `Share` (`Sums`). A `system()` that cannot fork is not modelled; neither are
the options of `test-se`, which choose its tables of tests.

### How `Visualizer` corresponds to the code

| Action | Code |
|---|---|
| `accept`, `write_state`, `recv`, `recv_eof` | `proc.c:97-108`, `157-167`, `168-189`; a wait ends the cycle, and after the last cycle the sockets are closed (`229-240`) |
| `connection`, `client_data`, `ws_message`, `ws_close`, `client_close` | the callbacks of `proxy_server.js:6-31` |
| `onopen`, `onmessage`, `onclose` | the handlers of `app.js:226-337` |
| `step_history`, `keydown` | the two ways through `app.js:350-376` |
| `close_page` | the user leaves or reloads the page (external) |

A state is the number of its cycle. A TCP read returns any non-empty prefix of
the messages queued (`Chunks`), because the stream has no framing: several
keys in one `recv` count as their first one, and several states in one `data`
event become one WebSocket message that `JSON.parse` rejects. A state is also
rejected if a stage's description did not fit its 200 bytes
(`instr_base.c:83-162`; three 64-bit values in decode are enough); `Cut` says of
which cycles that is so. `sent` and `unparsed` are auxiliary variables.
Assumed: the emulator listens before the proxy connects (the start script's
messages, `README.md:153-156`), one page (a second connection is never
accepted), no message longer than a buffer of 1000 or 2000 bytes. A socket that
ends by an error ends the proxy, which handles none; for the one page served
this is the same as the close.

## 3. Runs

| Run | Module / cfg | Distinct states | Shows |
|---|---|---|---|
| `core` | `MCPipeline`, `MCCore.cfg` | 339k | halts, faults, liveness |
| `delayed` | `MCPipeline`, `MCDelayed.cfg` | 1193k | the pipeline is the delayed machine, cycle by cycle |
| `spaced` | `MCSpaced`, `MCSpaced.cfg` | 788k | spaced programs compute what the architecture says |
| `alu` | `MCAlu`, `MCAlu.cfg` | 82k | flags and constants against arithmetic; which operands are decoded as A64 encodes them, and which are not |
| `cached` | `MCEmulator`, `MCEmulator.cfg` | 1133k | the cache, its statistics, the programs around it and their tests |
| `pagetable` | `MCPageTable`, `MCPageTable.cfg` | 316k | refinement of the flat memory |
| `image` | `MCImage`, `MCImage.cfg` | 105k | loaded memory, checkpoint against memory |
| `visualizer` | `Visualizer`, `MCVisualizer.cfg` | 18k | every state and key accounted for; nobody waits for ever |
| `return`, `call`, `alu_signed`, `heap` | violation runs | - | the four findings below |

**core.** Every program of three instructions from `CoreAlphabet`, then
`RET X30`. The alphabet has one instruction per way to affect control: good,
faulting, NULL, IO and checkpoint accesses, taken and untaken branches
backward and forward, BL, RET to an arbitrary and to the return address, HLT
and an invalid word. `CycleMax` 12 cuts some programs off and lets the
others drain (the longest straight program needs 9 cycles). Words are 5 bits.
`NothingAfterHalt`: what is behind a retiring HLT is only HLTs.
`FaultRetiresNext`: after a data fault the machine lives at most to the end of
the next cycle. `HaltIsSticky`: after a halt is fetched no redirect restarts
fetch. `HaltEndsRun`: liveness, see below.

**delayed.** `Delayed` executes one instruction at a time: a result is seen
by the fourth instruction after its producer, a RET takes effect one
instruction late, a failed conditional branch two, an invalid word makes fetch
repeat its prediction. `MatchesDelayedIsa` compares registers (those after
instruction n-4), memory and output (n-3), flags (n-2) and status (n-4) with it
at every cycle n, for every program of `MOVZ X1` and four instructions, whether
it keeps the distances or not. The alphabet has a load from the input address; what is
read there is one value, since the two machines would have to read alike. This is the exact contract of the pipeline at this
commit, and it catches any change of forwarding, redirect priority, stall or
commit order. `TextWords` 7 lets a program run into padding and out of the
segment.

**spaced.** `SpacedPrograms` are the 5990 of 13824 generated straight programs, a loop, a
computed jump and branches to the next instruction that `Spaced` accepts: no register
read within three instructions of its write, and NOPs where the pipeline executes what
the program does not reach, which is behind a RET and, twice, at the target of a branch
that is not taken (the next instruction, if that is the target). For these the final
registers, flags, memory and output are the architecture's, and the status is HLT. The
filter is evaluated on the architectural path, not on the pipeline. `CycleMax` 125 gives
each of the at most 40 instructions three cycles (`RoomyAssumption`), so that no program
is cut off; two values may be read as input.

**alu.** Every pair of 6-bit operands with 2-bit chunks (three chunks, so that
MOVK orders matter). Width enters only through the sign bit and the modulus;
6 bits hold every combination of signs, carries and shifts by a chunk. The
decoder is run on 24640 words (`EdgeInstructions`): every opcode, with the register numbers that are
special, immediates at both ends of their range and around 0 (bit fields go wrong
at signs and borders), offsets whose low bits name one of these registers, every chunk,
condition (of B.cond; two of the selects) and amount of a shift.
`DecodesAsAssembled` says of each operand of each opcode when word and instruction
agree. They do not in these cases, and in no other:

| Operand | decoded wrongly |
|---|---|
| opcode | CSINC and CSINV are taken for CSEL and CSNEG |
| first source | CBZ, CBNZ: bits 5-9, the low bits of the offset, instead of the register, unless the two coincide |
| second source | CSEL, CSINC, CSINV, CSNEG: none |
| condition | CSEL, CSINC, CSINV, CSNEG: none |
| destination | BL: bits 0-4 of the offset, unless they are 30; BLR: X0 instead of X30; BR: X0, CBZ, CBNZ: the register tested, though these have no destination |
| immediate | CBZ, CBNZ, HLT: 0, whatever it is; ADRP: wrong if bit 30 is set and the bits above it are not all ones; shifts: see `ShiftsDecoded` |

`ShiftsDecoded`: LSL and LSR are told apart for every amount, but the amount
decoded is right only for an LSR by less than 32 and an LSL by 16, and is 63 for
every ASR.

**pagetable.** Six addresses, three pages of two bytes, two hash chains, so two
pages collide; 2-byte accesses at every address, crossing page boundaries and
the wrap of the address space; two byte values, enough to tell one byte from
another in any position.

**image.** Nine pages of four bytes, two-byte words. Of the six executables
one has no data, one no bytes of data in the file, one ends its file bytes inside a page, one exactly on a page
(where `f_align` skips one), and two have segments that begin inside a page, so
that the copy loop runs too far; two segments share a page. `Accessed` has an
access that straddles data and the page behind it, the heap, and two on the
stack, one of which reaches over two pages; `MaxAccess` 2 is enough for both
pages of a walk to have been touched in either order. `SegmentsLoaded`: the
overrun of one segment never damages the bytes of another.
`UninitializedIsZero`: an uninitialized byte is zero unless the copy of some segment
that begins inside a page reaches it, in which case file bytes are where zeros are due.
`LinesAreMemory`,
`CheckpointComplete`: the checkpoint and the memory agree, in both directions.

**cached.** In each behaviour one program runs. *se*: a word is two bytes (for
eight), memory twelve, blocks of two or four; one or two sets, one or two ways;
penalties 0 to 3; loads and stores below, across and behind the start of the
data segment and over two blocks, five accesses, enough for a block to be
missed, brought in, written, evicted and missed again while another address
interrupts. Four options in any order, and files that cannot be opened before
and behind the executable's. `DelayedMisses`: the countdown implements
`MissDelay`, a block comes with the d-th miss in a row of it (2^64 for a penalty
of 0), stubs or not. `CacheIsTransparent`: with solutions, what the program can
load changes by served stores only, and loads return it. It speaks of caches
whose blocks divide the data segment and the address space (`Aligned`), of
accesses that lie in one block (`InOneBlock`), and of steps before which every
line holds data as memory has it, unless dirty (`LinesMatch`); it also says that
such a step leaves the lines so. A load of a word in two blocks (`mem.c:179`) puts the
first block's bytes in the second's line, and an access across the end of memory
reaches the block at address 0, which is not the data segment's; the first is in the run.
What they leave ends what the property promises.
`StubsNeverServe`: with the stubs a cache with d of 0, 2 or more serves no data
access, ever. `MissesCoverFills`: the misses a checkpoint reports are never fewer
than the blocks brought in; given-up waits can make them more. `GeometryAsGiven`:
the last of `-A` and `-f` wins, and nothing counts behind a file that cannot
be opened. `OutputAllOrNothing`: a program's output is never cut short by a
fatal message. *csim*: traces of up to three lines over two or three blocks, one
and two ways. `TraceAccounted`: hits, misses and evictions add up, in a cache
that has a set (with fewer bytes than a set needs, `A * B > C`, it has none). *Benches*: two
tests of csim and three of se, two of which share the name of their
checkpoints (as `add` in two directories of week 1), results of two statistics.
`PassesAreEarned`: whatever was left behind by an alarm, another test or the
other program, points come from a test's own runs unless a program was killed,
and the full score from all tests. A program may end, so deadlock is not checked.

**visualizer.** Three cycles, the second one cut; four forward keys, any number
of others, two keys under way: enough for keys and states to be glued in both
directions, for a key to be pressed before the answer to the last one, and for
the page to go at every point. `StatesAccountedFor`: history and streams, piece
after piece, hold the states in order, without repetition, and all that parsed. `KeysAccountedFor`: no
cycle without a forward key, and no key counts twice. `PageCatchesUp`: the close
behind the last state loses none. `ForwardKeyMovesOn` and `ClosedPageEndsRun`: the
emulator does not wait for ever when a forward key is first in line, nor when
the page is gone.

**Findings** (violation runs):

* `return`: `README.md:23` says the emulator creates a HLT when the start
  function returns. The word behind the RET is fetched first; if it is the
  zero padding of the segment the run ends with status INS.
* `call`: `include/pipe/instr_pipeline.h:75` says `dst_sel` selects X30 in BL.
  Nothing reads it: BL overwrites the register its offset's low bits name.
* `alu_signed`: `include/pipe/instr.h:41` defines V as signed overflow.
  MINUS_OP computes something else (`hw_elts.c:222`), so LT and GE do not
  order operands of different signs.
* `heap`: `machine.c:162` and `README.md:36-38` announce the heap in the
  checkpoint. The walk keeps the page number at which the data walk ended
  (`machine.c:165`), so it never begins.

**Fairness.** `Spec` has `WF_vars(Step)`: the loop is one thread, no stage
blocks (the visualizer's `recv` loop is off by default), so a step that can be
taken is taken. No fairness is put on a particular outcome. `HaltEndsRun` is the
only liveness property: a fetched HLT ends the run by a status, not by the cycle
limit, if five cycles are left. `Visualizer` has weak fairness of every action of
the emulator and of every callback: each is a thread or an event loop that goes
on when there is something to read. Nothing is assumed of the user, neither
keys nor the closing of the page. `PageTable` and `Image` are checked for safety
only.

## 4. Proofs

`tlapm` checks every leaf; the theorems hold for all values of the constants
that satisfy the named assumptions (`SizeAssumption`, `ProgramAssumption`,
`MemAssumption`, `AluAssumption`; `WidthAssumption`, `InstructionsAssumption`,
`EntriesAreDisjoint`; `SpaceAssumption`, `PageAssumption`,
`ImageAssumption`; `DataCacheAssumption`, `EmulatorAssumption`, `CsimAssumption`;
`TestbenchAssumption`; `VisualizerAssumption`): any program, word size, cycle limit,
memory, width of a register and of a chunk, page size, hash function, executable, cache geometry, penalty, command line,
trace, table of tests and number of keys.

* `TypeCorrect`: `Spec => []TypeOK`, from `TypeInv`, which adds to the types
  that a running loop has cycles left.
* `HaltCorrect`: `Spec => []NothingAfterHalt`. The property is not inductive:
  whether what is behind a retiring HLT is a HLT was decided three cycles ago.
  `HaltInv` strengthens it by `HaltChain`, that from every stage back to fetch
  a HLT is followed by a HLT, `InSides`, the same of the in sides at each point of
  the loop at which they have been written, and `Controls`, that the clock edge
  loads every register except that it may hold fetch back.
* `HaltSticks`: `HaltIsSticky`, from `HaltInv`.
* `FaultCorrect`: `FaultRetiresNext`, from `FaultInv`, which follows the ADR
  status from `memory_instr` through the clock edge to the exit test.
* `DelaysExact`: `MatchesDelayedIsa`, the exact contract of the pipeline, for every
  program and word size. Its one hypothesis, `Deterministic`, is that what fetch finds
  outside the text and what a program reads are fixed, without which there is no one
  run to compare with. The invariant is `LockStep`: at each point of the loop every side
  of every pipeline register holds what the machine with delays has for the instruction
  n-1, n-2, n-3 or n-4 (`OutSides`, `Handed`), and registers, flags, memory and output
  are those of the instruction that the stages run so far have reached
  (`Architectural`). One lemma per stage moves it on. That the run of the delayed machine
  satisfies its recursive definition, and that `regs`, `old` and the failed branches are
  what the last three instructions left, is by induction over the naturals, in the form
  that a set of counterexamples has a least member.
* `SpacedExact`: `SpacedMatchesIsa` for every set of programs that `Spaced` accepts, with a
  cycle limit of three times their instructions (`Roomy`, which TLC evaluates for the
  programs of the run). It composes two steps: the pipeline is the machine with delays (the
  lemmas of `DelaysExact`, under the weaker `Determined`: only one run of that machine
  need exist, and input that no spaced program reads may vary), and on a spaced program that machine
  is the architecture. The second is `Agree`, by induction over the instructions of the
  architecture: both have the same `pc`, flags, memory and output, and the same registers
  once the three results not yet written are (`Settled`), each of them in a slot of `recent`.
  An instruction of the program is one step of the delayed machine, a RET two, an untaken
  branch three, the others being NOPs (`PathStep`); what follows the HLT changes nothing
  (`EndingStays`).
* `OnePageCorrect`, `PageTypeCorrect`: `OnePagePerNumber` and `TypeOK` of
  `PageTable`, from `IInv`, which says where a loop under way stands (`Underway`)
  and what it has read.
* `ImplementsFlat`: `Spec => FlatSpec`. Lemmas on `get_page`, `add_page`,
  `Touch` and `SetByte` give what each does to the contents; `OverlayStep` moves
  one byte from the overlay to the pages, so that writing a byte is a stutter of
  the flat memory, entering a store is its `Store`, and returning from a load
  its `LoadReturn`.
* `TypeCorrect`, `SegmentsCorrect`, `UninitializedCorrect`, `LinesCorrect` and
  `CheckpointCorrect`: the five invariants of `Image`, from `IInv == MemoryInv /\ Control
  /\ LoadInv /\ LogInv`. `MemoryInv` is what `PageTable` keeps. `LoadInv` says what memory
  holds while the loader runs: the bytes of every segment so far (`Loaded`), and no
  non-zero byte outside the reach of the copies so far (`Untouched`); a copy which
  runs too far does no lasting damage, because headers are in the order of addresses:
  earlier segments lie below what it writes, and later ones are copied afterwards. The
  properties on what the program finds are about its start (`Started`), the last state
  `LoadInv` speaks of. `LogInv` says where a walk stands, that lines are memory (`Written`), and that
  every page between the start of a section and the place the walk has reached is
  logged (`Walk`), or, once it has gone round the address space, all pages on its side;
  a page is connected to the start only through pages the walk has met (`Walked`). For the
  heap it says that the walk ends where it begins, the fourth finding.
* `MissesAreDelayed`: `Spec => DelayedMisses`, the refinement of `MissDelay`.
  `DcNext` gathers what any caller can make the data cache do, and `DcInv` is its
  invariant: the cache keeps its shape, a countdown under way has between 1 and the
  penalty's calls left and names a block, and an access under way has an address, a
  width and a counter within it. `CyclesValue` then gives the unsigned decrement a
  value, and `DelayStep` maps each action: a wait is `Wait`, a fill is `Bring`, the
  rest are stutters. The argument never asks whether the exercises are done.
* `StubsServeNothing`: `StubsNeverServe`, from the clause of `DcInv` that with the
  stubs an access past its first byte has no countdown under way: its second byte,
  which misses as well, begins one and waits.
* `CacheTransparent`: `CacheIsTransparent`, with a second invariant, `TInv`: a block is
  kept in one line of the set its address names (`Tidy`), an access under way to
  the data segment whose first byte is done has its block in the cache
  (`Brought`), dirty if it stores. `FillView` is the heart of it: bringing one block in from
  memory and writing another back changes nothing that can be loaded, whichever line
  is evicted; `StoreView` says that `set_word_cache` changes the bytes stored and
  no others. Both rest on the arithmetic of blocks (`BlockStart`, `InBlock`,
  `BlocksOfData`), which is where `Aligned` is needed.
* `MissesReported`: `MissesCoverFills`. Inductive is that the misses counted are at least
  the penalty times the blocks ever held (evicted or in use) plus the calls the
  countdown under way has waited: a wait adds to both sides, a fill turns the calls
  waited into one block more, and an access that gives up one countdown for another
  only loses calls. `OneMore` counts the lines: a fill adds one block ever held.
* `TraceCounted`: `TraceAccounted` of `Csim`, from `CsimInv`. Hits and misses are the
  accesses of the lines replayed, by what a line adds to the three cardinalities
  (`LineCounted`); misses are the blocks ever held, by `OneMore` again; and what bounds the
  misses is that a modify under way has brought in the block that its store will hit.
* `PointsEarned`: `PassesAreEarned` of `Testbench`, from `TbInv`, which says at each step of
  a test whose the file is: in `test-csim` missing when a program starts, and its own or
  missing when it is read (`CsimFiles`); in `test-se` its own, missing, or left by a
  program that a signal ended, until both are compared (`SeFiles`). That the full score
  is only that of all tests: a sum of terms, each bounded by a multiple of a term of another
  sum, is bounded by it, and equal only if all terms are (`SumBounded`, by induction over
  the naturals), and a division reaches its bound only with all points (`Quotient`).
* `OutputWhole`, `LastOptionCounts`: `OutputAllOrNothing` and `GeometryAsGiven`, from
  the invariants `IInv` and `OptInv` of `ProgramsProof`; the second says that while
  options are read each parameter is what those read so far give it.
* `SingleStepped`: `KeysAccountedFor`, with `TypeCorrect` of `Visualizer`. The count is not
  inductive: that a wait ended by the stream's end costs no key only holds because
  the proxy ends the stream behind a page that has gone (`EndedByPage`), and the first
  cycle must be counted before it begins (`Begun`). The lemmas on `Forwards` say what
  appending a key and taking a chunk off do to the number of forward keys.

* `StatesArrive`: `StatesAccountedFor`. The pieces of the stream (the page's history, each
  message of the WebSocket, what the proxy has not read) are in order, each after all
  pieces before it, and together hold every state that parsed (`Arriving`); each
  callback moves a prefix of one piece to the end of the piece before.

* `SubtractionOrders`, `AdditionFlags`: `UnsignedOrder` and `AddFlags`, for every width.
  `alu` sums with the complement and takes the flags from the wrapped sum and three
  signs; `AluInv` says of the state that result and flags are those of the operation
  last done (`Operated`), and the rest is arithmetic of a sum that wraps at most once.
* `LogicAgrees`: `LogicAgreesWithAdder`. `BitAnd` and its like choose the word that has the
  right bits. That there is one, and only one, is by induction over the width
  (`PatternExists`, `SameWord`); that bits add as words do (`AddBits`) is by induction
  over the bits done so far. That `pow2` satisfies its recursive definition
  (`PowersExist`, `Pow`) is by induction too. All are in the form that a set of
  counterexamples has a least member.
* `MovesBuild`: `MovBuildsConstant`. Inductive is that the chunks already moved have the bits
  of the constant (`Moved`); `ClearBits` says that MOVK's mask keeps every bit of the
  other chunks, `ChunkBits` where a shifted chunk's bits lie, and the assumption that
  chunks fill the register that every bit lies in one.
* `DecoderInverts`, `ShiftsRead`: `DecodesAsAssembled` and `ShiftsDecoded`, for every
  instruction that can be encoded: the table of section 3, with its "unless", is exact
  for every register, offset, immediate, chunk and condition. A word is a row of fields: what is read behind a field
  is what was there before it (`Skip`), what is read at a field is its value, up to the
  sign it is read with (`Take`, `TakeSigned`). The index into `itable` is 11 bits, which
  for some formats end inside an operand: `IndexEnds` says which indices there can be,
  `Indices` that `itable` gives all of them the same opcode. One lemma for each format
  puts this together (`MemWord`, `MovWord`, ...), and one for each group of opcodes reads
  the word back (`MemRead`, ...; `AdrpRead` has the immediate that goes wrong, `LslRead`
  and `LsrRead` the alias; `TakeLow` is why CBZ, CBNZ and BL find a register in the
  low bits of their offset). `ReadsBack` is all of them.

* `ProgramsTyped`: `MCEmulator`'s `TypeOK`, for `MCSpec`, in which one of the three programs
  is run: `DcTypes` adds to `DcInv` what `inflight_cycles`, the counters and a load's
  result may be, `MainTypes` what options and command line may be; `SimTypes` and
  `TbSound` keep `CsimInv` and `TbInv` up to the end of `csim` and of a bench. It supposes
  that the data cache has a set (`HasSets`, which holds in every state of the run): with
  C < A * B a call indexes the empty array `sets`, and nothing is known of what it reads
  or writes back.

Only model-checked: liveness (`HaltEndsRun`, `Visualizer`'s three leads-to properties),
which rests on ENABLED. `SignedOrder` and the other violated properties are
refuted by their runs.

## 5. Not modelled

* Formatting: `show_instr`, the registers in the checkpoint, banners, the text of
  trace lines and of options; rendering in the page.
* `create_checkpoint`, `display_set`, `get_line`, `select_line` (`cache.c`) and `missing`
  (`err_handler.c`): nothing calls them.
* The reference binaries, the tables of tests and the options of the benches.
* Misaligned cells in `Pipeline`; instruction words that no `itable` entry
  distinguishes.

What the code does differently from what is said of it, beside the four
findings, and where the models have it:

* `LOG_FATAL` does not end the program (`err_handler.c:60-62`, against
  `err_handler.h:25`): `logging` in `Emulator`.
* `-f` sets the associativity (`handle_args.c:81-91`, against `README.md:29`):
  `Assigns`. `-o` is undone by `init` (`interface.c:31`): `init_begin`.
* The pipeline does not wait for a miss (against `README.md:31`): `dmem_status` is read
  by no action.
* The stub of `check_hit` returns `NULL` for false.
* Some operands are read from the wrong bits or not at all, as the table in section 3
  has it: mostly of the opcodes added for extra credit (`instr_base.c:240-246`), and of
  BL. `extract_regs` takes bits 0-4 as the destination of every opcode but RET and STUR
  (`instr_Decode.c:215-217`), bits 5-9 as the first source of CBZ and CBNZ (`205-209`)
  and a second source from eight opcodes and STUR only (`210-214`); `extract_immval` has
  no case for CBZ, CBNZ and HLT (`79-109`); the condition is written for B.cond
  alone (`289`); CSINC and CSINV have no entries in `itable`: `DecodedOperands`,
  `DecodedAs` in `MCAlu`. HLT's immediate has no use in the emulator.
* BR, BLR, CBZ and CBNZ do not branch: `predict_PC` and `select_PC` do not know them
  (`instr_Fetch.c:40-88`), and have none of them in `Pipeline`.
* Week 1's score of a directory is an integer division (`test-se.c:234`): `Share`.
* Empty results leave the counts uninitialised (`test-csim.c:88,117`), and a program
  killed by a signal counts as one that ended well (`85,109` of `test-se.c`):
  `read_results`, `Outcomes`.
* `show_instr` sends the opcode "NOP" for every instruction, since `!OP_ERROR` is
  constant (`instr_base.c:372`); not modelled.
