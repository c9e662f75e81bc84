# SUSTemu in TLA+

SUSTemu is an RV64-IM simulator written in C. Three engines run the same programs: a
functional one, an in-order five-stage pipeline, and an out-of-order (OOO) engine with
register renaming, reservation stations, a re-order buffer (ROB), a branch predictor,
a store buffer and miss-status registers (MSHRs). One or two harts run in lock-step,
each with its own L1 caches, above a shared L2. The repository also has what runs on
the simulator: a small C library, the abstract machine (AM) with its ports, labs, tests
and a NES emulator.

This directory models the parts whose correctness depends on the order of steps, and the
algorithms a test only samples. TLC checks the models on small instances, and TLAPS proves
central invariants for every size. `PROJECT.json` lists components, runs, mutants, findings,
hazards and theorems, and maps every definition to the lines it models. Paths below are
relative to the root of the repository.

## The parts of the system

| part | source | module | state |
|---|---|---|---|
| functional simulator, executors, decoder | `src/cpu/exec.c`, `ir.c`, `inst_table.inc` | `Exec`, `Isa`, `InstTable` | modelled |
| OOO engine, registers and control | `src/cpu/ooo.c` | `OooCore` | modelled |
| OOO engine, loads, stores, fences, devices | `src/cpu/ooo.c` | `Lsu`, `WeakMemory` | modelled |
| OOO engine, front end; branch predictors | `src/cpu/ooo.c`, `bpred.c`, `bpred2.c` | `FrontEnd`, `Bpred` | modelled |
| in-order pipeline, its difftest | `src/cpu/pipeline.c` | `Pipeline`, `PipeCores` | modelled |
| data caches and coherence | `src/memory/cache.c`, `vmem.c` | `Caches`, `Memory` | modelled |
| instruction caches | `src/memory/vmem.c`, `cache.c` | `ICache` | modelled |
| CSRs, privilege, PMP, traps | `src/cpu/csr.c`, `am/am/src/riscv/nemu/` | `Csr`, `Trap` | modelled |
| cores, dual-hart lock-step | `src/cpu/core.c`, `exec.c` | `Lsu`, `ICache`, `Trap`, `PipeCores` | partly |
| run control, monitor, watchpoints | `src/cpu/exec.c`, `src/monitor/` | `Machine`, `Watch`, `Expr` | partly |
| physical memory, device bus, keyboard | `src/memory/`, `src/device/` | `Devices` | partly |
| guest library | `lib/`, `am/klib/` | `Klib`, `Int64` | partly |
| AM contexts and address spaces | `am/am/src/x86/qemu/`, `am/am/src/native/` | `Contexts`, `PageTables`, `NativeVm` | partly |
| NES emulator | `litenes/` | `Nes`, `NesPpu`, `Console` | partly |
| dual-hart labs and tests | `labs/order_lab/`, `test/tso/` | `Labs` | partly |
| prefetch hook, tracers, disassembler, image loader, AM devices, single-hart labs | | | not modelled |

How they interact. An engine fetches and accesses memory through `vmem.c`, which
chooses between the caches and the device bus. Each cycle of the OOO engine
(`ooo_cycle`) runs ten stages from the back of the pipeline to the front: drain the
store buffer, commit, tick the MSHRs, the INT, MUL and LSU units, issue, rename, decode
and fetch. With two harts, `exec()` runs a cycle of each in turn. The monitor calls `exec()`
for `c` and `si`; between cycles it checks watchpoints and, now and then, polls the window's
events. Everything is one host thread, so an access to the caches is atomic, and what
interleaves is the instructions in flight, the stores that are committed and not yet in
memory, the harts, the user and, in the guest, threads and interrupts.

## Modules and how they correspond to the code

### The engines

**`Exec`** is the functional simulator: `ir_decode` on the fields of an instruction word, an
executor for every instruction on words of `XLEN` bits, `exec_once`. Where C leaves a value
open (an uninitialised local, a shift too far) any of `Garbage` is possible, and a division
the host traps on ends the simulator. **`InstTable`** has the rows of the pattern table.
**`Isa`** is a short form for `OooCore`: one mnemonic for each way the executors treat
registers, pc and machine state, an address being an index of the program.

**`OooCore`** is the register side of `ooo.c`. Variables keep the names of `OOOState` (`rat`,
`rrat`, `freelist`, `prf`, `rob`, `rs`, the masks, the latches). There is an action per
iteration of a stage's loop: `ooo_stage_if`, `ooo_stage_id`, `ooo_stage_rn`, `IssueInt`,
`IssueMul`, `IntComplete`, `IntMispredict` (which holds all of `ooo_flush_after`),
`MulComplete`, `ooo_stage_commit` and `CommitPanic`. The stages interleave in any order,
which includes the order of `ooo_cycle`; what holds here holds for any latencies and any
scheduling of the units. The free list is a set with the count the code keeps, and a
prediction is any the tables could give.

**`Lsu`** is the memory side: LSU, MSHRs, store-to-load forwarding, store buffer, fences,
accesses to devices. Here timing matters, so the stages run in the order of the code; `at` is
the next one and `hart` whose turn it is. `ooo[h]` is a record with the fields of
`OOOState`, and each stage is an operator with the name of the C function. A probe of the
caches takes any of `Latencies`, and a branch is predicted either way. Operands are the
instructions they depend on, since the registers are in `OooCore`. **`WeakMemory`** is what `Lsu`
promises: a FIFO buffer of committed stores per hart, loads that take their value once, in
any order unless one depends on the other, fences that wait for the buffer when they commit.

**`Bpred`** is both predictors as operators on a record (local and global counters, chooser,
BTB, return address stack). **`FrontEnd`** fetches control instructions in order, resolves them
in any order, and restores the stack's indices from snapshots.

**`Pipeline`** is the in-order engine over `Exec` and `Bpred`: a step is one `pipeline_cycle`, each
stage an operator. `StopAndResume` is a watchpoint that stops `exec()` and the next call of
it, `pipeline_init` included. `ref` is history: the functional simulator advanced once per
commit. **`PipeCores`** is what two cores add: the structure of latches and pointers that is
copied in and out of the global one in every cycle.

### Memory, CSRs and devices

**`Caches`** is the data side of the hierarchy: hits, misses, write-back through the L2,
`cache_snoop_invalidate` before a store and `cache_snoop_flush_dirty` before a load. A
victim is any way of the set, which includes the LRU one. **`Memory`** is what it promises:
atomic reads and writes. **`ICache`** adds the L1Is, which fetch without snooping.

**`Csr`** has the registers, the check of levels, the PMP entries with their shared count, and
the transfers of `mstatus` on a trap and on `mret`. A write of `pmpcfg2`, which runs past the
array, may leave any count and sets `wild`. **`Trap`** runs harts over it: writes and reads of
CSRs, accesses, and the guest's `__am_asm_trap` with its handler, nested up to `MaxNest`; `before`
is history, what each trap in progress interrupted.

**`Devices`** is the table of MMIO maps and the keyboard, **`Watch`** the pool of watchpoints, and
**`Machine`** the program around them: `main`, the prompt and its commands, the loop of `exec()` for
each engine, polling, and how a run ends.

### Guest code and pure routines

**`Routines`** compares answers with references, one call per behaviour: the decoder with the
table, **`Expr`** (the monitor's evaluator) with the value of the tree, **`Int64`** (64-bit division, at
a width of `W`), **`Klib`** (strings, output, `malloc`) and the arithmetic of **`Nes`**. Five jobs are
runs of several calls: the heap; address spaces on x86 (**`PageTables`**) and in a Unix process
(**`NativeVm`**); the cycles of two cores (`PipeCores`); and threads under interrupts on x86, x86-64
and in a Unix process (**`Contexts`**: what a trap pushes where, word by word, what the stubs
move, what `kcontext` and `ucontext` build).

**`Nes`**, **`NesPpu`** and **`Console`** are the NES emulator: processor, picture unit, and the loop of
scanlines that runs them. **`Labs`** has the programs of `labs/order_lab` and `test/tso` on two in-order
cores, where an access is to memory, and on two out-of-order ones: stores wait in a buffer, and a
load takes any value its word had since the hart left its last fence or, next to a fence, since
the hart came to it (`since`). The ROB bounds how far a load runs ahead; the model does not, and so
allows more than the code.

The MC modules hold programs and values for TLC. Definitions whose comment starts with
"Mutant", or that carry the name of an operation and a suffix after an underscore, are the
faulty variants that `PROJECT.json` pairs with properties; no specification uses them.

Composition. `Lsu` uses an atomic memory where the code uses the caches: that `Caches`
implements one is `ImplementsMemory`, proved in `UarchProofs`. `OooCore` uses `Isa` as its
reference, and `Lsu` the ring of the ROB as `OooCore` has it (`RobIsARing`). `Pipeline` composes
`Exec`, `Csr` and `Bpred`; `Trap` composes `Csr` with the guest's stub; `Machine` composes `Devices`
and `Watch`; `Console` composes `Nes` and `NesPpu`.

## Runs

| run | question | states | result |
|---|---|---|---|
| `ooo_core` | do rename, wakeup, flush and commit keep their invariants, does the engine implement `Isa`, and does every program end? | 186,376 | holds |
| `lsu` | do programs see `WeakMemory`, on one hart and on two, and does every one end? | 373,947 | holds |
| `lsu_fence` | does a fence order the loads after it? | | refuted |
| `front_end` | where may the predictors send fetch? | 396,704 | holds |
| `pipeline` | does the in-order engine commit what the functional simulator computes? | 262,953 | holds |
| `icache` | are the L1Ds coherent, is the hierarchy an atomic memory, and is unmodified code fetched intact? | 126,259 | holds |
| `trap` | is the PMP count exact, its verdict right, and a trap transparent? | 658,944 | holds |
| `trap_mret` | does `mret` restore the level? | | refuted |
| `machine` | are keys kept in order, and changes of watched values noticed? | 520,504 | holds |
| `routines` | do the pure routines, the heap, address spaces, cores and contexts do what they should? | 648,446 | holds |
| `nes` | do a game's uploads land, its returns restore, and its loop come round? | 947,743 | holds |
| `labs` | do the ordering labs report what they should, and end? | 400,176 | holds |

What the passing runs show:

- `ooo_core`: the live ROB entries are a ring segment (`RobContiguous`); each physical register
  is free, committed or in flight and only one of these (`RegPartition`); the rat is the
  rrat brought up to date by the ROB, so that any suffix can be undone (`RatConsistent`); the
  bitmasks are exact (`MasksExact`); whoever waits for an operand waits for a broadcast still
  to come (`NoLostWakeup`); every unexecuted instruction is in one place (`InFlightOnce`); CSR
  writes and the end of the program happen only for the instruction at `cpu.pc`
  (`EffectsNotSpeculative`); a panic reports a fault of the program, never of a wrong path
  (`PanicIsGenuine`); commits are the steps of `exec_once` (`ImplementsIsa`); and every program
  comes to its end (`RunEnds`).
- `lsu`: loads read what running in order would give (`LoadsSeeStores`); a wrong path never
  panics (`NoWrongPathPanic`); a load after a fence, but not the one directly after it, reads when the
  stores before the fence are in memory (`FenceOrdersOthers`); dependent loads see stores in order (`MessagePassing`); stores, loads, fences
  and devices are those of `WeakMemory` (`ImplementsWeak`); every program ends (`RunsToEnd`).
- `front_end`: whatever order branches resolve in, the entries a return may pop were pushed by
  calls (`RasHoldsCalls`), and fetch only goes where the branch could (`PredictionIsPlausible`).
- `pipeline`: committed registers and pc are the functional simulator's (`CommitsMatch`), memory is
  at most the next instruction's store ahead of them (`MemoryInStep`), difftest raises no false
  alarm (`DifftestAgrees`), and `exec(n)` returns (`ExecReturns`). Programs without system instructions
  are also stopped once, anywhere, and resumed.
- `icache`: no copy of a block that is dirty elsewhere (`Coherent`), each read returns the last
  write (`ImplementsMemory`), and code nobody stores to is fetched as it is (`FetchIntact`).
- `trap`: the count two harts share is the number of their active entries (`PmpCountExact`), what
  `pmp_check` decides is what the entries say, outside the upper half of a NAPOT region
  (`PmpVerdict`), and a trap whose `mret` completes
  gives back registers, enable bit and return address (`TrapTransparent`).
- `machine`: the keys let in are those read followed by those in the ring (`KeysInOrder`), and a
  step that changed a watched value does not go on running (`NoChangeMissed`).
- `routines`: answers are the references' (`AnswersRight`), blocks of `malloc` are disjoint
  (`BlocksDisjoint`), address spaces show what was mapped (`SpacesRight`), a core works on its own
  latches (`LatchesOwn`), and a thread resumes as it was interrupted (`ContextsResume`).
- `nes`: bytes sent to the picture unit's data port land, in the handler also when it cut into an
  address half sent, in the game when the handler neither read the status nor sent an address
  (`UploadLands`), `rti` and `rts` restore
  (`ReturnsRestore`), and waits for the picture unit end (`LoopsRound`).
- `labs`: hart 0 reports before the machine stops, the counter it reports is the last one, and on
  in-order cores there is no reordering and no lost update (`ReportsRight`); every program ends in
  every build on both engines (`LabsEnd`).

### What the code does otherwise

Two runs refute what the repository says; `PROJECT.json` quotes it under "findings". `mret` takes
the level to return to from the wrong bits of `mstatus` and always goes to user mode. A load that
is renamed together with the fence before it reads before the stores older than the fence are in
memory (`ooo.c:902`): a fence is recognised by a field that only its execution sets.

Four further configurations, run by hand, show programs outside what the passing runs
promise:

- `tlc -config MCOooCoreEcall.cfg MCOooCore`: `ecall` and `mret` do not redirect fetch
  (`ooo.c:561` compares the prediction of branches and jumps only), so the instruction after
  them commits. Line 67 says "any mismatch is a bug".
- `tlc -config MCICacheFence.cfg ICache`: fetch does not see stores to code, and `fence.i` does
  nothing about it, although `ir.c:999` says "No real I-cache invalidation needed".
- `tlc -continue -lncheck final -config MCLsuOutside.cfg MCLsu`: beside the fence, two loads that
  do not depend on each other may read in the other order, which the TSO of
  `labs/order_lab/lab.md:18` forbids (`ooo.c:892`); a load wider than the store before it reads old
  bytes (`ooo.c:801`); a store to a device overtakes older stores (`ooo.c:455`); two device loads
  behind a slow load keep both LSU slots, and nothing moves again (`ooo.c:709`).
- `tlc -config MCLabsFence.cfg Labs`: on out-of-order cores the fences of the labs are not enough
  (`FencesEnough`). The loads next to them and, in the lock's critical section, the load of the
  counter may have read earlier, while `tso.c:13` and `peterson.c:28` say that fenced builds show no
  violation and are correct. Whether a given binary shows it depends on where the compiler puts
  the load, and on timing.

Met while modelling, and left in the models as they are in the code:

- *Engines.* Serialising instructions do not "enter the ROB alone" (`ooo.c:19`), which
  `EffectsNotSpeculative` and `ImplementsIsa` show to be harmless but for `ecall` and `mret`; p0 is
  written (`ooo.c:17`), and nothing reads it. `bpred_update` comes before the check that a target
  is in memory, so the BTB can learn a wild one. Restoring the return address stack drops the
  push of the mispredicted call itself. Difftest runs CSR instructions a second time on the
  shared CSRs, so `DifftestAgrees` is about programs without them. The instruction before
  `ebreak` is never written back in in-order mode. `pipeline_fix_ptrs` never changes a pointer.
- *Decoder.* The words of the table's `srai` row are decoded as `srli` (`ir.c:211` compares six bits
  with a seven-bit code); `WordJobs` of `MCRoutines` leaves the row out, and with it `AnswersRight` fails.
- *Traps.* A NAPOT region of `pmpaddr` with k trailing ones has 2^(k+2) bytes (`csr.c:236-240`), the lower
  half of the architecture's 2^(k+3). Writes of `mstatus` are ignored. After a nested `mret` the outer handler runs at
  user level, where its next `csrw` ends the run, so only innermost traps complete.
- *Monitor.* A watchpoint's `NEMU_STOP` overwrites `NEMU_END` and `NEMU_QUIT` (`exec.c:244`), after which
  an ended program runs on. `p` and `x` on the keyboard's address take a key, or fail an
  assertion. The evaluator applies an operator to an operand that failed, with the value -1, and
  dereferences it. With two cores no events are polled, and watchpoints see the registers of the
  core that ran last.
- *Library.* `strncmp` compares character n when the first n are equal; `printf` does not count
  "%%", `sprintf` does; after a refused `malloc` the space asked for is skipped; `atoi` reads no
  sign. The evaluator drops the outer of two prefix operators and takes the star of "(*p)" for
  a product; the references of `AnswersRight` leave these out.
- *AM.* x86 gates are trap gates, so one more interrupt may come before the stub masks them,
  which `Contexts` has. The frame `kcontext` returns through overlaps its own `Context`; copying its
  last word first is what makes that safe. On x86-64 the trap frame overwrites the red zone of
  the interrupted function, which `ContextsResume` does not claim to survive; a Unix process
  skips it. In `native/vme.c`, mapping a mapped page again makes its list cyclic (line 113).
- *Labs.* `test/dual` has no final barrier: hart 1's `ebreak` may stop the machine before hart 0
  prints.
- *NES.* The interrupt sets the mask before it saves the flags; a status read between two
  stores to the data port loses an increment; a handler that reads the status or
  sends an address makes an upload it cuts into land elsewhere; a handler that runs over the vertical blank
  hides it from a program that polls.

### Bounds

- `OooCore`: 3 architectural and 5 physical registers, ROB of 3, 2 stations, eight programs of
  five instructions. With two spare physical registers, the ROB, the stations and the free
  list all run out, the ROB wraps, and a branch flushes zero, one or two entries from any
  head position. Wrong paths rename, jump out of memory and meet invalid instructions.
- `Lsu`: ROB of 4, 3 stations, one MSHR and a store buffer of two, so that both are full often
  (with two MSHRs the run passes too). Cache lines of 2 bytes and DRAM of 4: two addresses
  share a line and two do not. 258 programs of six instructions on one hart, fifteen pairs of
  litmus tests on two (six message passing, nine store buffering). Latencies are scaled down (1, 4, 9) so that a miss still spans a drain.
- `FrontEnd`: three instructions in flight, seven fetched, a stack of two, a BTB of two: the stack
  overflows and two branches share an entry.
- `Pipeline`: all programs of three instructions out of twelve with each kind of dependence,
  transfer and effect; loads of one or two cycles; one stop. Four latches hold no more.
- `ICache`: 2 harts, 2 blocks, caches of one line: every miss on the other block evicts, and an L2
  eviction happens inside an L1 write-back. The proofs cover the other sizes.
- `Trap`: two harts, two PMP entries each, addresses on both sides of a region, traps nested
  once. The code has eight entries, whose configuration needs a register of 64 bits, beyond
  TLC's integers; `PmpCounted` is proved for one to eight. `XLEN` is 16 there and in `Pipeline`: enough for every field.
- `Machine`: a ring of three codes and four keys; two watchpoints; every engine.
- `Routines`: twenty thousand calls, operands on both sides of every case of the code; six calls
  of `malloc`; page tables of two levels with three entries each, eight pages; three interrupts (four pass
  too) of three threads, each anywhere.
- `Console`: pictures of three lines, frames of nine, slices of the processor cut to match, 82
  cartridges. `Labs`: two rounds and a store buffer of two, which fills.

### Deadlock

Not checked where the system may stop: an engine at `ebreak` or a panic (that it never stops
before is `RunEnds`, `ExecReturns`, `LabsEnd`), the simulator at its end, a routine that has
answered, `FrontEnd` at its bound. `lsu`, `icache` and `nes` check it.

### Fairness

`ooo_core` assumes weak fairness of each stage: `ooo_cycle` calls every stage in every cycle
and `exec()` calls it until the state changes. Predictions are not fair: a branch may be
mispredicted each time. `Lsu`, `Pipeline` and `Console` assume only that the next step of their
one loop is taken (`WF_at(Advance)`, `WF_clk(Pass)`, `WF_tick(Tick)`); what a step chooses stays
arbitrary. `Labs` assumes that each hart goes on and that its buffer drains, since `exec()`
gives every hart a cycle in turn and `ooo_drain_store_buf` is the first thing in it. A hart that
waits in a loop is only assumed to go on when what it waits for is so now (`Now`), not when a
value it could have read earlier would let it.

## Proofs

All theorems are for every value of the constants that satisfies the assumptions
`IsaAssumption`, `ProgramsAssumption`, `OooAssumption`, `CachesAssumption`, `ImageAssumption`,
`FetchAssumption`, `CsrAssumption`, `PowersAssumption`, `TrapAssumption`, `BpredAssumption`, `TablesAssumption`,
`FrontEndAssumption` and `CodeAssumption`: sizes are positive, there are more physical
than architectural registers, the ROB has at least two entries, the caches serve one or two
harts, powers are positive numbers, a hart has one to eight PMP entries and all harts together fewer
than 256, and
instructions are at multiples of four with branches and `jal` (not `jalr`) staying in the code.

**`OooCoreProofs`** (lemmas in `OooCoreRenaming`, in `OooCoreWakeup` and `OooCoreValues`, which extend
it, and in `OooCoreRefine`), in three layers.

*Renaming*: `TypeCorrect`, `RobIsARing`, `RegistersPartitioned`, `MapsConsistent`. The inductive
invariant `IInv` is the conjunction of the four. None is inductive alone. A flush frees the
destinations of a suffix of the ROB: that these are distinct and not free is `RegPartition`; that
the ones left are those of the entries that stay needs the ring; that the rat is restored needs
the chain of `old_phys` (`RatConsistent`); and a commit frees `old_phys`, which is the committed copy
only because the oldest writer's `old_phys` is the rrat entry, again `RatConsistent`. The
proof has a lemma per kind of step: a step that leaves the renaming state alone (`Frame`), a
completion, a rename, a commit and the flush. Facts about finite cardinality come from
`FiniteSetTheorems`.

*Scheduling*: `WakeupInvariant`, and from it `MasksSummarise`, `WakeupsNotLost` and `ExecutesOnce`. The
inductive invariant `WInv` (in `OooCoreWakeup`) stands on `IInv` and says:
- `MasksOk`: the masks are what the stations say. Issue and flush pick stations by mask.
- `PlainOk`: an instruction that renames no register has p0 or no destination, so that its
  result is not broadcast.
- `PrfOk`: the destination of a live writer is ready exactly when the writer has executed, and a
  committed copy is ready. Rename decides by this flag whether an operand waits.
- `WaitsOk`: an operand that waits, waits for an older live writer that has not executed. It says
  more than `NoLostWakeup` only in that it speaks of structures given as arguments.
- `TagsOk`: a station or latch has the destination of its ROB entry, so the tag a completion
  broadcasts is the one its waiters have.
- `Matched`: each slot to execute is in exactly one place. `InFlightOnce` counts places with
  `Cardinality`; `HoldersOf` derives the count from the matching.

A misprediction writes its result back and then flushes, in one step. The clauses of `WInv` take
the structures they speak of as arguments, so that the proof can go through the state in between:
`WrittenBack` leads to it, `FlushKeeps` from it. A wait survives the flush because the writer waited
for is older than the station that stays; a register freed and taken again has no waiter left,
because by `WaitsOk` a waiter's register has a live writer and by `RegPartition` it has one only.

*Values and control flow*: `DataInvariant`, and from it `PanicsGenuine`, `EngineImplementsIsa` and
`EffectsByHead`, under the hypothesis `TrapFree` that no program has an `ecall` or `mret` (which do not
redirect fetch, see above) and that an `ebreak` has no destination, as the decoder gives it none. The
inductive invariant `DInv` (in `OooCoreValues`) stands on `IInv` and `WInv` and says:
- `Values`: committed registers are in the physical registers the rrat names; what an executed
  instruction holds is what the functional simulator computes from its arguments, and the sources of
  stations and latches are the registers that the mapping at the instruction's age names.
- `Chain`: the first live instruction is at `cpu.pc`, each one is at the address the one before it
  leads to (its outcome if it is an executed branch, else its prediction), and what is fetched and not renamed
  continues the path up to `fetch_pc`.
- `Serial`: a serialising instruction is the oldest, and the CSRs are the committed ones unless it
  has executed.
- `PanicIsGenuine` itself.

That a value stays right needs that no register is written twice or taken while it is read, which is
`RegPartition` and `PrfOk`; that a completion is right for its readers, `TagsOk`. All three ways to complete
(INT, MUL, misprediction) are instances of one relation, `Completes`, of which the values are shown once;
`Chain` after a misprediction is where the flush restores the path. A commit is a step of `exec_once`
because by `Chain` the head is the instruction at `cpu.pc` and by `Values` it holds what `exec_once`
computes; every other step is a stutter, except the `ebreak` that executes, which is the last step.

**`UarchProofs`**, the caches: `Coherence` (`Spec => []Coherent`) and `Refinement` (`Spec =>
ImplementsMemory`). The inductive invariant `CInv` is well-typed lines together with `Coherent`.
The proof follows the code: what an eviction, an L2 access, a fetch of a block and a snoop do
to the current value of every block, then one lemma each for loads, stores and instruction
misses. For the refinement, the memory is `Current`, the newest copy of each block, which only
a store changes, and only at its place. `DataSide` carries both over to `ICSpec`, the specification
of the run: an instruction fetch is a step or a stutter of the data side. `CodeIntact` (`ICSpec =>
[]FetchIntact`) needs that a block never stored to is dirty in no L1D (`OnlyWrittenDirty`), so that no
write-back reaches it, and that its value below the L1s is the loaded one (`BelowIntact`): an L1I
line is filled from there and stays while the L2 evicts.

**`TrapProofs`**: `TrapsStacked`, `TrapsTransparent` and `PmpCounted`, for any number of harts and
any nesting. `TrapTransparent` speaks of one step, an `mret`, and the state it returns to was left
long before, so the inductive invariant `TrapInv` follows a trap through its life: as many
frames as traps pending, one less in the stub's first and last instructions (`Depth`); each
frame holds what its trap interrupted (`Stacked`); and of the innermost trap, the registers and
`mepc` before they are saved and after they are restored, and the enable bit in MPIE as long as
the hart is at machine level (`Innermost`). The last needs that `set_csr` never changes `mstatus`
and that a handler at user level ends the run before its `mret`. `PmpCounted` needs the count to be
a byte and one write to change the entries of one hart only: the active entries before and after
differ by those turned on and off (`SwapEntries`), and the sum modulo 256 is exact because all
entries fit.

`UarchProofs`, the front end: `RasHolds` (`FSpec => []RasHoldsCalls`) and `PredictionsPlausible` (`FSpec =>
[]PredictionIsPlausible`). `RasHoldsCalls` speaks of the current indices only, and a misprediction
puts back older ones, so the inductive invariant `FrontInv` says the same of the snapshot of every
branch in flight. It holds because a slot that was written by a call is only ever written by calls
again (`Grows`), a push makes one slot more poppable, the one it writes, and a pop none. For the
predictions `FrontInv` says that a valid BTB entry holds an outcome of the branch with its index and
tag; there is one such branch, since index and tag are all of the address but its two low
bits (`TagsTell`).

Only model-checked:
- liveness (`RunEnds`, `RunsToEnd`, `ExecReturns`, `LoopsRound`, `LabsEnd`): TLAPS does not handle fairness;
- what is defined by recursion over data (`KeysInOrder`, the routines, the executors of `Pipeline`):
  what such a definition computes for every input needs induction schemes TLAPS cannot apply;
- `PmpVerdict`: the match of a NAPOT region rests on arithmetic of powers of two and trailing ones;
- everything about `Lsu`, `Labs` and `Console`, for which no inductive invariant has been worked out.

## Not modelled, and why

- The out-of-order engine called again by `exec()`: `ooo_init` drops committed stores that have not
  drained; `Lsu` and `OooCore` are one call each. Its inline difftest compares what `ImplementsIsa`
  states.
- An access that crosses the end of a cache line: what follows a line's data in memory is the
  layout of a C structure. A wrong-path division by zero in `ooo.c:634` ends the host process.
  `PROJECT.json` lists both as hazards without a property.
- The prefetch hook returns 0. The screen, the clock, the serial port and the flash move data
  between guest and host; a clock read in two halves can tear, as each access latches both.
- Tracers, statistics, disassembler, image loader and options: output and I/O.
- AM devices, boot code and multiprocessing: defined by hardware or by the host's libraries. The
  MIPS, x86-nemu, npc and spike ports leave contexts and address spaces as exercises. The
  native audio counter and input ring are shared with a host thread and a signal handler of
  SDL's, whose scheduling the repository does not state.
- NES pixels, palettes, frame skipping and mapper 3; the game's ROM is data.
- Single-hart labs and benchmarks: loops that are timed.
