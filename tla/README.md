# TLA+ models of fabi386

fabi386 is an out-of-order, two-wide x86 core in SystemVerilog for MiSTer
FPGAs. This directory holds its formal models: TLA+ modules translated from
the RTL under `rtl/` and from the testbench under `bench/verilator/`, TLC configurations that check them on small instances,
and proofs that TLAPS checks for every size. Paths below are relative to the
root of the repository.

Everything in the core runs on one clock, so **a step of every model is one
clock cycle**: each always block becomes an operator with primed variables, the
combinational signals become operators without, and a module that composes
others conjoins their clock operators. What makes the system hard is not that
processes interleave but that many small state machines move in the same cycle,
that a pipeline flush can come in any of them, and that memory answers after an
arbitrary number of cycles.

## 1. Inventory

| Part | State | Operations | What makes it correct |
|---|---|---|---|
| Core testbench `bench/verilator/tb_ooo_core.cpp` | program, pins, cycle and retirement counters | construct, reset, tick, serve fetch and data, report | address and block of a fetch stay paired, every retirement counted |
| Testbench memory `bench/verilator/memory_model.h` | pages allocated on first write | read, write, fill, load a file, statistics | pages are invisible |
| Reorder buffer `core/f386_rob.sv` | circular buffer, head, tail, count | dispatch 2, two result buses, retire 2, flush | in-order retirement, occupancy, nothing lost |
| Load/store queue `core/f386_lsq.sv` | two circular queues, forwarding pipe, pending table, drain pointer | dispatch, address/data writeback, commit, issue, answer, dequeue, flush | total store order, forwarding of the right store, no committed store lost |
| MMIO path `memory/f386_mmio_io_path.sv` | five states, latched load | accept, issue, answer, flush | one uncached load at a time, settles after a flush |
| Arbiter `memory/f386_mem_req_arbiter.sv` | none | select, route by id | answers reach who asked |
| Shim `memory/f386_lsq_to_memctrl_shim.sv` | FIFO, five states | enqueue, issue, acknowledge, answer, drain | split-phase ids to a level handshake, across flushes |
| Memory controller `top/f386_mem_ctrl.sv` | five states | serve page walker, data, fetch | priority, one acknowledge per request |
| Page walker, TLB, frontend `memory/f386_page_walker.sv`, `f386_tlb.sv`, `f386_dtlb_frontend.sv` | walk state, 32 entries, latched access | lookup, walk, A/D write-back, fill, flush | right translation, no stale walk, no hang |
| L2 caches `memory/f386_l2_cache_sp.sv`, `f386_l2_cache.sv` | tags, data, 4 MSHRs | lookup, fill, evict, coalesce | coherence with memory, every miss answered |
| Decode hand-over `core/f386_decode.sv`, `f386_fetch_fifo.sv` | hold registers | hold, advance | each instruction dispatched exactly once |
| Rename `core/f386_register_rename.sv` and children | speculative and committed map, free list, busy table | rename 2, commit 2, clear busy, snapshot, flush | conservation of physical registers, a destination kept to its instruction, the committed map follows retirement |
| Issue queue and execution `core/f386_issue_queue.sv`, `f386_execute_stage.sv` | 8 entries, pipes | dispatch, wake up, select, complete | each entry executes once and waits for the right producer |
| Exceptions `core/f386_exception_unit.sv` | delivery state | report, deliver, nest | precise, none lost, double and triple fault |
| Microcode `core/f386_microcode_sequencer.sv`, engine in `f386_ooo_core_top.sv` | sequencer, drain | start, step, redirect | runs alone, hands back |
| Speculation `core/f386_ftq.sv`, `f386_specbits.sv` | target queue, branch tags | allocate, resolve, squash | tags reused only when free |
| Peripherals `soc/f386_pic.sv`, `f386_pit.sv`, `f386_ps2.sv`, `f386_iobus.sv` | registers | port reads and writes, interrupts | interrupt priority, no lost request |
| Display `soc/f386_vga.sv`, `soc/f386_etx_*.sv` | scan-out, memory hub | draw, fetch | hub arbitration |
| Bridges `memory/f386_ddram_bios_mux.sv`, `f386_mem_sys_to_ddram.sv` | outstanding reads | route | answers in order |

The parts interact by wires inside a cycle. The chain of a load is: address
unit -> load/store queue (forwarding) -> arbiter -> shim -> memory controller
-> DDRAM and back over the same chain to a common data bus and the reorder
buffer. Retirement goes the other way: it commits a store in the queue, which
drains it over the same chain. A flush (branch misprediction, control-register
write or microcode redirect) is a wire to all of them except the memory
controller.

In simulation the C++ testbench is the core's memory: between two clock edges
it looks at the fetch and data ports, answers from its memory model, and counts
what the retirement trace shows.

Three builds matter. The plain testbench (`tb_ooo_core.cpp`) has no memory
interface of the load/store queue and no microcode engine: `CoreBench` over
`OooCore`. The simulated build (`VERILATOR_ENABLE_LSQ_MEMIF`) runs the
queue over shim and memory controller without a TLB; that is what `MemPath`
composes. `VERILATOR_ENABLE_TLB` adds translation over the same controller: that
is `WalkPath`. Synthesis with `SYNTHESIS_ENABLE_MEMORY` has the TLB too, and puts
the split-phase L2 in the place of shim and controller.

## 2. Modules

| Module | Models | Built on |
|---|---|---|
| `ProgramOrder` | abstract: what a reorder buffer promises | |
| `ReorderBuffer` | `f386_rob.sv` | refines `ProgramOrder` |
| `ReorderBuffer_proofs` | theorems about `ReorderBuffer` | TLAPS |
| `MemTypes`, `SplitPhase` | words; `mem_req_t`, `mem_rsp_t` | |
| `LsqMemPort` | `gen_mem_path` of `f386_lsq.sv`: load state machine, pending table, response registers | `SplitPhase` |
| `MmioIoPath` | `f386_mmio_io_path.sv` | `SplitPhase` |
| `MemReqArbiter` | `f386_mem_req_arbiter.sv` | `SplitPhase` |
| `LsqMemShim` | `f386_lsq_to_memctrl_shim.sv` | `SplitPhase` |
| `MemCtrl` | `f386_mem_ctrl.sv` | `MemTypes` |
| `Ddram` | external: the DDRAM port of the framework | `MemTypes` |
| `SerialMemory` | abstract: what the memory path promises | |
| `MemPath` | `gen_lsq_memif` of `f386_ooo_core_top.sv`: all of the above wired together | refines `SerialMemory` |
| `MemPath_proofs` | theorems about `MemPath` | TLAPS |
| `TotalStoreOrder` | abstract: what a store queue promises | |
| `RegisterRename` | `f386_register_rename.sv` and its children, wired to the reorder buffer | `ReorderBuffer` |
| `RegisterRename_proofs` | theorems about `RegisterRename` | `ReorderBuffer_proofs` |
| `OooCore` | `f386_ooo_core_top.sv` from program counter to retirement: decoder registers, dispatch, `f386_issue_queue.sv`, `f386_execute_stage.sv` | `RegisterRename` |
| `OooCore_proofs` | theorems about `OooCore` | `RegisterRename_proofs` |
| `FlatMemory` | abstract: an array of bytes | |
| `MemoryModel` | `memory_model.h` | refines `FlatMemory` |
| `MemoryModel_proofs` | theorems about `MemoryModel` | TLAPS |
| `CoreBench` | `tb_ooo_core.cpp` | `OooCore`, `MemoryModel` |
| `CoreBench_proofs` | theorems about the testbench and the core under it | `CoreBench`, `MemoryModel_proofs`, `OooCore_proofs` |
| `PageTypes` | accesses, page-table entries, fault codes | `MemTypes` |
| `Tlb` | `f386_tlb.sv` | `PageTypes` |
| `PageWalker` | `f386_page_walker.sv` | `PageTypes` |
| `DtlbFrontend` | `f386_dtlb_frontend.sv`, which contains the two above | `Tlb`, `PageWalker` |
| `WalkPath` | `gen_dtlb` of `f386_ooo_core_top.sv` over the memory controller | `DtlbFrontend`, `MemCtrl`, `Ddram` |
| `WalkPath_proofs` | theorems about `Tlb` and `WalkPath` | TLAPS |
| `LoadStoreQueue` | the queues of `f386_lsq.sv` and the core around them | `LsqMemPort`, refines `TotalStoreOrder` |
| `LoadStoreQueue_proofs` | theorems about `LoadStoreQueue` | TLAPS |

### ReorderBuffer

`Clock(u, v, w0, w1)` is the always block: the two dispatched instructions and
the transfers on the two buses are its parameters, and each primed variable is
the net effect of its non-blocking assignments in their order (dispatch, bus 0,
bus 1, retirement). `full` is the rule of the simulated build. Inputs follow
`f386_ooo_core_top.sv`: no dispatch while full, results only for slots that wait
for one, bus 1 also for the V instruction of the same cycle.

### RegisterRename

Extends `ReorderBuffer`: an entry's instruction is now the record of what
dispatch patches into it (`dest_valid`, the new register `p_dest`, the replaced
register `old_phys`), and one `Edge` is the reorder buffer's `Clock` together
with the clock edges of maps, free list and busy table. `PickU` and `PickV` are
the two grants of the picker; `Committed` and `Reclaimed` are what retirement
hands back; a flush wins over renames but not over the commit of the same cycle.
`MicroCycle` is the cycle of a micro-op: a macro-op at the head writes registers
of the committed map over bus 0. Which micro-ops there are is left open, so a
macro-op may write any of them any number of times.

Two things of the wiring show in the model. The architectural destination is
gone once `patched_u.p_dest` has overwritten it, so the committed map is written
at the low bits of the physical register (`% A`; `A` is a power of two in the
code). And `dispatch_v_valid` depends on `rename_v_alloc_valid`, which depends
on `dispatch_v_valid`: the equation is `x = c /\ x`, satisfied by either value
where `c` holds, and nothing ever raises it from its first value. The constant
`VPipe` is the value it rests at. Simulation starts from zero, so `FALSE` is
what it shows: no instruction with a destination leaves by the V pipe. The
theorems hold for both.

### MemPath

Every component contributes a `...Clock` operator over its own variables;
`Cycle` wires them with LETs named like the wires of the top level. The
environment chooses a flush, the memory's busy line, whether the memory
delivers, a load and a drainable store. `ld_in_flight` of the top level admits
one load at a time. `StoreInput` keeps one fact from outside the path: while an
uncached load is in progress no younger store can have retired.

### LoadStoreQueue

Composes the queue registers with `LsqMemPort`, an abstraction of the reorder
buffer (the memory instructions in flight, in order) and a serial memory behind
a channel: `MemPath` shows that arbiter, shim and controller are one. Loads and
stores are of whole words, so the forwarding CAM's lane arithmetic reduces to
address equality; `Forwards` keeps the walk over indices. `RetireInput` lets the
oldest memory instruction leave by the U or the V port, as the reorder buffer
does when an instruction of another kind is ahead of it; `Commits` then takes
only what the queue is wired to.

Three flaws of the code are part of this model without a property of their own.
`lq_count` is assigned on dispatch (`core/f386_lsq.sv:316`) and again on
retirement (`:343`); with both in a cycle the second wins, and the count later
wraps below zero, although `bench/formal/f386_lsq_props.sv:107` asserts that it
stays within the queue. `TypeOK` therefore gives it its whole width. And only the
U port of retirement reaches the queue (`core/f386_ooo_core_top.sv:2154`; the V
port's index is open at `:1030`): a store that retires by the V port is never
committed and stays at the head until a flush. And a flush clears the whole
store queue, retired stores that are not written yet included
(`core/f386_lsq.sv:364`), although the comment at `:407` has the drain of
committed stores go on.

### WalkPath

`DtlbClock` is one clock edge of frontend, TLB and walker; `Cycle` wires it to
`CtrlClock` and to what the core keeps beside it: CR3, CR0.PG with its copy of the
cycle before (a change of PG flushes one cycle later, a write of CR3 in its own
cycle) and `xlat_ctx`. A virtual page is a pair of indices, the page tables are
words of memory with two entries each, and reads of other words by fetch and
data contend for the controller. Inputs are enumerated only where they can make
a difference: a request while the frontend is idle, a hold while it responds,
traffic while the controller is idle. The same goes for `MemPath` and
`LoadStoreQueue` (`BusyInput`, `DeliverInput`, `AcceptInput`, `ServeInput`).

What the walker does with a flush is modelled as it is: it goes idle, in any
cycle (`memory/f386_page_walker.sv:97`), and the controller, which has no flush
input, goes on with the read or write it has accepted. Two history variables, which
no action depends on, follow the consequences. `orphan`: the request of the walker's
that the controller holds belongs to a walk that a flush has cancelled. `misled`:
the walker has taken the acknowledge of such a request for that of its own. Five
things of the code show:

* Cancelling a walk that waits for memory misleads the next one. It asks while the
  controller is still busy, so that its request pulse is lost, or just as the old
  answer comes, and takes that answer for its own. After a write of CR3 a table entry
  of one address space is then taken for a directory entry of the other. Comment and
  port list say that flush cancels the walk in flight (line 19): `FlushCancels` says
  what that would mean, and run `walk_cancel` shows that it does not hold.
* `TranslatesByTables`, `TlbAgrees` and `OnlyMarks` say the same and more of
  every behaviour up to the point where the walker is misled. Flushes, writes of
  CR3 and changes of PG come in any cycle of it, walks that wait for memory
  included, and so do the late acknowledges that meet an idle walker and the writes
  that a cancelled walk left behind. Beyond that point an entry of the wrong table is
  filled, and written back over another: there is nothing left to state but types.
* A request pulse in a cycle in which the controller is not idle is lost. Safety
  is not touched (the walk waits); that it waits for ever is run `walk_hang`.
* The controller returns and writes the low half of a word whatever the entry's
  index (`top/f386_mem_ctrl.sv:177`, `:210`), so a page with an odd index is
  translated by the entry below its own. `ReadAs` is the page whose entries the
  walker reads in its place; the properties speak of these. Both halves of the
  instance's words are entries in use, read by pages with odd indices and next to
  entries that are written back.
* An entry of the TLB keeps the user bit of the table entry only, the walk checks
  that of the directory entry as well: after a supervisor access to a page whose
  directory entry is supervisor-only, a user access hits where a walk would
  fault. `Translations` has both answers for such an access; the instance has such a
  directory entry.

### OooCore

One `CoreEdge` is a clock edge of the core of the plain testbench: program
counter, the decoder's first stage and output register, issue queue and execute
stage, over the `Edge` of `RegisterRename`. What decides control is kept: when the
decoder advances and holds, when dispatch is accepted, which slot of the queue
it takes and that it is dropped when there is none, the sources that are waited
for and woken, selection of the lowest ready entry, the result bus, the
comparison of a branch with the prediction, and what a flush clears and does
not. Values are left out, so whether a branch is taken is open, and so is what a
trained predictor says; before the first branch it predicts nothing taken.

* Only the U pipe dispatches, since `dispatch_v_valid` rests at zero
  (RegisterRename above).
* The program counter moves by whole blocks, so the first instruction of each
  block is the only one that is executed; the rest of a NOP sled is skipped.
* `Opcode` decodes NOP, INC EAX, JE, HLT and FF FF, which reading memory that was
  never written gives and which the decoder takes for an instruction without
  destination. All have the same source, EAX, so one architectural register
  suffices.
* A system call never completes: there is no microcode engine in this build. It
  stops issue behind it, since the lowest ready entry always goes first.

The model shows flaws of the code that properties have to be stated around. A
flush does not reach the decoder, so up to two instructions of the path that was
left are dispatched after it and retire (`FlushFetchesNothing` bounds them). It
clears the whole reorder buffer, so a branch that overtakes a halt in the issue
queue throws the older halt away. A branch is compared with the prediction for
the block being fetched when it executes, not with its own. And dispatch is not
held when the issue queue is full: behind a halt instructions get slots of the
reorder buffer and none of the queue. `QueueMatchesBuffer` therefore claims that
nothing is dropped only while no system call is in the queue.

### MemoryModel and CoreBench

`MemoryModel` has a value of several bytes as the function of its bytes, lowest
first, which is what the shifts and masks of the code make of it; each operation
runs to its end between two edges and is one step. `stored` records the last
store for the refinement: `MemoryIsFlat` says that an array that only applies
those stores reads the same.

`CoreBench` is the program: `Construct`, `PlaceHalt` and `Reset`, then `tick`, one
clock edge and the three services after it, `MaxCycles` times, then `report`.
`Patch` generalises the constant program by one more operation of the memory
model, as the other testbenches beside this one write theirs. The data port is
tied to zero in this build; `DataRequest` is what it asks in others.

### Slips

Definitions named `..._late`, `..._held`, `..._forgetful` and so on, each under a
comment that starts with `Slip:`, are not part of any specification. Each is a
plausible mistake in the definition that follows it, and the property it is
paired with in `PROJECT.json` fails when it is put in that definition's place:
they show that the properties can tell.

## 3. What is checked

Passing runs:

| Run | Properties | Instance |
|---|---|---|
| `rob` | `TypeOK`, `Contiguous`, `InProgramOrder`, `EveryoneRetires` | 3 slots, 2 instructions, 1 result, fair |
| `mempath` | `TypeOK`, `Accounted`, `IoAccounted`, `AckExpected`, `SerialMemorySpec`, `LoadsEnd`, `DrainsEnd` | 1 address, 2 values, 2 outstanding, fair |
| `lsq` | `TypeOK`, `SqAccounted`, `LoadsReadMemory`, `StoresInOrder` | 1 address, 2 outstanding, 4 stores, 1 load, 2 in flight, 2 values |
| `lsq_live` | `CommittedDrains` | 2 addresses, 1 outstanding, 3 stores, 1 load, 2 in flight, fair |
| `rename` | `RenameTypeOK`, `Conserved`, `DestinationHeld`, `BusyIsPending` | 4 slots, 2 architectural and 4 physical registers, V pipe at rest |
| `bench` | `BenchTypeOK`, `QueueMatchesBuffer`, `WaitsForAnOlder`, `DecodesTheProgram`, `SledRetires`, `MemoryIsFlat`, `DrivesRename`, `HandOver`, `FlushFetchesNothing`, `CountsEveryRetirement` | 9 programs over 14 cycles, blocks of 4 and pages of 8 bytes, 5 slots, 3 queue entries |
| `walk` | `WalkTypeOK`, `TranslatesByTables`, `ContextAgrees`, `TlbAgrees`, `OnlyMarks` | 2 TLB entries, 2 pages, one with odd indices, 2 directories with a table each |

Runs whose property fails, because the code does not do what a comment or an
assertion of the repository says:

| Run | Property | What the code does |
|---|---|---|
| `mempath_io_drain` | `IoSettles` | a flush during an uncached load leaves the MMIO path in IO_DRAIN for ever |
| `lsq_forward` | `ForwardsYoungestOlder` | forwarding takes values from younger stores |
| `rename_commit` | `CommitsItsRename` | retirement writes the committed map at bits of the physical register |
| `walk_cancel` | `FlushCancels` | the answer to a read of a cancelled walk is taken for that of the next walk |
| `walk_hang` | `WalksEnd` | the walker's one-cycle request is lost while the controller serves fetch |

`CommittedDrains` of `LoadStoreQueue` says "written or flushed", `TranslatesByTables` "until the
walker is misled": the passing properties state what remains true beside the findings.

**Bounds.** A reorder buffer of three slots already wraps in every combination
of two-wide dispatch and retirement; its theorems hold for every size. In the
memory path ids and FIFO slots are reused after two requests, so two outstanding
requests cover reuse, and two values tell an old answer from a new one. One
address suffices for that; that a word of another address is never taken is left to
the theorems, which hold for any number of addresses and requests. In the queue
loads and stores of one address race in `lsq`; in `lsq_live` there are two,
because a load whose address no committed store has is what competes with one for
memory. Renaming has two registers more than
the architectural ones, fewer than slots: dispatch stops for want of registers and
for want of slots, and every register is reused. The store queue needs
`PendDepth + 2` entries (`DrainAssumption`), the condition under which the drain
pointer never meets the head; the code's 8 and 4 satisfy it. Translation has fewer
TLB entries than a page may have copies of in time, so entries are replaced and
filled again; two directories map one page to
different frames, so that a stale entry is wrong; and the tables hold absent,
read-only, supervisor-only and not yet accessed entries. Run `walk` does not go on
from states in which the walker is misled (`UntilMisled`): its properties speak of
the steps up to there, the first misled state included, and `WalkTypeCorrect` proves
the types beyond. The testbench run has pages of two blocks, so that the program and the data
port's words cross pages; a sled of five blocks with the halt in the third;
patched programs in which increments wait for each other behind a halt until the
queue of three is full, a branch overtakes a halt, and branches lead out of the
sled, into memory that was never written and around the end of the address
space. Fourteen cycles bring the sled to its halt and instructions that were
fetched after a flush to their retirement.
The registers outnumber the slots, as in the code, so that the free list never
stops dispatch by itself. `CHECK_DEADLOCK FALSE` is said there only: `main`
returns. In `lsq` values are interchangeable (`Swap`). The `VIEW`s leave out registers whose
contents are dead in a state (for instance the payload of an invalid entry); no
action or property reads them there.

**Fairness.** The clock runs. `rob` adds that an instruction that waits for
its result is executed in the end (issue queue and units). `mempath` and
`walk_hang` add that the memory is not busy for ever and delivers: the DDRAM port
promises that much. `lsq_live` has in the place of the path that requests are taken
and answered, and that of the cycles in which the queue offers a store, if there are
infinitely many, one comes in which the path takes it (strong fairness of `StoreTaken`).
The shim has room for as many requests as the pending table
(`Len(fifo) < PendDepth`), so an offered request is refused only in a cycle in
which the uncached load's goes first. That is one cycle of a load's life, no other
load is about before its answer, and the store is offered again in the next cycle. Nothing is assumed of
flushes: they may come for ever or
never. `bench` needs no fairness: the program is over after `MaxCycles` edges, and
`SledRetires` speaks of its end.

## 4. What is proved

`ReorderBuffer_proofs`, for every `N >= 2` and any sets of instructions and
results:

* `TypeCorrect`: `Spec => []TypeOK`.
* `OccupancyCorrect`: `Spec => []Contiguous`.
* `ImplementsProgramOrder`: `Spec => InProgramOrder`, the refinement of
  `ProgramOrder`.

Neither of the first two is inductive alone. The count stays below `N` only
because `full` looks at it and dispatch obeys `full`, and it stays at least zero only because an
instruction retires from a slot that is valid, hence counted. The argument is
over `TypeOK /\ Contiguous`: the dispatch slots lie just beyond the window
(`Allocated` is disjoint from the valid slots), the retired ones are its first
(`retire_count <= count`), and `Plus` is addition modulo `N` on slots. The
assumptions used are `NAssumption` and `NoneAssumption`.

The refinement needs `Filled` in addition, that occupied slots hold instructions.
A clock period is an `Advance` by `retire_count`: what stays keeps its slot, and its
age falls by as many as retire (`AgeMoves`), so that it is the same element of the
new window further to the front. `KeptCell` is the step on one slot. A finished
instruction is frozen because a result is only given to an instruction without
one (`Bus0Input`, `Bus1Input`), or to the one that the V pipe dispatches in this
cycle, whose slot is beyond the window.

`RegisterRename_proofs`, for every `N >= 2`, every `P >= A >= 1` and both values
of `VPipe`:

* `RenameTypeCorrect`: `RenameSpec => []RenameTypeOK`.
* `Conservation`: `RenameSpec => []Conserved`.
* `DestinationsAreHeld`: `RenameSpec => []DestinationHeld`.
* `RenameKeepsOrder`: `RenameSpec => InProgramOrder`, micro-ops included.
* `BusyArePending`: `~VPipe => (RenameSpec => []BusyIsPending)`. With the V pipe
  enabled it is false: its result comes in the cycle in which its busy bit is
  set, and the set wins (`core/f386_rename_busytable.sv:67`).

The invariant of all but the last is `RInv`, for `DestinationsAreHeld` with an
addition below. Besides the occupancy invariant of the
buffer it holds that occupied slots contain instructions (`Loaded`) and that
entry `i` of the committed map only holds registers whose low bits are `i`
(`Residues`). The second is what a flush needs: it takes the committed map for
the speculative one, and `Conserved` asks that this be injective. So
conservation survives the wrong index of the committed map that
`rename_commit` shows; which value a register holds does not. The step lemmas go
from `SlotStep` (what an edge does to a slot, by the ages of
`ReorderBuffer_proofs`) to `WriterStep` (the instructions with a destination that
stay, leave and come), then to `OwedStep` and `MappedStep`, from which
`EdgeConserved` follows as set arithmetic.

`DestinationHeld` needs `Chained` in addition: an instruction that will give back
the register another one writes is younger than it. It cannot retire first, so
the register is not free before its writer is gone. The assumptions used are
`NAssumption`, `NoneAssumption`, `RegistersAssumption` and `InstrAssumption`.

`OooCore_proofs`, for every size of reorder buffer, register file and issue
queue (at least two entries) and whatever instructions are fetched (`CoreSpec`):

* `QueueIsRight`: `CoreSpec => []QueueMatchesBuffer`.
* `SourcesAreOlder`: `CoreSpec => []WaitsForAnOlder`.
* `CoreImplementsRename`: `CoreSpec => DrivesRename`, the refinement of
  `RenameSpec`; so `CoreConserves`: `CoreSpec => [](Conserved /\ DestinationHeld)`,
  and `CoreKeepsOrder`: `CoreSpec => InProgramOrder`.
* `RetiresByOnePort`: `CoreSpec => []~can_retire_v`.

The invariant of all but the last is `QInv`. The point is `Unblocked`: while no system call is in the
queue, it holds one entry at most, and that entry waits for nobody. For an entry
that waits, waits for an older instruction without result (`WaitsByAge`, from
`BusyIsPending` when it is dispatched), and that one would have an entry too
(`NothingDropped`), so there would be two. The entry is hence issued and
completes in the cycle in which the next one comes, whose source is looked up
past that very result. So the queue never fills, though nothing holds dispatch
when it is full; and with a queue of one entry the next one would already be
dropped, which is why `QueueAssumption` asks for two. `OrderStep` carries ages over
retirement, `WaitingStep` and `QueueStep` are the two halves of an edge.

For the last theorem `RetireInv` adds two parts. `OldestIsCall`: while issue is blocked,
the oldest instruction of the queue is a system call. `DoneAtHead`: an instruction that
has its result is the head of the buffer, unless a system call of the queue is older.
While nothing blocks, one instruction at most waits for its result, so it is at
the head by the time it has it; a call, once the oldest, stays at the head without
a result, and nothing behind it retires. The
assumptions used are those of `RegisterRename_proofs`, `QueueAssumption` and
`EntryAssumption`.

`MemoryModel_proofs`, for every page size, number of pages and set of stored
values:

* `MemTypeCorrect`: `MemSpec => []MemTypeOK`.
* `ImplementsFlat`: `MemSpec => MemoryIsFlat`. `AddressParts` takes an address apart
  and `ReadAfterStore` is the step: after a store each address reads as the byte
  of the store that lies there, or as before.

`CoreBench_proofs`, for every size of core, page and block, every set of
programs, and any number of cycles:

* `BenchMemoryIsFlat`: `BenchSpec => MemoryIsFlat`. Each step is an operation of the
  memory model or leaves it alone.
* `FlushStopsFetch`: `BenchSpec => FlushFetchesNothing`.
* `BenchTypeCorrect`: `BenchSpec /\ []KnownFetch => []BenchTypeOK`.
* `BenchCoreIsRight`: `BenchSpec /\ []KnownFetch =>` all that `OooCore_proofs` says of
  queue, sources, renaming and order.
* `CountIsRight`: `BenchSpec /\ []KnownFetch => CountsEveryRetirement`. From
  `RetiresByOnePort`, since the testbench looks at the U port only.
* `NothingLostInDecode`: `P > A => (BenchSpec /\ []KnownFetch => HandOver)`.
* `DecodedAsStored`: `BenchSpec /\ []KnownFetch /\ [][StoreElsewhere]_bench_vars =>
  []DecodesTheProgram`.
* `SledIsKnown`: `SledFits => (BenchSpec => [](~patched => KnownFetch))`.
* `SledRunsToHalt`: `SledFits => (BenchSpec => []SledRetires)`.
* `SledKeepsPace`: under `SledFits`, what has retired after any number of cycles.
* `SledIsRight`: under `SledFits`, with no patch and no store of the data port, all of
  the above hold with no condition on what is fetched.

The first two conditions are about programs, not about the design. `KnownFetch` says that each
block that is fetched starts with an instruction that the model decodes: `Opcode` is
left undefined elsewhere, and TLC stops where a run evaluates it there, so that
the run `bench` shows the condition for its programs. `StoreElsewhere` says that no
store of the data port changes a block that is in the decoder, in the queue or being
fetched. In the build of this testbench the port is tied to zero and asks for
nothing; in other builds a store would not reach what has already been fetched. The
instance has stores and loads beside the program.
`P > A` (the code has 64 and 8) is needed because with no register to spare the
rename stage accepts nothing after a flush, while the decoder drops its output.

`SledFits` (in `CoreBench`) says what the constructor's numbers have in common: the sled is of
NOPs and its halt the first byte of a block, not the first block; memory beyond
it reads as FF; a run ends below the end of the address space; the reorder buffer has at
least four entries and there is a register to spare; `MaxCycles` suffices to get
to the halt; and the data port writes nowhere near the program. The testbench has 256
NOPs at FFF0 with the halt at offset 128, blocks of 16, 10000 cycles and a port that
is tied to zero; the instance has numbers of its own, and `SledAssumption` in
`MCCoreBench` has TLC check them. `SledRun` is the invariant of that run. Until the
halt is in the queue (`Before`) the pipeline runs in lockstep with the clock: the
cycle says which block is at the pins, in each decoder stage and at the head, two
instructions are in the reorder buffer and the older is done. From then on
(`Behind`) the halt, for which nothing reports a result, is the oldest instruction
or the next; it stays, so that the count of retirements does, while fetch
goes on past the sled until the buffer is full, and no further than `Reach`. Either
way the block that is fetched is one that `Opcode` knows, so that the theorems
above apply to the step that `SledRun` is preserved by.

`BenchInv` is `RetireInv` with the types of memory and of the fetch pins. For
`HandOver`, `HandInv` says when the first stage is empty though the pipe runs: behind
a flush, and that leaves the reorder buffer empty and registers free, so
that the output is taken. A bubble that met a full reorder buffer would clear the
decoder's output; a fetch that misses would be one, and this memory never misses.
`ProgramInv` adds to `DecodesTheProgram` that the block at the pins is that of the
program counter. Assumptions: those of `OooCore_proofs` and `MemoryModel`,
`BenchAssumption` and `BlockAssumption`.

`WalkPath_proofs`, for every size of the TLB, every set of pages, frames and
directories, any contents of the tables, any traffic of the other ports, any delays, and flushes
and writes of control registers in any cycle:

* `TlbNeverDoublesAPage`: `TlbSpec => []UniqueMatch`. `TlbSpec` is the TLB with all
  inputs free, as in `bench/formal/f386_tlb_props.sv`, whose assertion this is.
* `UniqueMatchInCore`: `Spec => []UniqueMatch`.
* `ContextCorrect`: `Spec => []ContextAgrees`.
* `VictimStaysCold`: `Spec => []VictimIsCold`. No run checks it: with the two entries
  of the instance the tree is one bit.
* `WalkTypeCorrect`: `Spec => []WalkTypeOK`.
* `TlbIsCoherent`: `Spec => []TlbAgrees`.
* `WalkerOnlyMarks`: `Spec => OnlyMarks`.
* `TranslationCorrect`: `Spec => []TranslatesByTables`.

`UniqueMatch` is inductive because a fill looks for the entry of its page before
it takes a victim. No run checks it: in the core a page is filled only after a
lookup has missed it, so that it cannot break there even without that look.
`ContextAgrees` is inductive because frontend and context accept in the same
cycle, only when the frontend is idle, and both drop on a flush.

`VictimIsCold` compares two walks of the replacement tree in opposite directions: the update goes
from a leaf to the root and turns each node away from it, the search goes from
the root down. If the search ended at that leaf, each node on its way would be
one that the update has passed, so the root would point to where it has just been
turned away from. The levels are compared by well-founded induction over the
finite recursion that both are written as.

The last four rest on two invariants. `TypeInv` holds whatever the walker was told: it
adds to the types that an address the walker has sent is one of a frame and an index,
for which it does not matter what word it took for an entry. `PathInv` is `TypeInv` and, as long as `misled`
is false, `WalkInv`: each place an entry passes through holds the right one
(`SoundTables`, `SoundTlb`, `SoundRequest`, `SoundAnswer`, `SoundWalker`,
`SoundPort`, `SoundBus`). At most one request of the walker is anywhere: at the
controller's input, in it, with the memory, answered or lost, and it is either the one the
walker waits for or, with `orphan`, one that a flush cancelled. An
acknowledge that a waiting walker sees without `orphan` is hence that of its own request, and the word it
takes is the one memory has now; with `orphan` the step sets `misled` and there is nothing to show.
An orphaned write is still the entry memory has, marked. Nothing but the walker
writes to the tables, and marks change no translation, neither
of the walk under way nor of entries filled before, so that what the walker has
found still holds when it is filled. So a misled walker is the only way to a wrong
translation. The assumptions used are those that
`MemTypes`, `PageTypes`, `Tlb` and `WalkPath` declare; of the tables `MappedAssumption`
asks only that no directory or table lies where data are written.

`MemPath_proofs`, for every depth of the pending table, any set of request
identifiers, addresses and words, and memory that answers after any delay:

* `PathTypeCorrect`: `Spec => []TypeOK`.
* `RequestsAccounted` and `IoRequestsAccounted`: `Spec => []Accounted` and
  `Spec => []IoAccounted`.
* `AcksMeetRequests`: `Spec => []AckExpected`.
* `PathIsSerialMemory`: `Spec => SerialMemorySpec`, the refinement.

The invariant is `PathInv`. It follows one request at a time through the
registers it can be in: the pointers of the pending table are its count apart, every entry of the pending table is either still offered by
the queue, or in the shim, or on its way back, and in only one of these
(`Accounted`); whoever holds the shim's only slot has the controller for itself,
so that an acknowledge is that of the request the shim remembers. For the
refinement it also holds that the word the controller writes or has read is the
one of that request. Assumptions: `DepthAssumption`, `AddrAssumption`,
`ValAssumption`, `MemNoneAssumption`, `ChannelAssumption`, `PortAssumption`.

`LoadStoreQueue_proofs`, for every size of the queues and of the pending table
(`DrainAssumption` says how they are related), and any interleaving of loads,
stores, commits, results and flushes:

* `QueueTypeCorrect`: `Spec => []TypeOK`.
* `StoresAccounted`: `Spec => []SqAccounted`.
* `StoresReachMemoryInOrder`: `Spec => StoresInOrder`, the refinement of
  `TotalStoreOrder`.
* `LoadsGetTheirAnswer`: `Spec => LoadsReadMemory`.

For the first two the invariant is `QueueInv`. The pending table is a ring that holds
the requests of the channel in the order they were sent (`PendingInOrder`), and
the stores among them are those between the queue's head and the drain pointer.
So the pointer is never a whole turn ahead: as many stores as the pending table
has entries leave at least two slots, which is what `SqN >= PendDepth + 2`,
`DrainAssumption`, gives (the code has 8 and 4). With a smaller queue the pointer would meet the head and the count
of occupied entries would no longer say which are drained.

For the refinement `OrderInv` adds four parts. `Tagged`: the requests under way
have tags of their own, so that a response completes its own request and no other.
`OneLoad`: there is one load among them at most. `StoresHeld`: each store under way has
an entry, ready and, until its answer comes, not completed. `ChannelInOrder`: the
stores in the channel are the oldest ones of the queue, in its order. With these a
cycle in which memory serves a store is a `Write` of the abstract queue's oldest
store and any other one an `Advance`; a flush is a `Squash`, of stores that have
not been sent.

For the loads `LoadAsked` says that from the request until the answer is in its
register, and the load state machine has seen it, there is one load in the
channel at most: the one that waits, with its address. The pending table keeps the
load's index (`lq_idx`), but nothing reads it, so that an answer that came a cycle later, or
was asked for twice, would complete the next load. That a load gets the value of the
right store when one is in the queue is refuted, not proved (`lsq_forward`).
Assumptions: `DepthAssumption`, `QueueAssumption`,
`DrainAssumption`, `ChannelAssumption`, `MemNoneAssumption`, `IdleAssumption`.

Only model-checked: liveness (`EveryoneRetires`, `LoadsEnd`, `DrainsEnd`,
`CommittedDrains`), which is beyond the prover. Every other property of a passing
run is the subject of a theorem. What the runs that expect a violation refute is not proved, of
course.

## 5. Not modelled, and the plan

`PROJECT.json` lists every component and, under `hazards`, what is hard to test
and which property covers it. Planned, in this order:

1. `ExceptionDelivery` over `ReorderBuffer`: exception unit, drain state machine and
   sequencer. Read so far: the engine enters `UC_ACTIVE` for an exception without
   starting the sequencer (`core/f386_ooo_core_top.sv:3019`, whose start at 2492
   asks for `UC_DRAINING`), so a handler never runs; and a microcoded instruction
   that is issued while a delivery is pending displaces it or is dropped by it
   (2465).
2. The rest of execution: multiplier, divider, and the V pipe as synthesis has it.
3. `L2CacheSp`: coherence with memory, every miss answered; then the blocking L2
   and the DDRAM bridges.
4. Speculation tags and the fetch target queue; microcode sequencer and drain,
   with which a system call completes.
5. Interrupt controller, timer, keyboard controller, I/O bus, ETX memory hub.

Theorems worth proving next: the invariants of the components above as they are
modelled.

Left out for good: data paths (ALU, FPU, video timing), generated microcode ROM
contents, vendored framework code, observers that change no architectural state.
