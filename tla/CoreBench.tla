------------------------------ MODULE CoreBench -----------------------------
(***************************************************************************)
(* The integration testbench of the core                                   *)
(* (bench/verilator/tb_ooo_core.cpp): it stores a program, holds the core  *)
(* in reset, clocks it for a number of cycles while it serves its fetches  *)
(* and data requests between the edges, and reports how many instructions  *)
(* retired.                                                                *)
(*                                                                         *)
(* The constructor's program is a sled of NOPs with a halt in it.  Patches *)
(* lets the other operations of the memory model change it, as the         *)
(* testbenches beside this one do with theirs.  The data port of the core  *)
(* is tied off in this build; DataRequest is what it may ask in others.    *)
(***************************************************************************)
EXTENDS OooCore, MemoryModel

CONSTANTS
  MaxCycles,    \* MAX_CYCLES
  Sled,         \* what fill stores at the reset vector: 256 NOPs
  HaltAt,       \* offset of the halt in it: 128
  Patches,      \* changes of the program
  DataRequest   \* records [wr, addr, wdata]: values of the data port

ASSUME BenchAssumption ==
  /\ PcSpace = Space /\ ResetVector \in Addr /\ ResetVector + HaltAt \in Addr
  /\ Sled \in Image /\ [i \in {0} |-> HLT] \in Image
  /\ \A p \in Patches :
       /\ p.op \in {"write8", "write16", "write32", "load"}
       /\ p.addr \in Addr /\ p.bytes \in Image \cup {Nothing}
  /\ \A r \in DataRequest : r.addr \in Addr /\ r.wdata \in Image
  /\ MaxCycles \in Nat

\* A block, as fetch_data holds it.
Block == [0..(FetchBytes - 1) -> Byte]

ASSUME BlockAssumption ==
  /\ FetchBytes \in Nat /\ FetchBytes >= 2 /\ Linear \in Int
  /\ Byte \subseteq Int /\ None \notin Block

VARIABLES
  phase,          \* what main does next
  patched,        \* the program is not the constructor's any more
  fetch_data,     \* the fetch block, None while fetch_data_valid is 0
  mem_rdata,
  mem_ack,
  cycle,
  retired_count,
  reported        \* the numbers that report prints, or None

pins == <<fetch_data, mem_rdata, mem_ack>>
counters == <<cycle, retired_count>>
bench_vars == <<core_vars, mem_vars, phase, patched, pins, counters, reported>>

BenchTypeOK ==
  /\ CoreTypeOK /\ MemTypeOK
  /\ phase \in {"construct", "halt", "patch", "reset", "run", "done"}
  /\ patched \in BOOLEAN
  /\ fetch_data \in Block \cup {None}
  /\ mem_rdata \in [0..3 -> Byte] \cup {None} /\ mem_ack \in BOOLEAN
  /\ cycle \in 0..MaxCycles /\ retired_count \in 0..cycle
  /\ reported = None \/ reported.pages \in 1..Pages

BenchInit ==
  /\ CoreInit /\ MemInit
  /\ phase = "construct" /\ patched = FALSE
  /\ fetch_data = None /\ mem_rdata = None /\ mem_ack = FALSE
  /\ cycle = 0 /\ retired_count = 0
  /\ reported = None

-----------------------------------------------------------------------------
(***************************************************************************)
(* Construction and reset                                                  *)
(***************************************************************************)
Construct ==
  /\ phase = "construct" /\ phase' = "halt"
  /\ fill(ResetVector, Sled)
  /\ UNCHANGED <<core_vars, patched, pins, counters, reported>>

PlaceHalt ==
  /\ phase = "halt" /\ phase' = "patch"
  /\ write8(ResetVector + HaltAt, [i \in {0} |-> HLT])
  /\ UNCHANGED <<core_vars, patched, pins, counters, reported>>

Patch ==
  /\ phase = "patch" /\ ~patched /\ patched' = TRUE
  /\ \E p \in Patches :
       CASE p.op = "write8" -> write8(p.addr, p.bytes)
         [] p.op = "write16" -> write16(p.addr, p.bytes)
         [] p.op = "write32" -> write32(p.addr, p.bytes)
         [] p.op = "load" -> load_binary(p.bytes, p.addr)
  /\ UNCHANGED <<core_vars, phase, pins, counters, reported>>

\* The inputs are cleared and the core's registers hold their reset values.
Reset ==
  /\ phase = "patch" /\ phase' = "run"
  /\ fetch_data' = None /\ mem_rdata' = None /\ mem_ack' = FALSE
  /\ UNCHANGED <<core_vars, mem_vars, patched, counters, reported>>

-----------------------------------------------------------------------------
(***************************************************************************)
(* A clock cycle.  The edge comes first, with the inputs of the cycle      *)
(* before; then fetch, data and the retirement trace are looked at, as     *)
(* they stand after it.                                                    *)
(***************************************************************************)
fetch_req == ~flush

\* Slip: an instruction is counted while it waits.
trace_valid_waiting == entry_valid[head]

trace_valid == can_retire_u

\* Slip: a request that is gone leaves the last answer valid.
service_fetch_sticky ==
  fetch_data' = IF fetch_req' THEN read128(pc_current', FetchBytes) ELSE fetch_data

\* Slip: the fetch is served before the edge, with the address it had.
service_fetch_early ==
  fetch_data' = IF fetch_req THEN read128(pc_current, FetchBytes) ELSE None

service_fetch ==
  fetch_data' = IF fetch_req' THEN read128(pc_current', FetchBytes) ELSE None

\* req is what the data port asks, None when nothing.
service_data_mem(req) ==
  /\ mem_ack' = (req # None)
  /\ IF req # None /\ req.wr THEN write32(req.addr, req.wdata) ELSE UNCHANGED mem_vars
  /\ mem_rdata' = IF req # None /\ ~req.wr THEN read32(req.addr) ELSE mem_rdata

\* run clocks the core so many times, whatever it does.
running == phase = "run" /\ cycle < MaxCycles

\* What the decoder sees in the block that waits at its input.
fetched == IF fetch_data = None THEN None ELSE Opcode(pc_current, fetch_data)

tick ==
  /\ running
  /\ CoreEdge(fetched)
  /\ service_fetch
  /\ \E req \in DataRequest \cup {None} : service_data_mem(req)
  /\ retired_count' = IF trace_valid' THEN retired_count + 1 ELSE retired_count
  /\ cycle' = cycle + 1
  /\ UNCHANGED <<phase, patched, reported>>

\* run is over: main prints its report, and PASS whatever it says.
report ==
  /\ phase = "run" /\ cycle = MaxCycles /\ phase' = "done"
  /\ reported' = [cycles |-> cycle, retired |-> retired_count,
                  pages |-> pages_allocated, bytes |-> bytes_allocated,
                  warning |-> retired_count = 0]
  /\ UNCHANGED <<core_vars, mem_vars, patched, pins, counters>>

BenchNext == Construct \/ PlaceHalt \/ Patch \/ Reset \/ tick \/ report

BenchSpec == BenchInit /\ [][BenchNext]_bench_vars

-----------------------------------------------------------------------------
(***************************************************************************)
(* Properties                                                              *)
(***************************************************************************)

\* The instruction that the memory holds at a.
At(a) == Opcode(a, read128(a, FetchBytes))

\* The program does not lead to an instruction that Opcode leaves out.
KnownFetch ==
  fetch_data # None => \/ fetch_data[0] \in {NOP, INC_EAX, JE, HLT}
                       \/ fetch_data[0] = GRP5 /\ fetch_data[1] = GRP5

\* Addresses of the instructions in decoder and issue queue.
InFlight == {i.pc : i \in {s1, instr_u} \ {None}} \cup {queue[q].i.pc : q \in Held}

\* The program does not store to an instruction that has been fetched.
StoreElsewhere ==
  tick => \A a \in InFlight' \cup {pc_current'} :
            read128(a, FetchBytes)' = read128(a, FetchBytes)

\* What the decoder and the issue queue hold is what the memory has at its
\* address: block and program counter stay paired over stalls, predicted and
\* flushed fetches.
DecodesTheProgram ==
  /\ \A i \in {s1, instr_u} \ {None} : i = At(i.pc)
  /\ \A q \in IqSlot : queue[q] # None => queue[q].i = At(queue[q].i.pc)

\* The cycle of a flush fetches nothing: what the decoder holds after it, of
\* the path that was left, it held before.  It is not flushed itself.
FlushFetchesNothing ==
  [][flush => {s1', instr_u'} \subseteq {s1, instr_u, None}]_core_vars

\* The count is that of the instructions the buffer hands out, although the
\* trace shows one port of two: nothing retires by the other.
CountsEveryRetirement ==
  [][tick => retired_count' = retired_count + retire_count']_bench_vars

\* Blocks of the sled before the halt.
SledBlocks == HaltAt \div FetchBytes

\* How far from the reset vector a run fetches: the halt stays in the reorder
\* buffer, which fills behind it.
Reach == FetchBytes * (SledBlocks + N + 2)

\* What the constructor's numbers have in common: a sled of NOPs with the halt
\* at the start of a block, not the first; memory that reads as FF beyond it; a
\* reorder buffer and registers that let an instruction through in each cycle;
\* time to get to the halt; and a data port that leaves the program alone.
SledFits ==
  /\ \A i \in DOMAIN Sled : Sled[i] = NOP
  /\ HaltAt \in DOMAIN Sled /\ HaltAt = FetchBytes * SledBlocks /\ SledBlocks \in Nat \ {0}
  /\ ResetVector + Reach <= Space /\ Unmapped = GRP5
  /\ N >= 4 /\ P > A
  /\ MaxCycles >= SledBlocks + 4
  /\ \A r \in DataRequest : r.wr =>
       \A a \in ResetVector..(ResetVector + Reach - 1) :
         (a - r.addr) % Space \notin DOMAIN r.wdata

\* The program as constructed: one instruction of each block retires, those
\* behind the halt do not, the halt does not, and main does not warn.
SledRetires ==
  phase = "done" /\ ~patched => reported.retired = SledBlocks /\ ~reported.warning
=============================================================================
