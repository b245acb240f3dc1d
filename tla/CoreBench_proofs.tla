-------------------------- MODULE CoreBench_proofs --------------------------
(***************************************************************************)
(* What holds under the testbench, for every program, every size of the    *)
(* core and of a page, and any number of cycles: the memory is flat, since *)
(* only the operations of the memory model touch it; the core is driven as *)
(* its own theorems assume, if the program consists of instructions that   *)
(* Opcode knows (KnownFetch); the types; what is fetched after a flush,    *)
(* lost between fetch and dispatch, or counted; and that what has been     *)
(* decoded is what memory holds.  The program as constructed consists of   *)
(* such instructions (SledIsKnown), so that all of this holds of the       *)
(* testbench as it is built, which runs to its halt (SledRunsToHalt).      *)
(***************************************************************************)
EXTENDS CoreBench, MemoryModel_proofs, OooCore_proofs, FiniteSetTheorems

\* The memory side of a step of the testbench.
LEMMA BenchMemoryStep ==
  ASSUME BenchNext
  PROVE  [MemNext]_mem_vars
<1>1. \A w \in Image : w # Nothing
  BY NoPageAssumption
<1>2. CASE Construct
  <2>1. fill(ResetVector, Sled) /\ ResetVector \in Addr /\ Sled \in Image
    BY <1>2, BenchAssumption DEF Construct
  <2> QED BY <2>1, <1>1 DEF MemNext
<1>3. CASE PlaceHalt
  <2>1. /\ write8(ResetVector + HaltAt, [i \in {0} |-> HLT])
        /\ ResetVector + HaltAt \in Addr /\ [i \in {0} |-> HLT] \in Image
    BY <1>3, BenchAssumption DEF PlaceHalt
  <2> QED BY <2>1 DEF MemNext
<1>4. CASE Patch
  <2>1. PICK p \in Patches : \/ p.op = "write8" /\ write8(p.addr, p.bytes)
                             \/ p.op = "write16" /\ write16(p.addr, p.bytes)
                             \/ p.op = "write32" /\ write32(p.addr, p.bytes)
                             \/ p.op = "load" /\ load_binary(p.bytes, p.addr)
    BY <1>4, BenchAssumption DEF Patch
  <2>2. p.addr \in Addr /\ p.bytes \in Image \cup {Nothing}
    BY BenchAssumption
  <2> QED BY <2>1, <2>2 DEF MemNext
<1>5. CASE tick
  <2>1. PICK req \in DataRequest \cup {None} : service_data_mem(req)
    BY <1>5 DEF tick
  <2>2. CASE req # None /\ req.wr
    <3>1. req.addr \in Addr /\ req.wdata \in Image /\ write32(req.addr, req.wdata)
      BY <2>1, <2>2, BenchAssumption DEF service_data_mem
    <3> QED BY <3>1 DEF MemNext
  <2>3. CASE ~(req # None /\ req.wr)
    BY <2>1, <2>3 DEF service_data_mem
  <2> QED BY <2>2, <2>3
<1>6. CASE Reset \/ report
  BY <1>6 DEF Reset, report
<1> QED BY <1>2, <1>3, <1>4, <1>5, <1>6 DEF BenchNext

\* Construction, patches and the service of the data port are stores of the
\* memory model, whatever the core asks for.
LEMMA BenchDrivesMemory == BenchSpec => MemSpec
<1>1. BenchInit => MemInit
  BY DEF BenchInit
<1>2. [BenchNext]_bench_vars => [MemNext]_mem_vars
  BY BenchMemoryStep DEF bench_vars
<1> QED BY <1>1, <1>2, PTL DEF BenchSpec, MemSpec

\* So the program that the core fetches lies in a flat memory (MemoryIsFlat):
\* what was stored last at each address, across pages and the wrapping end.
THEOREM BenchMemoryIsFlat == BenchSpec => MemoryIsFlat
BY BenchDrivesMemory, ImplementsFlat, PTL

-----------------------------------------------------------------------------
(***************************************************************************)
(* The memory, as the testbench reads it                                   *)
(***************************************************************************)
LEMMA ReadBytes ==
  ASSUME MemTypeOK, NEW a \in Addr, NEW n \in Nat
  PROVE  Word(a, n) \in [0..(n - 1) -> Byte]
<1>1. Space \in Nat /\ Space > 0
  BY PagesAssumption DEF Space
<1>2. ASSUME NEW b \in Addr PROVE read8(b) \in Byte
  BY AddressParts, ByteAssumption DEF read8, get_page, MemTypeOK
<1>3. \A i \in 0..(n - 1) : (a + i) % Space \in Addr
  BY <1>1 DEF Addr
<1> QED BY <1>2, <1>3 DEF Word

\* A page that is there stays.
LEMMA PagesStay ==
  ASSUME MemTypeOK, [MemNext]_mem_vars, NEW p \in PageNum, pages[p] # Nothing
  PROVE  pages'[p] # Nothing
<1>1. CASE UNCHANGED mem_vars
  BY <1>1 DEF mem_vars
<1>2. ASSUME NEW a \in Addr, NEW w \in Image, Store(a, w) PROVE pages'[p] # Nothing
  <2>1. pages' = Stored(a, w)
    BY <1>2 DEF Store
  <2>2. CASE \A o \in Offset : Index(a, p, o) \notin DOMAIN w
    BY <2>1, <2>2 DEF Stored
  <2>3. CASE ~\A o \in Offset : Index(a, p, o) \notin DOMAIN w
    <3>1. pages'[p] = [o \in Offset |-> IF Index(a, p, o) \in DOMAIN w THEN w[Index(a, p, o)]
                                        ELSE get_or_alloc_page(p)[o]]
      BY <2>1, <2>3 DEF Stored
    <3>2. get_or_alloc_page(p) \in [Offset -> Byte]
      BY DEF MemTypeOK, get_or_alloc_page
    <3>3. \A o \in Offset : (IF Index(a, p, o) \in DOMAIN w THEN w[Index(a, p, o)]
                             ELSE get_or_alloc_page(p)[o]) \in Byte
      BY <3>2, ImageBytes
    <3>4. pages'[p] \in [Offset -> Byte]
      BY <3>1, <3>3
    <3> QED BY <3>4, NoPageAssumption
  <2> QED BY <2>2, <2>3
<1> QED BY <1>1, <1>2, Operations

\* A store of a byte or more leaves a page.
LEMMA StoreAllocates ==
  ASSUME MemTypeOK, NEW a \in Addr, NEW w \in Image, Store(a, w), 0 \in DOMAIN w
  PROVE  \E p \in PageNum : pages'[p] # Nothing
<1> DEFINE p == page_of(a)
           o == offset_of(a)
<1>1. p \in PageNum /\ o \in Offset /\ p * PageSize + o = a
  BY AddressParts
<1> HIDE DEF p, o
<1>2. Space \in Nat /\ Space > 0 /\ a \in Int
  BY PagesAssumption DEF Space, Addr
<1>3. Index(a, p, o) = 0
  <2>1. Index(a, p, o) = (a - a) % Space
    BY <1>1 DEF Index
  <2>2. (a - a) % Space = 0
    BY ONLY <1>2
  <2> QED BY <2>1, <2>2
<1>4. pages'[p] = [x \in Offset |-> IF Index(a, p, x) \in DOMAIN w THEN w[Index(a, p, x)]
                                    ELSE get_or_alloc_page(p)[x]]
  BY <1>1, <1>3 DEF Store, Stored
<1>5. get_or_alloc_page(p) \in [Offset -> Byte]
  BY <1>1, ByteAssumption DEF MemTypeOK, get_or_alloc_page
<1>6. \A x \in Offset : (IF Index(a, p, x) \in DOMAIN w THEN w[Index(a, p, x)]
                         ELSE get_or_alloc_page(p)[x]) \in Byte
  BY <1>5, ImageBytes
<1>7. pages'[p] \in [Offset -> Byte]
  BY <1>4, <1>6
<1> QED BY <1>1, <1>7, NoPageAssumption

\* The statistics count pages of the address space.
LEMMA PagesCounted ==
  /\ pages_allocated \in 0..Pages
  /\ (\E p \in PageNum : pages[p] # Nothing) => pages_allocated \in 1..Pages
<1> DEFINE S == {p \in PageNum : pages[p] # Nothing}
<1>1. IsFiniteSet(PageNum) /\ Cardinality(PageNum) = Pages
  <2>1. Pages \in Nat /\ Pages - 1 \in Int /\ 0 \in Int /\ ~(0 > Pages - 1)
        /\ (Pages - 1) - 0 + 1 = Pages
    BY PagesAssumption
  <2> QED BY <2>1, FS_Interval DEF PageNum
<1>2. S \subseteq PageNum
  OBVIOUS
<1>3. IsFiniteSet(S) /\ Cardinality(S) <= Cardinality(PageNum)
  BY <1>1, <1>2, FS_Subset
<1>4. Cardinality(S) \in Nat /\ (Cardinality(S) = 0 <=> S = {})
  BY <1>3, FS_CardinalityType, FS_EmptySet
<1>5. (\E p \in PageNum : pages[p] # Nothing) => S # {}
  OBVIOUS
<1>6. pages_allocated = Cardinality(S)
  BY DEF pages_allocated
<1> HIDE DEF S
<1> QED BY <1>1, <1>3, <1>4, <1>5, <1>6, PagesAssumption

-----------------------------------------------------------------------------
(***************************************************************************)
(* The core under the testbench                                            *)
(***************************************************************************)
FetchInv ==
  /\ pc_current \in Addr
  /\ fetch_data \in Block \cup {None}
  /\ flush => fetch_data = None

BenchInv == RetireInv /\ MemTypeOK /\ FetchInv

\* A known block is decoded to the instruction at its address.
LEMMA FetchedIs ==
  ASSUME FetchInv, KnownFetch, fetch_data # None
  PROVE  fetched \in Decoded /\ fetched # None /\ fetched.pc = pc_current
<1>1. PcSpace \in Nat /\ PcSpace > 0 /\ pc_current \in 0..(PcSpace - 1) /\ pc_current \in Int
  BY PagesAssumption, BenchAssumption DEF FetchInv, Addr, Space
<1>2. fetch_data \in Block /\ fetch_data[1] \in Int
  <2>1. fetch_data \in Block
    BY DEF FetchInv
  <2>2. 1 \in 0..(FetchBytes - 1)
    BY BlockAssumption
  <2>3. fetch_data[1] \in Byte
    BY <2>1, <2>2 DEF Block
  <2> QED BY <2>1, <2>3, BlockAssumption
<1>3. ASSUME NEW c \in {"ALU_REG", "BRANCH", "SYS_CALL"}, NEW d \in Arch \cup {NoDest},
             NEW len \in Int, NEW disp \in Int
      PROVE  /\ Instruction(c, d, pc_current, len, disp) \in Decoded
             /\ Instruction(c, d, pc_current, len, disp).pc = pc_current
  <2>1. \A x \in Int : Wrap(x) \in 0..(PcSpace - 1)
    BY <1>1 DEF Wrap
  <2>2. Wrap(pc_current + len) \in 0..(PcSpace - 1)
    BY <1>1, <2>1
  <2>3. Wrap(pc_current + len + disp) \in 0..(PcSpace - 1)
    BY <1>1, <2>1
  <2> QED BY <1>1, <2>2, <2>3 DEF Instruction, Decoded
<1>4. 0 \in Arch \cup {NoDest} /\ SignExtend(fetch_data[1]) \in Int
  BY <1>2, RegistersAssumption DEF Arch, SignExtend
<1>5. fetched = Opcode(pc_current, fetch_data)
  BY DEF fetched
<1>6. CASE fetch_data[0] = NOP
  <2>1. fetched = Instruction("ALU_REG", NoDest, pc_current, 1, 0)
    BY <1>5, <1>6 DEF Opcode, NOP, INC_EAX, JE, HLT, GRP5
  <2> QED BY <2>1, <1>3, EntryAssumption
<1>7. CASE fetch_data[0] = INC_EAX
  <2>1. fetched = Instruction("ALU_REG", 0, pc_current, 1, 0)
    BY <1>5, <1>7 DEF Opcode, NOP, INC_EAX, JE, HLT, GRP5
  <2>2. fetched \in Decoded /\ fetched.pc = pc_current
    BY <2>1, <1>3, <1>4
  <2> QED BY <2>2, EntryAssumption
<1>8. CASE fetch_data[0] = JE
  <2>1. fetched = Instruction("BRANCH", NoDest, pc_current, 2, SignExtend(fetch_data[1]))
    BY <1>5, <1>8 DEF Opcode, NOP, INC_EAX, JE, HLT, GRP5
  <2> QED BY <2>1, <1>3, <1>4, EntryAssumption
<1>9. CASE fetch_data[0] = HLT
  <2>1. fetched = Instruction("SYS_CALL", NoDest, pc_current, 1, 0)
    BY <1>5, <1>9 DEF Opcode, NOP, INC_EAX, JE, HLT, GRP5
  <2> QED BY <2>1, <1>3, EntryAssumption
<1>10. CASE fetch_data[0] = GRP5 /\ fetch_data[1] = GRP5
  <2>1. fetched = Instruction("ALU_REG", NoDest, pc_current, 2, 0)
    BY <1>5, <1>10 DEF Opcode, NOP, INC_EAX, JE, HLT, GRP5
  <2> QED BY <2>1, <1>3, EntryAssumption
<1> QED BY <1>6, <1>7, <1>8, <1>9, <1>10 DEF KnownFetch

\* Every edge is one of the core; the rest of the testbench leaves it alone.
LEMMA BenchCoreStep ==
  ASSUME FetchInv, KnownFetch, [BenchNext]_bench_vars
  PROVE  [CoreNext]_core_vars
<1>1. CASE tick
  <2>1. CoreEdge(fetched)
    BY <1>1 DEF tick
  <2>2. fetched \in Decoded \cup {None}
    BY FetchedIs DEF fetched
  <2> QED BY <2>1, <2>2 DEF CoreNext
<1>2. CASE UNCHANGED core_vars
  BY <1>2
<1> QED BY <1>1, <1>2 DEF BenchNext, bench_vars, Construct, PlaceHalt, Patch, Reset, report

\* The program counter stays in the address space.
LEMMA PcStays ==
  ASSUME BenchInv, NEW i, FetchEdge(i)
  PROVE  pc_current' \in Addr
<1>1. PcSpace \in Nat /\ PcSpace > 0 /\ Addr = 0..(PcSpace - 1) /\ pc_current \in Addr
  BY PagesAssumption, BenchAssumption DEF BenchInv, FetchInv, Addr, Space
<1>2. CASE flush
  <2>1. \A b \in mispredicted : b.target \in Addr /\ b.next \in Addr
    <3> SUFFICES ASSUME NEW b \in mispredicted PROVE b.target \in Addr /\ b.next \in Addr
      OBVIOUS
    <3>1. PICK e \in Completing : b = e.i
      BY DEF mispredicted, resolved
    <3>2. PICK q \in Held : queue[q] = e
      BY Issued DEF BenchInv, RetireInv
    <3>3. e \in Entry
      BY <3>2, HeldEntries DEF BenchInv, RetireInv
    <3> QED BY <1>1, <3>1, <3>3 DEF Entry, Decoded
  <2> DEFINE T == {IF br_taken THEN b.target ELSE b.next : b \in mispredicted}
  <2>2. T \subseteq Addr /\ T # {}
    BY <1>2, <2>1 DEF flush
  <2>3. pc_current' = CHOOSE a \in T : TRUE
    BY <1>2 DEF FetchEdge
  <2> HIDE DEF T
  <2> QED BY <2>2, <2>3
<1>3. CASE ~flush
  <2>1. \A x \in Int : Wrap(x) \in Addr
    BY <1>1 DEF Wrap
  <2>2. pc_current + Linear \in Int /\ pc_current + FetchBytes \in Int
    BY <1>1, BlockAssumption
  <2>3. pc_next \in Addr
    BY <2>1, <2>2 DEF pc_next
  <2> QED BY <1>1, <1>3, <2>3 DEF FetchEdge
<1> QED BY <1>2, <1>3

LEMMA InitBenchInv == BenchInit => BenchInv
<1> SUFFICES ASSUME BenchInit PROVE BenchInv
  OBVIOUS
<1>1. RetireInv
  BY InitRetireInv DEF BenchInit
<1>2. MemTypeOK
  BY DEF BenchInit, MemInit, MemTypeOK
<1>3. FetchInv
  BY BenchAssumption DEF BenchInit, CoreInit, FetchInv
<1> QED BY <1>1, <1>2, <1>3 DEF BenchInv

LEMMA NextBenchInv == BenchInv /\ KnownFetch /\ [BenchNext]_bench_vars => BenchInv'
<1> SUFFICES ASSUME BenchInv, KnownFetch, [BenchNext]_bench_vars PROVE BenchInv'
  OBVIOUS
<1>1. RetireInv'
  BY BenchCoreStep, NextRetireInv DEF BenchInv
<1>2. MemTypeOK'
  <2>1. [MemNext]_mem_vars
    BY BenchMemoryStep DEF bench_vars
  <2> QED BY <2>1, MemTypeStep DEF BenchInv
<1>3. FetchInv'
  <2>1. CASE tick
    <3>1. pc_current' \in Addr
      BY <2>1, PcStays DEF tick, CoreEdge
    <3>2. fetch_data' = IF ~flush' THEN Word(pc_current', FetchBytes) ELSE None
      BY <2>1 DEF tick, service_fetch, fetch_req, read128
    <3>3. Word(pc_current', FetchBytes) \in Block
      BY <3>1, ReadBytes, BlockAssumption DEF BenchInv, Block
    <3> QED BY <3>1, <3>2, <3>3 DEF FetchInv, Block, Addr, Space
  <2>2. CASE UNCHANGED core_vars /\ (UNCHANGED fetch_data \/ fetch_data' = None)
    <3>1. UNCHANGED <<pc_current, queue, br_taken, predict_taken>>
      BY <2>2 DEF core_vars, front_vars
    <3>2. flush' = flush
      BY <3>1 DEF flush, mispredicted, resolved, Completing, issue_idx, Wrap, IqSlot
    <3> QED BY <2>2, <3>1, <3>2 DEF BenchInv, FetchInv, Block, Addr, Space
  <2> QED BY <2>1, <2>2
          DEF BenchNext, bench_vars, pins, Construct, PlaceHalt, Patch, Reset, report
<1> QED BY <1>1, <1>2, <1>3 DEF BenchInv

\* Under the testbench the core is the one of the theorems about it, for every
\* program of instructions that Opcode knows.
LEMMA BenchDrivesCore == BenchSpec /\ []KnownFetch => []BenchInv /\ CoreSpec
<1>1. BenchInit => CoreInit
  BY DEF BenchInit
<1>2. BenchInv /\ KnownFetch /\ [BenchNext]_bench_vars => [CoreNext]_core_vars
  BY BenchCoreStep DEF BenchInv
<1> QED BY InitBenchInv, NextBenchInv, <1>1, <1>2, PTL DEF BenchSpec, CoreSpec

-----------------------------------------------------------------------------
(***************************************************************************)
(* Types                                                                   *)
(***************************************************************************)
HasPages == phase \notin {"construct", "halt"} => \E p \in PageNum : pages[p] # Nothing

LEMMA CoreTypes ==
  ASSUME BenchInv, predict_taken \in BOOLEAN, br_taken \in BOOLEAN, trained \in BOOLEAN
  PROVE  CoreTypeOK
<1>1. Addr = 0..(PcSpace - 1)
  BY BenchAssumption DEF Addr
<1> QED BY <1>1 DEF BenchInv, RetireInv, QInv, RInv, FrontType, FetchInv, CoreTypeOK

LEMMA InitTypes == BenchInit => BenchTypeOK /\ HasPages
<1> SUFFICES ASSUME BenchInit PROVE BenchTypeOK /\ HasPages
  OBVIOUS
<1>1. BenchInv
  BY InitBenchInv
<1>2. CoreTypeOK
  BY <1>1, CoreTypes DEF BenchInit, CoreInit
<1>3. MemTypeOK /\ fetch_data \in Block \cup {None}
  BY <1>1 DEF BenchInv, FetchInv
<1>4. /\ phase = "construct" /\ patched = FALSE /\ mem_rdata = None /\ mem_ack = FALSE
      /\ cycle = 0 /\ retired_count = 0 /\ reported = None
  BY DEF BenchInit
<1>5. cycle \in 0..MaxCycles /\ retired_count \in 0..cycle
  BY <1>4, BenchAssumption
<1>6. HasPages
  BY <1>4 DEF HasPages
<1>7. BenchTypeOK
  BY <1>2, <1>3, <1>4, <1>5 DEF BenchTypeOK
<1> QED BY <1>6, <1>7

LEMMA NextTypes ==
  ASSUME BenchInv, BenchInv', BenchTypeOK, HasPages, [BenchNext]_bench_vars
  PROVE  BenchTypeOK' /\ HasPages'
<1>1. [MemNext]_mem_vars
  BY BenchMemoryStep DEF bench_vars
<1>2. (predict_taken \in BOOLEAN /\ br_taken \in BOOLEAN /\ trained \in BOOLEAN)'
  <2>1. predict_taken \in BOOLEAN /\ br_taken \in BOOLEAN /\ trained \in BOOLEAN
    BY DEF BenchTypeOK, CoreTypeOK
  <2>2. CASE tick
    <3>1. PredictEdge
      BY <2>2 DEF tick, CoreEdge
    <3>2. trained' \in BOOLEAN
      BY <2>1, <3>1 DEF PredictEdge
    <3>3. br_taken' \in BOOLEAN /\ predict_taken' \in BOOLEAN
      BY <3>1 DEF PredictEdge
    <3> QED BY <3>2, <3>3
  <2>3. CASE UNCHANGED core_vars
    BY <2>1, <2>3 DEF core_vars, front_vars
  <2> QED BY <2>2, <2>3
          DEF BenchNext, bench_vars, Construct, PlaceHalt, Patch, Reset, report
<1>3. CoreTypeOK'
  <2>1. Addr = 0..(PcSpace - 1)
    BY BenchAssumption DEF Addr
  <2> QED BY <1>2, <2>1
          DEF BenchInv, RetireInv, QInv, RInv, FrontType, FetchInv, CoreTypeOK, Addr, Space
<1>4. MemTypeOK' /\ (fetch_data \in Block \cup {None})'
  BY DEF BenchInv, FetchInv
<1>5. (phase \in {"construct", "halt", "patch", "reset", "run", "done"})' /\ (patched \in BOOLEAN)'
  BY DEF BenchTypeOK, BenchNext, Construct, PlaceHalt, Patch, Reset, tick, report, bench_vars
<1>6. (mem_rdata \in [0..3 -> Byte] \cup {None} /\ mem_ack \in BOOLEAN)'
  <2>1. mem_rdata \in [0..3 -> Byte] \cup {None} /\ mem_ack \in BOOLEAN
    BY DEF BenchTypeOK
  <2>2. CASE tick
    <3>1. PICK req \in DataRequest \cup {None} : service_data_mem(req)
      BY <2>2 DEF tick
    <3>2. mem_ack' \in BOOLEAN
      BY <3>1 DEF service_data_mem
    <3>3. CASE req # None /\ ~req.wr
      <4>1. req.addr \in Addr /\ 4 \in Nat /\ 4 - 1 = 3
        BY <3>1, <3>3, BenchAssumption
      <4>2. Word(req.addr, 4) \in [0..(4 - 1) -> Byte]
        BY <4>1, ReadBytes DEF BenchInv
      <4>3. mem_rdata' = Word(req.addr, 4)
        BY <3>1, <3>3 DEF service_data_mem, read32
      <4> QED BY <3>2, <4>1, <4>2, <4>3
    <3>4. CASE ~(req # None /\ ~req.wr)
      BY <2>1, <3>1, <3>2, <3>4 DEF service_data_mem
    <3> QED BY <3>3, <3>4
  <2>3. CASE UNCHANGED pins \/ Reset
    BY <2>1, <2>3 DEF pins, Reset
  <2> QED BY <2>2, <2>3 DEF BenchNext, bench_vars, Construct, PlaceHalt, Patch, report
<1>7. (cycle \in 0..MaxCycles /\ retired_count \in 0..cycle)'
  <2>1. cycle \in 0..MaxCycles /\ retired_count \in 0..cycle /\ MaxCycles \in Nat
    BY BenchAssumption DEF BenchTypeOK
  <2>2. CASE tick
    <3>1. cycle < MaxCycles /\ cycle' = cycle + 1
          /\ (retired_count' = retired_count + 1 \/ retired_count' = retired_count)
      BY <2>2 DEF tick, running
    <3> QED BY <2>1, <3>1
  <2>3. CASE UNCHANGED counters
    BY <2>1, <2>3 DEF counters
  <2> QED BY <2>2, <2>3 DEF BenchNext, bench_vars, Construct, PlaceHalt, Patch, Reset, report
<1>8. HasPages'
  <2>1. (\E p \in PageNum : pages[p] # Nothing) => \E p \in PageNum : pages'[p] # Nothing
    BY <1>1, PagesStay DEF BenchInv
  <2>2. CASE PlaceHalt
    <3>1. write8(ResetVector + HaltAt, [i \in {0} |-> HLT])
      BY <2>2 DEF PlaceHalt
    <3>2. \E p \in PageNum : pages'[p] # Nothing
      BY <3>1, BenchAssumption, StoreAllocates DEF write8, BenchInv
    <3> QED BY <3>2 DEF HasPages, PageNum
  <2>3. CASE Construct
    BY <2>3 DEF Construct, HasPages
  <2>4. CASE phase' = phase
    BY <2>1, <2>4 DEF HasPages, PageNum
  <2>5. CASE phase \notin {"construct", "halt"}
    BY <2>1, <2>5 DEF HasPages, PageNum
  <2> QED BY <2>2, <2>3, <2>4, <2>5
          DEF BenchNext, bench_vars, Patch, Reset, tick, report
<1>9. (reported = None \/ reported.pages \in 1..Pages)'
  <2>1. reported = None \/ reported.pages \in 1..Pages
    BY DEF BenchTypeOK
  <2>2. CASE report
    <3>1. pages_allocated \in 1..Pages
      BY <2>2, PagesCounted DEF report, HasPages
    <3>2. reported'.pages = pages_allocated
      BY <2>2 DEF report
    <3> QED BY <3>1, <3>2
  <2>3. CASE UNCHANGED reported
    BY <2>1, <2>3
  <2> QED BY <2>2, <2>3 DEF BenchNext, bench_vars, Construct, PlaceHalt, Patch, Reset, tick
<1> QED BY <1>3, <1>4, <1>5, <1>6, <1>7, <1>8, <1>9 DEF BenchTypeOK, Block

\* Every register of core, memory and testbench keeps its type, and the numbers
\* that main reports are those of a run (BenchTypeOK).
THEOREM BenchTypeCorrect == BenchSpec /\ []KnownFetch => []BenchTypeOK
<1>1. BenchInv /\ BenchInv' /\ BenchTypeOK /\ HasPages /\ [BenchNext]_bench_vars
        => BenchTypeOK' /\ HasPages'
  BY NextTypes
<1> QED BY BenchDrivesCore, InitTypes, <1>1, PTL DEF BenchSpec

\* The theorems about the core hold under the testbench: issue queue and
\* reorder buffer agree, sources wait for older instructions, renaming is driven
\* as it assumes, and instructions leave in program order.
THEOREM BenchCoreIsRight ==
  BenchSpec /\ []KnownFetch =>
    []QueueMatchesBuffer /\ []WaitsForAnOlder /\ DrivesRename /\ InProgramOrder
BY BenchDrivesCore, QueueIsRight, SourcesAreOlder, CoreImplementsRename, CoreKeepsOrder, PTL

-----------------------------------------------------------------------------
(***************************************************************************)
(* What is fetched, decoded and counted                                    *)
(***************************************************************************)
NoFetch == flush => fetch_data = None

\* In the cycle of a flush no block waits at the decoder, whatever the program
\* (FlushFetchesNothing): the fetch that is answered after an edge has been
\* asked for after it, and a flush asks for none.
THEOREM FlushStopsFetch == BenchSpec => FlushFetchesNothing
<1>1. BenchInit => NoFetch
  BY DEF BenchInit, NoFetch
<1>2. NoFetch /\ [BenchNext]_bench_vars => NoFetch'
  <2> SUFFICES ASSUME NoFetch, [BenchNext]_bench_vars PROVE NoFetch'
    OBVIOUS
  <2>1. CASE tick
    BY <2>1 DEF tick, service_fetch, fetch_req, NoFetch
  <2>2. CASE UNCHANGED core_vars /\ (UNCHANGED fetch_data \/ fetch_data' = None)
    <3>1. UNCHANGED <<pc_current, queue, br_taken, predict_taken>>
      BY <2>2 DEF core_vars, front_vars
    <3>2. flush' = flush
      BY <3>1 DEF flush, mispredicted, resolved, Completing, issue_idx, Wrap, IqSlot
    <3> QED BY <2>2, <3>2 DEF NoFetch
  <2> QED BY <2>1, <2>2
          DEF BenchNext, bench_vars, pins, Construct, PlaceHalt, Patch, Reset, report
<1>3. NoFetch /\ [BenchNext]_bench_vars
        => [flush => {s1', instr_u'} \subseteq {s1, instr_u, None}]_core_vars
  <2> SUFFICES ASSUME NoFetch, [BenchNext]_bench_vars, flush, core_vars' # core_vars
               PROVE  {s1', instr_u'} \subseteq {s1, instr_u, None}
    OBVIOUS
  <2>1. tick
    BY DEF BenchNext, bench_vars, Construct, PlaceHalt, Patch, Reset, report
  <2>2. DecodeEdge(None)
    BY <2>1 DEF tick, CoreEdge, fetched, NoFetch
  <2> QED BY <2>2 DEF DecodeEdge
<1> QED BY <1>1, <1>2, <1>3, PTL DEF BenchSpec, FlushFetchesNothing

\* The count that main reports is that of all instructions that retire
\* (CountsEveryRetirement), although it watches one port of two.
THEOREM CountIsRight == BenchSpec /\ []KnownFetch => CountsEveryRetirement
<1>1. BenchTypeOK /\ (~can_retire_v)' /\ [BenchNext]_bench_vars
        => [tick => retired_count' = retired_count + retire_count']_bench_vars
  <2> SUFFICES ASSUME BenchTypeOK, (~can_retire_v)', tick
               PROVE  retired_count' = retired_count + retire_count'
    OBVIOUS
  <2>1. retired_count \in Int
    BY BenchAssumption DEF BenchTypeOK
  <2>2. retired_count' = IF can_retire_u' THEN retired_count + 1 ELSE retired_count
    BY DEF tick, trace_valid
  <2>3. retire_count' = IF can_retire_u' THEN 1 ELSE 0
    BY DEF retire_count
  <2> QED BY <2>1, <2>2, <2>3
<1> QED BY BenchDrivesCore, BenchTypeCorrect, RetiresByOnePort, <1>1, PTL
        DEF BenchSpec, CountsEveryRetirement

\* What is fetched after an edge.
LEMMA FetchStep ==
  ASSUME BenchInv, tick
  PROVE  /\ fetch_data' = IF ~flush' THEN read128(pc_current', FetchBytes) ELSE None
         /\ read128(pc_current', FetchBytes) \in Block
<1>1. pc_current' \in Addr
  BY PcStays DEF tick, CoreEdge
<1>2. Word(pc_current', FetchBytes) \in Block
  BY <1>1, ReadBytes, BlockAssumption DEF BenchInv, Block
<1> QED BY <1>2 DEF tick, service_fetch, fetch_req, read128

\* A flush leaves room for a dispatch, where there are more physical registers
\* than architectural ones.
LEMMA FlushMakesRoom ==
  ASSUME RInv, P > A, RenameFlush
  PROVE  accepts'
<1>1. count' = 0 /\ free_map' = Phys \ {com_map[i] : i \in Arch}
  BY DEF RenameFlush, Flush, rebuild_map
<1>2. ~full'
  BY <1>1, NAssumption DEF full
<1>3. A \in Nat /\ P \in Nat /\ A >= 1
  BY RegistersAssumption
<1>4. IsFiniteSet(Arch) /\ Cardinality(Arch) = A
  <2>1. A - 1 \in Int /\ 0 \in Int /\ ~(0 > A - 1) /\ (A - 1) - 0 + 1 = A
    BY <1>3
  <2> QED BY <2>1, FS_Interval DEF Arch
<1>5. IsFiniteSet(Phys) /\ Cardinality(Phys) = P
  <2>1. P - 1 \in Int /\ 0 \in Int /\ ~(0 > P - 1) /\ (P - 1) - 0 + 1 = P
    BY <1>3
  <2> QED BY <2>1, FS_Interval DEF Phys
<1> DEFINE M == {com_map[i] : i \in Arch}
<1>6. IsFiniteSet(M) /\ Cardinality(M) <= A
  <2>1. com_map \in Surjection(Arch, M)
    BY DEF RInv, RenameTypeOK, Surjection
  <2> QED BY <1>4, <2>1, FS_Surjection
<1>7. M # Phys
  BY <1>3, <1>5, <1>6
<1>8. M \subseteq Phys
  BY DEF RInv, RenameTypeOK
<1>9. free_map' # {}
  BY <1>1, <1>7, <1>8
<1> QED BY <1>2, <1>9 DEF accepts

\* The decoder's first stage is empty only behind a flush, which leaves room,
\* and before the first fetch.
HandInv ==
  /\ phase \notin {"run", "done"} => fetch_data = None
  /\ fetch_data = None => flush \/ (s1 = None /\ instr_u = None)
  /\ s1 = None => instr_u = None \/ accepts

LEMMA NextHandInv ==
  ASSUME P > A, BenchInv, KnownFetch, HandInv, [BenchNext]_bench_vars
  PROVE  HandInv'
<1>1. CASE tick
  <2>1. CoreEdge(fetched) /\ service_fetch
    BY <1>1 DEF tick
  <2>2. fetch_data' = None => flush'
    BY <1>1, FetchStep, BlockAssumption
  <2>3. CASE s1' # None
    BY <1>1, <2>2, <2>3 DEF HandInv, tick, running
  <2>4. CASE s1' = None
    <3>1. DecodeEdge(fetched)
      BY <2>1 DEF CoreEdge
    <3>2. fetched = None
      BY <2>4, <3>1 DEF DecodeEdge, pipe_advance
    <3>3. fetch_data = None
      BY <3>2, FetchedIs DEF BenchInv
    <3>4. CASE flush
      <4>1. RenameFlush
        BY <2>1, <3>4 DEF CoreEdge
      <4>2. accepts'
        BY <4>1, FlushMakesRoom DEF BenchInv, RetireInv, QInv
      <4> QED BY <1>1, <2>2, <4>2 DEF HandInv, tick, running
    <3>5. CASE s1 = None /\ instr_u = None
      BY <1>1, <2>2, <3>1, <3>5 DEF HandInv, DecodeEdge, tick, running
    <3> QED BY <3>3, <3>4, <3>5 DEF HandInv
  <2> QED BY <2>3, <2>4
<1>2. CASE UNCHANGED core_vars /\ (UNCHANGED fetch_data \/ Reset)
  <2>1. UNCHANGED <<pc_current, queue, br_taken, predict_taken, s1, instr_u, free_map, count>>
    BY <1>2 DEF core_vars, front_vars, rename_vars, vars
  <2>2. flush' = flush
    BY <2>1 DEF flush, mispredicted, resolved, Completing, issue_idx, Wrap, IqSlot
  <2>3. accepts' = accepts
    BY <2>1 DEF accepts, full
  <2>4. phase' \notin {"run", "done"} => phase \notin {"run", "done"}
    BY DEF BenchNext, bench_vars, Construct, PlaceHalt, Patch, Reset, report, tick
  <2>5. fetch_data' = fetch_data
    BY <1>2 DEF HandInv, Reset
  <2> QED BY <2>1, <2>2, <2>3, <2>4, <2>5 DEF HandInv
<1> QED BY <1>1, <1>2
        DEF BenchNext, bench_vars, pins, Construct, PlaceHalt, Patch, Reset, report

\* Nothing that has been decoded is overwritten or cleared unseen (HandOver):
\* the decoder's output is cleared whenever the stage before it is empty, but it
\* is so only when the output can be dispatched.
THEOREM NothingLostInDecode ==
  P > A => (BenchSpec /\ []KnownFetch => HandOver)
<1> SUFFICES ASSUME P > A PROVE BenchSpec /\ []KnownFetch => HandOver
  OBVIOUS
<1>1. BenchInit => HandInv
  BY DEF BenchInit, CoreInit, HandInv
<1>2. BenchInv /\ KnownFetch /\ HandInv /\ [BenchNext]_bench_vars => HandInv'
  BY NextHandInv
<1>3. HandInv /\ [BenchNext]_bench_vars
        => [/\ instr_u # None => dispatch_u # None \/ instr_u' = instr_u \/ flush
            /\ s1 # None => instr_u' = s1 \/ s1' = s1]_core_vars
  <2> SUFFICES ASSUME HandInv, [BenchNext]_bench_vars, core_vars' # core_vars
               PROVE  /\ instr_u # None => dispatch_u # None \/ instr_u' = instr_u \/ flush
                      /\ s1 # None => instr_u' = s1 \/ s1' = s1
    OBVIOUS
  <2>1. tick
    BY DEF BenchNext, bench_vars, Construct, PlaceHalt, Patch, Reset, report
  <2>2. DecodeEdge(fetched)
    BY <2>1 DEF tick, CoreEdge
  <2>3. instr_u # None => dispatch_u # None \/ instr_u' = instr_u
    <3>1. CASE accepts
      BY <3>1 DEF dispatch_u
    <3>2. CASE ~accepts
      BY <2>2, <3>2 DEF HandInv, DecodeEdge
    <3> QED BY <3>1, <3>2
  <2>4. s1 # None => instr_u' = s1 \/ s1' = s1
    BY <2>2 DEF DecodeEdge, pipe_advance
  <2> QED BY <2>3, <2>4
<1> QED BY BenchDrivesCore, <1>1, <1>2, <1>3, PTL DEF BenchSpec, HandOver

\* What the decoder and the issue queue hold and the block that waits for the
\* decoder are those of the memory; before the run there are none.
ProgramInv ==
  /\ DecodesTheProgram
  /\ fetch_data # None => fetch_data = read128(pc_current, FetchBytes)
  /\ phase \notin {"run", "done"} =>
       s1 = None /\ instr_u = None /\ Held = {} /\ fetch_data = None

LEMMA QueueOrigins ==
  ASSUME BenchInv, NEW pu, queue' = queue_next(pu), NEW q \in Held'
  PROVE  \/ instr_u # None /\ queue'[q].i = instr_u
         \/ q \in Held /\ queue'[q].i = queue[q].i
<1>1. q \in IqSlot /\ queue'[q] # None
  BY DEF Held, IqSlot
<1>2. ~queue_clear
  BY <1>1 DEF queue_next
<1>3. CASE dispatch_u # None /\ q \in free_idx
  <2>1. queue'[q].i = dispatch_u
    BY <1>1, <1>2, <1>3 DEF queue_next
  <2> QED BY <1>3, <2>1 DEF dispatch_u
<1>4. CASE ~(dispatch_u # None /\ q \in free_idx)
  <2>1. q \in Held
    BY <1>1, <1>2, <1>4 DEF queue_next, Held
  <2>2. queue[q] \in Entry
    BY <2>1, HeldEntries DEF BenchInv, RetireInv
  <2>3. queue'[q] = [queue[q] EXCEPT !.src = IF @ \in woken THEN None ELSE @]
    BY <1>1, <1>2, <1>4 DEF queue_next
  <2> QED BY <2>1, <2>2, <2>3 DEF Entry
<1> QED BY <1>3, <1>4

LEMMA NextProgramInv ==
  ASSUME BenchInv, BenchTypeOK, KnownFetch, ProgramInv, [BenchNext]_bench_vars,
         [StoreElsewhere]_bench_vars
  PROVE  ProgramInv'
<1>1. CASE tick
  <2>1. CoreEdge(fetched) /\ cycle' # cycle
    <3>1. cycle' = cycle + 1 /\ cycle \in Int
      BY <1>1, BenchAssumption DEF tick, BenchTypeOK
    <3> QED BY <1>1, <3>1 DEF tick
  <2>2. StoreElsewhere
    BY <2>1 DEF bench_vars, counters
  <2>3. \A a \in InFlight' \cup {pc_current'} :
          read128(a, FetchBytes)' = read128(a, FetchBytes)
    BY <1>1, <2>2 DEF StoreElsewhere
  <2>4. \A a : read128(a, FetchBytes)' = read128(a, FetchBytes) => At(a)' = At(a)
    BY DEF At
  <2>5. DecodeEdge(fetched)
    BY <2>1 DEF CoreEdge
  <2>6. fetched # None => fetched = At(fetched.pc)
    <3>1. fetch_data # None => fetched.pc = pc_current
      BY FetchedIs DEF BenchInv
    <3> QED BY <3>1 DEF fetched, At, ProgramInv
  <2>7. \A x \in {s1, instr_u} \ {None} : x = At(x.pc)
    BY DEF ProgramInv, DecodesTheProgram
  <2>8. ASSUME NEW x \in {s1', instr_u'} \ {None} PROVE x = At(x.pc)'
    <3>1. x \in {fetched, s1, instr_u} \ {None}
      BY <2>5 DEF DecodeEdge
    <3>2. x = At(x.pc)
      BY <2>6, <2>7, <3>1
    <3>3. x.pc \in InFlight'
      BY DEF InFlight
    <3> QED BY <2>3, <2>4, <3>2, <3>3
  <2>9. ASSUME NEW q \in Held' PROVE queue'[q].i = At(queue[q].i.pc)'
    <3> DEFINE x == queue'[q].i
    <3>1. x = At(x.pc)
      <4>1. PICK pu : queue' = queue_next(pu)
        BY <2>1 DEF CoreEdge
      <4>2. \/ instr_u # None /\ x = instr_u
            \/ q \in Held /\ x = queue[q].i
        BY <4>1, QueueOrigins
      <4> QED BY <2>7, <4>2 DEF Held, ProgramInv, DecodesTheProgram
    <3>2. x.pc \in InFlight'
      BY DEF InFlight
    <3>3. \A y : y = x => y = At(y.pc)'
      BY <2>3, <2>4, <3>1, <3>2
    <3> QED BY <3>3 DEF At, Word, read128, read8, get_page
  <2>10. DecodesTheProgram'
    <3>1. \A x \in ({s1, instr_u} \ {None})' : x = At(x.pc)'
      BY <2>8
    <3>2. \A q \in IqSlot : queue'[q] # None => queue'[q].i = At(queue[q].i.pc)'
      BY <2>9 DEF Held, IqSlot
    <3> QED BY <3>1, <3>2 DEF DecodesTheProgram, IqSlot
  <2>11. fetch_data' # None => fetch_data' = read128(pc_current, FetchBytes)'
    <3>1. fetch_data' # None => fetch_data' = read128(pc_current', FetchBytes)
      BY <1>1, FetchStep
    <3>2. PICK a : a = pc_current'
      OBVIOUS
    <3>3. read128(a, FetchBytes)' = read128(a, FetchBytes)
      BY <2>3, <3>2
    <3>4. read128(pc_current, FetchBytes)' = read128(a, FetchBytes)'
      BY <3>2 DEF read128, Word, read8, get_page
    <3> QED BY <3>1, <3>2, <3>3, <3>4
  <2>12. phase' = phase /\ phase = "run"
    BY <1>1 DEF tick, running
  <2> QED BY <2>10, <2>11, <2>12 DEF ProgramInv
<1>2. CASE Reset \/ report \/ UNCHANGED bench_vars
  <2>1. UNCHANGED <<s1, instr_u, queue, pc_current, pages>>
    BY <1>2 DEF Reset, report, bench_vars, core_vars, front_vars, mem_vars
  <2>2. DecodesTheProgram'
    BY <2>1 DEF ProgramInv, DecodesTheProgram, At, read128, Word, read8, get_page, IqSlot
  <2>3. fetch_data' # None => fetch_data' = read128(pc_current, FetchBytes)'
    BY <1>2, <2>1 DEF ProgramInv, Reset, report, bench_vars, pins, read128, Word, read8, get_page
  <2>4. phase' \notin {"run", "done"} => UNCHANGED <<phase, fetch_data>>
    BY <1>2 DEF Reset, report, bench_vars, pins
  <2>5. Held' = Held
    BY <2>1 DEF Held, IqSlot
  <2> QED BY <2>1, <2>2, <2>3, <2>4, <2>5 DEF ProgramInv
<1>3. CASE Construct \/ PlaceHalt \/ Patch
  <2>1. phase \notin {"run", "done"}
    BY <1>3 DEF Construct, PlaceHalt, Patch
  <2>2. UNCHANGED <<s1, instr_u, queue, fetch_data>>
    BY <1>3 DEF Construct, PlaceHalt, Patch, core_vars, front_vars, pins
  <2>3. s1' = None /\ instr_u' = None /\ Held' = {} /\ fetch_data' = None
    BY <2>1, <2>2 DEF ProgramInv, Held, IqSlot
  <2>4. DecodesTheProgram'
    BY <2>3 DEF DecodesTheProgram, Held, IqSlot
  <2> QED BY <2>3, <2>4 DEF ProgramInv
<1> QED BY <1>1, <1>2, <1>3 DEF BenchNext

\* What decoder and issue queue hold is what the memory has at its address
\* (DecodesTheProgram), over stalls, predicted and flushed fetches, if the
\* program does not store to what it has fetched.
THEOREM DecodedAsStored ==
  BenchSpec /\ []KnownFetch /\ [][StoreElsewhere]_bench_vars => []DecodesTheProgram
<1>1. BenchInit => ProgramInv
  BY DEF BenchInit, CoreInit, ProgramInv, DecodesTheProgram, Held
<1>2. BenchInv /\ BenchTypeOK /\ KnownFetch /\ ProgramInv /\ [BenchNext]_bench_vars
        /\ [StoreElsewhere]_bench_vars => ProgramInv'
  BY NextProgramInv
<1>3. ProgramInv => DecodesTheProgram
  BY DEF ProgramInv
<1> QED BY BenchDrivesCore, BenchTypeCorrect, <1>1, <1>2, <1>3, PTL DEF BenchSpec
-----------------------------------------------------------------------------
(***************************************************************************)
(* The program as constructed.  Until the halt is dispatched the core      *)
(* takes one instruction into each stage in every cycle, so that the cycle *)
(* says what is where; from then on the halt goes to the head of the       *)
(* buffer and stays.  A patched program is not looked at.                  *)
(***************************************************************************)
BlockAt(k) == ResetVector + FetchBytes * k

\* x is the instruction of the sled's block k.
OfSled(x, k) ==
  /\ x # None /\ x.dest = NoDest
  /\ x.op_cat = IF k = SledBlocks THEN "SYS_CALL" ELSE "ALU_REG"

ProgramByte(o) ==
  IF o = HaltAt /\ phase # "halt" THEN HLT ELSE IF o \in DOMAIN Sled THEN NOP ELSE GRP5

\* Memory holds the program, as far as the run gets.
SledMem ==
  IF phase = "construct" THEN \A a \in Addr : read8(a) = GRP5
  ELSE \A o \in 0..(Reach - 1) : read8(ResetVector + o) = ProgramByte(o)

\* No branch is about and no register is taken.
Quiet ==
  /\ trained = FALSE /\ predict_taken = FALSE /\ free_map # {}
  /\ \A x \in {s1, instr_u} \ {None} : x.op_cat # "BRANCH" /\ x.dest = NoDest
  /\ \A q \in Held : queue[q].i.op_cat # "BRANCH"
  /\ fetch_data = IF cycle = 0 THEN None ELSE read128(pc_current, FetchBytes)

\* Before the halt is in the queue.
Before ==
  /\ pc_current = BlockAt(IF cycle = 0 THEN 0 ELSE cycle - 1)
  /\ IF cycle < 2 THEN s1 = None ELSE OfSled(s1, cycle - 2)
  /\ IF cycle < 3 THEN instr_u = None ELSE OfSled(instr_u, cycle - 3)
  /\ ~Blocked
  /\ count = IF cycle < 4 THEN 0 ELSE IF cycle = 4 THEN 1 ELSE 2
  /\ can_retire_u <=> cycle >= 5
  /\ retired_count = IF cycle < 4 THEN 0 ELSE cycle - 4

\* The halt is the oldest instruction, or the next.
Behind ==
  /\ pc_current = BlockAt(SledBlocks + 2 + count - retire_count)
  /\ s1 # None /\ instr_u # None
  /\ can_retire_u <=> cycle = SledBlocks + 4
  /\ \E r \in Calls : queue[r].rob_tag = Plus(head, retire_count)
  /\ retired_count = SledBlocks
  /\ count < N

SledRun ==
  /\ BenchInv /\ SledMem /\ Quiet
  /\ cycle \in Nat /\ (phase \in {"run", "done"} \/ cycle = 0)
  /\ IF cycle < SledBlocks + 4 THEN Before ELSE Behind
  /\ phase = "done" => reported.retired = SledBlocks /\ ~reported.warning

LEMMA SledNumbers ==
  ASSUME SledFits
  PROVE  /\ SledBlocks \in Nat /\ SledBlocks > 0 /\ FetchBytes \in Nat /\ FetchBytes >= 2
         /\ ResetVector \in Nat /\ Space \in Nat /\ Space > 0 /\ PcSpace = Space
         /\ Reach \in Nat /\ ResetVector + Reach <= Space /\ N \in Nat /\ N >= 4
         /\ HaltAt = FetchBytes * SledBlocks
         /\ \A k \in 0..(SledBlocks + N + 1) :
              /\ FetchBytes * k \in Nat /\ FetchBytes * k + FetchBytes <= Reach
              /\ FetchBytes * k = HaltAt <=> k = SledBlocks
              /\ BlockAt(k) \in Addr
              /\ k < SledBlocks + N + 1 => BlockAt(k) + FetchBytes = BlockAt(k + 1)
<1>1. SledBlocks \in Nat /\ SledBlocks > 0 /\ N \in Nat /\ N >= 4 /\ ResetVector + Reach <= Space
      /\ HaltAt = FetchBytes * SledBlocks
  BY NAssumption DEF SledFits
<1>2. FetchBytes \in Nat /\ FetchBytes >= 2
  BY BlockAssumption
<1>3. Space \in Nat /\ Space > 0 /\ ResetVector \in Nat /\ PcSpace = Space
  BY PagesAssumption, BenchAssumption DEF Addr, Space
<1>4. Reach = FetchBytes * (SledBlocks + N + 2) /\ Reach \in Nat
  BY <1>1, <1>2 DEF Reach
<1>5. ASSUME NEW k \in Nat, NEW m \in Nat, k < m
      PROVE  FetchBytes * k + FetchBytes <= FetchBytes * m /\ FetchBytes * k \in Nat
  <2>1. PICK d \in Nat : m = k + 1 + d
    <3>1. m - k - 1 \in Nat /\ m = k + 1 + (m - k - 1)
      BY <1>5
    <3> QED BY <3>1
  <2>2. FetchBytes * m = FetchBytes * k + FetchBytes + FetchBytes * d
    BY <1>2, <2>1
  <2>3. FetchBytes * d \in Nat /\ FetchBytes * k \in Nat
    BY <1>2
  <2> QED BY <1>2, <2>2, <2>3
<1>6. ASSUME NEW k \in 0..(SledBlocks + N + 1)
      PROVE  /\ FetchBytes * k \in Nat /\ FetchBytes * k + FetchBytes <= Reach
             /\ FetchBytes * k = HaltAt <=> k = SledBlocks
             /\ BlockAt(k) \in Addr
             /\ k < SledBlocks + N + 1 => BlockAt(k) + FetchBytes = BlockAt(k + 1)
  <2>1. k \in Nat /\ k < SledBlocks + N + 2 /\ SledBlocks + N + 2 \in Nat
    BY <1>1
  <2>2. FetchBytes * k \in Nat /\ FetchBytes * k + FetchBytes <= Reach
    BY <1>4, <1>5, <2>1
  <2>3. k < SledBlocks => FetchBytes * k + FetchBytes <= HaltAt
    BY <1>1, <1>5, <2>1
  <2>4. SledBlocks < k => HaltAt + FetchBytes <= FetchBytes * k
    BY <1>1, <1>5, <2>1
  <2>5. HaltAt \in Nat
    BY <1>1, <1>2
  <2>6. FetchBytes * k = HaltAt <=> k = SledBlocks
    BY <1>1, <1>2, <2>1, <2>2, <2>3, <2>4, <2>5
  <2>7. FetchBytes * (k + 1) = FetchBytes * k + FetchBytes
    BY <1>2, <2>1
  <2>8. BlockAt(k) = ResetVector + FetchBytes * k /\ BlockAt(k + 1) = ResetVector + FetchBytes * (k + 1)
    BY DEF BlockAt
  <2>9. BlockAt(k) \in Addr
    BY <1>1, <1>2, <1>3, <1>4, <2>2, <2>8 DEF Addr
  <2>10. BlockAt(k) + FetchBytes = BlockAt(k + 1)
    <3> DEFINE x == FetchBytes * k
    <3>1. x \in Nat /\ BlockAt(k) = ResetVector + x /\ BlockAt(k + 1) = ResetVector + (x + FetchBytes)
      BY <2>2, <2>7, <2>8
    <3> HIDE DEF x
    <3> QED BY <1>2, <1>3, <3>1
  <2> QED BY <2>2, <2>6, <2>9, <2>10
<1> QED BY <1>1, <1>2, <1>3, <1>4, <1>6

\* What the decoder makes of a block of the program.
LEMMA FetchedOfSled ==
  ASSUME SledFits, SledMem, phase \in {"run", "done"}, NEW k \in 0..(SledBlocks + N + 1),
         pc_current = BlockAt(k), fetch_data = read128(pc_current, FetchBytes),
         fetch_data # None
  PROVE  KnownFetch /\ OfSled(fetched, k)
<1> DEFINE o == FetchBytes * k
<1>1. /\ FetchBytes >= 2 /\ FetchBytes \in Nat /\ Space \in Nat /\ ResetVector \in Nat
      /\ o \in Nat /\ o + FetchBytes <= Reach /\ Reach \in Nat /\ ResetVector + Reach <= Space
      /\ (o = HaltAt <=> k = SledBlocks) /\ pc_current = ResetVector + o
  BY SledNumbers DEF BlockAt
<1> HIDE DEF o
<1>2. \A i \in 0..(FetchBytes - 1) : fetch_data[i] = read8((pc_current + i) % Space)
  BY DEF read128, Word
<1>3. 0 \in 0..(FetchBytes - 1) /\ 1 \in 0..(FetchBytes - 1)
  BY <1>1
<1>4. (pc_current + 0) % Space = ResetVector + o /\ (pc_current + 1) % Space = ResetVector + (o + 1)
  BY <1>1
<1>5. o \in 0..(Reach - 1) /\ o + 1 \in 0..(Reach - 1)
  BY <1>1
<1>6. fetch_data[0] = ProgramByte(o) /\ fetch_data[1] = ProgramByte(o + 1)
  <2>1. \A x \in 0..(Reach - 1) : read8(ResetVector + x) = ProgramByte(x)
    BY DEF SledMem
  <2> QED BY <1>2, <1>3, <1>4, <1>5, <2>1
<1>7. fetched = Opcode(pc_current, fetch_data)
  BY DEF fetched
<1>8. Instruction("ALU_REG", NoDest, pc_current, 1, 0) # None
      /\ Instruction("ALU_REG", NoDest, pc_current, 2, 0) # None
      /\ Instruction("SYS_CALL", NoDest, pc_current, 1, 0) # None
  <2>1. ASSUME NEW c \in {"ALU_REG", "SYS_CALL"}, NEW len \in 1..2
        PROVE  Instruction(c, NoDest, pc_current, len, 0) \in Decoded
    <3>1. PcSpace \in Nat /\ PcSpace > 0 /\ pc_current \in 0..(PcSpace - 1)
      BY <1>1, SledNumbers
    <3>2. Wrap(pc_current + len) \in 0..(PcSpace - 1) /\ Wrap(pc_current + len + 0) \in 0..(PcSpace - 1)
      BY <3>1 DEF Wrap
    <3> QED BY <3>1, <3>2 DEF Instruction, Decoded
  <2> QED BY <2>1, EntryAssumption
<1>9. CASE k = SledBlocks
  <2>1. fetch_data[0] = HLT
    BY <1>1, <1>6, <1>9 DEF ProgramByte
  <2>2. fetched = Instruction("SYS_CALL", NoDest, pc_current, 1, 0)
    BY <1>7, <2>1 DEF Opcode, NOP, INC_EAX, JE, HLT, GRP5
  <2> QED BY <1>8, <1>9, <2>1, <2>2 DEF KnownFetch, OfSled, Instruction
<1>10. CASE k # SledBlocks /\ o \in DOMAIN Sled
  <2>1. fetch_data[0] = NOP
    BY <1>1, <1>6, <1>10 DEF ProgramByte
  <2>2. fetched = Instruction("ALU_REG", NoDest, pc_current, 1, 0)
    BY <1>7, <2>1 DEF Opcode, NOP, INC_EAX, JE, HLT, GRP5
  <2> QED BY <1>8, <1>10, <2>1, <2>2 DEF KnownFetch, OfSled, Instruction
<1>11. CASE k # SledBlocks /\ o \notin DOMAIN Sled
  <2>1. PICK n \in Nat : DOMAIN Sled = 0..(n - 1)
    BY ImageAssumption, BenchAssumption, SledNumbers
  <2>2. HaltAt \in 0..(n - 1) /\ o >= n
    BY <1>1, <1>11, <2>1 DEF SledFits
  <2>3. o + 1 # HaltAt /\ o + 1 \notin DOMAIN Sled
    BY <1>1, <2>1, <2>2
  <2>4. fetch_data[0] = GRP5 /\ fetch_data[1] = GRP5
    BY <1>1, <1>6, <1>11, <2>3 DEF ProgramByte
  <2>5. fetched = Instruction("ALU_REG", NoDest, pc_current, 2, 0)
    BY <1>7, <2>4 DEF Opcode, NOP, INC_EAX, JE, HLT, GRP5
  <2> QED BY <1>8, <1>11, <2>4, <2>5 DEF KnownFetch, OfSled, Instruction
<1> QED BY <1>9, <1>10, <1>11

\* Bytes of the program as addresses.
LEMMA SledAddress ==
  ASSUME SledFits, NEW o \in 0..(Reach - 1)
  PROVE  /\ ResetVector + o \in Addr /\ ResetVector + o \in ResetVector..(ResetVector + Reach - 1)
         /\ Flat!Index(ResetVector, ResetVector + o) = o
         /\ Flat!Index(ResetVector + HaltAt, ResetVector + o) \in {0} <=> o = HaltAt
<1>1. /\ ResetVector \in Nat /\ Space \in Nat /\ Reach \in Nat /\ ResetVector + Reach <= Space
      /\ HaltAt \in Nat /\ HaltAt < Reach
  <2>1. SledBlocks \in 0..(SledBlocks + N + 1)
    BY SledNumbers
  <2>2. FetchBytes * SledBlocks \in Nat /\ FetchBytes * SledBlocks + FetchBytes <= Reach
    BY <2>1, SledNumbers
  <2> QED BY <2>2, SledNumbers
<1>2. ResetVector + o \in Addr /\ ResetVector + o \in ResetVector..(ResetVector + Reach - 1)
  BY <1>1 DEF Addr
<1>3. (ResetVector + o) - ResetVector = o /\ o % Space = o
  BY <1>1
<1>4. (ResetVector + o) - (ResetVector + HaltAt) = o - HaltAt
  BY <1>1
<1>5. (o - HaltAt) % Space = 0 <=> o = HaltAt
  <2>1. CASE o >= HaltAt
    <3>1. (o - HaltAt) % Space = o - HaltAt
      BY <1>1, <2>1
    <3> QED BY <1>1, <3>1
  <2>2. CASE o < HaltAt
    <3>1. (o - HaltAt) + Space \in 1..(Space - 1)
      BY <1>1, <2>2
    <3>2. (o - HaltAt) % Space = (o - HaltAt) + Space
      BY <1>1, <3>1
    <3> QED BY <1>1, <2>2, <3>1, <3>2
  <2> QED BY <1>1, <2>1, <2>2
<1> QED BY <1>2, <1>3, <1>4, <1>5 DEF Flat!Index

LEMMA NextSledMem ==
  ASSUME SledFits, MemTypeOK, SledMem, [BenchNext]_bench_vars, ~patched'
  PROVE  SledMem'
<1>1. ASSUME NEW a \in Addr, NEW w \in Image, Store(a, w), NEW o \in 0..(Reach - 1)
      PROVE  read8(ResetVector + o)' = IF Flat!Index(a, ResetVector + o) \in DOMAIN w
                                       THEN w[Flat!Index(a, ResetVector + o)]
                                       ELSE read8(ResetVector + o)
  BY <1>1, SledAddress, ReadAfterStore
<1>2. CASE Construct
  <2>1. Store(ResetVector, Sled) /\ phase = "construct" /\ phase' = "halt"
    BY <1>2 DEF Construct, fill
  <2>2. ASSUME NEW o \in 0..(Reach - 1) PROVE read8(ResetVector + o)' = ProgramByte(o)'
    <3>1. Flat!Index(ResetVector, ResetVector + o) = o /\ ResetVector + o \in Addr
      BY SledAddress
    <3>2. read8(ResetVector + o) = GRP5
      BY <2>1, <3>1 DEF SledMem
    <3>3. read8(ResetVector + o)' = IF o \in DOMAIN Sled THEN Sled[o] ELSE GRP5
      BY <1>1, <2>1, <3>1, <3>2, BenchAssumption
    <3> QED BY <2>1, <3>3 DEF SledFits, ProgramByte
  <2> QED BY <2>1, <2>2 DEF SledMem, ProgramByte
<1>3. CASE PlaceHalt
  <2>1. Store(ResetVector + HaltAt, [i \in {0} |-> HLT]) /\ phase = "halt" /\ phase' = "patch"
    BY <1>3 DEF PlaceHalt, write8
  <2>2. ASSUME NEW o \in 0..(Reach - 1) PROVE read8(ResetVector + o)' = ProgramByte(o)'
    <3> DEFINE j == Flat!Index(ResetVector + HaltAt, ResetVector + o)
               w == [i \in {0} |-> HLT]
    <3>1. j \in {0} <=> o = HaltAt
      BY SledAddress
    <3>2. read8(ResetVector + o) = IF o \in DOMAIN Sled THEN NOP ELSE GRP5
      BY <2>1 DEF SledMem, ProgramByte
    <3>3. read8(ResetVector + o)' = IF j \in DOMAIN w THEN w[j] ELSE read8(ResetVector + o)
      BY <1>1, <2>1, BenchAssumption
    <3>4. DOMAIN w = {0} /\ w[0] = HLT
      OBVIOUS
    <3> HIDE DEF j, w
    <3>5. read8(ResetVector + o)' = IF o = HaltAt THEN HLT ELSE IF o \in DOMAIN Sled THEN NOP ELSE GRP5
      BY <3>1, <3>2, <3>3, <3>4
    <3> QED BY <2>1, <3>5 DEF ProgramByte
  <2> QED BY <2>1, <2>2 DEF SledMem, ProgramByte
<1>4. CASE tick
  <2>1. PICK req \in DataRequest \cup {None} : service_data_mem(req)
    BY <1>4 DEF tick
  <2>2. phase = "run" /\ phase' = "run"
    BY <1>4 DEF tick, running
  <2>3. CASE req # None /\ req.wr
    <3>1. req \in DataRequest /\ req.addr \in Addr /\ req.wdata \in Image
      BY <2>1, <2>3, BenchAssumption
    <3>2. Store(req.addr, req.wdata)
      BY <2>1, <2>3 DEF service_data_mem, write32
    <3>3. ASSUME NEW o \in 0..(Reach - 1) PROVE read8(ResetVector + o)' = ProgramByte(o)'
      <4>1. ResetVector + o \in ResetVector..(ResetVector + Reach - 1)
        BY SledAddress
      <4>2. Flat!Index(req.addr, ResetVector + o) \notin DOMAIN req.wdata
        BY <2>3, <3>1, <4>1 DEF SledFits, Flat!Index
      <4>3. read8(ResetVector + o)' = read8(ResetVector + o)
        BY <1>1, <3>1, <3>2, <4>2
      <4> QED BY <2>2, <4>3 DEF SledMem, ProgramByte
    <3> QED BY <2>2, <3>3 DEF SledMem, ProgramByte
  <2>4. CASE ~(req # None /\ req.wr)
    <3>1. UNCHANGED pages
      BY <2>1, <2>4 DEF service_data_mem, mem_vars
    <3> QED BY <2>2, <3>1 DEF SledMem, ProgramByte, read8, get_page
  <2> QED BY <2>3, <2>4
<1>5. CASE Reset \/ report \/ UNCHANGED bench_vars
  <2>1. UNCHANGED pages
    BY <1>5 DEF Reset, report, bench_vars, mem_vars
  <2>2. phase' = phase \/ (phase \notin {"construct", "halt"} /\ phase' \notin {"construct", "halt"})
    BY <1>5 DEF Reset, report, bench_vars
  <2> QED BY <2>1, <2>2 DEF SledMem, ProgramByte, read8, get_page
<1>6. ~Patch
  BY DEF Patch
<1> QED BY <1>2, <1>3, <1>4, <1>5, <1>6 DEF BenchNext

\* What waits behind no system call can retire in the next cycle.
LEMMA WaitingRetires ==
  ASSUME RetireInv, RetireInv', ~Blocked,
         NEW pu, NEW pv, NEW w0, NEW i, Plain(pu, pv, w0, i), NEW s \in Slot, Waiting(s)
  PROVE  can_retire_u'
<1>1. s = head'
  BY BecomesHead DEF RetireInv
<1>2. PICK q \in Held : queue[q].rob_tag = s
  BY DEF RetireInv, QInv, NothingDropped
<1>3. w0 # None /\ w0.tag = s
  <2>1. queue[q] \in Completing
    BY <1>2, Issued DEF RetireInv
  <2> QED BY <1>2, <2>1, OnTheBus DEF RetireInv, Plain
<1>4. ~Waiting(s)'
  BY <1>3, WaitingStep DEF RetireInv, Waiting
<1>5. entry_valid'[s]
  <2>1. s \notin Retired /\ entry_valid[s]
    BY DEF Retired, can_retire_u, can_retire_v, Waiting
  <2>2. Clock(patched_u(Dest, pu), None, w0, None)
    BY DEF Plain, Edge, patched_v
  <2> QED BY <2>1, <2>2 DEF Clock
<1> QED BY <1>1, <1>4, <1>5 DEF can_retire_u, Waiting

\* A block of the program reads the same after a tick.
LEMMA BlockStays ==
  ASSUME SledFits, SledMem, SledMem', phase = "run", phase' = "run",
         NEW k \in 0..(SledBlocks + N + 1)
  PROVE  read128(BlockAt(k), FetchBytes)' = read128(BlockAt(k), FetchBytes)
<1> DEFINE o == FetchBytes * k
<1>1. /\ FetchBytes \in Nat /\ Space \in Nat /\ ResetVector \in Nat /\ o \in Nat
      /\ o + FetchBytes <= Reach /\ Reach \in Nat /\ ResetVector + Reach <= Space
      /\ BlockAt(k) = ResetVector + o
  BY SledNumbers DEF BlockAt
<1> HIDE DEF o
<1>2. ASSUME NEW i \in 0..(FetchBytes - 1)
      PROVE  read8((BlockAt(k) + i) % Space)' = read8((BlockAt(k) + i) % Space)
  <2>1. o + i \in 0..(Reach - 1) /\ (BlockAt(k) + i) % Space = ResetVector + (o + i)
    BY <1>1
  <2> QED BY <2>1 DEF SledMem, ProgramByte
<1> QED BY <1>2 DEF read128, Word

\* A tick of a core in which no branch is about.
LEMMA SledTick ==
  ASSUME SledFits, BenchInv, BenchInv', (~can_retire_v)', KnownFetch, Quiet, cycle \in Nat, tick
  PROVE  /\ \E pu, pv, w0 : Plain(pu, pv, w0, fetched)
         /\ pc_current' = IF fetched # None /\ pipe_advance THEN Wrap(pc_current + FetchBytes)
                          ELSE pc_current
         /\ DecodeEdge(fetched)
         /\ accepts <=> count < N - 1
         /\ trained' = FALSE /\ predict_taken' = FALSE /\ free_map' # {}
         /\ \A q \in Held' : queue'[q].i.op_cat # "BRANCH"
         /\ cycle' = cycle + 1 /\ cycle' \in Nat /\ cycle' # 0
         /\ fetch_data' = read128(pc_current', FetchBytes)
         /\ head' = Plus(head, retire_count)
         /\ retire_count = IF can_retire_u THEN 1 ELSE 0
         /\ retire_count' = IF can_retire_u' THEN 1 ELSE 0
         /\ count' = count + (IF dispatch_u # None THEN 1 ELSE 0) - retire_count
         /\ retired_count' = IF can_retire_u' THEN retired_count + 1 ELSE retired_count
         /\ phase' = phase /\ phase = "run" /\ UNCHANGED <<patched, reported>>
<1>1. CoreEdge(fetched) /\ fetched \in Decoded \cup {None}
  BY FetchedIs DEF tick, BenchInv, fetched
<1>2. resolved = {} /\ ~flush
  <2>1. \A e \in Completing : e.i.op_cat # "BRANCH"
    BY Issued DEF BenchInv, RetireInv, Quiet
  <2> QED BY <2>1 DEF resolved, mispredicted, flush
<1>3. PICK pu, pv, w0 : Plain(pu, pv, w0, fetched) /\ FetchEdge(fetched) /\ PredictEdge
  BY <1>1, <1>2 DEF CoreEdge, Plain, Dest
<1>4. QInv /\ RInv /\ IInv /\ QInv'
  BY DEF BenchInv, RetireInv, QInv, RInv
<1>5. trained' = FALSE /\ predict_taken' = FALSE
  BY <1>2, <1>3 DEF PredictEdge, Quiet
<1>6. pc_current' = IF fetched # None /\ pipe_advance THEN Wrap(pc_current + FetchBytes)
                    ELSE pc_current
  BY <1>2, <1>3 DEF FetchEdge, pc_next, Quiet
<1>7. accepts <=> count < N - 1
  <2>1. N \in Nat /\ count \in Int
    BY <1>4, NAssumption DEF IInv, TypeOK
  <2> QED BY <2>1 DEF accepts, full, Quiet
<1>8. \A q \in Held' : queue'[q].i.op_cat # "BRANCH"
  <2> SUFFICES ASSUME NEW q \in Held' PROVE queue'[q].i.op_cat # "BRANCH"
    OBVIOUS
  <2>1. queue' = queue_next(pu)
    BY <1>3 DEF Plain
  <2> QED BY <2>1, QueueOrigins DEF Quiet
<1>9. ~flush'
  <2>1. \A e \in Completing' : \E q \in Held' : queue'[q] = e
    BY DEF Completing, issue_idx, Held, Grant, IqSlot
  <2>2. \A e \in Completing' : e.i.op_cat # "BRANCH"
    BY <1>8, <2>1
  <2> QED BY <2>2 DEF resolved, mispredicted, flush
<1>10. fetch_data' = read128(pc_current', FetchBytes)
  BY <1>9 DEF tick, service_fetch, fetch_req
<1>11. free_map' # {}
  <2>1. RenameClock(Dest, pu, None, pv, Written(w0, None))
    BY <1>3 DEF Plain, Edge
  <2>2. None \notin Arch /\ Dest \notin Arch
    <3>1. None \notin Arch /\ NoDest \notin Arch
      BY InstrAssumption, RegistersAssumption DEF Arch, NoDest
    <3> QED BY <3>1 DEF Dest, dispatch_u, Quiet
  <2>3. Allocation(Dest, pu, None, pv) = {}
    BY <2>2 DEF Allocation
  <2> QED BY <2>1, <2>3 DEF RenameClock, Quiet
<1>12. /\ head' = Plus(head, retire_count)
       /\ count' = count + (IF dispatch_u # None THEN 1 ELSE 0) - retire_count
  <2>1. Clock(patched_u(Dest, pu), None, w0, None)
    BY <1>3 DEF Plain, Edge, patched_v
  <2>2. patched_u(Dest, pu) # None <=> dispatch_u # None
    <3>1. pu \in PickU
      BY <1>3 DEF Plain
    <3>2. Granted(Dest, pu, None, pv)
      BY <1>3, <1>4, PlainRenames
    <3> QED BY <1>4, <3>1, <3>2, GrantedDispatch, Dispatched
  <2>3. retire_count \in Int /\ count \in Int
    BY <1>4 DEF retire_count, IInv, TypeOK
  <2> QED BY <2>1, <2>2, <2>3 DEF Clock, dispatch_count
<1>13. ~can_retire_v /\ ~can_retire_v'
  BY OnePort DEF BenchInv
<1>14. cycle' = cycle + 1 /\ cycle' \in Nat /\ cycle' # 0
  BY DEF tick
<1> QED BY <1>3, <1>5, <1>6, <1>7, <1>8, <1>10, <1>11, <1>12, <1>13, <1>14
        DEF Plain, retire_count, tick, running, trace_valid

\* The halt is still to come: the cycle says where everything is.
LEMMA BeforeStep ==
  ASSUME SledFits, BenchInv, BenchInv', (~can_retire_v)', SledMem, SledMem', Quiet,
         Before, cycle \in Nat, cycle < SledBlocks + 4, tick
  PROVE  Quiet' /\ IF cycle' < SledBlocks + 4 THEN Before' ELSE Behind'
<1> DEFINE k == IF cycle = 0 THEN 0 ELSE cycle - 1
<1>1. /\ SledBlocks \in Nat /\ SledBlocks > 0 /\ N \in Nat /\ N >= 4
      /\ k \in 0..(SledBlocks + N + 1) /\ k + 1 \in 0..(SledBlocks + N + 1) /\ k \in Nat
  BY SledNumbers
<1>2. pc_current = BlockAt(k) /\ phase = "run"
  BY DEF Before, tick, running
<1>3. KnownFetch /\ IF cycle = 0 THEN fetched = None ELSE OfSled(fetched, k)
  <2>1. CASE cycle = 0
    BY <2>1 DEF Quiet, KnownFetch, fetched
  <2>2. CASE cycle # 0
    <3>1. fetch_data = read128(pc_current, FetchBytes)
      BY <2>2 DEF Quiet
    <3>2. fetch_data # None
      <4>1. fetch_data = Word(pc_current, FetchBytes)
        BY <3>1 DEF read128
      <4>2. Word(pc_current, FetchBytes) \in Block
        BY ReadBytes, BlockAssumption DEF BenchInv, FetchInv, Block
      <4> QED BY <4>1, <4>2, BlockAssumption
    <3> QED BY <1>1, <1>2, <2>2, <3>1, <3>2, FetchedOfSled
  <2> QED BY <2>1, <2>2
<1> HIDE DEF k
<1>4. /\ \E pu, pv, w0 : Plain(pu, pv, w0, fetched)
      /\ pc_current' = IF fetched # None /\ pipe_advance THEN Wrap(pc_current + FetchBytes)
                       ELSE pc_current
      /\ DecodeEdge(fetched)
      /\ accepts <=> count < N - 1
      /\ trained' = FALSE /\ predict_taken' = FALSE /\ free_map' # {}
      /\ \A q \in Held' : queue'[q].i.op_cat # "BRANCH"
      /\ cycle' = cycle + 1 /\ cycle' \in Nat /\ cycle' # 0
      /\ fetch_data' = read128(pc_current', FetchBytes)
      /\ head' = Plus(head, retire_count)
      /\ retire_count = IF can_retire_u THEN 1 ELSE 0
      /\ retire_count' = IF can_retire_u' THEN 1 ELSE 0
      /\ count' = count + (IF dispatch_u # None THEN 1 ELSE 0) - retire_count
      /\ retired_count' = IF can_retire_u' THEN retired_count + 1 ELSE retired_count
      /\ phase' = phase /\ phase = "run"
  BY <1>3, SledTick
<1>5. /\ count = IF cycle < 4 THEN 0 ELSE IF cycle = 4 THEN 1 ELSE 2
      /\ can_retire_u <=> cycle >= 5
      /\ retired_count = IF cycle < 4 THEN 0 ELSE cycle - 4
      /\ IF cycle < 2 THEN s1 = None ELSE OfSled(s1, cycle - 2)
      /\ IF cycle < 3 THEN instr_u = None ELSE OfSled(instr_u, cycle - 3)
      /\ ~Blocked
  BY DEF Before
<1>6. accepts
  BY <1>1, <1>4, <1>5
<1>7. /\ s1' = fetched
      /\ instr_u' = s1
      /\ dispatch_u = instr_u
  BY <1>4, <1>6 DEF DecodeEdge, pipe_advance, dispatch_u
<1>8. dispatch_u # None <=> cycle >= 3
  BY <1>5, <1>7 DEF OfSled
<1>9. count' = IF cycle' < 4 THEN 0 ELSE IF cycle' = 4 THEN 1 ELSE 2
  BY <1>4, <1>5, <1>8
<1>10. pc_current' = BlockAt(cycle' - 1) /\ cycle' - 1 \in 0..(SledBlocks + N + 1)
  <2>1. CASE cycle = 0
    <3>1. k = 0 /\ cycle' - 1 = 0
      BY <1>4, <2>1 DEF k
    <3> QED BY <1>1, <1>2, <1>3, <1>4, <2>1, <3>1
  <2>2. CASE cycle # 0
    <3>1. k + 1 = cycle' - 1
      BY <1>4, <2>2 DEF k
    <3>2. pc_current' = Wrap(pc_current + FetchBytes)
      BY <1>3, <1>4, <1>6, <2>2 DEF OfSled, pipe_advance
    <3>3. k < SledBlocks + N + 1
      BY <1>1
    <3>4. BlockAt(k) + FetchBytes = BlockAt(k + 1) /\ BlockAt(k + 1) \in Addr
      BY <1>1, <3>3, SledNumbers
    <3>5. Wrap(BlockAt(k + 1)) = BlockAt(k + 1)
      <4>1. \A x \in Addr : x % Space = x
        <5>1. Space \in Nat /\ Space > 0
          BY SledNumbers
        <5> QED BY <5>1 DEF Addr
      <4> QED BY <3>4, <4>1, SledNumbers DEF Wrap
    <3> QED BY <1>1, <1>2, <3>1, <3>2, <3>4, <3>5
  <2> QED BY <2>1, <2>2
<1>11. fetch_data' = read128(pc_current, FetchBytes)'
  <2>1. PICK j \in 0..(SledBlocks + N + 1) : pc_current' = BlockAt(j)
    BY <1>10
  <2>2. read128(BlockAt(j), FetchBytes)' = read128(BlockAt(j), FetchBytes)
    BY <1>4, BlockStays
  <2> QED BY <1>4, <2>1, <2>2 DEF read128, Word, read8, get_page
<1>12. Quiet'
  <2>1. \A x \in {s1', instr_u'} \ {None} : x.op_cat # "BRANCH" /\ x.dest = NoDest
    BY <1>3, <1>7 DEF Quiet, OfSled
  <2> QED BY <1>4, <1>11, <2>1 DEF Quiet
<1>13. IF cycle' < 2 THEN s1' = None ELSE OfSled(s1, cycle - 2)'
  BY <1>3, <1>4, <1>7 DEF k, OfSled
<1>14. IF cycle' < 3 THEN instr_u' = None ELSE OfSled(instr_u, cycle - 3)'
  BY <1>4, <1>5, <1>7 DEF OfSled
<1>15. can_retire_u' <=> cycle' >= 5
  <2>1. PICK pu, pv, w0 : Plain(pu, pv, w0, fetched)
    BY <1>4
  <2>2. RetireInv /\ RetireInv' /\ QInv /\ IInv /\ IInv'
    BY DEF BenchInv, RetireInv, QInv, RInv
  <2>3. \A s \in Slot : entry_valid[s] <=> Age(s) < count
    BY <2>2, ContiguousAge DEF IInv
  <2>4. \A s \in Slot : Age(s) \in 0..(N - 1)
    BY <2>2, AgeRange
  <2>5. head \in Slot /\ Age(head) = 0 /\ Plus(head, 1) \in Slot /\ Age(Plus(head, 1)) = 1
    BY <2>2, HeadAge
  <2>6. can_retire_u' => count' > 0 /\ head' \in Slot /\ entry_valid'[head'] /\ entry_complete'[head']
    <3>1. head' \in 0..(N - 1) /\ count' \in Nat /\ N \in Nat
      BY <1>1, <2>2 DEF IInv, TypeOK, Slot
    <3>2. entry_valid'[head'] => count' > 0
      <4>1. \A s \in Slot : entry_valid'[s] <=>
              IF s >= head' THEN s - head' < count' ELSE s + N - head' < count'
        BY <2>2 DEF IInv, Contiguous
      <4>2. head' \in Slot
        BY <3>1 DEF Slot
      <4>3. entry_valid'[head'] <=>
              IF head' >= head' THEN head' - head' < count' ELSE head' + N - head' < count'
        BY <4>1, <4>2
      <4>4. \A h \in Int : h >= h /\ h - h = 0
        OBVIOUS
      <4>5. head' \in Int
        BY <3>1
      <4> QED BY <4>3, <4>4, <4>5
    <3> QED BY <3>1, <3>2 DEF can_retire_u, Slot
  <2>7. CASE cycle < 3
    BY <1>4, <1>9, <2>6, <2>7
  <2>8. CASE cycle = 3
    <3>1. \A s \in Slot : ~entry_valid[s]
      BY <1>5, <2>3, <2>4, <2>8
    <3>2. \A s \in Slot : entry_valid'[s] /\ entry_complete'[s] => entry_valid[s]
      BY <2>1, <2>2, WaitingStep DEF Waiting
    <3> QED BY <1>4, <2>6, <2>8, <3>1, <3>2
  <2>9. CASE cycle = 4
    <3>1. Waiting(head)
      BY <1>5, <2>3, <2>5, <2>9 DEF can_retire_u, Waiting
    <3>2. can_retire_u'
      BY <1>5, <2>1, <2>2, <2>5, <3>1, WaitingRetires
    <3> QED BY <1>4, <2>9, <3>2
  <2>10. CASE cycle > 4
    <3> DEFINE s == Plus(head, 1)
    <3>1. s \in Slot /\ Age(s) = 1 /\ s # head
      BY <2>5
    <3> HIDE DEF s
    <3>2. entry_valid[s]
      BY <1>5, <2>3, <2>10, <3>1
    <3>3. ~entry_complete[s]
      BY <1>5, <2>2, <3>1, <3>2 DEF RetireInv, DoneAtHead, Calls, Blocked
    <3>4. can_retire_u'
      BY <1>5, <2>1, <2>2, <3>1, <3>2, <3>3, WaitingRetires DEF Waiting
    <3> QED BY <1>4, <2>10, <3>4
  <2> QED BY <2>7, <2>8, <2>9, <2>10
<1>16. retired_count' = IF cycle' < 4 THEN 0 ELSE cycle' - 4
  BY <1>4, <1>5, <1>15
<1>17. PICK pu, pv, w0 : Plain(pu, pv, w0, fetched)
  BY <1>4
<1>18. QInv /\ QInv'
  BY DEF BenchInv, RetireInv
<1>19. \A q \in Held' : q \in IqSlot /\ New(q) /\ queue'[q].i = instr_u /\ queue'[q].rob_tag = tail
  <2>1. \A q \in Held : queue[q] \in Completing
    BY <1>5, <1>18, Issued
  <2>2. \A q \in Held' : q \in IqSlot /\ New(q)
    BY <1>17, <1>18, <2>1, QueueStep DEF Held, IqSlot, Old
  <2> QED BY <1>7, <1>17, <1>18, <2>2, QueueStep
<1>20. CASE cycle' < SledBlocks + 4
  <2>1. ~Blocked'
    <3> SUFFICES ASSUME NEW q \in Held', queue'[q].i.op_cat = "SYS_CALL" PROVE FALSE
      BY DEF Blocked
    <3>1. queue'[q].i = instr_u /\ cycle >= 3
      BY <1>8, <1>19 DEF New
    <3>2. OfSled(instr_u, cycle - 3) /\ cycle - 3 # SledBlocks
      BY <1>1, <1>4, <1>5, <1>20, <3>1
    <3> QED BY <3>1, <3>2 DEF OfSled
  <2>2. pc_current' = BlockAt(IF cycle' = 0 THEN 0 ELSE cycle' - 1)
    BY <1>4, <1>10
  <2>3. Before'
    BY <1>9, <1>13, <1>14, <1>15, <1>16, <2>1, <2>2 DEF Before, BlockAt, OfSled
  <2> QED BY <1>12, <1>20, <2>3
<1>21. CASE ~(cycle' < SledBlocks + 4)
  <2>1. cycle = SledBlocks + 3 /\ cycle' = SledBlocks + 4 /\ cycle > 3
    BY <1>1, <1>4, <1>21
  <2>2. count' = 2 /\ can_retire_u' /\ retire_count' = 1 /\ retired_count' = SledBlocks
    BY <1>1, <1>4, <1>9, <1>15, <1>16, <2>1
  <2>3. SledBlocks + 2 + count' - retire_count' = cycle' - 1
    BY <1>1, <2>1, <2>2
  <2>4. OfSled(instr_u, SledBlocks) /\ dispatch_u # None
    BY <1>1, <1>5, <1>8, <2>1
  <2>5. PICK q \in IqSlot : New(q)
    <3> DEFINE F == {q \in IqSlot : queue[q] = None}
    <3>1. \A q, r \in Held : q = r
      BY <1>5, <1>18 DEF QInv, Unblocked
    <3>2. 0 \in IqSlot /\ 1 \in IqSlot
      BY QueueAssumption DEF IqSlot
    <3>3. 0 \in F \/ 1 \in F
      BY <3>1, <3>2 DEF Held
    <3>4. \A q \in F : q \in Nat
      BY QueueAssumption DEF IqSlot
    <3>5. \E q \in F : \A r \in F : q <= r
      <4>1. CASE 0 \in F
        BY <3>4, <4>1
      <4>2. CASE 0 \notin F
        <5>1. 1 \in F /\ \A r \in F : r # 0
          BY <3>3, <4>2
        <5> QED BY <3>4, <5>1
      <4> QED BY <4>1, <4>2
    <3>6. free_idx = Grant(F)
      BY DEF free_idx
    <3> QED BY <2>4, <3>5, <3>6 DEF Grant, New
  <2>6. q \in Held' /\ queue'[q].i = instr_u /\ queue'[q].rob_tag = tail
    BY <1>17, <1>18, <1>19, <2>5, QueueStep
  <2>7. q \in Calls'
    BY <2>4, <2>6 DEF Calls, OfSled
  <2>8. tail = Plus(head', 1)
    <3>1. IInv
      BY <1>18 DEF QInv, RInv
    <3>2. tail = Plus(head, count) /\ head \in 0..(N - 1)
      BY <3>1 DEF IInv, Contiguous, TypeOK, Slot
    <3>3. count = retire_count + 1 /\ retire_count \in 0..1
      BY <1>4, <1>5, <2>1
    <3> QED BY <1>1, <1>4, <3>2, <3>3 DEF Plus
  <2>9. s1' # None /\ instr_u' # None
    BY <1>3, <1>5, <1>7, <2>1 DEF OfSled
  <2>10. \E r \in Calls' : queue'[r].rob_tag = Plus(head', retire_count')
    BY <2>2, <2>6, <2>7, <2>8
  <2>11. pc_current' = BlockAt(SledBlocks + 2 + count' - retire_count')
    BY <1>10, <2>3
  <2>12. count' < N
    BY <1>1, <2>2
  <2>13. Behind'
    BY <2>1, <2>2, <2>9, <2>10, <2>11, <2>12 DEF Behind, BlockAt, Plus
  <2> QED BY <1>12, <1>21, <2>13
<1> QED BY <1>20, <1>21

\* The halt is on its way to the head, or there: nothing retires any more, and
\* the buffer fills.
LEMMA BehindStep ==
  ASSUME SledFits, BenchInv, BenchInv', (~can_retire_v)', SledMem, SledMem', Quiet,
         Behind, cycle \in Nat, cycle >= SledBlocks + 4, tick
  PROVE  Quiet' /\ Behind' /\ cycle' > SledBlocks + 4
<1> DEFINE k == SledBlocks + 2 + count - retire_count
<1>1. SledBlocks \in Nat /\ SledBlocks > 0 /\ N \in Nat /\ N >= 4
  BY SledNumbers
<1>2. QInv /\ QInv' /\ IInv /\ IInv'
  BY DEF BenchInv, RetireInv, QInv, RInv
<1>3. count \in Nat /\ count < N /\ retire_count \in 0..1
  <2>1. ~can_retire_v
    BY OnePort DEF BenchInv
  <2> QED BY <1>1, <1>2, <2>1 DEF IInv, TypeOK, Behind, retire_count
<1>4. k \in 0..(SledBlocks + N + 1) /\ k \in Nat
  BY <1>1, <1>3
<1>5. pc_current = BlockAt(k) /\ phase = "run"
  BY DEF Behind, tick, running
<1>6. KnownFetch /\ OfSled(fetched, k)
  <2>1. fetch_data = read128(pc_current, FetchBytes)
    BY <1>1 DEF Quiet
  <2>2. fetch_data # None
    <3>1. fetch_data = Word(pc_current, FetchBytes)
      BY <2>1 DEF read128
    <3>2. Word(pc_current, FetchBytes) \in Block
      BY ReadBytes, BlockAssumption DEF BenchInv, FetchInv, Block
    <3> QED BY <3>1, <3>2, BlockAssumption
  <2> QED BY <1>4, <1>5, <2>1, <2>2, FetchedOfSled
<1>7. /\ \E pu, pv, w0 : Plain(pu, pv, w0, fetched)
      /\ pc_current' = IF fetched # None /\ pipe_advance THEN Wrap(pc_current + FetchBytes)
                       ELSE pc_current
      /\ DecodeEdge(fetched)
      /\ accepts <=> count < N - 1
      /\ trained' = FALSE /\ predict_taken' = FALSE /\ free_map' # {}
      /\ \A q \in Held' : queue'[q].i.op_cat # "BRANCH"
      /\ cycle' = cycle + 1 /\ cycle' \in Nat /\ cycle' # 0
      /\ fetch_data' = read128(pc_current', FetchBytes)
      /\ head' = Plus(head, retire_count)
      /\ retire_count = IF can_retire_u THEN 1 ELSE 0
      /\ retire_count' = IF can_retire_u' THEN 1 ELSE 0
      /\ count' = count + (IF dispatch_u # None THEN 1 ELSE 0) - retire_count
      /\ retired_count' = IF can_retire_u' THEN retired_count + 1 ELSE retired_count
      /\ phase' = phase /\ phase = "run"
  BY <1>6, SledTick
<1>8. s1 # None /\ instr_u # None /\ fetched # None /\ (pipe_advance <=> accepts)
  BY <1>6 DEF Behind, OfSled, pipe_advance
<1>9. ~can_retire_u' /\ \E r \in Calls' : queue'[r].rob_tag = head'
  <2>1. PICK r \in Calls : queue[r].rob_tag = Plus(head, retire_count)
    BY DEF Behind
  <2>2. PICK pu, pv, w0 : Plain(pu, pv, w0, fetched)
    BY <1>7
  <2>3. r \in Calls' /\ queue'[r].rob_tag = queue[r].rob_tag
    BY <1>2, <2>2, CallStays
  <2>4. queue'[r].rob_tag = head'
    BY <1>7, <2>1, <2>3
  <2>5. Waiting(head)'
    BY <1>2, <2>3, <2>4 DEF QInv, QueueWaits, Calls, Waiting
  <2> QED BY <2>3, <2>4, <2>5 DEF Waiting, can_retire_u
<1>10. retire_count' = 0 /\ Plus(head', retire_count') = head'
  <2>1. head' \in 0..(N - 1)
    BY <1>2 DEF IInv, TypeOK, Slot
  <2>2. \A h \in 0..(N - 1) : Plus(h, 0) = h
    BY NAssumption DEF Plus
  <2> QED BY <1>7, <1>9, <2>1, <2>2
<1>11. cycle' > SledBlocks + 4
  BY <1>1, <1>7
<1>12. /\ count' \in Nat /\ count' < N
       /\ pc_current' = BlockAt(SledBlocks + 2 + count' - retire_count')
       /\ SledBlocks + 2 + count' - retire_count' \in 0..(SledBlocks + N + 1)
       /\ s1' # None /\ instr_u' # None
       /\ \A x \in {s1', instr_u'} \ {None} : x.op_cat # "BRANCH" /\ x.dest = NoDest
  <2>1. count' \in Nat
    BY <1>2, NAssumption DEF IInv, TypeOK
  <2>2. \A x \in {s1, instr_u} \ {None} : x.op_cat # "BRANCH" /\ x.dest = NoDest
    BY DEF Quiet
  <2>3. CASE accepts
    <3>1. count' = count + 1 - retire_count /\ count < N - 1
      BY <1>7, <1>8, <2>3 DEF dispatch_u
    <3>2. s1' = fetched /\ instr_u' = s1
      BY <1>7, <1>8, <2>3 DEF DecodeEdge
    <3>3. SledBlocks + 2 + count' - retire_count' = k + 1 /\ k < SledBlocks + N + 1
      BY <1>1, <1>3, <1>10, <3>1
    <3>4. pc_current' = Wrap(BlockAt(k) + FetchBytes)
      BY <1>5, <1>7, <1>8, <2>3
    <3>5. k + 1 \in 0..(SledBlocks + N + 1)
      BY <1>1, <1>4, <3>3
    <3>6. BlockAt(k) + FetchBytes = BlockAt(k + 1) /\ BlockAt(k + 1) \in Addr
      BY <1>4, <3>3, <3>5, SledNumbers
    <3>7. Wrap(BlockAt(k + 1)) = BlockAt(k + 1)
      <4>1. Space \in Nat /\ Space > 0 /\ PcSpace = Space
        BY SledNumbers
      <4>2. \A x \in Addr : x % Space = x
        BY <4>1 DEF Addr
      <4> QED BY <3>6, <4>1, <4>2 DEF Wrap
    <3>8. pc_current' = BlockAt(k + 1)
      BY <3>4, <3>6, <3>7
    <3>9. fetched.op_cat # "BRANCH" /\ fetched.dest = NoDest
      BY <1>6 DEF OfSled
    <3>10. count' < N
      BY <1>1, <1>3, <3>1
    <3> HIDE DEF k
    <3> QED BY <1>8, <2>1, <2>2, <3>2, <3>3, <3>5, <3>8, <3>9, <3>10
  <2>4. CASE ~accepts
    <3>1. count' = count - retire_count
      BY <1>3, <1>7, <2>4 DEF dispatch_u
    <3>2. s1' = s1 /\ instr_u' = instr_u /\ pc_current' = pc_current
      BY <1>7, <1>8, <2>4 DEF DecodeEdge
    <3>3. SledBlocks + 2 + count' - retire_count' = k
      BY <1>1, <1>3, <1>10, <3>1
    <3>4. count' < N
      BY <1>1, <1>3, <3>1
    <3> HIDE DEF k
    <3> QED BY <1>4, <1>5, <1>8, <2>1, <2>2, <3>2, <3>3, <3>4
  <2> QED BY <2>3, <2>4
<1>13. fetch_data' = read128(pc_current, FetchBytes)'
  <2>1. PICK j \in 0..(SledBlocks + N + 1) : pc_current' = BlockAt(j)
    BY <1>12
  <2>2. read128(BlockAt(j), FetchBytes)' = read128(BlockAt(j), FetchBytes)
    BY <1>7, BlockStays
  <2> QED BY <1>7, <2>1, <2>2 DEF read128, Word, read8, get_page
<1>14. Quiet'
  BY <1>7, <1>12, <1>13 DEF Quiet
<1>15. \E r \in Calls' : queue'[r].rob_tag = Plus(head', retire_count')
  BY <1>9, <1>10
<1>16. retired_count' = SledBlocks
  BY <1>7, <1>9 DEF Behind
<1>17. can_retire_u' <=> cycle' = SledBlocks + 4
  BY <1>1, <1>7, <1>9, <1>11
<1>18. Behind'
  BY <1>12, <1>15, <1>16, <1>17 DEF Behind, BlockAt, Plus
<1> QED BY <1>11, <1>14, <1>18

LEMMA SledInit ==
  ASSUME SledFits, BenchInit
  PROVE  SledRun
<1>1. BenchInv
  BY InitBenchInv
<1>2. SledMem
  <2>1. ASSUME NEW a \in Addr PROVE page_of(a) \in PageNum
    BY <2>1, AddressParts
  <2>2. phase = "construct" /\ \A p \in PageNum : pages[p] = Nothing
    BY DEF BenchInit, MemInit
  <2>3. Unmapped = GRP5
    BY DEF SledFits
  <2> QED BY <2>1, <2>2, <2>3 DEF SledMem, read8, get_page
<1>3. Held = {}
  BY DEF BenchInit, CoreInit, Held
<1>4. cycle = 0 /\ retired_count = 0 /\ fetch_data = None /\ phase = "construct"
      /\ pc_current = ResetVector /\ s1 = None /\ instr_u = None
      /\ trained = FALSE /\ predict_taken = FALSE
  BY DEF BenchInit, CoreInit
<1>5. free_map # {}
  <2>1. A \in Nat /\ P \in Nat /\ P > A
    BY RegistersAssumption DEF SledFits
  <2>2. A \in Phys \ Arch
    BY <2>1 DEF Phys, Arch
  <2> QED BY <2>2 DEF BenchInit, CoreInit, RenameInit
<1>6. Quiet
  BY <1>3, <1>4, <1>5 DEF Quiet
<1>7. Before
  <2>1. BlockAt(0) = ResetVector
    BY SledNumbers DEF BlockAt
  <2>2. ~can_retire_u
    <3>1. head = 0 /\ 0 \in Slot
      BY NAssumption DEF BenchInit, CoreInit, RenameInit, Init, Slot
    <3> QED BY <3>1 DEF can_retire_u, BenchInit, CoreInit, RenameInit, Init
  <2>3. count = 0
    BY DEF BenchInit, CoreInit, RenameInit, Init
  <2> QED BY <1>3, <1>4, <2>1, <2>2, <2>3 DEF Before, Blocked
<1> QED BY <1>1, <1>2, <1>4, <1>6, <1>7, SledNumbers DEF SledRun

LEMMA SledFetch == SledFits /\ SledRun => KnownFetch
<1> SUFFICES ASSUME SledFits, SledRun PROVE KnownFetch
  OBVIOUS
<1>1. SledBlocks \in Nat /\ SledBlocks > 0 /\ N \in Nat /\ N >= 4 /\ cycle \in Nat
  BY SledNumbers DEF SledRun
<1>2. CASE fetch_data = None
  BY <1>2 DEF KnownFetch
<1>3. CASE fetch_data # None
  <2>1. /\ fetch_data = read128(pc_current, FetchBytes) /\ cycle # 0
        /\ phase \in {"run", "done"} /\ SledMem
    BY <1>3 DEF SledRun, Quiet
  <2>2. PICK k \in 0..(SledBlocks + N + 1) : pc_current = BlockAt(k)
    <3>1. CASE cycle < SledBlocks + 4
      <4>1. pc_current = BlockAt(cycle - 1)
        BY <2>1, <3>1 DEF SledRun, Before
      <4>2. cycle - 1 \in 0..(SledBlocks + N + 1)
        BY <1>1, <2>1, <3>1
      <4> QED BY <4>1, <4>2
    <3>2. CASE ~(cycle < SledBlocks + 4)
      <4>1. pc_current = BlockAt(SledBlocks + 2 + count - retire_count) /\ count < N
        BY <3>2 DEF SledRun, Behind
      <4>2. count \in Nat
        BY NAssumption DEF SledRun, BenchInv, RetireInv, QInv, RInv, IInv, TypeOK
      <4>3. retire_count \in 0..1
        BY OnePort DEF SledRun, BenchInv, retire_count
      <4>4. SledBlocks + 2 + count - retire_count \in 0..(SledBlocks + N + 1)
        BY <1>1, <4>1, <4>2, <4>3
      <4> QED BY <4>1, <4>4
    <3> QED BY <3>1, <3>2
  <2> QED BY <1>3, <2>1, <2>2, FetchedOfSled
<1> QED BY <1>2, <1>3

LEMMA SledNext ==
  ASSUME SledFits, SledRun, BenchInv', (~can_retire_v)', [BenchNext]_bench_vars, ~patched'
  PROVE  SledRun'
<1>1. SledBlocks \in Nat /\ SledBlocks > 0 /\ N \in Nat /\ N >= 4 /\ cycle \in Nat
  BY SledNumbers DEF SledRun
<1>2. BenchInv /\ SledMem /\ Quiet
  BY DEF SledRun
<1>3. SledMem'
  BY <1>2, NextSledMem DEF BenchInv
<1>4. CASE tick
  <2>1. cycle' = cycle + 1 /\ phase = "run" /\ phase' = "run"
    BY <1>4 DEF tick, running
  <2>2. Quiet' /\ IF cycle' < SledBlocks + 4 THEN Before' ELSE Behind'
    <3>1. CASE cycle < SledBlocks + 4
      BY <1>1, <1>2, <1>3, <1>4, <3>1, BeforeStep DEF SledRun
    <3>2. CASE ~(cycle < SledBlocks + 4)
      <4>1. cycle >= SledBlocks + 4
        BY <1>1, <3>2
      <4>2. Behind
        BY <3>2 DEF SledRun
      <4>3. Quiet' /\ Behind' /\ cycle' > SledBlocks + 4
        BY <1>1, <1>2, <1>3, <1>4, <4>1, <4>2, BehindStep
      <4> QED BY <1>1, <2>1, <4>1, <4>3
    <3> QED BY <3>1, <3>2
  <2>3. cycle' \in Nat /\ SledBlocks' = SledBlocks
    BY <1>1, <2>1 DEF SledBlocks
  <2> QED BY <1>3, <2>1, <2>2, <2>3 DEF SledRun
<1>5. CASE ~tick
  <2>1. UNCHANGED <<core_vars, cycle, retired_count>>
    BY <1>5 DEF BenchNext, Construct, PlaceHalt, Patch, Reset, report, bench_vars, counters
  <2>2. /\ UNCHANGED <<pc_current, s1, instr_u, queue, predict_taken, trained, free_map>>
        /\ UNCHANGED <<entry_valid, entry_complete, entry_exception, head, count>>
    BY <2>1 DEF core_vars, front_vars, rename_vars, vars
  <2>3. fetch_data' = IF cycle' = 0 THEN None ELSE read128(pc_current, FetchBytes)'
    <3>1. CASE cycle = 0
      <4>1. fetch_data = None
        BY <1>2, <3>1 DEF Quiet
      <4>2. fetch_data' = fetch_data \/ fetch_data' = None
        BY <1>5 DEF BenchNext, Construct, PlaceHalt, Patch, Reset, report, bench_vars, pins
      <4> QED BY <2>1, <3>1, <4>1, <4>2
    <3>2. CASE cycle # 0
      <4>1. phase \in {"run", "done"}
        BY <3>2 DEF SledRun
      <4>2. UNCHANGED <<fetch_data, pages>>
        BY <1>5, <4>1
           DEF BenchNext, Construct, PlaceHalt, Patch, Reset, report, bench_vars, pins, mem_vars
      <4> QED BY <1>2, <2>1, <2>2, <3>2, <4>2 DEF Quiet, read128, Word, read8, get_page
    <3> QED BY <3>1, <3>2
  <2>4. Held' = Held
    BY <2>2 DEF Held, IqSlot
  <2>5. Quiet'
    BY <1>2, <2>1, <2>2, <2>3, <2>4 DEF Quiet
  <2>6. (can_retire_u' <=> can_retire_u) /\ retire_count' = retire_count /\ Calls' = Calls
    BY <2>2, <2>4 DEF can_retire_u, can_retire_v, retire_count, Plus, Calls
  <2>7. Before => Before'
    BY <2>1, <2>2, <2>4, <2>6 DEF Before, OfSled, BlockAt, Blocked
  <2>8. Behind => Behind'
    BY <2>1, <2>2, <2>6 DEF Behind, BlockAt, Plus
  <2>9. phase' \in {"run", "done"} \/ cycle' = 0
    BY <1>5, <2>1 DEF SledRun, BenchNext, Construct, PlaceHalt, Patch, Reset, report, bench_vars
  <2>10. phase' = "done" => reported'.retired = SledBlocks /\ ~reported'.warning
    <3>1. CASE report
      <4>1. cycle = MaxCycles /\ reported'.retired = retired_count
            /\ reported'.warning = (retired_count = 0)
        BY <3>1 DEF report
      <4>2. MaxCycles \in Nat /\ ~(cycle < SledBlocks + 4)
        BY <1>1, <4>1, BenchAssumption DEF SledFits
      <4>3. retired_count = SledBlocks
        BY <4>2 DEF SledRun, Behind
      <4>4. ~(retired_count = 0)
        BY <1>1, <4>3
      <4>5. ~reported'.warning
        BY <4>1, <4>4, Zenon
      <4> QED BY <4>1, <4>3, <4>5
    <3>2. CASE ~report
      <4>1. phase' = "done" => phase = "done" /\ reported' = reported
        BY <1>5, <3>2 DEF BenchNext, Construct, PlaceHalt, Patch, Reset, bench_vars
      <4> QED BY <4>1 DEF SledRun
    <3> QED BY <3>1, <3>2
  <2>11. cycle' \in Nat /\ IF cycle' < SledBlocks + 4 THEN Before' ELSE Behind'
    BY <1>1, <2>1, <2>7, <2>8 DEF SledRun
  <2> QED BY <1>3, <2>5, <2>9, <2>10, <2>11 DEF SledRun, SledBlocks
<1> QED BY <1>4, <1>5

LEMMA SledAlways == SledFits => (BenchSpec => [](~patched => SledRun))
<1> SUFFICES ASSUME SledFits PROVE BenchSpec => [](~patched => SledRun)
  OBVIOUS
<1>1. BenchInit => (~patched => SledRun)
  BY SledInit
<1>2. SledRun => BenchInv /\ KnownFetch
  BY SledFetch DEF SledRun
<1>3. BenchInv => ~can_retire_v
  BY OnePort DEF BenchInv
<1>4. SledRun /\ BenchInv' /\ (~can_retire_v)' /\ [BenchNext]_bench_vars /\ ~patched' => SledRun'
  BY SledNext
<1>5. [BenchNext]_bench_vars /\ ~patched' => ~patched
  BY DEF BenchNext, Construct, PlaceHalt, Patch, Reset, tick, report, bench_vars
<1> QED BY NextBenchInv, <1>1, <1>2, <1>3, <1>4, <1>5, PTL DEF BenchSpec

\* The program as constructed holds only instructions that Opcode knows, as far
\* as a run gets: what the theorems above assume of the program is true of it.
THEOREM SledIsKnown == SledFits => (BenchSpec => [](~patched => KnownFetch))
<1> SUFFICES ASSUME SledFits PROVE BenchSpec => [](~patched => KnownFetch)
  OBVIOUS
<1>1. SledRun => KnownFetch
  BY SledFetch
<1> QED BY SledAlways, <1>1, PTL

\* The program as constructed: one instruction of each block retires, however
\* the halt that nothing completes holds up those behind it, and main does not
\* warn.
THEOREM SledRunsToHalt == SledFits => (BenchSpec => []SledRetires)
<1> SUFFICES ASSUME SledFits PROVE BenchSpec => []SledRetires
  OBVIOUS
<1>1. (~patched => SledRun) => SledRetires
  BY DEF SledRun, SledRetires
<1> QED BY SledAlways, <1>1, PTL

\* On the way there it keeps pace with the clock: four edges after reset the
\* first instruction is done, then one retires at each edge, never two and none
\* late, and from the halt on none at all.
THEOREM SledKeepsPace ==
  SledFits =>
    (BenchSpec => [](~patched => retired_count = IF cycle < 4 THEN 0
                                                 ELSE IF cycle < SledBlocks + 4 THEN cycle - 4
                                                      ELSE SledBlocks))
<1> SUFFICES ASSUME SledFits
             PROVE  BenchSpec =>
                      [](~patched => retired_count = IF cycle < 4 THEN 0
                                                     ELSE IF cycle < SledBlocks + 4 THEN cycle - 4
                                                          ELSE SledBlocks)
  OBVIOUS
<1>1. SledRun => retired_count = IF cycle < 4 THEN 0
                                 ELSE IF cycle < SledBlocks + 4 THEN cycle - 4
                                      ELSE SledBlocks
  <2> SUFFICES ASSUME SledRun
               PROVE  retired_count = IF cycle < 4 THEN 0
                                      ELSE IF cycle < SledBlocks + 4 THEN cycle - 4
                                           ELSE SledBlocks
    OBVIOUS
  <2>1. SledBlocks \in Nat /\ cycle \in Nat
    BY SledNumbers DEF SledRun
  <2>2. CASE cycle < SledBlocks + 4
    <3>1. retired_count = IF cycle < 4 THEN 0 ELSE cycle - 4
      BY <2>2 DEF SledRun, Before
    <3> QED BY <2>2, <3>1
  <2>3. CASE ~(cycle < SledBlocks + 4)
    <3>1. retired_count = SledBlocks
      BY <2>3 DEF SledRun, Behind
    <3>2. ~(cycle < 4)
      BY <2>1, <2>3
    <3> QED BY <2>3, <3>1, <3>2
  <2> QED BY <2>2, <2>3
<1> QED BY SledAlways, <1>1, PTL

\* The testbench as it is built, nothing patched and no store by the data port:
\* everything above holds of it, with no assumption on what is fetched or stored
\* left over.
THEOREM SledIsRight ==
  SledFits /\ Patches = {} /\ (\A r \in DataRequest : ~r.wr) =>
    (BenchSpec => /\ []BenchTypeOK /\ []SledRetires /\ []DecodesTheProgram
                  /\ []QueueMatchesBuffer /\ []WaitsForAnOlder
                  /\ HandOver /\ CountsEveryRetirement /\ DrivesRename /\ InProgramOrder)
<1> SUFFICES ASSUME SledFits, Patches = {}, \A r \in DataRequest : ~r.wr
             PROVE  BenchSpec =>
                      /\ []BenchTypeOK /\ []SledRetires /\ []DecodesTheProgram
                      /\ []QueueMatchesBuffer /\ []WaitsForAnOlder
                      /\ HandOver /\ CountsEveryRetirement /\ DrivesRename /\ InProgramOrder
  OBVIOUS
<1>1. BenchInit => ~patched
  BY DEF BenchInit
<1>2. ~patched /\ [BenchNext]_bench_vars => ~patched'
  BY DEF BenchNext, Construct, PlaceHalt, Patch, Reset, tick, report, bench_vars
<1>3. [BenchNext]_bench_vars => [StoreElsewhere]_bench_vars
  <2> SUFFICES ASSUME tick
               PROVE  \A a \in InFlight' \cup {pc_current'} :
                        read128(a, FetchBytes)' = read128(a, FetchBytes)
    BY DEF StoreElsewhere
  <2>1. UNCHANGED pages
    BY DEF tick, service_data_mem, mem_vars
  <2> QED BY <2>1 DEF read128, Word, read8, get_page
<1>4. BenchSpec => []KnownFetch /\ [][StoreElsewhere]_bench_vars
  BY SledIsKnown, <1>1, <1>2, <1>3, PTL DEF BenchSpec
<1>5. P > A
  BY DEF SledFits
<1>6. BenchSpec => HandOver
  BY NothingLostInDecode, <1>4, <1>5, PTL
<1> QED BY BenchTypeCorrect, BenchCoreIsRight, CountIsRight, DecodedAsStored, SledRunsToHalt,
           <1>4, <1>6, PTL
=============================================================================
