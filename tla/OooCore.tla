------------------------------- MODULE OooCore ------------------------------
(***************************************************************************)
(* The out-of-order core from fetch to retirement                          *)
(* (rtl/core/f386_ooo_core_top.sv): program counter, the two registers of  *)
(* the decoder, issue queue and execute stage, over renaming and reorder   *)
(* buffer.  It is the build of the plain testbench: no load/store queue    *)
(* interface, no microcode engine, the issue queue without producer        *)
(* matrix.                                                                 *)
(*                                                                         *)
(* Only the U pipe is here: dispatch_v_valid rests at zero in simulation   *)
(* (see VInput).  Values of registers and flags are left out: whether a    *)
(* branch is taken, and what a trained predictor says, is open.  What the  *)
(* decoder makes of bytes is kept for the instructions of Opcode.          *)
(***************************************************************************)
EXTENDS RegisterRename

CONSTANTS
  PcSpace,      \* addresses, which wrap
  FetchBytes,   \* bytes of a fetch block
  Linear,       \* next_pc_pred is this far from the fetched address
  IQN,          \* CONF_IQ_ENTRIES
  ResetVector

ASSUME QueueAssumption == IQN \in Nat /\ IQN >= 2

Wrap(a) == a % PcSpace
IqSlot == 0..(IQN - 1)

VARIABLES
  pc_current,
  s1,             \* instruction in the decoder's first stage, or None
  instr_u,        \* in its output register
  queue,          \* issue queue: an entry per slot, or None
  predict_taken,  \* of the predictor for pc_current
  br_taken,       \* whether the flags let a branch be taken
  trained         \* a branch has been resolved since reset

front_vars == <<pc_current, s1, instr_u, queue, predict_taken, br_taken, trained>>
core_vars == <<vars, rename_vars, front_vars>>

\* ooo_instr_t, as far as it matters here.
Decoded == [op_cat : {"ALU_REG", "BRANCH", "SYS_CALL"}, dest : Arch \cup {NoDest},
            pc : 0..(PcSpace - 1), next : 0..(PcSpace - 1), target : 0..(PcSpace - 1)]

\* An entry also knows its slot in the reorder buffer, its new register, and
\* the register that it waits for.
Entry == [i : Decoded, rob_tag : Slot, p_dest : Phys, src : Phys \cup {None}]

ASSUME EntryAssumption == None \notin Transfer /\ None \notin Decoded /\ None \notin Entry

CoreTypeOK ==
  /\ RenameTypeOK
  /\ pc_current \in 0..(PcSpace - 1)
  /\ s1 \in Decoded \cup {None}
  /\ instr_u \in Decoded \cup {None}
  /\ queue \in [IqSlot -> Entry \cup {None}]
  /\ predict_taken \in BOOLEAN /\ br_taken \in BOOLEAN /\ trained \in BOOLEAN

CoreInit ==
  /\ RenameInit
  /\ pc_current = ResetVector
  /\ s1 = None /\ instr_u = None
  /\ queue = [q \in IqSlot |-> None]
  /\ predict_taken = FALSE /\ br_taken = FALSE /\ trained = FALSE

-----------------------------------------------------------------------------
(***************************************************************************)
(* Decoding                                                                *)
(***************************************************************************)
NOP == 144
JE == 116
HLT == 244
INC_EAX == 64
GRP5 == 255

Instruction(op_cat, dest, pc, len, disp) ==
  [op_cat |-> op_cat, dest |-> dest, pc |-> pc, next |-> Wrap(pc + len),
   target |-> Wrap(pc + len + disp)]

SignExtend(b) == IF b >= 128 THEN b - 256 ELSE b

\* The instruction at the start of a block.  FF FF is valid to this decoder,
\* which gives it no destination.
Opcode(pc, block) ==
  CASE block[0] = NOP -> Instruction("ALU_REG", NoDest, pc, 1, 0)
    [] block[0] = INC_EAX -> Instruction("ALU_REG", 0, pc, 1, 0)
    [] block[0] = JE -> Instruction("BRANCH", NoDest, pc, 2, SignExtend(block[1]))
    [] block[0] = HLT -> Instruction("SYS_CALL", NoDest, pc, 1, 0)
    [] block[0] = GRP5 /\ block[1] = GRP5 -> Instruction("ALU_REG", NoDest, pc, 2, 0)

(***************************************************************************)
(* Dispatch                                                                *)
(***************************************************************************)
\* Slip: a full reorder buffer does not hold dispatch.
accepts_full == free_map # {}

\* rename_ready && !rob_full: what the decoder sees, and dispatch too.
accepts == free_map # {} /\ ~full

\* Slip: the decoder moves on although nobody takes its output.
pipe_advance_always == TRUE

pipe_advance == s1 = None \/ accepts

dispatch_u == IF accepts THEN instr_u ELSE None

free_idx == Grant({q \in IqSlot : queue[q] = None})

(***************************************************************************)
(* Issue and execution: the lowest entry that does not wait goes first,    *)
(* ALU instructions and branches end in that cycle, and a system call      *)
(* never does without the microcode engine.                                *)
(***************************************************************************)
issue_idx == Grant({q \in IqSlot : queue[q] # None /\ queue[q].src = None})

\* Slip: a system call ends like any other instruction.
Completing_all == {queue[q] : q \in issue_idx}

Completing ==
  {queue[q] : q \in {r \in issue_idx : queue[r].i.op_cat # "SYS_CALL"}}

ResultBus ==
  IF Completing = {} THEN {None}
  ELSE {[tag |-> e.rob_tag, data |-> d, exc |-> FALSE] : e \in Completing, d \in Data}

\* The register that this cycle's result goes to.
woken == {e.p_dest : e \in {x \in Completing : x.i.dest # NoDest}}

resolved == {e.i : e \in {x \in Completing : x.i.op_cat = "BRANCH"}}

\* The prediction is that for the block being fetched in this cycle.
mispredicted ==
  {b \in resolved : \/ br_taken # predict_taken
                    \/ br_taken /\ b.target # Wrap(pc_current + Linear)}

flush == mispredicted # {}

\* Slip: nothing clears the issue queue.
queue_clear_never == FALSE

queue_clear == flush

\* Slip: the busy table is read as it was before this cycle's result.
src_busy_registered(r) == r \in busy

src_busy(r) == r \in busy \ woken

\* Dispatch takes the lowest free slot, and is dropped when there is none.
\* Every operand comes from the one architectural register.
queue_next(pu) ==
  LET src == spec_map[0] IN
  [q \in IqSlot |->
     IF queue_clear THEN None
     ELSE IF dispatch_u # None /\ q \in free_idx
     THEN [i |-> dispatch_u, rob_tag |-> tail,
           p_dest |-> IF dispatch_u.dest = NoDest THEN 0 ELSE pu,
           src |-> IF src_busy(src) THEN src ELSE None]
     ELSE IF queue[q] = None \/ queue[q] \in Completing THEN None
     ELSE [queue[q] EXCEPT !.src = IF @ \in woken THEN None ELSE @]]

-----------------------------------------------------------------------------
(***************************************************************************)
(* One clock edge.  i is the instruction at the start of the fetched       *)
(* block, None while there is none.                                        *)
(***************************************************************************)
\* Slip: the program counter does not wrap.
pc_next_wide == IF predict_taken THEN pc_current + Linear ELSE pc_current + FetchBytes

pc_next == IF predict_taken THEN Wrap(pc_current + Linear)
           ELSE Wrap(pc_current + FetchBytes)

FetchEdge(i) ==
  pc_current' = IF flush
                THEN CHOOSE a \in {IF br_taken THEN b.target ELSE b.next : b \in mispredicted} : TRUE
                ELSE IF i # None /\ pipe_advance THEN pc_next ELSE pc_current

\* A flush does not reach the decoder.
DecodeEdge(i) ==
  /\ s1' = IF pipe_advance THEN i ELSE s1
  /\ instr_u' = IF s1 = None THEN None ELSE IF accepts THEN s1 ELSE instr_u

\* The tables predict nothing taken until a branch has been resolved.  Flags
\* and prediction are left alone where no branch looks at them.
PredictEdge ==
  LET Looks == \E q \in IqSlot : queue'[q] # None /\ queue'[q].i.op_cat = "BRANCH" IN
  /\ trained' = (trained \/ resolved # {})
  /\ br_taken' \in IF Looks THEN BOOLEAN ELSE {FALSE}
  /\ predict_taken' \in IF trained' THEN BOOLEAN ELSE {FALSE}

CoreEdge(i) ==
  \E pu \in PickU : \E w0 \in ResultBus :
    /\ IF flush THEN RenameFlush
       ELSE \E pv \in PickV(pu) :
              Edge(IF dispatch_u = None THEN None ELSE dispatch_u.dest, pu, None, pv,
                   w0, None, {})
    /\ queue' = queue_next(pu)
    /\ FetchEdge(i)
    /\ DecodeEdge(i)
    /\ PredictEdge

\* Whatever is fetched.
CoreNext == \E i \in Decoded \cup {None} : CoreEdge(i)

CoreSpec == CoreInit /\ [][CoreNext]_core_vars

-----------------------------------------------------------------------------
(***************************************************************************)
(* Properties                                                              *)
(***************************************************************************)

\* The core around renaming and reorder buffer keeps to the discipline that
\* RegisterRename assumes of its environment: no dispatch while full, results
\* only for instructions that wait for one, flushes at any time.  With it,
\* everything shown of RegisterRename holds of the core.
DrivesRename == RenameSpec

Held == {q \in IqSlot : queue[q] # None}
Blocked == \E q \in Held : queue[q].i.op_cat = "SYS_CALL"

QueueWaits ==
  \A q \in Held :
    /\ Waiting(queue[q].rob_tag)
    /\ entry_instr[queue[q].rob_tag].p_dest = queue[q].p_dest
    /\ \A r \in Held : queue[r].rob_tag = queue[q].rob_tag => r = q

NothingDropped ==
  ~Blocked => \A s \in Slot : Waiting(s) => \E q \in Held : queue[q].rob_tag = s

\* The issue queue's entries are instructions that wait in the reorder buffer,
\* one entry each, under the same tag and register; and while no system call
\* holds up issue, every instruction that waits has its entry: none was
\* dropped for want of a slot.
QueueMatchesBuffer == QueueWaits /\ NothingDropped

\* What the decoder has in its output register is dispatched, kept, or behind
\* a mispredicted branch, and what it has in its first stage moves on or stays:
\* no instruction is overwritten or cleared unseen, although the output is
\* cleared whenever the stage before it is empty.
HandOver ==
  [][/\ instr_u # None => dispatch_u # None \/ instr_u' = instr_u \/ flush
     /\ s1 # None => instr_u' = s1 \/ s1' = s1]_core_vars

\* A source that an entry waits for is the destination of an older instruction
\* that still waits for its result.
WaitsForAnOlder ==
  \A q \in IqSlot : queue[q] # None /\ queue[q].src # None =>
    \E i, j \in 1..count :
      /\ i < j /\ SlotOf(j) = queue[q].rob_tag
      /\ Waiting(SlotOf(i)) /\ entry_instr[SlotOf(i)].dest_valid
      /\ entry_instr[SlotOf(i)].p_dest = queue[q].src
=============================================================================
