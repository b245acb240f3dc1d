---------------------------- MODULE LoadStoreQueue --------------------------
(***************************************************************************)
(* The load and store queues of rtl/core/f386_lsq.sv over their split-     *)
(* phase memory port, with the core around them as f386_ooo_core_top wires *)
(* it: memory instructions are dispatched in program order, compute their  *)
(* addresses in any order, at most one load at a time, and retire in       *)
(* program order, up to two instructions in a cycle.                       *)
(*                                                                         *)
(* Loads and stores are of whole words, so a store either covers a load or *)
(* does not touch it.  Memory is the serial memory that MemPath            *)
(* implements.  The microcode sideband and uncached loads are left out.    *)
(***************************************************************************)
EXTENDS LsqMemPort, Sequences, FiniteSetsExt

CONSTANTS
  LqN, SqN,  \* CONF_LSQ_LQ_ENTRIES, CONF_LSQ_SQ_ENTRIES: powers of two
  RobN       \* memory instructions in flight, at most

ASSUME QueueAssumption == LqN \in Nat \ {0} /\ SqN \in Nat /\ RobN \in Nat \ {0}

(* The drain pointer may run ahead of the head by the pending stores and the
   one just acknowledged; were it to catch up with the head from behind, the
   store there would be issued again.  The code (8 and 4) respects this
   without saying so.                                                       *)
ASSUME DrainAssumption == SqN >= PendDepth + 2

\* A cycle without a dispatch or a result is told apart from one with.
ASSUME IdleAssumption == None \notin Nat \cup {"load", "store"}

VARIABLES
  lq_valid, lq_executed, lq_rob_tag,
  lq_head, lq_tail, lq_count,
  sq_valid,
  sq_ready,      \* sq_addr_valid and sq_data_valid, which go together
  sq_committed,
  sq_entry,      \* sq_addr and sq_data
  sq_head, sq_tail, sq_count, sq_drain_ptr,
  ld_pipe_idx,   \* the load in the pipe register, and
  ld_pipe_fwd,   \* what a store forwarded to it, or None
  ld_result_idx,
  ld_cdb_tag,
  ld_in_flight,
  rob,           \* memory instructions in flight, oldest first
  chan,          \* requests on their way to memory, oldest first
  mem

lq_vars == <<lq_valid, lq_executed, lq_rob_tag, lq_head, lq_tail, lq_count>>
sq_vars == <<sq_valid, sq_ready, sq_committed, sq_entry, sq_head, sq_tail, sq_count,
             sq_drain_ptr>>
ld_vars == <<ld_pipe_idx, ld_pipe_fwd, ld_result_idx, ld_cdb_tag>>
vars == <<lsq_vars, lq_vars, sq_vars, ld_vars, ld_in_flight, rob, chan, mem>>

LqIdx == 0..(LqN - 1)
SqIdx == 0..(SqN - 1)
Tag == 0..(RobN - 1)

Word == [addr : Addr, data : Val]

(* An instruction waits for its operands, is issued to the address unit, and
   is done when the reorder buffer has its result.                          *)
MemInstr == [tag : Tag, op : {"load", "store"}, idx : LqIdx \cup SqIdx,
             stage : {"waiting", "issued", "done"}]

TypeOK ==
  /\ LsqTypeOK
  /\ lq_valid \in [LqIdx -> BOOLEAN] /\ lq_executed \in [LqIdx -> BOOLEAN]
  /\ lq_rob_tag \in [LqIdx -> Tag]
  /\ lq_head \in LqIdx /\ lq_tail \in LqIdx /\ lq_count \in 0..(2 * LqN - 1)
  /\ sq_valid \in [SqIdx -> BOOLEAN] /\ sq_ready \in [SqIdx -> BOOLEAN]
  /\ sq_committed \in [SqIdx -> BOOLEAN]
  /\ sq_entry \in [SqIdx -> Word \cup {None}]
  /\ sq_head \in SqIdx /\ sq_tail \in SqIdx /\ sq_drain_ptr \in SqIdx
  /\ sq_count \in 0..SqN
  /\ ld_pipe_idx \in LqIdx /\ ld_result_idx \in LqIdx /\ ld_cdb_tag \in Tag
  /\ ld_pipe_fwd \in Val \cup {None}
  /\ ld_in_flight \in BOOLEAN
  /\ rob \in Seq(MemInstr) /\ Len(rob) <= RobN
  /\ chan \in Seq(Request) /\ Len(chan) <= PendDepth
  /\ mem \in [Addr -> Val]

Init ==
  /\ LsqInit
  /\ lq_valid = [i \in LqIdx |-> FALSE] /\ lq_executed = [i \in LqIdx |-> FALSE]
  /\ lq_rob_tag = [i \in LqIdx |-> 0]
  /\ lq_head = 0 /\ lq_tail = 0 /\ lq_count = 0
  /\ sq_valid = [i \in SqIdx |-> FALSE] /\ sq_ready = [i \in SqIdx |-> FALSE]
  /\ sq_committed = [i \in SqIdx |-> FALSE] /\ sq_entry = [i \in SqIdx |-> None]
  /\ sq_head = 0 /\ sq_tail = 0 /\ sq_count = 0 /\ sq_drain_ptr = 0
  /\ ld_pipe_idx = 0 /\ ld_pipe_fwd = None /\ ld_result_idx = 0 /\ ld_cdb_tag = 0
  /\ ld_in_flight = FALSE
  /\ rob = << >> /\ chan = << >>
  /\ mem \in [Addr -> Val]

-----------------------------------------------------------------------------
(***************************************************************************)
(* Load queue                                                              *)
(***************************************************************************)

lq_full == lq_count >= LqN

\* The load whose result is ready in this cycle: forwarded, or from memory.
Executed ==
  CASE ld_state = "IDLE" /\ ld_pipe_fwd # None -> ld_pipe_idx
    [] ld_state = "WAIT" /\ be_resp # None -> ld_result_idx
    [] OTHER -> None

(* Dispatch and retirement both assign lq_count; in a cycle that has both,
   the later assignment, retirement's, wins.                                *)
LqClock(enq, tag) ==
  LET deq == lq_valid[lq_head] /\ lq_executed[lq_head] IN
  /\ lq_valid' = [i \in LqIdx |-> /\ lq_valid[i] \/ (enq /\ i = lq_tail)
                                  /\ ~(deq /\ i = lq_head)]
  /\ lq_executed' = [i \in LqIdx |-> \/ i = Executed
                                     \/ lq_executed[i] /\ ~(enq /\ i = lq_tail)]
  /\ lq_rob_tag' = [i \in LqIdx |-> IF enq /\ i = lq_tail THEN tag ELSE lq_rob_tag[i]]
  /\ lq_tail' = IF enq THEN (lq_tail + 1) % LqN ELSE lq_tail
  /\ lq_head' = IF deq THEN (lq_head + 1) % LqN ELSE lq_head
  /\ lq_count' = IF deq THEN (lq_count + 2 * LqN - 1) % (2 * LqN)
                 ELSE IF enq THEN lq_count + 1 ELSE lq_count

\* A flush drops all loads.
LqReset ==
  /\ lq_valid' = [i \in LqIdx |-> FALSE] /\ lq_executed' = [i \in LqIdx |-> FALSE]
  /\ lq_head' = 0 /\ lq_tail' = 0 /\ lq_count' = 0
  /\ UNCHANGED lq_rob_tag

(***************************************************************************)
(* Store queue                                                             *)
(***************************************************************************)

\* Slip: full is one too late.
sq_full_late == sq_count > SqN

sq_full == sq_count >= SqN

\* Slip: a store is drained as soon as it has its address and data.
drain_store_early == IF sq_valid[sq_drain_ptr] /\ sq_ready[sq_drain_ptr]
                     THEN sq_entry[sq_drain_ptr] ELSE None

\* The committed store that is next to go to memory, or None.
drain_store ==
  IF sq_valid[sq_drain_ptr] /\ sq_committed[sq_drain_ptr] /\ sq_ready[sq_drain_ptr]
  THEN sq_entry[sq_drain_ptr] ELSE None

\* Slip: the count is assigned like that of the load queue.
sq_count_next_last(enq, deq) ==
  IF deq THEN sq_count - 1 ELSE IF enq THEN sq_count + 1 ELSE sq_count

sq_count_next(enq, deq) ==
  sq_count + (IF enq THEN 1 ELSE 0) - (IF deq THEN 1 ELSE 0)

(* The store computed in this cycle (its index, address and data, or None),
   the stores committed in it, and whether one is issued to memory.         *)
SqClock(enq, st, committed, issued) ==
  LET deq == store_drain_ack /\ sq_valid[sq_head] /\ sq_committed[sq_head]
      computed(i) == st # None /\ st.idx = i /\ sq_valid[i]
      new(i) == enq /\ i = sq_tail
  IN
  /\ sq_count' = sq_count_next(enq, deq)
  /\ sq_valid' = [i \in SqIdx |-> (sq_valid[i] \/ new(i)) /\ ~(deq /\ i = sq_head)]
  /\ sq_ready' = [i \in SqIdx |-> computed(i) \/ (sq_ready[i] /\ ~new(i))]
  /\ sq_entry' = [i \in SqIdx |-> IF computed(i) THEN [addr |-> st.addr, data |-> st.data]
                                  ELSE sq_entry[i]]
  /\ sq_committed' = [i \in SqIdx |-> \/ i \in committed /\ sq_valid[i]
                                      \/ sq_committed[i] /\ ~new(i)]
  /\ sq_tail' = IF enq THEN (sq_tail + 1) % SqN ELSE sq_tail
  /\ sq_head' = IF deq THEN (sq_head + 1) % SqN ELSE sq_head
  /\ sq_drain_ptr' = IF issued THEN (sq_drain_ptr + 1) % SqN ELSE sq_drain_ptr

\* A flush drops all stores, the committed ones too.
SqReset ==
  /\ sq_valid' = [i \in SqIdx |-> FALSE] /\ sq_ready' = [i \in SqIdx |-> FALSE]
  /\ sq_committed' = [i \in SqIdx |-> FALSE]
  /\ sq_head' = 0 /\ sq_tail' = 0 /\ sq_count' = 0 /\ sq_drain_ptr' = 0
  /\ UNCHANGED sq_entry

\* The stores the forwarding CAM matches to a load's address; the walk over
\* the queue's indices keeps the last.
Matches(addr) ==
  {i \in SqIdx : sq_valid[i] /\ sq_ready[i] /\ sq_entry[i].addr = addr}

Forwards(addr) == IF Matches(addr) = {} THEN None ELSE Max(Matches(addr))

-----------------------------------------------------------------------------
(***************************************************************************)
(* The surrounding core: dispatch, address unit and retirement             *)
(***************************************************************************)

Waiting(op) == {k \in DOMAIN rob : rob[k].op = op /\ rob[k].stage = "waiting"}

DispatchInput ==
  IF Len(rob) = RobN THEN {None}
  ELSE {None} \cup (IF lq_full THEN {} ELSE {"load"}) \cup (IF sq_full THEN {} ELSE {"store"})

\* One memory instruction a cycle, whichever has its operands.
LoadInput ==
  {None} \cup IF ld_in_flight THEN {} ELSE [k : Waiting("load"), addr : Addr]

StoreInput ==
  {None} \cup {[k |-> k, idx |-> rob[k].idx, addr |-> w.addr, data |-> w.data] :
                 k \in Waiting("store"), w \in Word}

(* The retirement ports the oldest instructions leave by.  The oldest leaves
   by the V port when an instruction other than a load or store, older
   still, takes the U port in the same cycle.                               *)
RetireInput ==
  {r \in {<< >>, <<"U">>, <<"V">>, <<"U", "V">>} :
     /\ Len(r) <= Len(rob)
     /\ \A k \in DOMAIN r : rob[k].stage = "done"}

\* Only the U port tells the store queue.
Commits(r) ==
  {rob[k].idx : k \in {j \in DOMAIN r : r[j] = "U" /\ rob[j].op = "store"}}

\* A tag that no instruction in flight has.
FreeTag == CHOOSE t \in Tag : \A k \in DOMAIN rob : rob[k].tag # t

Stage(k, ld, st) ==
  IF (ld_cdb # None /\ ld_cdb_tag = rob[k].tag) \/ (st # None /\ st.k = k) THEN "done"
  ELSE IF ld # None /\ ld.k = k THEN "issued" ELSE rob[k].stage

\* The reorder buffer after dispatch of d, completions and retirement.
RobClock(d, ld, st, r) ==
  LET now == [k \in DOMAIN rob |-> [rob[k] EXCEPT !.stage = Stage(k, ld, st)]]
      new == [tag |-> FreeTag, op |-> d, stage |-> "waiting",
              idx |-> IF d = "load" THEN lq_tail ELSE sq_tail]
  IN  rob' = SubSeq(now, Len(r) + 1, Len(rob)) \o (IF d = None THEN << >> ELSE <<new>>)

(***************************************************************************)
(* One clock cycle.  The memory path may take the request and may answer   *)
(* the oldest one.                                                         *)
(***************************************************************************)
Answer(r) == [client |-> "lsq", id |-> r.id, rdata |-> IF r.wr THEN None ELSE mem[r.addr]]

Served(serve) == IF serve /\ chan # << >> THEN Head(chan) ELSE None

Effect(r) == IF r # None THEN IF r.wr THEN [mem EXCEPT ![r.addr] = r.data] ELSE mem ELSE mem

Cycle(d, ld, st, r, accept, serve) ==
  LET req == lsq_req(FALSE, drain_store)
      granted == req # None /\ accept
      served == Served(serve)
      entered == IF ld = None THEN FALSE ELSE lq_valid[rob[ld.k].idx]
      source == IF entered THEN Forwards(ld.addr) ELSE None
  IN
  /\ LsqClock(FALSE, IF entered /\ source = None THEN ld.addr ELSE None, ld_pipe_fwd,
              drain_store, granted, IF served = None THEN None ELSE Answer(served))
  /\ LqClock(d = "load", FreeTag)
  /\ SqClock(d = "store", st, Commits(r), granted /\ req.wr)
  /\ RobClock(d, ld, st, r)
  /\ ld_pipe_idx' = IF entered THEN rob[ld.k].idx ELSE ld_pipe_idx
  /\ ld_pipe_fwd' = IF source # None THEN sq_entry[source].data ELSE None
  /\ ld_result_idx' = IF ld_state = "IDLE" /\ (ld_pipe # None \/ ld_pipe_fwd # None)
                      THEN ld_pipe_idx ELSE ld_result_idx
  /\ ld_cdb_tag' = IF Executed # None THEN lq_rob_tag[Executed] ELSE ld_cdb_tag
  /\ ld_in_flight' = (ld_cdb = None /\ (ld_in_flight \/ ld # None))
  /\ mem' = Effect(served)
  /\ chan' = (IF served = None THEN chan ELSE Tail(chan)) \o
             (IF granted THEN <<req>> ELSE << >>)

\* A flush empties both queues and the path; the request being served by the
\* controller may still take effect.
Flush(serve) ==
  /\ LsqClock(TRUE, None, None, None, FALSE, None)
  /\ LqReset /\ SqReset
  /\ ld_pipe_fwd' = None /\ ld_in_flight' = FALSE
  /\ rob' = << >> /\ chan' = << >>
  /\ mem' = Effect(Served(serve))
  /\ UNCHANGED <<ld_pipe_idx, ld_result_idx, ld_cdb_tag>>

Run(accept, serve) ==
  \E d \in DispatchInput, ld \in LoadInput, st \in StoreInput, r \in RetireInput :
    (ld = None \/ st = None) /\ Cycle(d, ld, st, r, accept, serve)

\* The path takes a request that is offered and answers one that it has.
AcceptInput == IF lsq_req(FALSE, drain_store) = None THEN {FALSE} ELSE BOOLEAN
ServeInput == IF chan = << >> THEN {FALSE} ELSE BOOLEAN

Next ==
  \/ \E accept \in AcceptInput, serve \in ServeInput : Run(accept, serve)
  \/ \E serve \in ServeInput : Flush(serve)

Spec == Init /\ [][Next]_vars

(* Fairness: the clock runs, and the memory path takes requests and answers.
   The path may refuse a request in a cycle in which the uncached load's goes
   first; of the many cycles in which a store is offered it takes one, whatever
   else the core does in that cycle.                                        *)
StoreOffered ==
  LET req == lsq_req(FALSE, drain_store) IN req # None /\ req.wr

StoreTaken == StoreOffered /\ \E serve \in BOOLEAN : Run(TRUE, serve)

FairSpec == Spec /\ WF_vars(Run(TRUE, TRUE) \/ Flush(TRUE)) /\ SF_vars(StoreTaken)

-----------------------------------------------------------------------------
(***************************************************************************)
(* Properties                                                              *)
(***************************************************************************)

\* Stores issued to memory and not yet dequeued.
Issued == Cardinality({i \in PendId : pend_valid[i] /\ ~pend_data[i].is_load})
          + (IF store_drain_ack THEN 1 ELSE 0)

\* The i-th oldest store's index.
SqAt(i) == (sq_head + i - 1) % SqN

(* The store queue is the window of sq_count entries from head to tail, and
   the drain pointer runs ahead of the head by exactly the stores that are in
   the pending table or just acknowledged: dispatch, commit, issue,
   acknowledge and flush, each in a different always block, never let an
   acknowledge dequeue a store other than the one that was written.         *)
SqAccounted ==
  /\ sq_tail = (sq_head + sq_count) % SqN
  /\ {i \in SqIdx : sq_valid[i]} = {SqAt(i) : i \in 1..sq_count}
  /\ Issued <= sq_count
  /\ sq_drain_ptr = (sq_head + Issued) % SqN
  /\ \A i \in 1..Issued : sq_committed[SqAt(i)]

\* The stores still to be written: the one just acknowledged has been.
ToWrite ==
  LET written == IF store_drain_ack THEN 1 ELSE 0 IN
  [k \in 1..(sq_count - written) |->
     LET i == SqAt(written + k)
         w == IF sq_ready[i] THEN sq_entry[i] ELSE [addr |-> None, data |-> None]
     IN  [addr |-> w.addr, data |-> w.data, committed |-> sq_committed[i]]]

Tso == INSTANCE TotalStoreOrder WITH Capacity <- SqN, stores <- ToWrite

\* The queue implements total store order: memory sees the committed stores
\* one by one in program order, with up to PendDepth of them on their way.
StoresInOrder == Tso!Spec

\* A load that no store forwards to gets one answer and its own: the value that
\* memory has for its address when the request is served, behind the stores sent
\* before it, even though answers are told apart by ids only that are in use
\* again after a flush and after PendDepth requests.
LoadsReadMemory ==
  [][be_resp' # None =>
       ld_state = "WAIT" /\ be_resp = None /\ be_resp' = mem[ld_wait_addr]]_vars

\* A committed store at the head of the queue leaves it: the loads that are
\* served first never hold it up for ever.
CommittedDrains ==
  \A i \in SqIdx :
    (i = sq_head /\ sq_valid[i] /\ sq_committed[i]) ~> ~(i = sq_head /\ sq_valid[i])

\* f386_lsq.sv:23: forwarding picks the "youngest store older than load".  What
\* the CAM would forward to a waiting load is the youngest of the matching
\* stores that precede it in program order.
ForwardsYoungestOlder ==
  \A k \in Waiting("load"), a \in Addr :
    LET younger == {rob[j].idx : j \in {j \in DOMAIN rob : j > k /\ rob[j].op = "store"}}
        older == {n \in 1..sq_count : SqAt(n) \in Matches(a) \ younger}
    IN  Forwards(a) = IF older = {} THEN None ELSE SqAt(Max(older))
=============================================================================
