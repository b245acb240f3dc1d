------------------------------ MODULE LsqMemPort ----------------------------
(***************************************************************************)
(* The split-phase side of the load/store queue (rtl/core/f386_lsq.sv,     *)
(* gen_mem_path): the load that missed forwarding (LD_WAIT), the committed *)
(* store at the drain pointer, and the pending table that matches          *)
(* responses, whatever their order, to the requests.  Store coalescing is  *)
(* gated off.                                                              *)
(***************************************************************************)
EXTENDS SplitPhase

VARIABLES
  ld_pipe,        \* ld_pipe_valid_r and ld_pipe_addr_r: a load that missed
  ld_state,
  ld_wait_addr,
  ld_req_issued,
  pend_valid,
  pend_data,      \* is_load and addr of each entry
  pend_wr_ptr, pend_rd_ptr, pend_count,
  be_resp,        \* be_resp_valid and be_resp_data
  ld_cdb,         \* ld_cdb_valid and ld_cdb_data
  store_drain_ack

lsq_vars == <<ld_pipe, ld_state, ld_wait_addr, ld_req_issued, pend_valid, pend_data,
              pend_wr_ptr, pend_rd_ptr, pend_count, be_resp, ld_cdb, store_drain_ack>>

PendEntry == [is_load : BOOLEAN, addr : Addr]

LsqTypeOK ==
  /\ ld_pipe \in Addr \cup {None}
  /\ ld_state \in {"IDLE", "WAIT"}
  /\ ld_wait_addr \in Addr \cup {None}
  /\ ld_req_issued \in BOOLEAN
  /\ pend_valid \in [PendId -> BOOLEAN]
  /\ pend_data \in [PendId -> PendEntry \cup {None}]
  /\ pend_wr_ptr \in PendId /\ pend_rd_ptr \in PendId
  /\ pend_count \in 0..PendDepth
  /\ be_resp \in Val \cup {None}
  /\ ld_cdb \in Val \cup {None}
  /\ store_drain_ack \in BOOLEAN

LsqInit ==
  /\ ld_pipe = None
  /\ ld_state = "IDLE" /\ ld_wait_addr = None /\ ld_req_issued = FALSE
  /\ pend_valid = [i \in PendId |-> FALSE]
  /\ pend_data = [i \in PendId |-> None]
  /\ pend_wr_ptr = 0 /\ pend_rd_ptr = 0 /\ pend_count = 0
  /\ be_resp = None /\ ld_cdb = None /\ store_drain_ack = FALSE

NextId(i) == (i + 1) % PendDepth

\* Slip: a full table takes one more.
can_issue_late(flush) == pend_count <= PendDepth /\ ~flush

can_issue(flush) == pend_count # PendDepth /\ ~flush

\* Slip: nothing tells that the load has been issued.
issue_load_again(flush) == can_issue(flush) /\ ld_state = "WAIT"

issue_load(flush) == can_issue(flush) /\ ld_state = "WAIT" /\ ~ld_req_issued

\* The request offered to the arbiter: the waiting load before the store at
\* the drain pointer (st, None when there is no committed store to drain).
lsq_req(flush, st) ==
  IF issue_load(flush) THEN Load("lsq", pend_wr_ptr, ld_wait_addr)
  ELSE IF can_issue(flush) /\ st # None THEN Store(pend_wr_ptr, st.addr, st.data)
  ELSE None

\* The response matches a valid pending entry.
rsp_id_valid(rsp) == rsp # None /\ rsp.client = "lsq" /\ pend_valid[rsp.id]

(* One clock edge: a load from the address unit that no store forwards to (or
   None), the data forwarded to the load before it (or None), the store at the
   drain pointer, whether the arbiter takes the request, and the response it
   routes here.                                                             *)
Active(ld, fwd, st, granted, rsp) ==
  LET load == issue_load(FALSE)
      consume == rsp_id_valid(rsp)
      drain_head == \/ ~pend_valid[pend_rd_ptr] /\ pend_count # 0
                    \/ consume /\ rsp.id = pend_rd_ptr
      answered == ld_state = "WAIT" /\ be_resp # None
  IN
  /\ ld_pipe' = ld
  \* response registers
  /\ be_resp' = IF consume /\ pend_data[rsp.id].is_load THEN rsp.rdata ELSE None
  /\ store_drain_ack' = (consume /\ ~pend_data[rsp.id].is_load)
  \* pending table
  /\ pend_data' =
       IF granted
       THEN [pend_data EXCEPT ![pend_wr_ptr] =
               [is_load |-> load, addr |-> IF load THEN ld_wait_addr ELSE st.addr]]
       ELSE pend_data
  /\ pend_valid' =
       [i \in PendId |-> /\ pend_valid[i] \/ (granted /\ i = pend_wr_ptr)
                         /\ ~(consume /\ i = rsp.id)]
  /\ pend_wr_ptr' = IF granted THEN NextId(pend_wr_ptr) ELSE pend_wr_ptr
  /\ pend_rd_ptr' = IF drain_head THEN NextId(pend_rd_ptr) ELSE pend_rd_ptr
  /\ pend_count' = pend_count + (IF granted THEN 1 ELSE 0) - (IF drain_head THEN 1 ELSE 0)
  \* load state machine
  /\ ld_state' = IF ld_state = "IDLE" THEN IF ld_pipe # None THEN "WAIT" ELSE "IDLE"
                 ELSE IF answered THEN "IDLE" ELSE "WAIT"
  /\ ld_wait_addr' = IF ld_state = "IDLE" /\ ld_pipe # None THEN ld_pipe ELSE ld_wait_addr
  /\ ld_req_issued' = (~answered /\ (ld_req_issued \/ (granted /\ load)))
  /\ ld_cdb' = IF ld_state = "IDLE" THEN fwd ELSE IF answered THEN be_resp ELSE None

\* Slip: the read pointer keeps its place.
Forget_unaligned ==
  /\ ld_pipe' = None /\ ld_state' = "IDLE" /\ ld_req_issued' = FALSE
  /\ pend_valid' = [i \in PendId |-> FALSE]
  /\ pend_wr_ptr' = 0 /\ pend_count' = 0
  /\ be_resp' = None /\ ld_cdb' = None /\ store_drain_ack' = FALSE
  /\ UNCHANGED <<ld_wait_addr, pend_data, pend_rd_ptr>>

\* A flush forgets the load, the requests in flight and their answers.
Forget ==
  /\ ld_pipe' = None /\ ld_state' = "IDLE" /\ ld_req_issued' = FALSE
  /\ pend_valid' = [i \in PendId |-> FALSE]
  /\ pend_wr_ptr' = 0 /\ pend_rd_ptr' = 0 /\ pend_count' = 0
  /\ be_resp' = None /\ ld_cdb' = None /\ store_drain_ack' = FALSE
  /\ UNCHANGED <<ld_wait_addr, pend_data>>

LsqClock(flush, ld, fwd, st, granted, rsp) ==
  IF flush THEN Forget ELSE Active(ld, fwd, st, granted, rsp)
=============================================================================
