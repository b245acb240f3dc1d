------------------------------ MODULE MmioIoPath ----------------------------
(***************************************************************************)
(* The path of uncached loads (rtl/memory/f386_mmio_io_path.sv): one load  *)
(* at a time, accepted when the store queue is empty, answered on the      *)
(* common data bus from IO_CDB.                                            *)
(***************************************************************************)
EXTENDS SplitPhase

VARIABLES
  io_state,  \* state_q
  io_addr,   \* lat_addr
  io_rdata   \* lat_rdata

io_vars == <<io_state, io_addr, io_rdata>>

IoTypeOK ==
  /\ io_state \in {"IDLE", "ISSUE", "WAIT", "CDB", "DRAIN"}
  /\ io_addr \in Addr \cup {None}
  /\ io_rdata \in Val \cup {None}

IoInit == io_state = "IDLE" /\ io_addr = None /\ io_rdata = None

\* Willing to take a load.
io_ld_ready(flush, sq_empty) == io_state = "IDLE" /\ sq_empty /\ ~flush

\* The request offered to the arbiter.
io_req(flush) ==
  IF io_state = "ISSUE" /\ ~flush
  THEN Load("io", 0, io_addr)
  ELSE None

io_rsp_ready == io_state \in {"WAIT", "DRAIN"}

io_cdb_valid == io_state = "CDB"

\* Slip: a flush abandons the request instead of waiting for its answer.
io_next_forgetful(flush, ld, granted, rsp) ==
  CASE io_state = "IDLE"  -> IF ld # None THEN "ISSUE" ELSE "IDLE"
    [] io_state = "ISSUE" -> IF granted THEN "WAIT" ELSE "ISSUE"
    [] io_state = "WAIT"  -> IF rsp # None THEN "CDB" ELSE "WAIT"
    [] OTHER -> "IDLE"

(* The next state, given the load accepted in this cycle (or None), whether
   the arbiter takes the request, and the response it routes here.          *)
io_next(flush, ld, granted, rsp) ==
  CASE io_state = "IDLE"  -> IF ld # None THEN "ISSUE" ELSE "IDLE"
    [] io_state = "ISSUE" -> IF flush THEN "IDLE"
                             ELSE IF granted THEN "WAIT" ELSE "ISSUE"
    [] io_state = "WAIT"  -> IF flush /\ rsp = None THEN "DRAIN"
                             ELSE IF rsp = None THEN "WAIT"
                             ELSE IF flush THEN "IDLE" ELSE "CDB"
    [] io_state = "CDB"   -> "IDLE"
    [] io_state = "DRAIN" -> IF rsp # None THEN "IDLE" ELSE "DRAIN"

IoClock(flush, ld, granted, rsp) ==
  /\ io_state' = io_next(flush, ld, granted, rsp)
  /\ io_addr' = IF ld # None THEN ld ELSE io_addr
  /\ io_rdata' = IF io_state = "WAIT" /\ rsp # None THEN rsp.rdata ELSE io_rdata
=============================================================================
