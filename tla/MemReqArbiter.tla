----------------------------- MODULE MemReqArbiter --------------------------
(***************************************************************************)
(* The arbiter between the load/store queue (c0) and the MMIO path (c1):   *)
(* rtl/memory/f386_mem_req_arbiter.sv.  It has no state.  A request or a   *)
(* response that is not there is None.                                     *)
(***************************************************************************)
EXTENDS SplitPhase

\* The request passed down: the MMIO path goes first, nothing under a flush.
dn_req(c0_req, c1_req, flush) ==
  IF flush THEN None ELSE IF c1_req # None THEN c1_req ELSE c0_req

c0_req_ready(c0_req, c1_req, flush, dn_req_ready) ==
  c0_req # None /\ ~flush /\ c1_req = None /\ dn_req_ready

c1_req_ready(c1_req, flush, dn_req_ready) ==
  c1_req # None /\ ~flush /\ dn_req_ready

\* The response a client sees: its own, and none under a flush.
routed(rsp, client, flush) ==
  IF rsp = None \/ flush THEN None ELSE IF rsp.client = client THEN rsp ELSE None

\* Under a flush responses are consumed whatever the clients say.
dn_rsp_ready(rsp, flush, c0_rsp_ready, c1_rsp_ready) ==
  rsp # None /\ (flush \/ IF rsp.client = "io" THEN c1_rsp_ready ELSE c0_rsp_ready)
=============================================================================
