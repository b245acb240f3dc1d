------------------------------ MODULE DtlbFrontend --------------------------
(***************************************************************************)
(* The data-side translation frontend (rtl/memory/f386_dtlb_frontend.sv):  *)
(* one request at a time goes through the TLB and, when it misses, through *)
(* the page walker and a fill.  tlb_flush.sv is wires only.                *)
(***************************************************************************)
EXTENDS Tlb, PageWalker

VARIABLES
  xl_state,
  xl_req,         \* r_linear_addr, r_write, r_user
  xl_resp,        \* r_resp_paddr and r_resp_fault_code
  walk_req_sent

xl_vars == <<xl_state, xl_req, xl_resp, walk_req_sent>>

\* Without paging the page is its own frame.
Response == [ppn : Frame \cup Vpn \cup {None}, fault : FaultCode \cup {None}]

XlTypeOK ==
  /\ xl_state \in {"IDLE", "LOOKUP", "WAIT_LOOKUP", "WALK", "FILL", "RESP"}
  /\ xl_req \in Access \cup {None}
  /\ xl_resp \in Response \cup {None}
  /\ walk_req_sent \in BOOLEAN

XlInit ==
  /\ xl_state = "IDLE" /\ xl_req = None /\ xl_resp = None
  /\ walk_req_sent = FALSE

dtlb_busy == xl_state # "IDLE"

Found(ppn) == [ppn |-> ppn, fault |-> None]
Fault(code) == [ppn |-> None, fault |-> code]

\* What the frontend drives in this cycle.
tlb_lookup(paging) == IF xl_state = "LOOKUP" /\ paging THEN xl_req ELSE None

tlb_fill ==
  IF xl_state = "FILL"
  THEN [vpn |-> xl_req.vpn, ppn |-> xl_resp.ppn, dirty |-> walk_out.dirty,
        user |-> walk_out.user, writable |-> walk_out.writable]
  ELSE None

walk_req ==
  IF xl_state = "WALK" /\ ~walker_busy /\ ~walk_req_sent THEN xl_req ELSE None

\* The state machine, given a request or None.
AcceptXl(req, paging) ==
  /\ xl_state = "IDLE"
  /\ xl_req' = IF req = None THEN xl_req ELSE req
  /\ xl_state' = IF req = None THEN "IDLE" ELSE IF paging THEN "LOOKUP" ELSE "RESP"
  /\ xl_resp' = IF req # None /\ ~paging THEN Found(req.vpn) ELSE xl_resp

Lookup ==
  /\ xl_state = "LOOKUP"
  /\ xl_state' = "WAIT_LOOKUP"
  /\ UNCHANGED <<xl_req, xl_resp>>

LookedUp ==
  /\ xl_state = "WAIT_LOOKUP"
  /\ xl_state' = IF lookup_fault \/ lookup_hit THEN "RESP" ELSE "WALK"
  /\ xl_resp' =
       IF lookup_fault
       THEN Fault([user |-> tlb_r.user, write |-> tlb_r.write, present |-> TRUE])
       ELSE IF lookup_hit THEN Found(entry[tlb_r.slot].ppn) ELSE xl_resp
  /\ UNCHANGED xl_req

Walk ==
  /\ xl_state = "WALK"
  /\ xl_state' = IF ~walk_done THEN "WALK" ELSE IF walk_fault # None THEN "RESP" ELSE "FILL"
  /\ xl_resp' = IF ~walk_done THEN xl_resp
                ELSE IF walk_fault # None THEN Fault(walk_fault) ELSE Found(walk_out.ppn)
  /\ UNCHANGED xl_req

Fill ==
  /\ xl_state = "FILL"
  /\ xl_state' = "RESP"
  /\ UNCHANGED <<xl_req, xl_resp>>

Respond(hold) ==
  /\ xl_state = "RESP"
  /\ xl_state' = IF hold THEN "RESP" ELSE "IDLE"
  /\ UNCHANGED <<xl_req, xl_resp>>

\* The request to the walker is sent once in each visit of XL_WALK.
walk_req_sent_next ==
  CASE xl_state = "WAIT_LOOKUP" /\ ~lookup_hit /\ ~lookup_fault -> FALSE
    [] xl_state = "WALK" /\ ~walker_busy /\ ~walk_req_sent -> TRUE
    [] xl_state = "IDLE" -> FALSE
    [] OTHER -> walk_req_sent

\* Slip: a flush finishes the translation in progress instead of dropping it.
XlFlush_finishing == xl_state' = IF dtlb_busy THEN "RESP" ELSE "IDLE"

XlFlush == xl_state' = "IDLE"

XlStep(flush, req, paging, hold) ==
  IF flush
  THEN XlFlush /\ walk_req_sent' = FALSE /\ UNCHANGED <<xl_req, xl_resp>>
  ELSE /\ \/ AcceptXl(req, paging) \/ Lookup \/ LookedUp \/ Walk \/ Fill \/ Respond(hold)
       /\ walk_req_sent' = walk_req_sent_next

(* One clock edge of frontend, TLB and walker.  flush_all is the write of
   CR3, flush that of the pipeline; invlpg is not connected in the core.    *)
DtlbClock(flush, flush_all, req, hold, paging, cr3, ack, rdata) ==
  /\ XlStep(flush \/ flush_all, req, paging, hold)
  /\ TlbClock(tlb_lookup(paging), tlb_fill, None, flush_all)
  /\ WalkerClock(flush \/ flush_all, walk_req, ack, rdata, cr3)
=============================================================================
