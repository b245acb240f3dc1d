------------------------------ MODULE LsqMemShim ----------------------------
(***************************************************************************)
(* The shim between the split-phase channel and the data port of the       *)
(* memory controller (rtl/memory/f386_lsq_to_memctrl_shim.sv): a request   *)
(* FIFO and a state machine that serves one request at a time.  A flush    *)
(* empties the FIFO; a request the controller has already accepted is      *)
(* drained, one it has not is dropped.                                     *)
(***************************************************************************)
EXTENDS SplitPhase, Sequences

VARIABLES
  fifo,           \* waiting requests (fifo_mem, its pointers and its count)
  shim_state,     \* state_q
  lat,            \* the request being served (lat_addr .. lat_id)
  lat_rdata,      \* and what was read for it
  req_accepted_q  \* the controller has accepted it

shim_vars == <<fifo, shim_state, lat, lat_rdata, req_accepted_q>>

ShimTypeOK ==
  /\ fifo \in Seq(Request) /\ Len(fifo) <= PendDepth
  /\ shim_state \in {"IDLE", "ISSUE", "WAIT_ACK", "RESPOND", "DRAIN"}
  /\ lat \in Request \cup {None}
  /\ lat_rdata \in Val \cup {None}
  /\ req_accepted_q \in BOOLEAN

ShimInit ==
  /\ fifo = << >>
  /\ shim_state = "IDLE"
  /\ lat = None /\ lat_rdata = None
  /\ req_accepted_q = FALSE

req_ready(flush) == Len(fifo) < PendDepth /\ ~flush

fifo_rd_en(flush) == shim_state = "IDLE" /\ fifo # << >> /\ ~flush

\* The level request on the controller's data port, lowered in the very
\* cycle of the acknowledge and never held while draining.
\* Slip: it is held while draining.
data_req_held(data_ack) ==
  shim_state \in {"ISSUE", "WAIT_ACK", "DRAIN"} /\ ~data_ack

data_req(data_ack) == shim_state \in {"ISSUE", "WAIT_ACK"} /\ ~data_ack

\* The response offered to the arbiter.
shim_rsp ==
  IF shim_state = "RESPOND"
  THEN [client |-> lat.client, id |-> lat.id, rdata |-> lat_rdata]
  ELSE None

\* Slip: draining never waits for the acknowledge.
shim_next_hasty(flush, data_ack, rsp_ready) ==
  CASE shim_state = "IDLE"     -> IF fifo_rd_en(flush) THEN "ISSUE" ELSE "IDLE"
    [] shim_state = "ISSUE"    -> IF flush THEN "DRAIN" ELSE "WAIT_ACK"
    [] shim_state = "WAIT_ACK" -> IF data_ack
                                  THEN IF flush THEN "IDLE" ELSE "RESPOND"
                                  ELSE IF flush THEN "DRAIN" ELSE "WAIT_ACK"
    [] shim_state = "DRAIN"    -> "IDLE"
    [] shim_state = "RESPOND"  -> IF flush \/ rsp_ready THEN "IDLE" ELSE "RESPOND"

shim_next(flush, data_ack, rsp_ready) ==
  CASE shim_state = "IDLE"     -> IF fifo_rd_en(flush) THEN "ISSUE" ELSE "IDLE"
    [] shim_state = "ISSUE"    -> IF flush THEN "DRAIN" ELSE "WAIT_ACK"
    [] shim_state = "WAIT_ACK" -> IF data_ack
                                  THEN IF flush THEN "IDLE" ELSE "RESPOND"
                                  ELSE IF flush THEN "DRAIN" ELSE "WAIT_ACK"
    [] shim_state = "DRAIN"    -> IF req_accepted_q /\ ~data_ack THEN "DRAIN" ELSE "IDLE"
    [] shim_state = "RESPOND"  -> IF flush \/ rsp_ready THEN "IDLE" ELSE "RESPOND"

(* One clock edge: the request offered by the arbiter (or None), the grant
   and acknowledge of the controller with the data it read, and whether the
   arbiter consumes the response.                                           *)
ShimClock(flush, req, data_gnt, data_ack, data_rdata, rsp_ready) ==
  LET wr == req # None /\ req_ready(flush)
      rd == fifo_rd_en(flush)
      rest == IF rd THEN Tail(fifo) ELSE fifo
  IN
  /\ fifo' = IF flush THEN << >> ELSE IF wr THEN Append(rest, req) ELSE rest
  /\ shim_state' = shim_next(flush, data_ack, rsp_ready)
  /\ lat' = IF rd THEN Head(fifo) ELSE lat
  /\ lat_rdata' = IF shim_state = "WAIT_ACK" /\ data_ack THEN data_rdata ELSE lat_rdata
  /\ req_accepted_q' = (shim_state # "IDLE" /\ (data_gnt \/ req_accepted_q))
=============================================================================
