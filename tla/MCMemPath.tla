------------------------------ MODULE MCMemPath -----------------------------
(* Small instances of the memory path for TLC: words are told apart by their
   low half only.                                                          *)
EXTENDS MemPath, TLC

CONSTANTS a1, a2, h0, h1

OneAddr == {a1}
Halves == {h0, h1}
Word(h) == [i \in 0..1 |-> h]
TwoVal == {Word(h0), Word(h1)}
OneVal == {Word(h0)}

(* Registers hold their last value until it is replaced.  Two states that
   differ only in such a value, which nothing reads any more, are one.      *)
When(c, x) == IF c THEN x ELSE None
Meaningful ==
  <<[i \in PendId |-> When(pend_valid[i], pend_data[i])],
    When(ld_state = "WAIT", ld_wait_addr), When(io_state # "IDLE", io_addr),
    When(io_state = "CDB", io_rdata), When(shim_state # "IDLE", lat),
    When(shim_state = "RESPOND", lat_rdata), When(data_ack, data_rdata),
    When(arb_state # "IDLE", ifetch_phase),
    When(arb_state # "IDLE" \/ data_ack,
         IF arb.source = "data" THEN arb ELSE arb.source),
    When(ddram_we, <<ddram_din, ddram_be>>),
    When((ddram_we \/ ddram_rd) /\ arb.source = "data", ddram_addr),
    When(rd_pending # None, IF arb.source = "data" THEN rd_pending ELSE arb.source)>>
Live ==
  <<Meaningful, ld_pipe, ld_state, ld_req_issued, pend_valid, pend_wr_ptr, pend_rd_ptr,
    pend_count, be_resp, ld_cdb, store_drain_ack, io_state, fifo, shim_state,
    req_accepted_q, arb_state, ifetch_valid, data_ack, pt_ack, ddram_rd, ddram_we,
    mem, ld_in_flight>>
=============================================================================
