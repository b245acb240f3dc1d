--------------------------- MODULE MCLoadStoreQueue -------------------------
(* Small instances of the load/store queue for TLC. *)
EXTENDS LoadStoreQueue, TLC

CONSTANTS a1, a2, h0, h1

OneAddr == {a1}
TwoAddr == {a1, a2}
Halves == {h0, h1}
Word_(h) == [i \in 0..1 |-> h]
TwoVal == {Word_(h0), Word_(h1)}
OneVal == {Word_(h0)}
Swap == Permutations(Halves)

(* Registers hold their last value until it is replaced.  Two states that
   differ only in such a value, which nothing reads any more, are one.      *)
When(c, x) == IF c THEN x ELSE None
Meaningful ==
  <<[i \in PendId |-> When(pend_valid[i], pend_data[i])],
    When(ld_state = "WAIT", ld_wait_addr),
    [i \in LqIdx |-> When(lq_valid[i], <<lq_executed[i], lq_rob_tag[i]>>)],
    [i \in SqIdx |-> When(sq_valid[i],
                          <<sq_ready[i], sq_committed[i], When(sq_ready[i], sq_entry[i])>>)],
    When(ld_pipe # None \/ ld_pipe_fwd # None, ld_pipe_idx),
    When(ld_state = "WAIT", ld_result_idx), When(ld_cdb # None, ld_cdb_tag)>>
Live ==
  <<Meaningful, ld_pipe, ld_state, ld_req_issued, pend_valid, pend_wr_ptr, pend_rd_ptr,
    pend_count, be_resp, ld_cdb, store_drain_ack, lq_valid, lq_head, lq_tail, lq_count,
    sq_valid, sq_head, sq_tail, sq_count, sq_drain_ptr, ld_pipe_fwd, ld_in_flight, rob,
    chan, mem>>
=============================================================================
