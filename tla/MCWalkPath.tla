------------------------------ MODULE MCWalkPath ----------------------------
(* Small instances of translation for TLC: two directories with a table each.
   Both halves of the tables' words are entries in use.                     *)
EXTENDS WalkPath, TLC

CONSTANTS d1, d2, t1, t2, p, q

Frames == {d1, d2, t1, t2, p, q}
Directories == {d1, d2}
Indices == 0..2
Pages == {<<0, 0>>, <<2, 1>>}
OnePage == {<<0, 0>>}
OneDirectory == {d1}
Words == Frames \X {0, 1}
Data == <<p, 1>>
Entries == [present : BOOLEAN, user : BOOLEAN, writable : BOOLEAN, accessed : BOOLEAN,
            dirty : BOOLEAN, base : Frames]
Contents == [0..1 -> Entries]

\* Never used; open to everyone; closed to users; used before, for reading only.
Absent == [present |-> FALSE, user |-> TRUE, writable |-> TRUE, accessed |-> FALSE,
           dirty |-> FALSE, base |-> p]
To(f) == [Absent EXCEPT !.present = TRUE, !.base = f]
Closed(f) == [To(f) EXCEPT !.user = FALSE]
System(f) == [Closed(f) EXCEPT !.writable = FALSE, !.accessed = TRUE]
Pair(low, high) == [h \in 0..1 |-> IF h = 0 THEN low ELSE high]

(* Page <<2, 1>> has entries of its own, which are the upper halves of words.  The
   lower ones, read in their place, share the table entry of <<0, 0>> under d1.
   A user may have them after a supervisor, whose walk fills the TLB.       *)
Image(e) ==
  (<<d1, 0>> :> Pair(To(t1), Absent)) @@ (<<d1, 1>> :> Pair(Closed(t1), To(t2))) @@
  (<<d2, 0>> :> Pair(To(t2), Absent)) @@ (<<d2, 1>> :> Pair(Absent, To(t1))) @@
  (<<t1, 0>> :> Pair(To(p), System(q))) @@ (<<t2, 0>> :> Pair(e, To(q))) @@
  [w \in Words |-> Pair(Absent, Absent)]
OneImage == {Image(System(q))}
Images == OneImage \cup {Image(Absent)}

\* The properties speak of behaviours up to this point.
UntilMisled == ~misled

(* Registers whose contents nobody reads before they are written again are
   left out of the comparison of states.  The answers to cancelled reads are
   such contents only until the walker is misled.                           *)
When(c, x) == IF c THEN x ELSE None
Compared(cancelled) ==
  <<entry_valid, [i \in Slot |-> When(entry_valid[i], entry[i])], plru_tree,
    When(xl_state = "WAIT_LOOKUP" /\ tlb_r # None,
         IF tlb_r = None THEN None
         ELSE <<tlb_r, IF tlb_r.slot = None THEN None ELSE entry[tlb_r.slot]>>),
    walk_state, When(walk_state # "IDLE", walk), When(walk_state = "PTE_FETCH", pde),
    When(walk_state \in {"AD_UPDATE", "AD_WAIT"}, <<pte, pte_addr>>),
    walk_done, walk_fault, When(walk_done \/ xl_state = "FILL", walk_out), pt_mem,
    xl_state, When(xl_state # "IDLE", xl_req),
    When(xl_state \in {"FILL", "RESP"}, xl_resp), walk_req_sent,
    arb_state, When(arb_state # "IDLE",
         IF arb.source = "pt" /\ (orphan => arb.wr \/ cancelled) THEN arb ELSE arb.source),
    When(arb_state # "IDLE", ifetch_phase), pt_ack,
    When(pt_ack /\ (orphan => cancelled), pt_rdata),
    ddram_rd, ddram_we,
    When(ddram_we /\ ddram_be = "low", <<ddram_addr, ddram_din>>), When(ddram_we, ddram_be),
    mem, rd_pending = None, sys_cr3, paging, paging_prev, xlat_ctx, orphan, misled>>
Live == Compared(TRUE)
LiveUntilMisled == Compared(FALSE)
=============================================================================
