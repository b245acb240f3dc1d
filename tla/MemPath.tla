-------------------------------- MODULE MemPath -----------------------------
(***************************************************************************)
(* The memory path of the core, from the load/store queue and the MMIO     *)
(* path through arbiter, shim and memory controller to DDRAM, wired as in  *)
(* gen_lsq_memif of rtl/core/f386_ooo_core_top.sv and in                   *)
(* rtl/top/f386_emu.sv without an L2 cache.  Everything moves on the same  *)
(* clock; a step is one cycle, and a pipeline flush may come in any.       *)
(***************************************************************************)
EXTENDS LsqMemPort, MmioIoPath, MemReqArbiter, LsqMemShim, MemCtrl, Ddram

VARIABLE ld_in_flight  \* one load at a time, uncached ones included

core_vars == <<ld_in_flight>>

vars == <<lsq_vars, io_vars, shim_vars, ctrl_vars, dram_vars, core_vars>>

TypeOK ==
  /\ LsqTypeOK /\ IoTypeOK /\ ShimTypeOK /\ CtrlTypeOK /\ DramTypeOK
  /\ ld_in_flight \in BOOLEAN

Init ==
  /\ LsqInit /\ IoInit /\ ShimInit /\ CtrlInit /\ DramInit
  /\ ld_in_flight = FALSE

-----------------------------------------------------------------------------
(***************************************************************************)
(* What the rest of the core may ask for in a cycle                        *)
(***************************************************************************)

\* The store queue is not known to hold anything older than a load.
sq_empty(st) ==
  /\ st = None /\ ~store_drain_ack
  /\ \A i \in PendId : pend_valid[i] => pend_data[i].is_load

\* A committed store at the drain pointer.  None is younger than an uncached
\* load in progress: it could not have retired.
StoreInput ==
  {None} \cup IF io_state \in {"ISSUE", "WAIT", "CDB"} THEN {}
              ELSE [addr : Addr, data : Val]

\* A load whose address is known, cacheable (to the queue) or not (to MMIO).
LoadInput(flush, st) ==
  {[cached |-> None, mmio |-> None]} \cup
  IF ld_in_flight THEN {}
  ELSE {[cached |-> a, mmio |-> None] : a \in Addr} \cup
       IF io_ld_ready(flush, sq_empty(st))
       THEN {[cached |-> None, mmio |-> a] : a \in Addr} ELSE {}

\* Instructions are fetched all the time; which word is not told apart.
fetch_req(flush) ==
  IF flush THEN None ELSE [addr |-> CHOOSE a \in Addr : TRUE, wr |-> FALSE, wdata |-> None]

(***************************************************************************)
(* One clock cycle                                                         *)
(***************************************************************************)
Cycle(flush, busy, deliver, ld, st) ==
  LET c0 == lsq_req(flush, st)
      c1 == io_req(flush)
      ready == req_ready(flush)
      rsp == shim_rsp
      c0_rsp == routed(rsp, "lsq", flush)
      c1_rsp == routed(rsp, "io", flush)
      data == IF data_req(data_ack)
              THEN [addr |-> lat.addr, wr |-> lat.wr, wdata |-> lat.data] ELSE None
  IN
  /\ LsqClock(flush, ld.cached, None, st, c0_req_ready(c0, c1, flush, ready), c0_rsp)
  /\ IoClock(flush, ld.mmio, c1_req_ready(c1, flush, ready), c1_rsp)
  /\ ShimClock(flush, dn_req(c0, c1, flush), data_gnt(data, None, busy),
               data_ack, data_rdata,
               dn_rsp_ready(rsp, flush, rsp_id_valid(rsp), io_rsp_ready))
  /\ CtrlClock(fetch_req(flush), data, None, busy, Delivered(deliver))
  /\ DramClock(deliver, ddram_rd, ddram_we, ddram_addr, ddram_din, ddram_be)
  /\ ld_in_flight' =
       (/\ ~flush /\ ld_cdb = None /\ ~io_cdb_valid
        /\ ld_in_flight \/ ld.cached # None \/ ld.mmio # None)

Run(flush, busy, deliver) ==
  \E st \in StoreInput : \E ld \in LoadInput(flush, st) :
    Cycle(flush, busy, deliver, ld, st)

\* DDRAM may be busy when a strobe is due, and delivers what was asked for.
BusyInput == IF arb_state = "WAIT" THEN {FALSE} ELSE BOOLEAN
DeliverInput == IF rd_pending = None THEN {FALSE} ELSE BOOLEAN

Next ==
  \E flush \in BOOLEAN, busy \in BusyInput, deliver \in DeliverInput :
    Run(flush, busy, deliver)

Spec == Init /\ [][Next]_vars

(***************************************************************************)
(* Fairness: the clock runs, and DDRAM is ready and answers in the end.    *)
(***************************************************************************)
FairSpec == Spec /\ WF_vars(\E flush \in BOOLEAN : Run(flush, FALSE, TRUE))

-----------------------------------------------------------------------------
(***************************************************************************)
(* Properties                                                              *)
(***************************************************************************)

\* The live operations the shim knows of, oldest first.
Serving_ == IF shim_state \in {"ISSUE", "WAIT_ACK", "RESPOND"} THEN <<lat>> ELSE << >>
InPath == Serving_ \o fifo

\* Where in the path a client's requests are.
Places(client) == {j \in DOMAIN InPath : InPath[j].client = client}

\* The k-th oldest entry of the pending table.
Nth(k) == (pend_rd_ptr + k - 1) % PendDepth

\* Every operation the load/store queue waits for is in exactly one place of
\* the path, in the order of the pending table and with the same kind and
\* address, and nothing else is: flushes, drains and reused ids never leave a
\* request that nobody expects or an expectation that nothing will meet.
Accounted ==
  /\ \A i \in PendId : pend_valid[i] <=> \E k \in 1..pend_count : i = Nth(k)
  /\ \E place \in [1..pend_count -> Places("lsq")] :
       /\ \A j \in Places("lsq") : \E k \in 1..pend_count : place[k] = j
       /\ \A k \in 1..pend_count :
            /\ \A l \in 1..(k - 1) : place[l] < place[k]
            /\ InPath[place[k]].id = Nth(k)
            /\ pend_data[Nth(k)] = [is_load |-> ~InPath[place[k]].wr,
                                    addr |-> InPath[place[k]].addr]

\* Likewise for the uncached load.
IoAccounted ==
  IF io_state = "WAIT"
  THEN \E j \in DOMAIN InPath : Places("io") = {j} /\ InPath[j].addr = io_addr
  ELSE Places("io") = {}

\* An acknowledge of the controller always finds the shim waiting for it,
\* with the request it belongs to still latched.
AckExpected ==
  data_ack => /\ shim_state = "WAIT_ACK" \/ (shim_state = "DRAIN" /\ req_accepted_q)
              /\ arb.addr = lat.addr /\ arb.wr = lat.wr

\* The path as a serial memory: the operation latched in the shim is done once
\* it is in S_RESPOND; one being drained is an orphan if it was accepted.
Ops ==
  LET Operation(r, data, status) ==
        [client |-> r.client, wr |-> r.wr, addr |-> r.addr, data |-> data,
         status |-> status]
      First ==
        CASE shim_state \in {"ISSUE", "WAIT_ACK"} -> <<Operation(lat, lat.data, "waiting")>>
          [] shim_state = "RESPOND" ->
               <<Operation(lat, IF lat.wr THEN lat.data ELSE lat_rdata, "done")>>
          [] shim_state = "DRAIN" /\ req_accepted_q -> <<Operation(lat, lat.data, "orphan")>>
          [] OTHER -> << >>
  IN  First \o [k \in 1..Len(fifo) |-> Operation(fifo[k], fifo[k].data, "waiting")]

Reply ==
  CASE be_resp # None ->
         [client |-> "lsq", wr |-> FALSE, addr |-> ld_wait_addr, data |-> be_resp]
    [] store_drain_ack -> [client |-> "lsq", wr |-> TRUE, addr |-> None, data |-> None]
    [] io_state = "CDB" ->
         [client |-> "io", wr |-> FALSE, addr |-> io_addr, data |-> io_rdata]
    [] OTHER -> None

Serial == INSTANCE SerialMemory WITH ops <- Ops, reply <- Reply

\* The memory path implements a serial memory: whatever the flushes, the
\* latency of DDRAM and the traffic of instruction fetch, every load is
\* answered with what memory held at its turn.
SerialMemorySpec == Serial!Spec

\* A load given to the queue ends: it is answered, or a flush forgets it.
LoadsEnd == ld_state = "WAIT" ~> ld_state # "WAIT"

\* A store drain ends as well.
DrainsEnd == \A i \in PendId : pend_valid[i] ~> ~pend_valid[i]

\* f386_mmio_io_path.sv:244 says the IO path "must reach IO_IDLE after flush
\* settles".
IoSettles == io_state = "DRAIN" ~> io_state = "IDLE"
=============================================================================
