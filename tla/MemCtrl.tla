-------------------------------- MODULE MemCtrl -----------------------------
(***************************************************************************)
(* The memory controller (rtl/top/f386_mem_ctrl.sv): one state machine     *)
(* that serves the page walker, the data port and instruction fetch, in    *)
(* this order of priority, over the DDRAM port of the MiSTer framework.    *)
(* It has no flush input: what it has accepted it completes.               *)
(*                                                                         *)
(* Addresses are those of words: the byte address's low bits are dropped   *)
(* by the controller, and the A20 mask is applied before a request comes   *)
(* here.  The fetched bytes are left out, as are the byte enables of the   *)
(* data port; those of the page walker's port are not.                     *)
(***************************************************************************)
EXTENDS MemTypes

VARIABLES
  arb_state,     \* state
  arb,           \* arb_source, arb_addr, arb_wr and arb_wdata
  ifetch_phase,  \* reading the second half of the 128-bit fetch
  ifetch_valid,
  data_ack, data_rdata,
  pt_ack, pt_rdata,
  ddram_rd, ddram_we,  \* registered strobes, one cycle long
  ddram_addr, ddram_din, ddram_be

ctrl_vars == <<arb_state, arb, ifetch_phase, ifetch_valid, data_ack, data_rdata,
               pt_ack, pt_rdata, ddram_rd, ddram_we, ddram_addr, ddram_din, ddram_be>>

\* A request on a port: a word for the data port, a half for the page walker.
PortRequest == [addr : Addr, wr : BOOLEAN, wdata : Val \cup Half \cup {None}]

Accepted == [source : {"ifetch", "data", "pt"}, addr : Addr, wr : BOOLEAN,
             wdata : Val \cup Half \cup {None}]

\* A port without a request is told apart from one with a request.
ASSUME PortAssumption == None \notin PortRequest /\ None \notin Accepted

CtrlTypeOK ==
  /\ arb_state \in {"IDLE", "IFETCH", "DATA", "PT", "WAIT"}
  /\ arb \in Accepted \cup {None}
  /\ ifetch_phase \in BOOLEAN /\ ifetch_valid \in BOOLEAN
  /\ data_ack \in BOOLEAN /\ data_rdata \in Val \cup {None}
  /\ pt_ack \in BOOLEAN /\ pt_rdata \in Half \cup {None}
  /\ ddram_rd \in BOOLEAN /\ ddram_we \in BOOLEAN
  /\ ddram_addr \in Addr \cup {None}
  /\ ddram_din \in Val \cup Half \cup {None}
  /\ ddram_be \in {"word", "low"}

CtrlInit ==
  /\ arb_state = "IDLE" /\ arb = None
  /\ ifetch_phase = FALSE /\ ifetch_valid = FALSE
  /\ data_ack = FALSE /\ data_rdata = None
  /\ pt_ack = FALSE /\ pt_rdata = None
  /\ ddram_rd = FALSE /\ ddram_we = FALSE
  /\ ddram_addr = None /\ ddram_din = None /\ ddram_be = "word"

\* The combinational grant of the data port.
data_gnt(data, pt, busy) ==
  arb_state = "IDLE" /\ data # None /\ ~busy /\ pt = None

\* Slip: fetch goes before data.
Selected_fetch_first(ifetch, data, pt) ==
  LET From(port, r) ==
        [source |-> port, addr |-> r.addr, wr |-> r.wr, wdata |-> r.wdata]
  IN  IF pt # None THEN From("pt", pt)
      ELSE IF ifetch # None THEN From("ifetch", ifetch)
      ELSE IF data # None THEN From("data", data) ELSE None

\* Who is served from ARB_IDLE: page walker, then data, then fetch.
Selected(ifetch, data, pt) ==
  LET From(port, r) ==
        [source |-> port, addr |-> r.addr, wr |-> r.wr, wdata |-> r.wdata]
  IN  IF pt # None THEN From("pt", pt)
      ELSE IF data # None THEN From("data", data)
      ELSE IF ifetch # None THEN From("ifetch", ifetch) ELSE None

Serving == [pt |-> "PT", data |-> "DATA", ifetch |-> "IFETCH"]

\* ARB_IDLE
Accept(ifetch, data, pt, busy) ==
  LET r == IF busy THEN None ELSE Selected(ifetch, data, pt) IN
  /\ arb_state' = IF r = None THEN "IDLE" ELSE Serving[r.source]
  /\ arb' = IF r = None THEN arb ELSE r
  /\ ifetch_phase' = (ifetch_phase /\ ~(r # None /\ r.source = "ifetch"))
  /\ ifetch_valid' = FALSE /\ data_ack' = FALSE /\ pt_ack' = FALSE
  /\ ddram_rd' = FALSE /\ ddram_we' = FALSE
  /\ UNCHANGED <<data_rdata, pt_rdata, ddram_addr, ddram_din, ddram_be>>

(* ARB_IFETCH, ARB_DATA and ARB_PT: raise the strobe as soon as the memory is
   not busy.  A write is acknowledged with its strobe, a read when its data
   come.                                                                    *)
Strobe(busy) ==
  LET writes == arb.wr /\ arb.source # "ifetch" IN
  /\ arb_state' = IF busy THEN arb_state ELSE IF writes THEN "IDLE" ELSE "WAIT"
  /\ ddram_rd' = (~busy /\ ~writes)
  /\ ddram_we' = (~busy /\ writes)
  /\ ddram_addr' = IF busy THEN ddram_addr ELSE arb.addr
  /\ ddram_din' = IF busy \/ ~writes THEN ddram_din ELSE arb.wdata
  /\ ddram_be' = IF busy \/ ~writes THEN ddram_be
                 ELSE IF arb.source = "pt" THEN "low" ELSE "word"
  /\ data_ack' = (~busy /\ writes /\ arb.source = "data")
  /\ pt_ack' = (~busy /\ writes /\ arb.source = "pt")
  /\ ifetch_valid' = FALSE
  /\ UNCHANGED <<arb, ifetch_phase, data_rdata, pt_rdata>>

(* ARB_WAIT: the data read go to whoever asked; a fetch goes back for its
   second word.                                                             *)
Collect(dout) ==
  LET To(port) == dout # None /\ arb.source = port IN
  /\ arb_state' = IF dout = None THEN "WAIT"
                  ELSE IF arb.source = "ifetch" /\ ~ifetch_phase THEN "IFETCH" ELSE "IDLE"
  /\ ifetch_phase' = (ifetch_phase \/ To("ifetch"))
  /\ ifetch_valid' = (To("ifetch") /\ ifetch_phase)
  /\ data_ack' = To("data")
  /\ data_rdata' = IF To("data") THEN dout ELSE data_rdata
  /\ pt_ack' = To("pt")
  /\ pt_rdata' = IF To("pt") THEN dout[0] ELSE pt_rdata
  /\ ddram_rd' = FALSE /\ ddram_we' = FALSE
  /\ UNCHANGED <<arb, ddram_addr, ddram_din, ddram_be>>

(* One clock edge, given the requests on the three ports and, from the memory,
   its busy line and the word it delivers in this cycle (or None).          *)
CtrlClock(ifetch, data, pt, busy, dout) ==
  \/ arb_state = "IDLE" /\ Accept(ifetch, data, pt, busy)
  \/ arb_state \in {"IFETCH", "DATA", "PT"} /\ Strobe(busy)
  \/ arb_state = "WAIT" /\ Collect(dout)
=============================================================================
