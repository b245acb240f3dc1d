-------------------------------- MODULE WalkPath ----------------------------
(***************************************************************************)
(* Translation of data addresses, wired as in gen_dtlb of                  *)
(* rtl/core/f386_ooo_core_top.sv: the core's request and its context, the  *)
(* frontend with TLB and walker, and the page-walker port of the memory    *)
(* controller, which instruction fetch and data requests use as well.  The *)
(* page tables lie in memory; nobody but the walker writes them here.      *)
(* The port of the split-phase L2 cache takes the walker's pulse in its    *)
(* idle state only, too, and delivers the low half of a word as well       *)
(* (f386_l2_cache_sp.sv:839 and 1058).                                     *)
(***************************************************************************)
EXTENDS DtlbFrontend, MemCtrl, Ddram

CONSTANTS
  Directory,  \* frames of page directories, the values of CR3
  Tables,     \* contents of memory to begin with
  DataAddr    \* a word outside the page tables

\* Any half is an entry when it is read as one, and any two make a word.
ASSUME EntryAssumption == Half = PageEntry /\ Val = [0..1 -> Half]
ASSUME TablesAssumption == Tables \subseteq [Addr -> Val]
ASSUME DirectoryAssumption == Directory \subseteq Frame
ASSUME DataAssumption == DataAddr \in Addr

\* Every frame is memory, two entries to a word.
ASSUME FrameAssumption == Frame \X {i \div 2 : i \in Index} \subseteq Addr

(* What the controller's port delivers in memory m for a page's entry of the
   directory in frame f: the low half of its word, whichever half the entry is. *)
DirEntry(m, f, vpn) == m[<<f, vpn[1] \div 2>>][0]

\* No word of a directory, or of a table that an entry points to, is written as data.
Mapped(m) ==
  \A f \in Directory, vpn \in Vpn :
    /\ <<f, vpn[1] \div 2>> # DataAddr
    /\ LET d == DirEntry(m, f, vpn) IN
       d.present => <<d.base, vpn[2] \div 2>> # DataAddr

ASSUME MappedAssumption == \A m \in Tables : Mapped(m)

VARIABLES
  sys_cr3,
  paging, paging_prev,  \* CR0.PG and its copy in cr0_prev
  xlat_ctx              \* what is kept of the instruction being translated

core_vars == <<sys_cr3, paging, paging_prev, xlat_ctx>>

(* History that no action depends on: a flush has cancelled the request of the
   walker's that the controller holds; the walker has taken the acknowledge of
   such a request for that of its own.                                      *)
VARIABLES orphan, misled

history_vars == <<orphan, misled>>

vars == <<tlb_vars, walker_vars, xl_vars, ctrl_vars, dram_vars, core_vars, history_vars>>

WalkTypeOK ==
  /\ TlbTypeOK /\ WalkerTypeOK /\ XlTypeOK /\ CtrlTypeOK /\ DramTypeOK
  /\ sys_cr3 \in Directory /\ paging \in BOOLEAN /\ paging_prev \in BOOLEAN
  /\ xlat_ctx \in [linear : Vpn, is_store : BOOLEAN] \cup {None}
  /\ orphan \in BOOLEAN /\ misled \in BOOLEAN

Init ==
  /\ TlbInit /\ WalkerInit /\ XlInit /\ CtrlInit
  /\ mem \in Tables /\ rd_pending = None
  /\ sys_cr3 \in Directory /\ paging = FALSE /\ paging_prev = FALSE
  /\ xlat_ctx = None
  /\ orphan = FALSE /\ misled = FALSE

-----------------------------------------------------------------------------
\* Slip: the index of an entry is taken for that of a word.
WordOf_unshifted(addr) == addr

\* Two entries share a word; the low half is entry 0 of the pair.
WordOf(addr) == <<addr[1], addr[2] \div 2>>

PtPort ==
  IF pt_mem = None THEN None
  ELSE [addr |-> WordOf(pt_mem.addr), wr |-> pt_mem.wr, wdata |-> pt_mem.wdata]

\* Requests of fetch and of the data port; which word is not told apart.
Reads == [addr |-> DataAddr, wr |-> FALSE, wdata |-> None]
Writes == [addr |-> DataAddr, wr |-> TRUE, wdata |-> CHOOSE v \in Val : TRUE]

\* The controller has a request of the walker's, or acknowledges it.
Held == pt_ack \/ (arb_state # "IDLE" /\ arb.source = "pt")

\* A request accepted in the cycle of the flush is cancelled as well.
Remember(flush) ==
  /\ orphan' = (Held' /\ (flush \/ (arb_state # "IDLE" /\ orphan)))
  /\ misled' = (misled \/ (~flush /\ orphan /\ pt_ack /\ walk_state \in Waiting))

(***************************************************************************)
(* One clock cycle.  event is a write to a control register (a frame for   *)
(* CR3, "PG" for CR0 with PG changed), "mispredict" for any other cause of *)
(* a flush, or None; the change of PG flushes one cycle later.             *)
(***************************************************************************)
Cycle(event, req, hold, ifetch, data, busy, deliver) ==
  LET flush_all == event \in Directory
      flush == event = "mispredict" \/ flush_all \/ paging # paging_prev
      xlat_req_fire == req # None /\ ~dtlb_busy
  IN
  /\ DtlbClock(flush, flush_all, req, hold, paging, sys_cr3, pt_ack, pt_rdata)
  /\ CtrlClock(ifetch, data, PtPort, busy, Delivered(deliver))
  /\ DramClock(deliver, ddram_rd, ddram_we, ddram_addr, ddram_din, ddram_be)
  /\ sys_cr3' = IF flush_all THEN event ELSE sys_cr3
  /\ paging' = (paging # (event = "PG")) /\ paging_prev' = paging
  /\ xlat_ctx' = IF flush THEN None
                 ELSE IF xlat_req_fire
                 THEN [linear |-> req.vpn, is_store |-> req.write] ELSE xlat_ctx
  /\ Remember(flush)

(* What may come from outside in a cycle, where it can make a difference.   *)

Event == {None, "mispredict", "PG"} \cup Directory

RequestInput(event) ==
  {None} \cup IF dtlb_busy \/ event \notin {None, "PG"} \/ paging # paging_prev
              THEN {} ELSE Access

\* A load may be held in its response, as an uncached one is.
HoldInput ==
  {FALSE} \cup IF xl_state = "RESP" /\ xl_resp.fault = None /\ ~xl_req.write
               THEN {TRUE} ELSE {}

\* A fetch occupies the controller for two reads, which covers a data read.
Traffic(busy) ==
  {[ifetch |-> None, data |-> None]} \cup
  IF arb_state = "IDLE" /\ pt_mem = None /\ ~busy
  THEN {[ifetch |-> Reads, data |-> None], [ifetch |-> Reads, data |-> Writes]}
  ELSE {}

BusyInput == {FALSE} \cup IF arb_state = "WAIT" THEN {} ELSE {TRUE}

DeliverInput == {TRUE} \cup IF rd_pending = None THEN {} ELSE {FALSE}

Run(busy, deliver) ==
  \E event \in Event : \E req \in RequestInput(event), hold \in HoldInput, t \in Traffic(busy) :
    Cycle(event, req, hold, t.ifetch, t.data, busy, deliver)

Next == \E busy \in BusyInput, deliver \in DeliverInput : Run(busy, deliver)

Spec == Init /\ [][Next]_vars

\* The clock runs, and DDRAM is ready and answers in the end.
FairSpec == Spec /\ WF_vars(Run(FALSE, TRUE))

-----------------------------------------------------------------------------
(***************************************************************************)
(* Properties                                                              *)
(***************************************************************************)
Entry(addr) == mem[WordOf(addr)][addr[2] % 2]

(* The page whose entries the walker reads and marks in place of a page's own:
   the port has the low half of a word only (f386_mem_ctrl.sv:210), so an odd
   index gets the entry below it.  Even indices get their own.              *)
ReadAs(vpn) == <<2 * (vpn[1] \div 2), 2 * (vpn[2] \div 2)>>

DirectoryEntry(vpn) == Entry(<<sys_cr3, ReadAs(vpn)[1]>>)
TableEntry(vpn) == Entry(<<DirectoryEntry(vpn).base, ReadAs(vpn)[2]>>)

Refused(a, present) == Fault([user |-> a.user, write |-> a.write, present |-> present])

\* What a table in memory says of an access.
ByTable(a) ==
  LET t == TableEntry(a.vpn) IN
  IF ~t.present THEN Refused(a, FALSE)
  ELSE IF (a.user /\ ~t.user) \/ (a.write /\ ~t.writable) THEN Refused(a, TRUE)
  ELSE Found(t.base)

\* What directory and table say.  A walk heeds the directory's protection, a hit
\* in the TLB, which keeps the table's only, does not.
Translations(a) ==
  LET d == DirectoryEntry(a.vpn) IN
  IF ~d.present THEN {Refused(a, FALSE)}
  ELSE IF a.user /\ ~d.user THEN {Refused(a, TRUE), ByTable(a)} ELSE {ByTable(a)}

\* f386_page_walker.sv:19: "Cancel in-flight walk, quiesce pt_mem_*".  A response
\* is that of the page tables CR3 points to at that moment, and of the very
\* access, be it by a hit, a walk or without paging: no walk that a flush
\* cancelled makes itself felt in a later one.  In the one cycle in which a
\* change of PG has yet to flush, nobody looks.
FlushCancels ==
  xl_state = "RESP" /\ paging = paging_prev =>
    xl_resp \in IF paging THEN Translations(xl_req) ELSE {Found(xl_req.vpn)}

\* The same as long as the walker has not taken the acknowledge of a cancelled
\* request: flushes, writes of CR3 and changes of PG in any cycle, also while a
\* walk waits for memory, and any delay of memory do no other harm.
TranslatesByTables == ~misled => FlushCancels

\* What the core has kept of the instruction is the request in progress: a
\* physical address never goes to the queue entry of another instruction.
ContextAgrees ==
  dtlb_busy => xlat_ctx = [linear |-> xl_req.vpn, is_store |-> xl_req.write]

\* Until then, every valid entry is a copy of the table entry of its page under
\* the present CR3; that entry has been marked as accessed, and as dirty if the
\* copy is.
TlbAgrees ==
  ~misled =>
    \A i \in Slot : entry_valid[i] =>
      LET e == entry[i]
          t == TableEntry(e.vpn)
      IN  /\ DirectoryEntry(e.vpn).present /\ t.present
          /\ e.ppn = t.base /\ e.user = t.user /\ e.writable = t.writable
          /\ t.accessed /\ (e.dirty => t.dirty)

\* Until then, the walker never changes anything in the tables but to set accessed
\* and dirty bits, be it with a write that a flush left behind, no bit is ever
\* lost by a write-back of an older copy, and the entry beside stays as it is.
OnlyMarks ==
  [][mem' # mem /\ ~misled =>
       \A a \in Addr \ {DataAddr} :
         /\ mem'[a][1] = mem[a][1]
         /\ LET old == mem[a][0]
                new == mem'[a][0]
            IN  /\ old.accessed => new.accessed
                /\ old.dirty => new.dirty
                /\ new = [old EXCEPT !.accessed = new.accessed, !.dirty = new.dirty]]_vars

\* f386_dtlb_frontend.sv:10: "TLB miss:   ~10-20 cycles (PDE + PTE fetch +
\* optional A/D RMW + fill)".  A walk comes to an end.
WalksEnd == xl_state = "WALK" ~> xl_state # "WALK"
=============================================================================
