------------------------------- MODULE PageWalker ---------------------------
(***************************************************************************)
(* The page table walker (rtl/memory/f386_page_walker.sv): directory       *)
(* entry, table entry, and a write of the table entry when its accessed or *)
(* dirty bit must be set.  A request to memory is a pulse of one cycle; the *)
(* walker then waits for an acknowledge, whosever it is.                   *)
(***************************************************************************)
EXTENDS PageTypes

VARIABLES
  walk_state,
  walk,        \* r_vaddr, r_write, r_user
  pde, pte, pte_addr,
  walk_done,
  walk_fault,  \* the code of a fault, or None
  walk_out,    \* walk_ppn, walk_dirty, walk_user_out, walk_writable
  pt_mem       \* pt_mem_req with address, write flag and data, or None

walker_vars == <<walk_state, walk, pde, pte, pte_addr, walk_done, walk_fault, walk_out,
                 pt_mem>>

WalkerTypeOK ==
  /\ walk_state \in {"IDLE", "PDE_FETCH", "PDE_WAIT", "PTE_FETCH", "PTE_WAIT",
                     "AD_UPDATE", "AD_WAIT"}
  /\ walk \in Access \cup {None}
  /\ pde \in PageEntry \cup {None} /\ pte \in PageEntry \cup {None}
  /\ pte_addr \in (Frame \X Index) \cup {None}
  /\ walk_done \in BOOLEAN
  /\ walk_fault \in FaultCode \cup {None}
  /\ walk_out \in [ppn : Frame, dirty : BOOLEAN, user : BOOLEAN, writable : BOOLEAN] \cup {None}
  /\ pt_mem \in [addr : Frame \X Index, wr : BOOLEAN, wdata : PageEntry \cup {None}]
                \cup {None}

WalkerInit ==
  /\ walk_state = "IDLE" /\ walk = None
  /\ pde = None /\ pte = None /\ pte_addr = None
  /\ walk_done = FALSE /\ walk_fault = None /\ walk_out = None
  /\ pt_mem = None

walker_busy == walk_state # "IDLE"

\* The states in which the walker waits for an acknowledge.
Waiting == {"PDE_WAIT", "PTE_WAIT", "AD_WAIT"}

Quiet == walk_done' = FALSE /\ walk_fault' = None /\ pt_mem' = None

ReadFrom(addr) == [addr |-> addr, wr |-> FALSE, wdata |-> None]

\* The walk ends with a fault.
Faults(present) ==
  /\ walk_done' = TRUE
  /\ walk_fault' = [user |-> walk.user, write |-> walk.write, present |-> present]
  /\ walk_state' = "IDLE"
  /\ UNCHANGED walk_out

\* It ends with the translation of a table entry.
Succeeds(e, dirty) ==
  /\ walk_done' = TRUE /\ walk_fault' = None
  /\ walk_out' = [ppn |-> e.base, dirty |-> dirty, user |-> e.user, writable |-> e.writable]
  /\ walk_state' = "IDLE"

Goes(state) == walk_state' = state /\ walk_done' = FALSE /\ walk_fault' = None

\* IDLE
Take(req) ==
  /\ walk_state = "IDLE"
  /\ walk_state' = IF req = None THEN "IDLE" ELSE "PDE_FETCH"
  /\ walk' = IF req = None THEN walk ELSE req
  /\ Quiet
  /\ UNCHANGED <<pde, pte, pte_addr, walk_out>>

FetchPde(cr3) ==
  /\ walk_state = "PDE_FETCH"
  /\ Goes("PDE_WAIT")
  /\ pt_mem' = ReadFrom(<<cr3, walk.vpn[1]>>)
  /\ UNCHANGED <<walk, pde, pte, pte_addr, walk_out>>

\* The three states that wait, as long as no acknowledge comes.
Wait(ack) ==
  /\ walk_state \in Waiting /\ ~ack
  /\ Quiet
  /\ UNCHANGED <<walk_state, walk, pde, pte, pte_addr, walk_out>>

PdeArrives(ack, e) ==
  /\ walk_state = "PDE_WAIT" /\ ack
  /\ pde' = e
  /\ CASE ~e.present -> Faults(FALSE)
       [] e.present /\ walk.user /\ ~e.user -> Faults(TRUE)
       [] OTHER -> Goes("PTE_FETCH") /\ UNCHANGED walk_out
  /\ pt_mem' = None
  /\ UNCHANGED <<walk, pte, pte_addr>>

\* Slip: the address kept for the write-back has the directory's index.
FetchPte_directory ==
  /\ walk_state = "PTE_FETCH"
  /\ Goes("PTE_WAIT")
  /\ pte_addr' = <<pde.base, walk.vpn[1]>>
  /\ pt_mem' = ReadFrom(<<pde.base, walk.vpn[2]>>)
  /\ UNCHANGED <<walk, pde, pte, walk_out>>

FetchPte ==
  /\ walk_state = "PTE_FETCH"
  /\ Goes("PTE_WAIT")
  /\ pte_addr' = <<pde.base, walk.vpn[2]>>
  /\ pt_mem' = ReadFrom(pte_addr')
  /\ UNCHANGED <<walk, pde, pte, walk_out>>

PteArrives(ack, e) ==
  /\ walk_state = "PTE_WAIT" /\ ack
  /\ pte' = e
  /\ CASE ~e.present -> Faults(FALSE)
       [] e.present /\ ((walk.user /\ ~e.user) \/ (walk.write /\ ~e.writable)) -> Faults(TRUE)
       [] OTHER -> IF ~e.accessed \/ (walk.write /\ ~e.dirty)
                   THEN Goes("AD_UPDATE") /\ UNCHANGED walk_out
                   ELSE Succeeds(e, e.dirty)
  /\ pt_mem' = None
  /\ UNCHANGED <<walk, pde, pte_addr>>

\* Slip: only the accessed bit is written back.
Marked_accessed(e) == [e EXCEPT !.accessed = TRUE]

\* The entry written back.
Marked(e) == [e EXCEPT !.accessed = TRUE, !.dirty = @ \/ walk.write]

UpdateAd ==
  /\ walk_state = "AD_UPDATE"
  /\ Goes("AD_WAIT")
  /\ pt_mem' = [addr |-> pte_addr, wr |-> TRUE, wdata |-> Marked(pte)]
  /\ UNCHANGED <<walk, pde, pte, pte_addr, walk_out>>

AdWritten(ack) ==
  /\ walk_state = "AD_WAIT" /\ ack
  /\ Succeeds(pte, pte.dirty \/ walk.write)
  /\ pt_mem' = None
  /\ UNCHANGED <<walk, pde, pte, pte_addr>>

CancelWalk ==
  /\ walk_state' = "IDLE"
  /\ Quiet
  /\ UNCHANGED <<walk, pde, pte, pte_addr, walk_out>>

(* One clock edge, given a request for a walk or None, the acknowledge with
   the entry read, and the page directory's frame.                          *)
WalkerClock(flush, req, ack, rdata, cr3) ==
  \/ flush /\ CancelWalk
  \/ /\ ~flush
     /\ \/ Take(req) \/ FetchPde(cr3) \/ Wait(ack) \/ PdeArrives(ack, rdata)
        \/ FetchPte \/ PteArrives(ack, rdata) \/ UpdateAd \/ AdWritten(ack)
=============================================================================
