-------------------------------- MODULE Ddram -------------------------------
(***************************************************************************)
(* The DDRAM port of the MiSTer framework as f386_mem_ctrl uses it: a      *)
(* strobe is obeyed in the cycle it is seen (the controller looks at busy  *)
(* one cycle earlier), a write is done at once, and the word read comes    *)
(* back some cycles later.                                                 *)
(***************************************************************************)
EXTENDS MemTypes

VARIABLES
  mem,        \* contents of memory
  rd_pending  \* the address being read, or None

dram_vars == <<mem, rd_pending>>

DramTypeOK == mem \in [Addr -> Val] /\ rd_pending \in Addr \cup {None}

DramInit == mem \in [Addr -> Val] /\ rd_pending = None

\* The word delivered in this cycle, when the memory chooses to.
Delivered(deliver) == IF deliver /\ rd_pending # None THEN mem[rd_pending] ELSE None

\* Memory after a write strobe.
Written(we, addr, din, be) ==
  IF ~we THEN mem
  ELSE [mem EXCEPT ![addr] = IF be = "low" THEN [@ EXCEPT ![0] = din] ELSE din]

DramClock(deliver, rd, we, addr, din, be) ==
  /\ mem' = Written(we, addr, din, be)
  /\ rd_pending' = IF rd THEN addr ELSE IF deliver THEN None ELSE rd_pending
=============================================================================
