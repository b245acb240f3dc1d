--------------------------- MODULE RegisterRename ---------------------------
(***************************************************************************)
(* Register renaming (rtl/core/f386_register_rename.sv with its map table, *)
(* free list, busy table and picker) together with the reorder buffer that *)
(* carries each destination to retirement, wired as in f386_ooo_core_top.  *)
(*                                                                         *)
(* An entry of the reorder buffer keeps the physical register written and  *)
(* the one it replaces.  Branch snapshots are left out: the package gates  *)
(* them off (CONF_ENABLE_RENAME_SNAP = 0), so every recovery is a flush.   *)
(***************************************************************************)
EXTENDS ReorderBuffer

CONSTANTS
  P,      \* CONF_PHYS_REG_NUM
  A,      \* CONF_ARCH_REG_NUM
  VPipe   \* where the loop through rename_v_alloc_valid has settled

Phys == 0..(P - 1)
Arch == 0..(A - 1)

\* What dispatch adds to an instruction.
Renamed == [dest_valid : BOOLEAN, p_dest : Phys, old_phys : Phys]

ASSUME RegistersAssumption == A \in Nat \ {0} /\ P \in Nat /\ P >= A
ASSUME VPipeAssumption == VPipe \in BOOLEAN
ASSUME InstrAssumption == Instr = Renamed /\ None \notin 0..P

VARIABLES
  spec_map,   \* architectural to physical register, updated at dispatch
  com_map,    \* the same, updated at retirement
  free_map,   \* the set bits of the free list
  busy        \* the set bits of the busy table

rename_vars == <<spec_map, com_map, free_map, busy>>

RenameTypeOK ==
  /\ TypeOK
  /\ spec_map \in [Arch -> Phys]
  /\ com_map \in [Arch -> Phys]
  /\ free_map \subseteq Phys
  /\ busy \subseteq Phys

RenameInit ==
  /\ Init
  /\ spec_map = [a \in Arch |-> a]
  /\ com_map = [a \in Arch |-> a]
  /\ free_map = Phys \ Arch
  /\ busy = {}

-----------------------------------------------------------------------------
(***************************************************************************)
(* Dispatch                                                                *)
(***************************************************************************)

\* The picker's grant: the lowest bit requested.
Grant(S) == {p \in S : \A q \in S : p <= q}

\* pick_idx[0] and pick_idx[1], None when not valid: V's pick is the second,
\* whether U takes the first or not.
PickU == IF free_map = {} THEN {None} ELSE Grant(free_map)
PickV(pu) == IF free_map \ {pu} = {} THEN {None} ELSE Grant(free_map \ {pu})

\* An instruction without destination.
NoDest == A

\* Slip: dispatch does not look at can_rename.
UInput_ungated(pu) == IF full THEN {None} ELSE Arch \cup {NoDest, None}

\* The U pipe's architectural destination, NoDest, or None: nothing is
\* dispatched.  can_rename is that the first pick is valid.
UInput(pu) == IF full \/ pu = None THEN {None} ELSE Arch \cup {NoDest, None}

\* dispatch_v_valid waits for rename_v_alloc_valid, which is an allocation for
\* dispatch_v_valid: a loop without register.  It keeps the value it has,
\* VPipe, and at TRUE lets instructions with a destination through.
VInput(pv) == IF VPipe /\ ~full /\ pv # None THEN Arch \cup {None} ELSE {None}

patched_u(u, pu) ==
  IF u = None THEN None
  ELSE IF u = NoDest THEN [dest_valid |-> FALSE, p_dest |-> 0, old_phys |-> 0]
  ELSE [dest_valid |-> TRUE, p_dest |-> pu, old_phys |-> spec_map[u]]

patched_v(u, pu, v, pv) ==
  IF v = None THEN None
  ELSE [dest_valid |-> TRUE, p_dest |-> pv,
        old_phys |-> IF u = v THEN pu ELSE spec_map[v]]

\* What both pipes take from the free list and mark busy.
Allocation(u, pu, v, pv) ==
  {p \in Phys : (u \in Arch /\ p = pu) \/ (v \in Arch /\ p = pv)}

(***************************************************************************)
(* Retirement: the reorder buffer hands back p_dest and the register it    *)
(* replaced.  Both leave it in a flush cycle too.                          *)
(***************************************************************************)
\* Slip: retirement is not gated by dest_valid.
Committed_all == Retired

Committed == {s \in Retired : entry_instr[s].dest_valid}

Reclaimed == {entry_instr[s].old_phys : s \in Committed}

\* The map is written at the low bits of the physical register; V goes last.
com_map_next ==
  LET next == Plus(head, 1)
      Writes(s, i) == s \in Committed /\ entry_instr[s].p_dest % A = i
  IN [i \in Arch |-> IF Writes(next, i) THEN entry_instr[next].p_dest
                     ELSE IF Writes(head, i) THEN entry_instr[head].p_dest
                     ELSE com_map[i]]

\* Everything the committed map does not name.
rebuild_map == Phys \ {com_map[i] : i \in Arch}

(***************************************************************************)
(* Writeback.  A macro-op at the head is carried out by micro-ops, which   *)
(* write the registers of the committed map over bus 0; only the last      *)
(* reaches the reorder buffer.                                             *)
(***************************************************************************)
MicroInput ==
  IF Waiting(head) /\ ~entry_instr[head].dest_valid
  THEN {com_map[i] : i \in Arch} ELSE {}

\* Slip: bus 1 does not reach the busy table.
Written_bus0(w0, w1) ==
  {entry_instr[w.tag].p_dest :
     w \in {b \in {w0} \ {None} : Waiting(b.tag) /\ entry_instr[b.tag].dest_valid}}

\* A register allocated in this very cycle stays busy whatever the bus says,
\* so the V pipe's own transfer does not count.
Written(w0, w1) ==
  {entry_instr[w.tag].p_dest :
     w \in {b \in {w0, w1} \ {None} : Waiting(b.tag) /\ entry_instr[b.tag].dest_valid}}

-----------------------------------------------------------------------------
(***************************************************************************)
(* Clock edges                                                             *)
(***************************************************************************)
RenameClock(u, pu, v, pv, cleared) ==
  LET taken == Allocation(u, pu, v, pv) IN
  /\ spec_map' = [a \in Arch |-> IF a = v THEN pv
                                 ELSE IF a = u THEN pu ELSE spec_map[a]]
  /\ com_map' = com_map_next
  /\ free_map' = (free_map \ taken) \cup Reclaimed
  /\ busy' = (busy \ cleared) \cup taken

\* One edge of the buffer and the renamer together.
Edge(u, pu, v, pv, w0, w1, micro) ==
  /\ Distinct(w0, w1)
  /\ Clock(patched_u(u, pu), patched_v(u, pu, v, pv), w0, w1)
  /\ RenameClock(u, pu, v, pv, micro \cup Written(w0, w1))

RenameCycle ==
  \E pu \in PickU : \E pv \in PickV(pu) :
    \E u \in UInput(pu), v \in VInput(pv) :
      \E w0 \in Bus0Input :
        \E w1 \in Bus1Input(patched_u(u, pu), patched_v(u, pu, v, pv)) :
          Edge(u, pu, v, pv, w0, w1, {})

\* Dispatch is closed while micro-ops run.
MicroCycle ==
  \E p \in MicroInput : \E w0 \in {w \in Bus0Input : w # None => w.tag = head} :
    \E w1 \in Bus1Input(None, None) :
      Edge(None, None, None, None, w0, w1, {p})

\* Slip: the map comes back but the free list is not rebuilt.
RenameFlush_partial ==
  /\ Flush
  /\ spec_map' = com_map
  /\ com_map' = com_map_next
  /\ busy' = {}
  /\ UNCHANGED free_map

RenameFlush ==
  /\ Flush
  /\ spec_map' = com_map
  /\ com_map' = com_map_next
  /\ free_map' = rebuild_map
  /\ busy' = {}

RenameNext == RenameCycle \/ MicroCycle \/ RenameFlush

RenameSpec == RenameInit /\ [][RenameNext]_<<vars, rename_vars>>

-----------------------------------------------------------------------------
(***************************************************************************)
(* Properties                                                              *)
(***************************************************************************)
Writer(s) == entry_valid[s] /\ entry_instr[s].dest_valid

Mapped == {spec_map[a] : a \in Arch}

\* Registers that come back when their replacements retire.
Owed == {entry_instr[s].old_phys : s \in {t \in Slot : Writer(t)}}

\* Conservation: every physical register is free, mapped, or owed by exactly
\* one instruction in flight, and only one of these.  Two-wide allocation and
\* reclamation and the rebuild on a flush neither leak nor double a register.
Conserved ==
  /\ \A a, b \in Arch : a # b => spec_map[a] # spec_map[b]
  /\ \A s, t \in Slot : Writer(s) /\ Writer(t) /\ s # t
                          => entry_instr[s].old_phys # entry_instr[t].old_phys
  /\ Mapped \cap Owed = {}
  /\ free_map = Phys \ (Mapped \cup Owed)

\* An instruction in flight keeps its destination to itself: it is not free,
\* so not handed out again, and nobody else in flight writes it.
DestinationHeld ==
  \A s \in Slot : Writer(s) =>
    /\ entry_instr[s].p_dest \notin free_map
    /\ \A t \in Slot : Writer(t) /\ t # s => entry_instr[t].p_dest # entry_instr[s].p_dest

\* No register stays busy without an instruction in flight whose result will
\* clear it: a source that waits is waiting for somebody.
BusyIsPending ==
  \A p \in busy : \E s \in Slot :
    Waiting(s) /\ entry_instr[s].dest_valid /\ entry_instr[s].p_dest = p

\* spec_map with the k youngest renames taken back.
Undone[k \in 0..count] ==
  IF k = 0 THEN spec_map
  ELSE LET i == entry_instr[SlotOf(count - k + 1)] IN
       [a \in Arch |-> IF i.dest_valid /\ Undone[k - 1][a] = i.p_dest
                       THEN i.old_phys ELSE Undone[k - 1][a]]

\* The committed map is the map without the renames in flight, so that a flush
\* takes these back and nothing else.
Recoverable == com_map = Undone[count]

\* Retirement moves an instruction's rename from the speculative to the
\* committed map: a cycle without flush never breaks Recoverable.
CommitsItsRename == [][RenameCycle /\ Recoverable => Recoverable']_<<vars, rename_vars>>
=============================================================================
