----------------------------------- MODULE Tlb ------------------------------
(***************************************************************************)
(* The translation lookaside buffer (rtl/memory/f386_tlb.sv): fully        *)
(* associative, with a lookup of two cycles and tree pseudo-LRU            *)
(* replacement.  The accessed bit of an entry is left out: it is always    *)
(* set and never read.  The global bit is tied to zero by the only         *)
(* instance.                                                               *)
(***************************************************************************)
EXTENDS PageTypes

CONSTANT Levels  \* depth of the replacement tree: CONF_TLB_ENTRIES is 2^Levels

ASSUME LevelsAssumption == Levels \in Nat \ {0}

Slot == 0..(2^Levels - 1)
Node == 0..(2^Levels - 2)

TlbEntry == [vpn : Vpn, ppn : Frame, dirty : BOOLEAN, user : BOOLEAN, writable : BOOLEAN]

VARIABLES
  entry_valid, entry,
  plru_tree,
  tlb_r       \* the lookup of the cycle before: r_any_hit, r_hit_idx, r_write, r_user

tlb_vars == <<entry_valid, entry, plru_tree, tlb_r>>

TlbTypeOK ==
  /\ entry_valid \in [Slot -> BOOLEAN]
  /\ entry \in [Slot -> TlbEntry \cup {None}]
  /\ plru_tree \in [Node -> BOOLEAN]
  /\ tlb_r \in [slot : Slot \cup {None}, write : BOOLEAN, user : BOOLEAN] \cup {None}

\* Reset leaves the contents of the entries undefined.
TlbInit ==
  /\ entry_valid = [i \in Slot |-> FALSE]
  /\ entry = [i \in Slot |-> None]
  /\ plru_tree = [n \in Node |-> FALSE]
  /\ tlb_r = None

Matches(vpn) == {i \in Slot : entry_valid[i] /\ entry[i].vpn = vpn}

Lowest(S) == CHOOSE i \in S : \A j \in S : i <= j

(***************************************************************************)
(* Second cycle of a lookup                                                *)
(***************************************************************************)
any_hit == tlb_r # None /\ tlb_r.slot # None

\* Slip: only the user bit is looked at on a hit.
perm_ok_user == tlb_r.user => entry[tlb_r.slot].user

perm_ok ==
  /\ tlb_r.user => entry[tlb_r.slot].user
  /\ tlb_r.write => entry[tlb_r.slot].writable

lookup_hit == any_hit /\ perm_ok

lookup_fault == any_hit /\ ~perm_ok

(***************************************************************************)
(* Replacement.  A node's children are 2n + 1 and 2n + 2, the leaves are   *)
(* the slots in order; TRUE sends the search for a victim to the right.    *)
(***************************************************************************)
Leaf(i) == i + 2^Levels - 1

\* The nodes on the way from a leaf to the root, the leaf first.
Path(i) ==
  LET up[l \in 0..Levels] == IF l = 0 THEN Leaf(i) ELSE (up[l - 1] - 1) \div 2
  IN  {up[l] : l \in 0..Levels}

\* update_plru
Touched(tree, i) ==
  [n \in Node |-> IF 2*n + 1 \in Path(i) THEN TRUE
                  ELSE IF 2*n + 2 \in Path(i) THEN FALSE ELSE tree[n]]

plru_victim(tree) ==
  LET down[l \in 0..Levels] ==
        IF l = 0 THEN 0 ELSE 2 * down[l - 1] + (IF tree[down[l - 1]] THEN 2 ELSE 1)
  IN  down[Levels] - (2^Levels - 1)

\* The slots invalidated; no entry is global.
Dropped(invlpg, flush_all) ==
  IF flush_all THEN Slot ELSE IF invlpg = None THEN {} ELSE Matches(invlpg)

FillSlot(vpn) == IF Matches(vpn) # {} THEN Lowest(Matches(vpn)) ELSE plru_victim(plru_tree)

(***************************************************************************)
(* One clock edge.  lookup, fill and invlpg are None in a cycle without    *)
(* such a request.                                                         *)
(***************************************************************************)
TlbClock(lookup, fill, invlpg, flush_all) ==
  LET hits == IF lookup = None THEN {} ELSE Matches(lookup.vpn)
      used == IF hits = {} THEN plru_tree ELSE Touched(plru_tree, Lowest(hits))
      slot == IF fill = None THEN None ELSE FillSlot(fill.vpn)
  IN
  /\ tlb_r' = IF lookup = None THEN None
              ELSE [slot |-> IF hits = {} THEN None ELSE Lowest(hits),
                    write |-> lookup.write, user |-> lookup.user]
  /\ plru_tree' = IF fill = None THEN used ELSE Touched(used, slot)
  /\ entry' = [i \in Slot |-> IF i = slot THEN fill ELSE entry[i]]
  /\ entry_valid' =
       [i \in Slot |-> (entry_valid[i] \/ i = slot) /\ i \notin Dropped(invlpg, flush_all)]

(***************************************************************************)
(* The buffer by itself, with all inputs free, as in                       *)
(* bench/formal/f386_tlb_props.sv.                                         *)
(***************************************************************************)
TlbNext ==
  \E lookup \in Access \cup {None}, fill \in TlbEntry \cup {None},
     invlpg \in Vpn \cup {None}, flush_all \in BOOLEAN :
       TlbClock(lookup, fill, invlpg, flush_all)

TlbSpec == TlbInit /\ [][TlbNext]_tlb_vars

\* bench/formal/f386_tlb_props.sv:88: "At most one CAM match (no duplicate
\* VPNs)": whatever is filled, invalidated and looked up in whatever order, two
\* valid entries never translate the same page, so that the priority encoder
\* never hides one behind another.
UniqueMatch ==
  \A i, j \in Slot :
    entry_valid[i] /\ entry_valid[j] /\ entry[i].vpn = entry[j].vpn => i = j

\* The entry a lookup or a fill has just used is never the one replaced next.
VictimIsCold == \A i \in Slot : plru_victim(Touched(plru_tree, i)) # i
=============================================================================
