------------------------ MODULE RegisterRename_proofs -----------------------
(***************************************************************************)
(* Conservation of physical registers, for every buffer size, every number *)
(* of architectural and physical registers and both settings of the V      *)
(* pipe.                                                                   *)
(*                                                                         *)
(* Conserved is not inductive alone.  A flush takes the committed map for  *)
(* the speculative one and must find it injective; it is, because entry i  *)
(* only ever holds a register whose low bits are i (Residues).  That the   *)
(* registers given back are those of retired instructions and no others    *)
(* comes from the occupancy invariant of the reorder buffer.               *)
(***************************************************************************)
EXTENDS RegisterRename, ReorderBuffer_proofs

\* An occupied slot holds an instruction.
Loaded == \A s \in Slot : entry_valid[s] => entry_instr[s] \in Renamed

Residues == \A i \in Arch : com_map[i] % A = i

RInv == IInv /\ RenameTypeOK /\ Loaded /\ Conserved /\ Residues

LEMMA InitRInv == RenameInit => RInv
<1> SUFFICES ASSUME RenameInit PROVE RInv
  OBVIOUS
<1> USE NAssumption, RegistersAssumption
<1>1. IInv
  BY InitIInv DEF RenameInit
<1>2. RenameTypeOK
  BY <1>1 DEF RenameInit, RenameTypeOK, IInv, Phys, Arch
<1>3. Loaded
  BY DEF RenameInit, Init, Loaded
<1>4. \A s \in Slot : ~Writer(s)
  BY DEF RenameInit, Init, Writer
<1>5. Mapped = Arch /\ Owed = {}
  BY <1>4 DEF Mapped, Owed, RenameInit
<1>6. Conserved
  BY <1>4, <1>5 DEF Conserved, RenameInit, Arch
<1>7. \A i \in Arch : i % A = i
  BY DEF Arch
<1>8. Residues
  BY <1>7 DEF Residues, RenameInit
<1>9. QED
  BY <1>1, <1>2, <1>3, <1>6, <1>8 DEF RInv

-----------------------------------------------------------------------------
(***************************************************************************)
(* What dispatch hands to one edge: registers granted by the picker, and   *)
(* nothing while the buffer is full.                                       *)
(***************************************************************************)
Granted(u, pu, v, pv) ==
  /\ u \in Arch \cup {NoDest, None}
  /\ v \in Arch \cup {None}
  /\ full => u = None /\ v = None
  /\ u \in Arch => pu \in free_map
  /\ v \in Arch => pv \in free_map
  /\ u \in Arch /\ v \in Arch => pu # pv

LEMMA RenameCycleGrants ==
  ASSUME RInv, NEW pu \in PickU, NEW pv \in PickV(pu),
         NEW u \in UInput(pu), NEW v \in VInput(pv)
  PROVE  Granted(u, pu, v, pv)
<1>1. None \notin Arch /\ None # NoDest /\ NoDest \notin Arch
  BY RegistersAssumption, InstrAssumption DEF Arch, NoDest
<1>2. u \in Arch => pu \in free_map
  BY <1>1 DEF UInput, PickU, Grant
<1>3. v \in Arch => pv \in free_map \ {pu}
  BY <1>1 DEF VInput, PickV, Grant
<1>4. QED
  BY <1>1, <1>2, <1>3 DEF Granted, UInput, VInput

\* The buffer receives instructions, as its own proofs ask.
LEMMA GrantedDispatch ==
  ASSUME RInv, NEW u, NEW pu, NEW v, NEW pv, Granted(u, pu, v, pv)
  PROVE  /\ patched_u(u, pu) \in DispatchInput
         /\ patched_v(u, pu, v, pv) \in DispatchInput
         /\ patched_u(u, pu) # None <=> u # None
         /\ patched_v(u, pu, v, pv) # None <=> v # None
<1> USE RegistersAssumption, InstrAssumption, NoneAssumption
<1>1. None \notin Arch /\ None # NoDest /\ NoDest \notin Arch /\ 0 \in Phys
  BY DEF Arch, NoDest, Phys
<1>2. free_map \subseteq Phys /\ spec_map \in [Arch -> Phys]
  BY DEF RInv, RenameTypeOK
<1>3. u # None => patched_u(u, pu) \in Renamed
  BY <1>1, <1>2 DEF patched_u, Renamed, Granted
<1>4. v # None => patched_v(u, pu, v, pv) \in Renamed
  BY <1>1, <1>2 DEF patched_v, Renamed, Granted
<1>5. QED
  BY <1>3, <1>4 DEF DispatchInput, Granted, patched_u, patched_v

\* How one edge moves instructions through the slots.
LEMMA SlotStep ==
  ASSUME RInv, NEW u \in DispatchInput, NEW v \in DispatchInput,
         NEW w0, NEW w1, Clock(u, v, w0, w1), NEW s \in Slot
  PROVE  /\ s \in Retired => entry_valid[s]
         /\ s \in Allocated(u, v) => ~entry_valid[s]
         /\ entry_valid'[s] <=> (entry_valid[s] /\ s \notin Retired) \/ s \in Allocated(u, v)
         /\ entry_valid[s] => entry_instr'[s] = entry_instr[s]
         /\ s \in Allocated(u, v) =>
              entry_instr'[s] = IF v # None /\ s = v_slot(u) THEN v ELSE u
<1>0. IInv
  BY DEF RInv
<1>1. entry_valid[s] <=> Age(s) < count
  BY <1>0, ContiguousAge DEF IInv
<1>2. retire_count \in 0..2 /\ retire_count <= count /\ count \in Nat /\ Age(s) \in Nat
  BY <1>0, RetireBound, AgeRange DEF IInv, TypeOK
<1>3. dispatch_count(u, v) \in 0..2
  BY <1>0, DispatchFits
<1>4. s \in Retired <=> Age(s) < retire_count
  BY <1>0, RetiredAge
<1>5. s \in Allocated(u, v) <=> Age(s) >= count /\ Age(s) < count + dispatch_count(u, v)
  BY <1>0, AllocatedAge
<1>6. /\ entry_valid'[s] <=> (entry_valid[s] \/ s \in Allocated(u, v)) /\ s \notin Retired
      /\ entry_instr'[s] = IF s \notin Allocated(u, v) THEN entry_instr[s]
                           ELSE IF v # None /\ s = v_slot(u) THEN v ELSE u
  BY DEF Clock
<1>7. QED
  BY <1>1, <1>2, <1>3, <1>4, <1>5, <1>6

\* The slots written are the tail for U and the one after it for V.
LEMMA WrittenSlots ==
  ASSUME RInv, NEW u, NEW v, full => u = None /\ v = None
  PROVE  /\ tail \in Slot /\ v_slot(u) \in Slot
         /\ u # None => v_slot(u) # tail
         /\ \A s \in Slot : s \in Allocated(u, v) <=> \/ u # None /\ s = tail
                                                      \/ v # None /\ s = v_slot(u)
<1>1. tail \in Slot
  BY DEF RInv, IInv, TypeOK
<1>2. v_slot(u) \in Slot /\ (u # None => v_slot(u) # tail)
  BY <1>1, NAssumption DEF v_slot, Plus, Slot
<1>3. \A s \in Slot : s \in Allocated(u, v) <=> \/ u # None /\ s = tail
                                                \/ v # None /\ s = v_slot(u)
  BY DEF Allocated
<1>4. QED
  BY <1>1, <1>2, <1>3

-----------------------------------------------------------------------------
(***************************************************************************)
(* One edge seen by the renamer: the instructions with a destination that  *)
(* stay, those that leave, and the two that come.                          *)
(***************************************************************************)
LEMMA WriterStep ==
  ASSUME RInv, NEW u, NEW pu, NEW v, NEW pv, Granted(u, pu, v, pv),
         NEW w0, NEW w1, Clock(patched_u(u, pu), patched_v(u, pu, v, pv), w0, w1)
  PROVE  LET new == v_slot(patched_u(u, pu)) IN
         /\ tail \in Slot /\ new \in Slot
         /\ u \in Arch => tail # new /\ ~Writer(tail) /\ entry_instr'[tail] = patched_u(u, pu)
         /\ v \in Arch => ~Writer(new) /\ entry_instr'[new] = patched_v(u, pu, v, pv)
         /\ \A s \in Slot : Writer(s) => entry_instr'[s] = entry_instr[s]
         /\ \A s \in Slot : Writer(s)' <=> \/ Writer(s) /\ s \notin Retired
                                           \/ u \in Arch /\ s = tail
                                           \/ v \in Arch /\ s = new
         /\ \A s \in Slot : s \in Committed <=> s \in Retired /\ Writer(s)
<1> DEFINE U == patched_u(u, pu)
           V == patched_v(u, pu, v, pv)
           new == v_slot(U)
<1>1. None \notin Arch /\ None # NoDest /\ NoDest \notin Arch
  BY RegistersAssumption, InstrAssumption DEF Arch, NoDest
<1>2. U \in DispatchInput /\ V \in DispatchInput /\ (U # None <=> u # None) /\ (V # None <=> v # None)
  BY GrantedDispatch
<1>3. full => U = None /\ V = None
  BY <1>2 DEF Granted
<1>4. /\ tail \in Slot /\ new \in Slot
      /\ U # None => new # tail
      /\ \A s \in Slot : s \in Allocated(U, V) <=> \/ U # None /\ s = tail
                                                   \/ V # None /\ s = new
  BY <1>3, WrittenSlots
<1>5. \A s \in Slot :
        /\ s \in Retired => entry_valid[s]
        /\ s \in Allocated(U, V) => ~entry_valid[s]
        /\ entry_valid'[s] <=> (entry_valid[s] /\ s \notin Retired) \/ s \in Allocated(U, V)
        /\ entry_valid[s] => entry_instr'[s] = entry_instr[s]
        /\ s \in Allocated(U, V) => entry_instr'[s] = IF V # None /\ s = new THEN V ELSE U
  BY <1>2, SlotStep
<1>6. u \in Arch => entry_instr'[tail] = U /\ U.dest_valid = TRUE
  BY <1>1, <1>2, <1>4, <1>5 DEF patched_u
<1>7. v \in Arch => entry_instr'[new] = V /\ V.dest_valid = TRUE
  BY <1>1, <1>2, <1>4, <1>5 DEF patched_v
<1>8. u = NoDest => entry_instr'[tail] = U /\ U.dest_valid = FALSE
  BY <1>1, <1>2, <1>4, <1>5 DEF patched_u
<1>9. \A s \in Slot : Writer(s)' <=> \/ Writer(s) /\ s \notin Retired
                                     \/ u \in Arch /\ s = tail
                                     \/ v \in Arch /\ s = new
  <2> SUFFICES ASSUME NEW s \in Slot
               PROVE  Writer(s)' <=> \/ Writer(s) /\ s \notin Retired
                                     \/ u \in Arch /\ s = tail
                                     \/ v \in Arch /\ s = new
    OBVIOUS
  <2>1. CASE entry_valid[s]
    BY <2>1, <1>1, <1>2, <1>4, <1>5 DEF Writer, Granted
  <2>2. CASE ~entry_valid[s] /\ s \in Allocated(U, V)
    BY <2>2, <1>1, <1>2, <1>4, <1>5, <1>6, <1>7, <1>8 DEF Writer, Granted
  <2>3. CASE ~entry_valid[s] /\ s \notin Allocated(U, V)
    BY <2>3, <1>1, <1>2, <1>4, <1>5 DEF Writer, Granted
  <2>4. QED BY <2>1, <2>2, <2>3
<1>10. \A s \in Slot : s \in Committed <=> s \in Retired /\ Writer(s)
  BY <1>5 DEF Committed, Writer
<1>11. /\ u \in Arch => ~Writer(tail)
       /\ v \in Arch => ~Writer(new)
       /\ \A s \in Slot : Writer(s) => entry_instr'[s] = entry_instr[s]
  BY <1>1, <1>2, <1>4, <1>5 DEF Writer
<1>12. QED
  BY <1>1, <1>2, <1>4, <1>6, <1>7, <1>9, <1>10, <1>11

\* The registers owed after an edge: those given back leave, those the new
\* instructions replace come in.
LEMMA OwedStep ==
  ASSUME RInv, NEW u, NEW pu, NEW v, NEW pv, Granted(u, pu, v, pv),
         NEW w0, NEW w1, Clock(patched_u(u, pu), patched_v(u, pu, v, pv), w0, w1)
  PROVE  /\ Reclaimed \subseteq Owed
         /\ \A p : p \in Owed' <=> \/ p \in Owed /\ p \notin Reclaimed
                                   \/ u \in Arch /\ p = spec_map[u]
                                   \/ v \in Arch /\ p = IF u = v THEN pu ELSE spec_map[v]
<1> DEFINE new == v_slot(patched_u(u, pu))
<1>1. /\ tail \in Slot /\ new \in Slot
      /\ u \in Arch => tail # new /\ ~Writer(tail) /\ entry_instr'[tail] = patched_u(u, pu)
      /\ v \in Arch => ~Writer(new) /\ entry_instr'[new] = patched_v(u, pu, v, pv)
      /\ \A s \in Slot : Writer(s) => entry_instr'[s] = entry_instr[s]
      /\ \A s \in Slot : Writer(s)' <=> \/ Writer(s) /\ s \notin Retired
                                        \/ u \in Arch /\ s = tail
                                        \/ v \in Arch /\ s = new
      /\ \A s \in Slot : s \in Committed <=> s \in Retired /\ Writer(s)
  BY WriterStep
<1>2. None \notin Arch /\ NoDest \notin Arch
  BY RegistersAssumption, InstrAssumption DEF Arch, NoDest
<1>3. u \in Arch => entry_instr'[tail].old_phys = spec_map[u]
  BY <1>1, <1>2 DEF patched_u
<1>4. v \in Arch => entry_instr'[new].old_phys = IF u = v THEN pu ELSE spec_map[v]
  BY <1>1, <1>2 DEF patched_v
<1>5. Committed \subseteq Slot
  BY DEF Committed, Retired
<1>6. \A s, t \in Slot : Writer(s) /\ Writer(t) /\ s # t
                           => entry_instr[s].old_phys # entry_instr[t].old_phys
  BY DEF RInv, Conserved
<1>7. Reclaimed \subseteq Owed
  BY <1>1, <1>5 DEF Reclaimed, Owed
<1>8. \A p : p \in Owed' <=> \E s \in Slot : Writer(s)' /\ p = entry_instr'[s].old_phys
  BY DEF Owed, Slot
<1>9. \A p : p \in Owed /\ p \notin Reclaimed
               <=> \E s \in Slot : Writer(s) /\ s \notin Retired /\ p = entry_instr[s].old_phys
  BY <1>1, <1>5, <1>6 DEF Owed, Reclaimed
<1>10. QED
  BY <1>1, <1>3, <1>4, <1>7, <1>8, <1>9

LEMMA MappedStep ==
  ASSUME RInv, NEW u, NEW pu, NEW v, NEW pv, Granted(u, pu, v, pv),
         NEW cleared, RenameClock(u, pu, v, pv, cleared)
  PROVE  \A p : p \in Mapped' <=> \/ /\ p \in Mapped
                                     /\ u \in Arch => p # spec_map[u]
                                     /\ v \in Arch => p # spec_map[v]
                                  \/ v \in Arch /\ p = pv
                                  \/ u \in Arch /\ u # v /\ p = pu
<1>1. spec_map' = [a \in Arch |-> IF a = v THEN pv ELSE IF a = u THEN pu ELSE spec_map[a]]
  BY DEF RenameClock
<1>2. \A a, b \in Arch : a # b => spec_map[a] # spec_map[b]
  BY DEF RInv, Conserved
<1>3. \A p : p \in Mapped' <=> \E a \in Arch : p = spec_map'[a]
  BY DEF Mapped
<1>4. \A p : p \in Mapped <=> \E a \in Arch : p = spec_map[a]
  BY DEF Mapped
<1>5. QED
  BY <1>1, <1>2, <1>3, <1>4

-----------------------------------------------------------------------------
\* One edge neither leaks nor doubles a register.
LEMMA EdgeConserved ==
  ASSUME RInv, NEW u, NEW pu, NEW v, NEW pv, Granted(u, pu, v, pv),
         NEW w0, NEW w1, Clock(patched_u(u, pu), patched_v(u, pu, v, pv), w0, w1),
         NEW cleared, RenameClock(u, pu, v, pv, cleared)
  PROVE  Conserved'
<1> DEFINE new == v_slot(patched_u(u, pu))
<1>1. /\ tail \in Slot /\ new \in Slot
      /\ u \in Arch => tail # new /\ ~Writer(tail) /\ entry_instr'[tail] = patched_u(u, pu)
      /\ v \in Arch => ~Writer(new) /\ entry_instr'[new] = patched_v(u, pu, v, pv)
      /\ \A s \in Slot : Writer(s) => entry_instr'[s] = entry_instr[s]
      /\ \A s \in Slot : Writer(s)' <=> \/ Writer(s) /\ s \notin Retired
                                        \/ u \in Arch /\ s = tail
                                        \/ v \in Arch /\ s = new
  BY WriterStep
<1>2. None \notin Arch /\ NoDest \notin Arch
  BY RegistersAssumption, InstrAssumption DEF Arch, NoDest
<1>3. u \in Arch => entry_instr'[tail].old_phys = spec_map[u]
  BY <1>1, <1>2 DEF patched_u
<1>4. v \in Arch => entry_instr'[new].old_phys = IF u = v THEN pu ELSE spec_map[v]
  BY <1>1, <1>2 DEF patched_v
<1>5. Reclaimed \subseteq Owed
  BY OwedStep
<1>6. \A p : p \in Owed' <=> \/ p \in Owed /\ p \notin Reclaimed
                             \/ u \in Arch /\ p = spec_map[u]
                             \/ v \in Arch /\ p = IF u = v THEN pu ELSE spec_map[v]
  BY OwedStep
<1>7. \A p : p \in Mapped' <=> \/ /\ p \in Mapped
                                  /\ u \in Arch => p # spec_map[u]
                                  /\ v \in Arch => p # spec_map[v]
                               \/ v \in Arch /\ p = pv
                               \/ u \in Arch /\ u # v /\ p = pu
  BY MappedStep
<1>8. /\ \A a, b \in Arch : a # b => spec_map[a] # spec_map[b]
      /\ \A s, t \in Slot : Writer(s) /\ Writer(t) /\ s # t
                             => entry_instr[s].old_phys # entry_instr[t].old_phys
      /\ Mapped \cap Owed = {}
      /\ free_map = Phys \ (Mapped \cup Owed)
  BY DEF RInv, Conserved
<1>9. /\ \A a \in Arch : spec_map[a] \in Mapped
      /\ \A s \in Slot : Writer(s) => entry_instr[s].old_phys \in Owed
  BY DEF Mapped, Owed
<1>10. Mapped \subseteq Phys /\ Owed \subseteq Phys
  <2>1. Mapped \subseteq Phys
    BY DEF RInv, RenameTypeOK, Mapped
  <2>2. Owed \subseteq Phys
    BY DEF RInv, Loaded, Renamed, Owed, Writer
  <2>3. QED BY <2>1, <2>2
<1>11. /\ u \in Arch => pu \in free_map
       /\ v \in Arch => pv \in free_map
       /\ u \in Arch /\ v \in Arch => pu # pv
  BY DEF Granted
<1>12. \A a, b \in Arch : a # b => spec_map'[a] # spec_map'[b]
  <2>1. spec_map' = [a \in Arch |-> IF a = v THEN pv ELSE IF a = u THEN pu ELSE spec_map[a]]
    BY DEF RenameClock
  <2>2. QED BY <2>1, <1>8, <1>9, <1>11
<1>13. \A s, t \in Slot : Writer(s)' /\ Writer(t)' /\ s # t
                            => entry_instr'[s].old_phys # entry_instr'[t].old_phys
  BY <1>1, <1>3, <1>4, <1>8, <1>9, <1>11
<1>14. Mapped' \cap Owed' = {}
  BY <1>6, <1>7, <1>8, <1>9, <1>11
<1>15. free_map' = Phys \ (Mapped' \cup Owed')
  <2>1. \A p : p \in free_map' <=> \/ p \in Reclaimed
                                   \/ /\ p \in free_map
                                      /\ ~(u \in Arch /\ p = pu) /\ ~(v \in Arch /\ p = pv)
    BY <1>8 DEF RenameClock, Allocation
  <2>2. \A p : p \in free_map' <=> p \in Phys /\ p \notin Mapped' /\ p \notin Owed'
    BY <2>1, <1>5, <1>6, <1>7, <1>8, <1>9, <1>10, <1>11
  <2>3. QED BY <2>2
<1>16. QED
  BY <1>12, <1>13, <1>14, <1>15 DEF Conserved, Slot, Arch, Phys

\* The committed map keeps entry i for registers whose low bits are i.
LEMMA CommittedResidues ==
  ASSUME RInv
  PROVE  /\ com_map_next \in [Arch -> Phys]
         /\ \A i \in Arch : com_map_next[i] % A = i
<1>1. com_map \in [Arch -> Phys] /\ Residues
  BY DEF RInv, RenameTypeOK
<1>2. \A s \in Committed : entry_instr[s].p_dest \in Phys
  <2>1. \A s \in Committed : s \in Slot /\ entry_valid[s]
    BY NAssumption DEF Committed, Retired, can_retire_u, can_retire_v
  <2>2. QED BY <2>1 DEF RInv, Loaded, Renamed
<1>3. QED
  BY <1>1, <1>2 DEF com_map_next, Residues

LEMMA EdgeLoaded ==
  ASSUME RInv, NEW u, NEW pu, NEW v, NEW pv, Granted(u, pu, v, pv),
         NEW w0, NEW w1, Clock(patched_u(u, pu), patched_v(u, pu, v, pv), w0, w1)
  PROVE  Loaded'
<1> DEFINE U == patched_u(u, pu)
           V == patched_v(u, pu, v, pv)
<1>1. U \in DispatchInput /\ V \in DispatchInput
  BY GrantedDispatch
<1>2. \A w \in DispatchInput : w # None => w \in Renamed
  BY InstrAssumption DEF DispatchInput
<1>3. ASSUME NEW s \in Slot, entry_valid'[s]
      PROVE  entry_instr'[s] \in Renamed
  <2>1. /\ (entry_valid[s] /\ s \notin Retired) \/ s \in Allocated(U, V)
        /\ entry_valid[s] => entry_instr'[s] = entry_instr[s]
        /\ s \in Allocated(U, V) =>
             entry_instr'[s] = IF V # None /\ s = v_slot(U) THEN V ELSE U
    BY <1>1, <1>3, SlotStep
  <2>2. CASE entry_valid[s]
    BY <2>1, <2>2 DEF RInv, Loaded
  <2>3. CASE s \in Allocated(U, V)
    <3>1. (V # None /\ s = v_slot(U)) \/ U # None
      BY <2>3 DEF Allocated
    <3>2. QED BY <1>1, <1>2, <2>1, <2>3, <3>1
  <2>4. QED BY <2>1, <2>2, <2>3
<1>4. QED
  BY <1>3 DEF Loaded, Slot

\* The renamer's registers keep their ranges.
LEMMA EdgeType ==
  ASSUME RInv, NEW u, NEW pu, NEW v, NEW pv, Granted(u, pu, v, pv),
         NEW cleared, RenameClock(u, pu, v, pv, cleared), TypeOK'
  PROVE  RenameTypeOK'
<1>1. /\ spec_map \in [Arch -> Phys] /\ free_map \subseteq Phys /\ busy \subseteq Phys
      /\ Loaded
  BY DEF RInv, RenameTypeOK
<1>2. spec_map' \in [Arch -> Phys]
  BY <1>1 DEF RenameClock, Granted
<1>3. com_map' \in [Arch -> Phys]
  BY CommittedResidues DEF RenameClock
<1>4. Reclaimed \subseteq Phys
  <2>1. \A s \in Committed : s \in Slot /\ entry_valid[s]
    BY NAssumption DEF Committed, Retired, can_retire_u, can_retire_v
  <2>2. QED BY <1>1, <2>1 DEF Reclaimed, Loaded, Renamed
<1>5. free_map' \subseteq Phys
  BY <1>1, <1>4 DEF RenameClock
<1>6. busy' \subseteq Phys
  BY <1>1 DEF RenameClock, Allocation
<1>7. QED
  BY <1>2, <1>3, <1>5, <1>6 DEF RenameTypeOK, Arch, Phys

LEMMA EdgeRInv ==
  ASSUME RInv, NEW u, NEW pu, NEW v, NEW pv, Granted(u, pu, v, pv),
         NEW w0 \in Bus0Input,
         NEW w1 \in Bus1Input(patched_u(u, pu), patched_v(u, pu, v, pv)),
         NEW micro, Edge(u, pu, v, pv, w0, w1, micro)
  PROVE  RInv'
<1> DEFINE U == patched_u(u, pu)
           V == patched_v(u, pu, v, pv)
           cleared == micro \cup Written(w0, w1)
<1>1. Clock(U, V, w0, w1) /\ RenameClock(u, pu, v, pv, cleared)
  BY DEF Edge
<1>2. U \in DispatchInput /\ V \in DispatchInput
  BY GrantedDispatch
<1>3. IInv
  BY DEF RInv
<1>4. TypeOK'
  BY <1>1, <1>2, <1>3, ClockType
<1>5. Contiguous'
  BY <1>1, <1>2, <1>3, <1>4, ClockContiguous
<1>6. RenameTypeOK'
  BY <1>1, <1>4, EdgeType
<1>7. Loaded'
  BY <1>1, EdgeLoaded
<1>8. Conserved'
  BY <1>1, EdgeConserved
<1>9. Residues'
  BY <1>1, CommittedResidues DEF Residues, RenameClock, Arch
<1>10. QED
  BY <1>4, <1>5, <1>6, <1>7, <1>8, <1>9 DEF RInv, IInv

-----------------------------------------------------------------------------
\* A flush gives every register the committed map does not name back.
LEMMA FlushRInv == ASSUME RInv, RenameFlush PROVE RInv'
<1>1. IInv'
  BY FlushIInv DEF RInv, RenameFlush
<1>2. com_map \in [Arch -> Phys] /\ Residues
  BY DEF RInv, RenameTypeOK
<1>3. \A s \in Slot : ~entry_valid'[s]
  BY DEF RenameFlush, Flush
<1>4. Loaded'
  BY <1>3 DEF Loaded, Slot
<1>5. RenameTypeOK'
  BY <1>1, <1>2, CommittedResidues DEF RenameFlush, RenameTypeOK, IInv, rebuild_map, Arch, Phys
<1>6. Residues'
  BY CommittedResidues DEF RenameFlush, Residues, Arch
<1>7. \A s \in Slot : ~Writer(s)'
  BY <1>3 DEF Writer
<1>8. Owed' = {}
  BY <1>7 DEF Owed, Slot
<1>9. Mapped' = {com_map[i] : i \in Arch}
  BY DEF Mapped, RenameFlush, Arch
<1>10. \A a, b \in Arch : a # b => spec_map'[a] # spec_map'[b]
  BY <1>2 DEF RenameFlush, Residues
<1>11. Conserved'
  <2>1. free_map' = Phys \ (Mapped' \cup Owed')
    BY <1>8, <1>9 DEF RenameFlush, rebuild_map
  <2>2. QED
    BY <1>7, <1>8, <1>10, <2>1 DEF Conserved, Slot, Arch, Phys
<1>12. QED
  BY <1>1, <1>4, <1>5, <1>6, <1>11 DEF RInv

LEMMA NextRInv == RInv /\ [RenameNext]_<<vars, rename_vars>> => RInv'
<1> SUFFICES ASSUME RInv, [RenameNext]_<<vars, rename_vars>> PROVE RInv'
  OBVIOUS
<1>1. CASE RenameCycle
  <2>1. PICK pu \in PickU : \E pv \in PickV(pu) :
               \E u \in UInput(pu), v \in VInput(pv) :
                 \E w0 \in Bus0Input :
                   \E w1 \in Bus1Input(patched_u(u, pu), patched_v(u, pu, v, pv)) :
                     Edge(u, pu, v, pv, w0, w1, {})
    BY <1>1 DEF RenameCycle
  <2>2. PICK pv \in PickV(pu) :
               \E u \in UInput(pu), v \in VInput(pv) :
                 \E w0 \in Bus0Input :
                   \E w1 \in Bus1Input(patched_u(u, pu), patched_v(u, pu, v, pv)) :
                     Edge(u, pu, v, pv, w0, w1, {})
    BY <2>1
  <2>3. PICK u \in UInput(pu), v \in VInput(pv) :
               \E w0 \in Bus0Input :
                 \E w1 \in Bus1Input(patched_u(u, pu), patched_v(u, pu, v, pv)) :
                   Edge(u, pu, v, pv, w0, w1, {})
    BY <2>2
  <2>4. Granted(u, pu, v, pv)
    BY RenameCycleGrants
  <2>5. QED
    BY <2>3, <2>4, EdgeRInv
<1>2. CASE MicroCycle
  <2>1. PICK p \in MicroInput : \E w0 \in Bus0Input : \E w1 \in Bus1Input(None, None) :
               Edge(None, None, None, None, w0, w1, {p})
    BY <1>2 DEF MicroCycle
  <2>2. None \notin Arch
    BY RegistersAssumption, InstrAssumption DEF Arch
  <2>3. Granted(None, None, None, None)
    BY <2>2 DEF Granted
  <2>4. patched_u(None, None) = None /\ patched_v(None, None, None, None) = None
    BY DEF patched_u, patched_v
  <2>5. QED
    BY <2>1, <2>3, <2>4, EdgeRInv
<1>3. CASE RenameFlush
  BY <1>3, FlushRInv
<1>4. CASE UNCHANGED <<vars, rename_vars>>
  <2>1. /\ UNCHANGED <<entry_valid, entry_complete, entry_exception, entry_instr, entry_data>>
        /\ UNCHANGED <<head, tail, count, spec_map, com_map, free_map, busy>>
    BY <1>4 DEF vars, rename_vars
  <2>2. IInv'
    BY <2>1 DEF RInv, IInv, TypeOK, Contiguous, Slot, Plus
  <2>3. RenameTypeOK' /\ Loaded' /\ Residues'
    BY <2>1, <2>2 DEF RInv, IInv, RenameTypeOK, Loaded, Residues, Slot, Arch, Phys
  <2>4. Conserved'
    BY <2>1 DEF RInv, Conserved, Mapped, Owed, Writer, Slot, Arch, Phys
  <2>5. QED BY <2>2, <2>3, <2>4 DEF RInv
<1>5. QED
  BY <1>1, <1>2, <1>3, <1>4 DEF RenameNext

\* The renamer's registers and the buffer's keep their ranges.
THEOREM RenameTypeCorrect == RenameSpec => []RenameTypeOK
<1>1. RInv => RenameTypeOK
  BY DEF RInv
<1>2. QED
  BY InitRInv, NextRInv, <1>1, PTL DEF RenameSpec

\* Physical registers are conserved: whatever is dispatched two at a time,
\* retired two at a time or flushed, each is free, mapped, or owed by exactly
\* one instruction in flight.
THEOREM Conservation == RenameSpec => []Conserved
<1>1. RInv => Conserved
  BY DEF RInv
<1>2. QED
  BY InitRInv, NextRInv, <1>1, PTL DEF RenameSpec

-----------------------------------------------------------------------------
(***************************************************************************)
(* The destinations of instructions in flight.  A register that an         *)
(* instruction writes can be owed only by a younger one, which cannot      *)
(* retire first: so it is not given back while its writer is in flight.    *)
(***************************************************************************)
Chained ==
  \A s, t \in Slot :
    Writer(s) /\ Writer(t) /\ entry_instr[t].old_phys = entry_instr[s].p_dest
      => Age(s) < Age(t)

DInv == RInv /\ DestinationHeld /\ Chained

\* New slots are younger than all others, V's younger than U's.
LEMMA NewAge ==
  ASSUME RInv, NEW u, NEW pu, NEW v, NEW pv, Granted(u, pu, v, pv)
  PROVE  LET new == v_slot(patched_u(u, pu)) IN
         /\ u \in Arch \/ v \in Arch => Age(tail) = count
         /\ v \in Arch => Age(new) >= count
         /\ u \in Arch /\ v \in Arch => Age(new) = count + 1
<1> USE NAssumption
<1>1. None \notin Arch /\ None # NoDest /\ NoDest \notin Arch
  BY RegistersAssumption, InstrAssumption DEF Arch, NoDest
<1>2. u \in Arch => patched_u(u, pu) # None
  BY <1>1, GrantedDispatch
<1>3. u \in Arch \/ v \in Arch => ~full
  BY <1>1 DEF Granted
<1>4. tail = Plus(head, count) /\ head \in Slot /\ tail \in Slot /\ count \in 0..N
  BY DEF RInv, IInv, TypeOK, Contiguous
<1>5. ~full => Age(tail) = count /\ Age(Plus(tail, 1)) = count + 1
  BY <1>4 DEF full, Age, Plus, Slot
<1>6. QED
  BY <1>2, <1>3, <1>4, <1>5 DEF v_slot, Slot

LEMMA EdgeDInv ==
  ASSUME DInv, NEW u, NEW pu, NEW v, NEW pv, Granted(u, pu, v, pv),
         NEW w0, NEW w1, Clock(patched_u(u, pu), patched_v(u, pu, v, pv), w0, w1),
         NEW cleared, RenameClock(u, pu, v, pv, cleared)
  PROVE  DestinationHeld' /\ Chained'
<1> DEFINE new == v_slot(patched_u(u, pu))
<1>0. RInv /\ IInv
  BY DEF DInv, RInv
<1>1. /\ tail \in Slot /\ new \in Slot
      /\ u \in Arch => tail # new /\ ~Writer(tail) /\ entry_instr'[tail] = patched_u(u, pu)
      /\ v \in Arch => ~Writer(new) /\ entry_instr'[new] = patched_v(u, pu, v, pv)
      /\ \A s \in Slot : Writer(s) => entry_instr'[s] = entry_instr[s]
      /\ \A s \in Slot : Writer(s)' <=> \/ Writer(s) /\ s \notin Retired
                                        \/ u \in Arch /\ s = tail
                                        \/ v \in Arch /\ s = new
      /\ \A s \in Slot : s \in Committed <=> s \in Retired /\ Writer(s)
  BY <1>0, WriterStep
<1>2. None \notin Arch /\ NoDest \notin Arch
  BY RegistersAssumption, InstrAssumption DEF Arch, NoDest
<1>3. u \in Arch => /\ entry_instr'[tail].old_phys = spec_map[u]
                    /\ entry_instr'[tail].p_dest = pu
  BY <1>1, <1>2 DEF patched_u
<1>4. v \in Arch => /\ entry_instr'[new].old_phys = IF u = v THEN pu ELSE spec_map[v]
                    /\ entry_instr'[new].p_dest = pv
  BY <1>1, <1>2 DEF patched_v
<1>5. /\ u \in Arch => pu \in free_map
      /\ v \in Arch => pv \in free_map
      /\ u \in Arch /\ v \in Arch => pu # pv
  BY DEF Granted
<1>6. /\ \A a \in Arch : spec_map[a] \notin free_map
      /\ \A s \in Slot : Writer(s) => entry_instr[s].old_phys \notin free_map
  BY <1>0 DEF RInv, Conserved, Mapped, Owed
<1>7. Reclaimed \subseteq Owed /\ Owed \cap free_map = {}
  BY <1>0, OwedStep DEF RInv, Conserved
<1>8. /\ \A s \in Slot : Writer(s) => entry_instr[s].p_dest \notin free_map
      /\ \A s, t \in Slot : Writer(s) /\ Writer(t) /\ t # s
                              => entry_instr[t].p_dest # entry_instr[s].p_dest
  BY DEF DInv, DestinationHeld
<1>9. \A s \in Slot : (s \in Retired <=> Age(s) < retire_count) /\ Age(s) \in 0..(N - 1)
  BY <1>0, RetiredAge, AgeRange
<1>10. retire_count \in 0..2 /\ retire_count <= count /\ count \in 0..N
  BY <1>0, RetireBound DEF IInv, TypeOK
<1>11. ASSUME NEW s \in Slot, Writer(s), s \notin Retired
       PROVE  entry_instr[s].p_dest \notin Reclaimed
  <2> SUFFICES ASSUME NEW t \in Committed, entry_instr[t].old_phys = entry_instr[s].p_dest
               PROVE  FALSE
    BY DEF Reclaimed
  <2>1. t \in Slot /\ t \in Retired /\ Writer(t)
    BY <1>1 DEF Committed, Retired
  <2>2. Age(s) < Age(t)
    BY <1>11, <2>1 DEF DInv, Chained
  <2>3. QED
    BY <1>9, <1>10, <1>11, <2>1, <2>2
<1>12. DestinationHeld'
  <2>1. \A p : p \in free_map' <=> \/ p \in Reclaimed
                                   \/ /\ p \in free_map /\ p \in Phys
                                      /\ ~(u \in Arch /\ p = pu) /\ ~(v \in Arch /\ p = pv)
    BY <1>0 DEF RenameClock, Allocation, RInv, RenameTypeOK
  <2>2. \A s \in Slot : Writer(s)' => entry_instr'[s].p_dest \notin free_map'
    BY <2>1, <1>1, <1>3, <1>4, <1>5, <1>7, <1>8, <1>11
  <2>3. \A s, t \in Slot : Writer(s)' /\ Writer(t)' /\ t # s
                             => entry_instr'[t].p_dest # entry_instr'[s].p_dest
    BY <1>1, <1>3, <1>4, <1>5, <1>8
  <2>4. QED BY <2>2, <2>3 DEF DestinationHeld, Slot
<1>13. \A s \in Slot : Age(s)' = IF Age(s) >= retire_count THEN Age(s) - retire_count
                                 ELSE Age(s) + N - retire_count
  BY <1>0, AgeMoves DEF Clock
<1>14. ASSUME NEW s \in Slot, NEW t \in Slot, Writer(s)', Writer(t)',
              entry_instr'[t].old_phys = entry_instr'[s].p_dest
       PROVE  Age(s) < Age(t) /\ Age(s) >= retire_count
  <2>1. /\ u \in Arch \/ v \in Arch => Age(tail) = count
        /\ v \in Arch => Age(new) >= count
        /\ u \in Arch /\ v \in Arch => Age(new) = count + 1
    BY <1>0, NewAge
  <2>2. ASSUME Writer(s) PROVE Age(s) < count
    BY <1>0, <2>2, ContiguousAge DEF Writer, IInv
  <2>3. CASE Writer(s) /\ s \notin Retired
    <3>1. CASE Writer(t) /\ t \notin Retired
      <4>1. entry_instr[t].old_phys = entry_instr[s].p_dest
        BY <1>1, <1>14, <2>3, <3>1
      <4>2. Age(s) < Age(t)
        BY <2>3, <3>1, <4>1 DEF DInv, Chained
      <4>3. QED BY <1>9, <1>10, <2>3, <4>2
    <3>2. CASE (u \in Arch /\ t = tail) \/ (v \in Arch /\ t = new)
      BY <1>9, <1>10, <2>1, <2>2, <2>3, <3>2
    <3>3. QED BY <1>1, <1>14, <3>1, <3>2
  <2>4. CASE u \in Arch /\ s = tail
    <3>1. v \in Arch /\ t = new
      BY <1>1, <1>3, <1>5, <1>6, <1>14, <2>4
    <3>2. QED BY <1>10, <2>1, <2>4, <3>1
  <2>5. CASE v \in Arch /\ s = new
    BY <1>1, <1>3, <1>4, <1>5, <1>6, <1>14, <2>5
  <2>6. QED BY <1>1, <1>14, <2>3, <2>4, <2>5
<1>15. Chained'
  <2> SUFFICES ASSUME NEW s \in Slot, NEW t \in Slot, Writer(s)', Writer(t)',
                      entry_instr'[t].old_phys = entry_instr'[s].p_dest
               PROVE  Age(s)' < Age(t)'
    BY DEF Chained, Slot
  <2>1. Age(s) < Age(t) /\ Age(s) >= retire_count
    BY <1>14
  <2>2. QED BY <1>9, <1>10, <1>13, <2>1
<1>16. QED
  BY <1>12, <1>15

LEMMA InitDInv == RenameInit => DInv
<1>1. RenameInit => \A s \in Slot : ~Writer(s)
  BY DEF RenameInit, Init, Writer
<1>2. QED
  BY <1>1, InitRInv DEF DInv, DestinationHeld, Chained

LEMMA NextDInv == DInv /\ [RenameNext]_<<vars, rename_vars>> => DInv'
<1> SUFFICES ASSUME DInv, [RenameNext]_<<vars, rename_vars>> PROVE DInv'
  OBVIOUS
<1>0. RInv /\ RInv'
  BY NextRInv DEF DInv
<1>1. CASE RenameCycle
  <2>1. PICK pu \in PickU : \E pv \in PickV(pu) :
               \E u \in UInput(pu), v \in VInput(pv) :
                 \E w0, w1 : Edge(u, pu, v, pv, w0, w1, {})
    BY <1>1 DEF RenameCycle
  <2>2. PICK pv \in PickV(pu) :
               \E u \in UInput(pu), v \in VInput(pv) :
                 \E w0, w1 : Edge(u, pu, v, pv, w0, w1, {})
    BY <2>1
  <2>3. PICK u \in UInput(pu), v \in VInput(pv) :
               \E w0, w1 : Edge(u, pu, v, pv, w0, w1, {})
    BY <2>2
  <2>4. Granted(u, pu, v, pv)
    BY <1>0, RenameCycleGrants
  <2>5. QED
    BY <1>0, <2>3, <2>4, EdgeDInv DEF Edge, DInv
<1>2. CASE MicroCycle
  <2>1. PICK p : \E w0, w1 : Edge(None, None, None, None, w0, w1, {p})
    BY <1>2 DEF MicroCycle
  <2>2. None \notin Arch
    BY RegistersAssumption, InstrAssumption DEF Arch
  <2>3. Granted(None, None, None, None)
    BY <2>2 DEF Granted
  <2>4. QED
    BY <1>0, <2>1, <2>3, EdgeDInv DEF Edge, DInv
<1>3. CASE RenameFlush
  <2>1. \A s \in Slot : ~Writer(s)'
    BY <1>3 DEF RenameFlush, Flush, Writer
  <2>2. DestinationHeld' /\ Chained'
    BY <2>1 DEF DestinationHeld, Chained, Slot
  <2>3. QED BY <1>0, <2>2 DEF DInv
<1>4. CASE UNCHANGED <<vars, rename_vars>>
  <2>1. UNCHANGED <<entry_valid, entry_instr, head, free_map>>
    BY <1>4 DEF vars, rename_vars
  <2>2. DestinationHeld' /\ Chained'
    BY <2>1 DEF DInv, DestinationHeld, Chained, Writer, Age, Slot
  <2>3. QED BY <1>0, <2>2 DEF DInv
<1>5. QED
  BY <1>1, <1>2, <1>3, <1>4 DEF RenameNext

\* The register an instruction in flight writes is neither free nor the
\* destination of another: no result lands in somebody else's register.
THEOREM DestinationsAreHeld == RenameSpec => []DestinationHeld
<1>1. DInv => DestinationHeld
  BY DEF DInv
<1>2. QED
  BY InitDInv, NextDInv, <1>1, PTL DEF RenameSpec

-----------------------------------------------------------------------------
(***************************************************************************)
(* The busy table while the V pipe rests, as it does in simulation.  (With *)
(* it, BusyIsPending fails: a V instruction's result may come in the cycle *)
(* in which its busy bit is set, and the set wins.)                        *)
(***************************************************************************)
LEMMA EdgeBusy ==
  ASSUME RInv, BusyIsPending, NEW u, NEW pu, NEW pv, Granted(u, pu, None, pv),
         NEW w0 \in Bus0Input, NEW w1 \in Bus0Input, NEW micro,
         Edge(u, pu, None, pv, w0, w1, micro)
  PROVE  BusyIsPending'
<1> DEFINE U == patched_u(u, pu)
           Hit(s) == Hits(w0, s, U, None) \/ Hits(w1, s, U, None)
<1>1. None \notin Arch /\ NoDest \notin Arch
  BY RegistersAssumption, InstrAssumption DEF Arch, NoDest
<1>2. patched_v(u, pu, None, pv) = None
  BY DEF patched_v
<1>3. Clock(U, None, w0, w1) /\ RenameClock(u, pu, None, pv, micro \cup Written(w0, w1))
  BY <1>2 DEF Edge
<1>4. U \in DispatchInput /\ None \in DispatchInput
  BY <1>2, GrantedDispatch
<1>5. \A s \in Slot : entry_complete'[s] <=> Hit(s) \/ (s \notin Allocated(U, None) /\ entry_complete[s])
  BY <1>3 DEF Clock
<1>6. \A s \in Slot : Hit(s) => (w0 # None /\ w0.tag = s /\ Waiting(s)) \/ (w1 # None /\ w1.tag = s /\ Waiting(s))
  BY DEF Hits, Bus0Input
<1>7. \A s \in Slot : /\ entry_valid'[s] <=> (entry_valid[s] /\ s \notin Retired) \/ s \in Allocated(U, None)
                      /\ entry_valid[s] => entry_instr'[s] = entry_instr[s]
                      /\ s \in Allocated(U, None) => ~entry_valid[s]
  BY <1>3, <1>4, SlotStep
<1> SUFFICES ASSUME NEW p \in busy'
             PROVE  \E s \in Slot : /\ Waiting(s)' /\ entry_instr'[s].dest_valid
                                    /\ entry_instr'[s].p_dest = p
  BY DEF BusyIsPending, Slot
<1>8. \/ u \in Arch /\ p = pu
      \/ p \in busy /\ p \notin Written(w0, w1)
  BY <1>1, <1>3 DEF RenameClock, Allocation
<1>9. CASE u \in Arch /\ p = pu
  <2>1. tail \in Slot /\ ~Writer(tail) /\ entry_instr'[tail] = U
    BY <1>2, <1>3, <1>9, WriterStep
  <2>2. U # None /\ U.dest_valid = TRUE /\ U.p_dest = p
    BY <1>1, <1>9, GrantedDispatch DEF patched_u
  <2>3. tail \in Allocated(U, None)
    BY <1>1, <1>9, <2>1, <2>2 DEF Allocated, Granted
  <2>4. PICK s \in Slot : s = tail
    BY <2>1
  <2>5. Waiting(s)'
    BY <1>5, <1>6, <1>7, <2>3, <2>4 DEF Waiting
  <2> QED BY <2>1, <2>2, <2>4, <2>5
<1>10. CASE p \in busy /\ p \notin Written(w0, w1)
  <2>1. PICK s \in Slot : Waiting(s) /\ entry_instr[s].dest_valid /\ entry_instr[s].p_dest = p
    BY <1>10 DEF BusyIsPending
  <2>2. ~Hit(s)
    BY <1>6, <1>10, <2>1 DEF Written
  <2>3. s \notin Retired
    BY <2>1 DEF Retired, can_retire_u, can_retire_v, Waiting
  <2>4. Waiting(s)'
    BY <1>5, <1>7, <2>1, <2>2, <2>3 DEF Waiting
  <2> QED BY <1>7, <2>1, <2>4 DEF Waiting
<1> QED BY <1>8, <1>9, <1>10

LEMMA NextBusy ==
  ASSUME ~VPipe, RInv, BusyIsPending, [RenameNext]_<<vars, rename_vars>>
  PROVE  BusyIsPending'
<1>1. Bus0Input = Bus1Input(None, None) /\ \A u : Bus1Input(u, None) = Bus0Input
  BY DEF Bus1Input
<1>2. CASE RenameCycle
  <2>1. PICK pu \in PickU : \E pv \in PickV(pu) :
               \E u \in UInput(pu), v \in VInput(pv) : \E w0 \in Bus0Input :
                 \E w1 \in Bus1Input(patched_u(u, pu), patched_v(u, pu, v, pv)) :
                   Edge(u, pu, v, pv, w0, w1, {})
    BY <1>2 DEF RenameCycle
  <2>2. PICK pv \in PickV(pu) :
               \E u \in UInput(pu), v \in VInput(pv) : \E w0 \in Bus0Input :
                 \E w1 \in Bus1Input(patched_u(u, pu), patched_v(u, pu, v, pv)) :
                   Edge(u, pu, v, pv, w0, w1, {})
    BY <2>1
  <2>3. PICK u \in UInput(pu), v \in VInput(pv), w0 \in Bus0Input :
               \E w1 \in Bus1Input(patched_u(u, pu), patched_v(u, pu, v, pv)) :
                 Edge(u, pu, v, pv, w0, w1, {})
    BY <2>2
  <2>4. v = None
    BY DEF VInput
  <2>5. patched_v(u, pu, v, pv) = None
    BY <2>4 DEF patched_v
  <2>6. Granted(u, pu, None, pv)
    BY <2>4, RenameCycleGrants
  <2> QED BY <1>1, <2>3, <2>4, <2>5, <2>6, EdgeBusy
<1>3. CASE MicroCycle
  <2>1. PICK p \in MicroInput, w0 \in Bus0Input :
               \E w1 \in Bus0Input : Edge(None, None, None, None, w0, w1, {p})
    BY <1>1, <1>3 DEF MicroCycle
  <2>2. Granted(None, None, None, None)
    BY RegistersAssumption, InstrAssumption DEF Granted, Arch
  <2> QED BY <2>1, <2>2, EdgeBusy
<1>4. CASE RenameFlush
  BY <1>4 DEF RenameFlush, BusyIsPending
<1>5. CASE UNCHANGED <<vars, rename_vars>>
  BY <1>5 DEF vars, rename_vars, BusyIsPending, Waiting, Slot
<1> QED BY <1>2, <1>3, <1>4, <1>5 DEF RenameNext

\* While the V pipe rests, a busy register is the destination of an instruction
\* that still waits for its result: no source waits for nobody.
THEOREM BusyArePending == ~VPipe => (RenameSpec => []BusyIsPending)
<1> SUFFICES ASSUME ~VPipe PROVE RenameSpec => []BusyIsPending
  OBVIOUS
<1>1. RenameInit => BusyIsPending
  BY DEF RenameInit, BusyIsPending
<1>2. RInv /\ BusyIsPending /\ [RenameNext]_<<vars, rename_vars>> => BusyIsPending'
  BY NextBusy
<1> QED
  BY InitRInv, NextRInv, <1>1, <1>2, PTL DEF RenameSpec

-----------------------------------------------------------------------------
LEMMA OrderKept ==
  ASSUME RInv, [RenameNext]_<<vars, rename_vars>>
  PROVE  [Order!Next]_Window
<1>0. OInv
  BY InstrAssumption DEF RInv, Loaded, OInv, Filled
<1>1. ASSUME NEW u, NEW pu, NEW v, NEW pv, Granted(u, pu, v, pv), NEW w0 \in Bus0Input,
             NEW w1 \in Bus1Input(patched_u(u, pu), patched_v(u, pu, v, pv)),
             NEW micro, Edge(u, pu, v, pv, w0, w1, micro)
      PROVE  Order!Advance
  BY <1>0, <1>1, GrantedDispatch, ClockAdvances DEF Edge
<1>2. CASE RenameCycle
  <2>1. PICK pu \in PickU : \E pv \in PickV(pu) :
               \E u \in UInput(pu), v \in VInput(pv) : \E w0 \in Bus0Input :
                 \E w1 \in Bus1Input(patched_u(u, pu), patched_v(u, pu, v, pv)) :
                   Edge(u, pu, v, pv, w0, w1, {})
    BY <1>2 DEF RenameCycle
  <2>2. PICK pv \in PickV(pu) :
               \E u \in UInput(pu), v \in VInput(pv) : \E w0 \in Bus0Input :
                 \E w1 \in Bus1Input(patched_u(u, pu), patched_v(u, pu, v, pv)) :
                   Edge(u, pu, v, pv, w0, w1, {})
    BY <2>1
  <2>3. PICK u \in UInput(pu), v \in VInput(pv) :
               \E w0 \in Bus0Input :
                 \E w1 \in Bus1Input(patched_u(u, pu), patched_v(u, pu, v, pv)) :
                   Edge(u, pu, v, pv, w0, w1, {})
    BY <2>2
  <2> QED BY <1>1, <2>3, RenameCycleGrants DEF Order!Next
<1>3. CASE MicroCycle
  <2>1. PICK p \in MicroInput, w0 \in Bus0Input :
               \E w1 \in Bus1Input(None, None) : Edge(None, None, None, None, w0, w1, {p})
    BY <1>3 DEF MicroCycle
  <2>2. Granted(None, None, None, None)
    BY RegistersAssumption, InstrAssumption DEF Granted, Arch
  <2>3. patched_u(None, None) = None /\ patched_v(None, None, None, None) = None
    BY DEF patched_u, patched_v
  <2> QED BY <1>1, <2>1, <2>2, <2>3 DEF Order!Next
<1>4. CASE RenameFlush
  BY <1>0, <1>4, FlushEmpties DEF RenameFlush, Order!Next
<1>5. CASE UNCHANGED <<vars, rename_vars>>
  BY <1>0, <1>5, StutterOrder
<1> QED BY <1>2, <1>3, <1>4, <1>5 DEF RenameNext

\* The buffer that the renamer drives is the window in program order
\* (InProgramOrder), micro-ops that complete its head over and over included.
THEOREM RenameKeepsOrder == RenameSpec => InProgramOrder
<1>1. RenameInit => Order!Init
  BY InitWindow DEF RenameInit
<1>2. RInv /\ [RenameNext]_<<vars, rename_vars>> => [Order!Next]_Window
  BY OrderKept
<1> QED BY InitRInv, NextRInv, <1>1, <1>2, PTL DEF RenameSpec, InProgramOrder, Order!Spec
=============================================================================
