--------------------------- MODULE OooCore_proofs ---------------------------
(***************************************************************************)
(* The core around renaming and reorder buffer, for every size of buffer,  *)
(* register file and issue queue and whatever instructions are fetched:    *)
(* the queue matches the buffer, sources wait for older instructions, and  *)
(* the core drives renaming as RegisterRename assumes, so that the         *)
(* theorems about that hold here.                                          *)
(*                                                                         *)
(* What keeps the queue from filling up is that while no system call is in *)
(* it, it holds one entry at most: that entry waits for nobody, since the  *)
(* instruction it would wait for would have an entry too, so it leaves in  *)
(* the cycle in which the next one comes (Unblocked).                      *)
(***************************************************************************)
EXTENDS OooCore, RegisterRename_proofs

FrontType ==
  /\ s1 \in Decoded \cup {None}
  /\ instr_u \in Decoded \cup {None}
  /\ queue \in [IqSlot -> Entry \cup {None}]

\* Queue and buffer agree on who writes a register.
QueueDests ==
  \A q \in Held : entry_instr[queue[q].rob_tag].dest_valid <=> queue[q].i.dest # NoDest

\* WaitsForAnOlder, by slots.
WaitsByAge ==
  \A q \in Held : queue[q].src # None =>
    \E s \in Slot : /\ Waiting(s) /\ entry_instr[s].dest_valid
                    /\ entry_instr[s].p_dest = queue[q].src
                    /\ Age(s) < Age(queue[q].rob_tag)

Unblocked == ~Blocked => \A q, r \in Held : q = r /\ queue[q].src = None

QInv ==
  /\ RInv /\ BusyIsPending
  /\ FrontType /\ QueueWaits /\ QueueDests /\ WaitsByAge
  /\ NothingDropped /\ Unblocked

-----------------------------------------------------------------------------
(***************************************************************************)
(* What a cycle takes from the queue and puts on the bus.                  *)
(***************************************************************************)
LEMMA Granting ==
  ASSUME NEW S \in SUBSET Int, NEW q \in Grant(S), NEW r \in Grant(S)
  PROVE  q = r /\ q \in S
BY DEF Grant

LEMMA HeldEntries ==
  ASSUME QInv, NEW q \in Held
  PROVE  q \in IqSlot /\ queue[q] \in Entry /\ queue[q] # None
BY DEF QInv, FrontType, Held

LEMMA Issued ==
  ASSUME QInv
  PROVE  /\ \A e \in Completing : \E q \in Held :
              queue[q] = e /\ e.src = None /\ e.i.op_cat # "SYS_CALL" /\ q \in issue_idx
         /\ \A e, f \in Completing : e = f
         /\ ~Blocked => \A q \in Held : queue[q] \in Completing
<1> DEFINE Ready == {q \in IqSlot : queue[q] # None /\ queue[q].src = None}
<1>1. Ready \in SUBSET Int /\ issue_idx = Grant(Ready)
  BY QueueAssumption DEF IqSlot, issue_idx
<1>2. \A q \in issue_idx : q \in Held /\ queue[q].src = None
  BY <1>1 DEF Grant, Held
<1>3. \A q, r \in issue_idx : q = r
  BY <1>1, Granting
<1>4. ASSUME ~Blocked, NEW q \in Held PROVE queue[q] \in Completing
  <2>1. \A r \in Held : r = q /\ queue[q].src = None
    BY <1>4 DEF QInv, Unblocked
  <2>2. q \in Ready /\ \A r \in Ready : r = q
    BY <2>1, HeldEntries DEF Held
  <2>3. q \in issue_idx
    BY <1>1, <2>2 DEF Grant
  <2> QED BY <1>4, <2>3 DEF Completing, Blocked
<1> QED BY <1>2, <1>3, <1>4 DEF Completing

LEMMA OnTheBus ==
  ASSUME QInv, NEW w0 \in ResultBus
  PROVE  /\ w0 \in Bus0Input
         /\ \A e \in Completing : w0 # None /\ w0.tag = e.rob_tag
         /\ w0 # None => \E e \in Completing : w0.tag = e.rob_tag
<1>1. CASE Completing = {}
  BY <1>1 DEF ResultBus, Bus0Input
<1>2. CASE Completing # {}
  <2>1. PICK e \in Completing, d \in Data : w0 = [tag |-> e.rob_tag, data |-> d, exc |-> FALSE]
    BY <1>2 DEF ResultBus
  <2>2. PICK q \in Held : queue[q] = e
    BY Issued
  <2>3. e.rob_tag \in Slot /\ Waiting(e.rob_tag)
    BY <2>2, HeldEntries DEF Entry, QInv, QueueWaits
  <2>4. w0 \in Transfer /\ w0.tag = e.rob_tag
    BY <2>1, <2>3 DEF Transfer
  <2>5. w0 # None /\ w0 \in Bus0Input
    BY <2>3, <2>4, EntryAssumption DEF Bus0Input
  <2> QED BY <2>4, <2>5, Issued
<1> QED BY <1>1, <1>2

\* An instruction whose result is on the bus has an entry that completes, and
\* wakes who waits for its register.
LEMMA BusWakes ==
  ASSUME QInv, NEW w0 \in ResultBus, NEW s \in Slot, w0 # None, w0.tag = s
  PROVE  /\ \E q \in Held : queue[q] \in Completing /\ queue[q].rob_tag = s
         /\ entry_instr[s].dest_valid => entry_instr[s].p_dest \in woken
<1>1. PICK e \in Completing : w0.tag = e.rob_tag
  BY OnTheBus
<1>2. PICK q \in Held : queue[q] = e
  BY Issued
<1>3. entry_instr[s].p_dest = e.p_dest /\ (entry_instr[s].dest_valid <=> e.i.dest # NoDest)
  BY <1>1, <1>2 DEF QInv, QueueWaits, QueueDests
<1> QED BY <1>1, <1>2, <1>3 DEF woken

-----------------------------------------------------------------------------
(***************************************************************************)
(* A cycle without flush                                                   *)
(***************************************************************************)
Dest == IF dispatch_u = None THEN None ELSE dispatch_u.dest

Plain(pu, pv, w0, i) ==
  /\ ~flush /\ pu \in PickU /\ pv \in PickV(pu) /\ w0 \in ResultBus
  /\ i \in Decoded \cup {None}
  /\ Edge(Dest, pu, None, pv, w0, None, {})
  /\ queue' = queue_next(pu) /\ DecodeEdge(i)

LEMMA Dispatched ==
  ASSUME QInv, NEW pu \in PickU
  PROVE  /\ Dest \in UInput(pu)
         /\ dispatch_u # None => /\ dispatch_u \in Decoded /\ ~full /\ pu \in Phys /\ pu # None
                                 /\ dispatch_u.dest \in Arch \cup {NoDest}
         /\ Dest # None <=> dispatch_u # None
<1>1. None \notin Arch /\ None # NoDest
  BY RegistersAssumption, InstrAssumption DEF Arch, NoDest
<1>2. dispatch_u # None => /\ dispatch_u \in Decoded /\ accepts
                           /\ dispatch_u.dest \in Arch \cup {NoDest}
  BY DEF dispatch_u, QInv, FrontType, Decoded
<1>3. accepts => ~full /\ pu \in free_map
  BY DEF accepts, PickU, Grant
<1>4. free_map \subseteq Phys /\ None \notin Phys
  BY InstrAssumption, RegistersAssumption DEF QInv, RInv, RenameTypeOK, Phys
<1> QED BY <1>1, <1>2, <1>3, <1>4 DEF Dest, UInput

\* The core does what RegisterRename lets its environment do.
LEMMA PlainRenames ==
  ASSUME QInv, NEW pu, NEW pv, NEW w0, NEW i, Plain(pu, pv, w0, i)
  PROVE  /\ RenameCycle /\ Granted(Dest, pu, None, pv)
         /\ w0 \in Bus0Input /\ None \in Bus0Input
         /\ RInv' /\ BusyIsPending'
<1>1. pu \in PickU /\ pv \in PickV(pu) /\ w0 \in ResultBus
  BY DEF Plain
<1>2. Dest \in UInput(pu) /\ None \in VInput(pv)
  BY <1>1, Dispatched DEF VInput
<1>3. w0 \in Bus0Input /\ None \in Bus0Input
  BY <1>1, OnTheBus DEF Bus0Input
<1>4. None \in Bus1Input(patched_u(Dest, pu), patched_v(Dest, pu, None, pv))
  BY <1>3 DEF Bus1Input
<1>5. Edge(Dest, pu, None, pv, w0, None, {})
  BY DEF Plain
<1>6. Granted(Dest, pu, None, pv)
  BY <1>1, <1>2, RenameCycleGrants DEF QInv
<1>7. RenameCycle
  BY <1>1, <1>2, <1>3, <1>4, <1>5 DEF RenameCycle
<1>8. RInv'
  BY <1>3, <1>4, <1>5, <1>6, EdgeRInv DEF QInv
<1>9. BusyIsPending'
  BY <1>3, <1>5, <1>6, EdgeBusy DEF QInv
<1> QED BY <1>3, <1>6, <1>7, <1>8, <1>9

\* What such a cycle does to the instructions that wait.
LEMMA WaitingStep ==
  ASSUME QInv, NEW pu, NEW pv, NEW w0, NEW i, Plain(pu, pv, w0, i)
  PROVE  /\ tail \in Slot /\ (dispatch_u # None => ~entry_valid[tail])
         /\ \A s \in Slot :
              /\ Waiting(s)' <=> \/ Waiting(s) /\ ~(w0 # None /\ w0.tag = s)
                                 \/ dispatch_u # None /\ s = tail
              /\ entry_valid[s] => entry_instr'[s] = entry_instr[s]
              /\ entry_valid'[s] /\ entry_complete'[s] =>
                   \/ entry_valid[s] /\ entry_complete[s] /\ s \notin Retired
                   \/ Waiting(s) /\ w0 # None /\ w0.tag = s
         /\ dispatch_u # None =>
              /\ entry_instr'[tail].p_dest = IF dispatch_u.dest = NoDest THEN 0 ELSE pu
              /\ entry_instr'[tail].dest_valid <=> dispatch_u.dest # NoDest
<1> DEFINE U == patched_u(Dest, pu)
<1>0. RInv /\ pu \in PickU
  BY DEF QInv, Plain
<1>1. Granted(Dest, pu, None, pv) /\ w0 \in Bus0Input
  BY PlainRenames
<1>2. patched_v(Dest, pu, None, pv) = None
  BY DEF patched_v
<1>3. Clock(U, None, w0, None)
  BY <1>2 DEF Plain, Edge
<1>4. U \in DispatchInput /\ None \in DispatchInput /\ (U # None <=> dispatch_u # None)
  BY <1>0, <1>1, <1>2, GrantedDispatch, Dispatched
<1>5. \A s \in Slot : /\ s \in Allocated(U, None) => ~entry_valid[s]
                      /\ entry_valid'[s] <=> (entry_valid[s] /\ s \notin Retired) \/ s \in Allocated(U, None)
                      /\ entry_valid[s] => entry_instr'[s] = entry_instr[s]
                      /\ s \in Allocated(U, None) => entry_instr'[s] = U
  BY <1>0, <1>3, <1>4, SlotStep
<1>6. tail \in Slot /\ \A s \in Slot : s \in Allocated(U, None) <=> dispatch_u # None /\ s = tail
  <2>1. full => U = None
    BY <1>0, <1>4, Dispatched
  <2> QED BY <1>0, <1>4, <2>1, WrittenSlots
<1>7. \A s \in Slot : entry_complete'[s] <=> \/ Hits(w0, s, U, None) \/ Hits(None, s, U, None)
                                             \/ s \notin Allocated(U, None) /\ entry_complete[s]
  BY <1>3 DEF Clock
<1>8. \A s \in Slot : (Hits(w0, s, U, None) <=> w0 # None /\ w0.tag = s) /\ ~Hits(None, s, U, None)
  BY <1>1 DEF Hits, Bus0Input, Waiting
<1>9. w0 # None => Waiting(w0.tag)
  BY <1>1 DEF Bus0Input
<1>10. \A s \in Slot : s \in Retired => entry_complete[s]
  BY DEF Retired, can_retire_u, can_retire_v
<1>11. \A s \in Slot : Waiting(s)' <=> \/ Waiting(s) /\ ~(w0 # None /\ w0.tag = s)
                                       \/ dispatch_u # None /\ s = tail
  BY <1>5, <1>6, <1>7, <1>8, <1>9, <1>10 DEF Waiting
<1>12. dispatch_u # None =>
         /\ U.p_dest = IF dispatch_u.dest = NoDest THEN 0 ELSE pu
         /\ U.dest_valid <=> dispatch_u.dest # NoDest
  BY <1>0, Dispatched DEF Dest, patched_u
<1>13. \A s \in Slot : entry_valid'[s] /\ entry_complete'[s] =>
                         \/ entry_valid[s] /\ entry_complete[s] /\ s \notin Retired
                         \/ Waiting(s) /\ w0 # None /\ w0.tag = s
  BY <1>5, <1>7, <1>8, <1>9 DEF Waiting
<1> QED BY <1>5, <1>6, <1>11, <1>12, <1>13

\* The order of instructions that stay, and of one that comes.
LEMMA OrderStep ==
  ASSUME QInv, NEW pu, NEW pv, NEW w0, NEW i, Plain(pu, pv, w0, i),
         NEW s \in Slot, Waiting(s)
  PROVE  \A t \in Slot : \/ Waiting(t) /\ Age(s) < Age(t)
                         \/ dispatch_u # None /\ t = tail
                         => Age(s)' < Age(t)'
<1>0. RInv /\ IInv /\ pu \in PickU
  BY DEF QInv, RInv, Plain
<1>1. head' = Plus(head, retire_count)
  BY DEF Plain, Edge, Clock
<1>2. \A t \in Slot : Age(t)' = IF Age(t) >= retire_count THEN Age(t) - retire_count
                                ELSE Age(t) + N - retire_count
  BY <1>0, <1>1, AgeMoves
<1>3. \A t \in Slot : Age(t) \in 0..(N - 1) /\ (t \in Retired <=> Age(t) < retire_count)
  BY <1>0, AgeRange, RetiredAge
<1>4. \A t \in Slot : Waiting(t) => t \notin Retired
  BY DEF Retired, can_retire_u, can_retire_v, Waiting
<1>5. \A t \in Slot : entry_valid[t] <=> Age(t) < count
  BY <1>0, ContiguousAge DEF IInv
<1>6. retire_count \in 0..2 /\ retire_count <= count /\ count \in 0..N
  BY <1>0, RetireBound DEF IInv, TypeOK
<1>7. dispatch_u # None => tail \in Slot /\ Age(tail) >= count
  BY <1>3, <1>5, <1>6, WaitingStep
<1>8. \A t \in Slot : Waiting(t) => Age(t) < count /\ Age(t) >= retire_count
  BY <1>3, <1>4, <1>5, <1>6 DEF Waiting
<1> QED BY <1>2, <1>3, <1>6, <1>7, <1>8

\* What such a cycle does to the queue: entries of before stay or complete, and
\* at most one comes in.
New(q) == dispatch_u # None /\ q \in free_idx
Old(q) == q \in Held /\ queue[q] \notin Completing

LEMMA QueueStep ==
  ASSUME QInv, NEW pu, NEW pv, NEW w0, NEW i, Plain(pu, pv, w0, i)
  PROVE  /\ \A q \in IqSlot : (q \in Held' <=> New(q) \/ Old(q)) /\ ~(New(q) /\ Old(q))
         /\ \A q, r \in IqSlot : New(q) /\ New(r) => q = r
         /\ \A q \in IqSlot : New(q) =>
              /\ queue'[q] \in Entry
              /\ queue'[q].i = dispatch_u /\ queue'[q].rob_tag = tail
              /\ queue'[q].p_dest = IF dispatch_u.dest = NoDest THEN 0 ELSE pu
              /\ queue'[q].src # None => queue'[q].src \in busy \ woken
         /\ \A q \in IqSlot : Old(q) =>
              /\ queue'[q] \in Entry
              /\ queue'[q].i = queue[q].i /\ queue'[q].rob_tag = queue[q].rob_tag
              /\ queue'[q].p_dest = queue[q].p_dest
              /\ queue'[q].src # None => queue'[q].src = queue[q].src /\ queue[q].src \notin woken
         /\ \A q \in IqSlot : q \notin Held' => queue'[q] = None
<1>1. queue' = queue_next(pu) /\ ~queue_clear /\ pu \in PickU
  BY DEF Plain, queue_clear
<1>2. 0 \in Arch /\ spec_map[0] \in Phys /\ 0 \in Phys /\ tail \in Slot
  BY RegistersAssumption DEF Arch, Phys, QInv, RInv, RenameTypeOK, TypeOK
<1>3. \A q \in free_idx : q \in IqSlot /\ queue[q] = None
  BY DEF free_idx, Grant
<1>4. \A q, r \in free_idx : q = r
  <2>1. {q \in IqSlot : queue[q] = None} \in SUBSET Int
    BY QueueAssumption DEF IqSlot
  <2> QED BY <2>1, Granting DEF free_idx
<1>5. \A q \in Held : queue[q] \in Entry
  BY HeldEntries
<1>6. ASSUME NEW q \in IqSlot, New(q)
      PROVE  /\ queue'[q] \in Entry
             /\ queue'[q].i = dispatch_u /\ queue'[q].rob_tag = tail
             /\ queue'[q].p_dest = IF dispatch_u.dest = NoDest THEN 0 ELSE pu
             /\ queue'[q].src # None => queue'[q].src \in busy \ woken
  <2>1. queue'[q] = [i |-> dispatch_u, rob_tag |-> tail,
                     p_dest |-> IF dispatch_u.dest = NoDest THEN 0 ELSE pu,
                     src |-> IF src_busy(spec_map[0]) THEN spec_map[0] ELSE None]
    BY <1>1, <1>6 DEF queue_next, New
  <2>2. dispatch_u \in Decoded /\ pu \in Phys
    BY <1>1, <1>6, Dispatched DEF New
  <2> QED BY <1>2, <2>1, <2>2 DEF Entry, src_busy
<1>7. ASSUME NEW q \in IqSlot, Old(q)
      PROVE  /\ queue'[q] \in Entry
             /\ queue'[q].i = queue[q].i /\ queue'[q].rob_tag = queue[q].rob_tag
             /\ queue'[q].p_dest = queue[q].p_dest
             /\ queue'[q].src # None => queue'[q].src = queue[q].src /\ queue[q].src \notin woken
  <2>1. queue[q] \in Entry /\ queue[q] # None /\ q \notin free_idx
    BY <1>3, <1>5, <1>7 DEF Old, Held
  <2>2. queue'[q] = [queue[q] EXCEPT !.src = IF @ \in woken THEN None ELSE @]
    BY <1>1, <1>7, <2>1 DEF queue_next, Old
  <2> QED BY <2>1, <2>2 DEF Entry
<1>8. \A q \in IqSlot : ~New(q) /\ ~Old(q) => queue'[q] = None
  BY <1>1 DEF queue_next, New, Old, Held
<1>9. \A q \in IqSlot : ~(New(q) /\ Old(q))
  BY <1>3 DEF New, Old, Held
<1>10. \A q \in IqSlot : q \in Held' <=> New(q) \/ Old(q)
  BY <1>6, <1>7, <1>8, EntryAssumption DEF Held, IqSlot
<1> QED BY <1>4, <1>6, <1>7, <1>8, <1>9, <1>10 DEF New

LEMMA PlainFront ==
  ASSUME QInv, NEW pu, NEW pv, NEW w0, NEW i, Plain(pu, pv, w0, i)
  PROVE  FrontType'
<1>1. s1' \in Decoded \cup {None} /\ instr_u' \in Decoded \cup {None}
  BY DEF Plain, DecodeEdge, QInv, FrontType
<1>2. queue' = [q \in IqSlot |-> queue'[q]]
  BY DEF Plain, queue_next
<1>3. \A q \in IqSlot : queue'[q] \in Entry \cup {None}
  BY QueueStep
<1> QED BY <1>1, <1>2, <1>3 DEF FrontType, IqSlot, Decoded, Entry, Slot, Phys, Arch

LEMMA PlainQueue ==
  ASSUME QInv, NEW pu, NEW pv, NEW w0, NEW i, Plain(pu, pv, w0, i)
  PROVE  QueueWaits' /\ QueueDests'
<1>1. w0 \in ResultBus
  BY DEF Plain
<1>2. \A q \in Held' : q \in IqSlot /\ (New(q) \/ Old(q))
  BY QueueStep DEF Held, IqSlot
<1>3. ASSUME NEW q \in IqSlot, Old(q)
      PROVE  LET s == queue[q].rob_tag IN
             /\ s \in Slot /\ Waiting(s) /\ entry_instr'[s] = entry_instr[s]
             /\ entry_instr[s].p_dest = queue[q].p_dest
             /\ entry_instr[s].dest_valid <=> queue[q].i.dest # NoDest
             /\ ~(w0 # None /\ w0.tag = s)
  <2> DEFINE s == queue[q].rob_tag
  <2>1. q \in Held /\ queue[q] \in Entry
    BY <1>3, HeldEntries DEF Old
  <2>2. /\ s \in Slot /\ Waiting(s)
        /\ entry_instr[s].p_dest = queue[q].p_dest
        /\ entry_instr[s].dest_valid <=> queue[q].i.dest # NoDest
    BY <2>1 DEF Entry, QInv, QueueWaits, QueueDests
  <2>3. entry_instr'[s] = entry_instr[s]
    BY <2>2, WaitingStep DEF Waiting
  <2>4. ~(w0 # None /\ w0.tag = s)
    <3> SUFFICES ASSUME w0 # None, w0.tag = s PROVE FALSE
      OBVIOUS
    <3>1. PICK r \in Held : queue[r] \in Completing /\ queue[r].rob_tag = s
      BY <1>1, <2>2, BusWakes
    <3>2. r = q
      BY <2>1, <3>1 DEF QInv, QueueWaits
    <3> QED BY <1>3, <3>1, <3>2 DEF Old
  <2> QED BY <2>2, <2>3, <2>4
<1>4. ASSUME NEW q \in IqSlot, New(q) \/ Old(q)
      PROVE  \E s \in Slot :
             /\ s = queue'[q].rob_tag /\ Waiting(s)'
             /\ entry_instr'[s].p_dest = queue'[q].p_dest
             /\ entry_instr'[s].dest_valid <=> queue'[q].i.dest # NoDest
             /\ \/ s = tail /\ New(q)
                \/ s = queue[q].rob_tag /\ Old(q) /\ Waiting(s)
  <2>1. CASE New(q)
    <3>1. queue'[q].rob_tag = tail /\ queue'[q].i = dispatch_u /\ dispatch_u # None
      BY <2>1, QueueStep DEF New
    <3>2. PICK s \in Slot : s = tail
      BY WaitingStep
    <3>3. Waiting(s)'
      BY <3>1, <3>2, WaitingStep
    <3>4. entry_instr'[s].p_dest = queue'[q].p_dest
      BY <2>1, <3>1, <3>2, WaitingStep, QueueStep DEF New
    <3>5. entry_instr'[s].dest_valid <=> queue'[q].i.dest # NoDest
      BY <3>1, <3>2, WaitingStep
    <3> QED BY <2>1, <3>1, <3>2, <3>3, <3>4, <3>5
  <2>2. CASE Old(q)
    <3>1. queue'[q].rob_tag = queue[q].rob_tag /\ queue'[q].i = queue[q].i
          /\ queue'[q].p_dest = queue[q].p_dest
      BY <2>2, QueueStep
    <3>2. PICK s \in Slot : s = queue[q].rob_tag
      BY <1>3, <2>2
    <3>3. Waiting(s)'
      BY <1>3, <2>2, <3>2, WaitingStep
    <3> QED BY <1>3, <2>2, <3>1, <3>2, <3>3
  <2> QED BY <1>4, <2>1, <2>2
<1>5. \A q \in IqSlot : New(q) \/ Old(q) =>
        \E s \in Slot : s = queue'[q].rob_tag /\ Waiting(s)'
  BY <1>4
<1>6. QueueDests'
  <2>1. \A q \in Held' : entry_instr'[queue'[q].rob_tag].dest_valid <=> queue'[q].i.dest # NoDest
    BY <1>2, <1>4
  <2> QED BY <2>1 DEF QueueDests, NoDest
<1>7. \A q, r \in Held' : queue'[r].rob_tag = queue'[q].rob_tag => r = q
  <2> SUFFICES ASSUME NEW q \in Held', NEW r \in Held', queue'[r].rob_tag = queue'[q].rob_tag
               PROVE  r = q
    OBVIOUS
  <2>1. /\ \/ queue'[q].rob_tag = tail /\ New(q)
           \/ queue'[q].rob_tag = queue[q].rob_tag /\ Old(q) /\ Waiting(queue[q].rob_tag)
        /\ \/ queue'[r].rob_tag = tail /\ New(r)
           \/ queue'[r].rob_tag = queue[r].rob_tag /\ Old(r) /\ Waiting(queue[r].rob_tag)
    BY <1>2, <1>4
  <2>2. New(q) \/ New(r) => ~entry_valid[tail]
    BY WaitingStep DEF New
  <2>3. CASE New(q) /\ New(r)
    BY <1>2, <2>3, QueueStep
  <2>4. CASE Old(q) /\ Old(r) /\ queue[r].rob_tag = queue[q].rob_tag
    BY <2>4 DEF Old, QInv, QueueWaits
  <2> QED BY <2>1, <2>2, <2>3, <2>4, <1>2, QueueStep DEF Waiting
<1>8. \A q \in Held' : /\ Waiting(queue[q].rob_tag)'
                       /\ entry_instr'[queue'[q].rob_tag].p_dest = queue'[q].p_dest
  BY <1>2, <1>4 DEF Waiting
<1> QED BY <1>6, <1>7, <1>8 DEF QueueWaits, Waiting

\* Who waits for a register afterwards waited before, or is new; the one it
\* waits for has no result yet.
LEMMA PendingSource ==
  ASSUME QInv, NEW pu, NEW pv, NEW w0, NEW i, Plain(pu, pv, w0, i),
         NEW q \in IqSlot, New(q) \/ Old(q), queue'[q].src # None
  PROVE  \E s, t \in Slot :
           /\ Waiting(s) /\ Waiting(s)' /\ entry_instr'[s] = entry_instr[s]
           /\ entry_instr[s].dest_valid /\ entry_instr[s].p_dest = queue'[q].src
           /\ t = queue'[q].rob_tag /\ Age(s)' < Age(t)'
<1>1. w0 \in ResultBus
  BY DEF Plain
<1>2. ASSUME NEW s \in Slot, Waiting(s), entry_instr[s].dest_valid,
             entry_instr[s].p_dest \notin woken
      PROVE  Waiting(s)' /\ entry_instr'[s] = entry_instr[s]
  <2>1. ~(w0 # None /\ w0.tag = s)
    BY <1>1, <1>2, BusWakes
  <2> QED BY <1>2, <2>1, WaitingStep DEF Waiting
<1>3. CASE New(q)
  <2>1. queue'[q].src \in busy \ woken /\ queue'[q].rob_tag = tail
    BY <1>3, QueueStep
  <2>2. PICK s \in Slot : Waiting(s) /\ entry_instr[s].dest_valid
                          /\ entry_instr[s].p_dest = queue'[q].src
    BY <2>1 DEF QInv, BusyIsPending
  <2>3. PICK t \in Slot : t = tail
    BY WaitingStep
  <2>4. Age(s)' < Age(t)'
    BY <1>3, <2>2, <2>3, OrderStep DEF New
  <2> QED BY <1>2, <2>1, <2>2, <2>3, <2>4
<1>4. CASE Old(q)
  <2>1. /\ queue'[q].src = queue[q].src /\ queue[q].src \notin woken /\ queue[q].src # None
        /\ queue'[q].rob_tag = queue[q].rob_tag
    BY <1>4, QueueStep
  <2>2. q \in Held /\ queue[q] \in Entry
    BY <1>4, HeldEntries DEF Old
  <2>3. PICK t \in Slot : t = queue[q].rob_tag /\ Waiting(t)
    BY <2>2 DEF Entry, QInv, QueueWaits
  <2>4. PICK s \in Slot : Waiting(s) /\ entry_instr[s].dest_valid
                          /\ entry_instr[s].p_dest = queue[q].src /\ Age(s) < Age(t)
    BY <2>1, <2>2, <2>3 DEF QInv, WaitsByAge
  <2>5. Age(s)' < Age(t)'
    BY <2>3, <2>4, OrderStep
  <2> QED BY <1>2, <2>1, <2>3, <2>4, <2>5
<1> QED BY <1>3, <1>4

LEMMA PlainWaits ==
  ASSUME QInv, NEW pu, NEW pv, NEW w0, NEW i, Plain(pu, pv, w0, i)
  PROVE  WaitsByAge'
<1> SUFFICES ASSUME NEW q \in Held', queue'[q].src # None
             PROVE  (\E s \in Slot : /\ Waiting(s) /\ entry_instr[s].dest_valid
                                     /\ entry_instr[s].p_dest = queue[q].src
                                     /\ Age(s) < Age(queue[q].rob_tag))'
  BY DEF WaitsByAge
<1>1. q \in IqSlot /\ (New(q) \/ Old(q))
  BY QueueStep DEF Held, IqSlot
<1>2. PICK s, t \in Slot :
        /\ Waiting(s)' /\ entry_instr'[s] = entry_instr[s]
        /\ entry_instr[s].dest_valid /\ entry_instr[s].p_dest = queue'[q].src
        /\ t = queue'[q].rob_tag /\ Age(s)' < Age(t)'
  BY <1>1, PendingSource
<1>3. Age(s)' < Age(queue[q].rob_tag)'
  BY <1>2 DEF Age
<1> QED BY <1>2, <1>3 DEF Slot

LEMMA PlainUnblocked ==
  ASSUME QInv, NEW pu, NEW pv, NEW w0, NEW i, Plain(pu, pv, w0, i)
  PROVE  NothingDropped' /\ Unblocked'
<1> SUFFICES ASSUME ~Blocked' PROVE NothingDropped' /\ Unblocked'
  BY DEF NothingDropped, Unblocked
<1>1. w0 \in ResultBus
  BY DEF Plain
<1>2. ~Blocked
  <2> SUFFICES ASSUME NEW q \in Held, queue[q].i.op_cat = "SYS_CALL" PROVE FALSE
    BY DEF Blocked
  <2>1. Old(q)
    BY Issued DEF Old
  <2>2. q \in Held' /\ queue'[q].i.op_cat = "SYS_CALL"
    BY <2>1, QueueStep, HeldEntries
  <2> QED BY <2>2 DEF Blocked
<1>3. \A q \in Held : queue[q] \in Completing
  BY <1>2, Issued
<1>4. \A q \in IqSlot : ~Old(q)
  BY <1>3 DEF Old
<1>5. \A q \in Held' : q \in IqSlot /\ New(q)
  BY <1>4, QueueStep DEF Held, IqSlot
<1>6. \A s \in Slot : Waiting(s) => w0 # None /\ w0.tag = s
  <2> SUFFICES ASSUME NEW s \in Slot, Waiting(s) PROVE w0 # None /\ w0.tag = s
    OBVIOUS
  <2>1. PICK q \in Held : queue[q].rob_tag = s
    BY <1>2 DEF QInv, NothingDropped
  <2> QED BY <1>1, <1>3, <2>1, OnTheBus
<1>7. \A s \in Slot : Waiting(s)' => dispatch_u # None /\ s = tail
  BY <1>6, WaitingStep
<1>8. Unblocked'
  <2>1. \A q, r \in Held' : q = r
    BY <1>5, QueueStep
  <2>2. \A q \in Held' : queue'[q].src = None
    <3> SUFFICES ASSUME NEW q \in Held', queue'[q].src # None PROVE FALSE
      OBVIOUS
    <3>1. PICK s \in Slot : Waiting(s) /\ Waiting(s)'
      BY <1>5, PendingSource
    <3> QED BY <1>6, <1>7, <3>1, WaitingStep DEF Waiting
  <2> QED BY <2>1, <2>2 DEF Unblocked
<1>9. dispatch_u # None => \E q \in IqSlot : New(q)
  <2>1. 0 \in IqSlot /\ 1 \in IqSlot /\ \A q \in IqSlot : q \in Nat
    BY QueueAssumption DEF IqSlot
  <2>2. \A q, r \in Held : q = r
    BY <1>2 DEF QInv, Unblocked
  <2>3. 0 \in Held => 1 \notin Held
    BY <2>2
  <2>4. CASE 0 \notin Held
    BY <2>1, <2>4 DEF free_idx, Grant, New, Held
  <2>5. CASE 0 \in Held
    BY <2>1, <2>3, <2>5 DEF free_idx, Grant, New, Held
  <2> QED BY <2>4, <2>5
<1>10. NothingDropped'
  <2> SUFFICES ASSUME NEW s \in Slot, Waiting(s)'
               PROVE  \E q \in Held' : queue'[q].rob_tag = s
    BY DEF NothingDropped, Slot
  <2>1. dispatch_u # None /\ s = tail
    BY <1>7
  <2>2. PICK q \in IqSlot : New(q)
    BY <1>9, <2>1
  <2> QED BY <2>1, <2>2, QueueStep
<1> QED BY <1>8, <1>10

-----------------------------------------------------------------------------
(***************************************************************************)
(* Any cycle                                                               *)
(***************************************************************************)
LEMMA CoreCycles ==
  ASSUME CoreNext
  PROVE  \/ \E pu, pv, w0, i : Plain(pu, pv, w0, i)
         \/ flush /\ RenameFlush /\ \E pu, i : /\ queue' = queue_next(pu) /\ DecodeEdge(i)
                                               /\ i \in Decoded \cup {None}
<1>1. PICK i \in Decoded \cup {None} : CoreEdge(i)
  BY DEF CoreNext
<1>2. PICK pu \in PickU : \E w0 \in ResultBus :
        /\ IF flush THEN RenameFlush
           ELSE \E pv \in PickV(pu) : Edge(Dest, pu, None, pv, w0, None, {})
        /\ queue' = queue_next(pu) /\ DecodeEdge(i)
  BY <1>1 DEF CoreEdge, Dest
<1> QED BY <1>1, <1>2 DEF Plain

LEMMA InitQInv == CoreInit => QInv
<1> SUFFICES ASSUME CoreInit PROVE QInv
  OBVIOUS
<1>1. RInv
  BY InitRInv DEF CoreInit
<1>2. Held = {} /\ \A s \in Slot : ~Waiting(s)
  BY DEF CoreInit, Held, RenameInit, Init, Waiting
<1>3. FrontType /\ BusyIsPending
  BY DEF CoreInit, FrontType, RenameInit, BusyIsPending
<1> QED BY <1>1, <1>2, <1>3
        DEF QInv, QueueWaits, QueueDests, WaitsByAge, NothingDropped, Unblocked

LEMMA NextQInv == QInv /\ [CoreNext]_core_vars => QInv'
<1> SUFFICES ASSUME QInv, [CoreNext]_core_vars PROVE QInv'
  OBVIOUS
<1>1. ASSUME NEW pu, NEW pv, NEW w0, NEW i, Plain(pu, pv, w0, i) PROVE QInv'
  BY <1>1, PlainRenames, PlainFront, PlainQueue, PlainWaits, PlainUnblocked DEF QInv
<1>2. ASSUME NEW pu, NEW i \in Decoded \cup {None}, flush, RenameFlush,
             queue' = queue_next(pu), DecodeEdge(i)
      PROVE  QInv'
  <2>1. RInv'
    BY <1>2, FlushRInv DEF QInv
  <2>2. queue' = [q \in IqSlot |-> None]
    BY <1>2 DEF queue_next, queue_clear
  <2>3. Held' = {} /\ \A s \in Slot : ~Waiting(s)'
    BY <1>2, <2>2 DEF Held, RenameFlush, Flush, Waiting, IqSlot
  <2>4. FrontType'
    BY <1>2, <2>2 DEF QInv, FrontType, DecodeEdge, IqSlot, Decoded, Entry, Slot, Phys, Arch
  <2>5. BusyIsPending'
    BY <1>2 DEF RenameFlush, BusyIsPending
  <2> QED BY <2>1, <2>3, <2>4, <2>5
          DEF QInv, QueueWaits, QueueDests, WaitsByAge, NothingDropped, Unblocked, Slot
<1>3. CASE UNCHANGED core_vars
  <2>1. UNCHANGED <<vars, rename_vars>> /\ UNCHANGED <<queue, s1, instr_u>>
    BY <1>3 DEF core_vars, front_vars
  <2>2. RInv'
    BY <2>1, NextRInv DEF QInv
  <2>3. UNCHANGED <<entry_valid, entry_complete, entry_instr, head, busy>>
    BY <2>1 DEF vars, rename_vars
  <2>4. FrontType' /\ BusyIsPending'
    BY <2>1, <2>3 DEF QInv, FrontType, BusyIsPending, Waiting, IqSlot, Decoded, Entry, Slot, Phys, Arch
  <2>5. QueueWaits' /\ QueueDests' /\ WaitsByAge' /\ NothingDropped' /\ Unblocked'
    BY <2>1, <2>3 DEF QInv, QueueWaits, QueueDests, WaitsByAge, NothingDropped, Unblocked,
                      Held, Blocked, Waiting, Age, IqSlot, Slot, NoDest
  <2> QED BY <2>2, <2>4, <2>5 DEF QInv
<1> QED BY <1>1, <1>2, <1>3, CoreCycles

-----------------------------------------------------------------------------
(***************************************************************************)
(* Retirement.  A result that has arrived leaves in the next cycle, so     *)
(* that it is the oldest in the buffer, unless an older system call holds  *)
(* it up; and no instruction older than a system call is left in the queue *)
(* once that has entered it.                                               *)
(***************************************************************************)
Calls == {r \in Held : queue[r].i.op_cat = "SYS_CALL"}

OldestIsCall ==
  Blocked => \E r \in Calls : \A q \in Held : Age(queue[r].rob_tag) <= Age(queue[q].rob_tag)

DoneAtHead ==
  \A s \in Slot : entry_valid[s] /\ entry_complete[s] =>
    s = head \/ \E r \in Calls : Age(queue[r].rob_tag) < Age(s)

\* Slots differ in age, and the head has age zero.
LEMMA AgesDiffer ==
  ASSUME IInv, NEW s \in Slot, NEW t \in Slot, Age(s) = Age(t)
  PROVE  s = t
BY NAssumption DEF Age, IInv, TypeOK, Slot

LEMMA HeadAge ==
  ASSUME IInv
  PROVE  /\ head \in Slot /\ Age(head) = 0
         /\ Plus(head, 0) = head
         /\ Plus(head, 1) \in Slot /\ Age(Plus(head, 1)) = 1
BY NAssumption DEF Age, IInv, TypeOK, Slot, Plus

\* Slots that stay keep their distance.
LEMMA AgesShift ==
  ASSUME QInv, NEW pu, NEW pv, NEW w0, NEW i, Plain(pu, pv, w0, i)
  PROVE  /\ retire_count \in 0..2 /\ head' = Plus(head, retire_count)
         /\ \A s \in Slot : /\ s \notin Retired => Age(s)' = Age(s) - retire_count
                            /\ s \in Retired <=> Age(s) < retire_count
                            /\ Age(s) \in 0..(N - 1)
                            /\ Waiting(s) => s \notin Retired
                            /\ entry_valid[s] <=> Age(s) < count
<1>0. RInv /\ IInv
  BY DEF QInv, RInv
<1>1. head' = Plus(head, retire_count)
  BY DEF Plain, Edge, Clock
<1>2. \A s \in Slot : Age(s)' = IF Age(s) >= retire_count THEN Age(s) - retire_count
                                ELSE Age(s) + N - retire_count
  BY <1>0, <1>1, AgeMoves
<1>3. \A s \in Slot : Age(s) \in 0..(N - 1) /\ (s \in Retired <=> Age(s) < retire_count)
  BY <1>0, AgeRange, RetiredAge
<1>4. \A s \in Slot : Waiting(s) => s \notin Retired
  BY DEF Retired, can_retire_u, can_retire_v, Waiting
<1>5. \A s \in Slot : entry_valid[s] <=> Age(s) < count
  BY <1>0, ContiguousAge DEF IInv
<1>6. retire_count \in 0..2
  BY <1>0, RetireBound
<1>7. \A s \in Slot : s \notin Retired => Age(s) >= retire_count
  BY <1>3, <1>6
<1> QED BY <1>1, <1>2, <1>3, <1>4, <1>5, <1>6, <1>7

\* A system call stays in the queue, and what is behind it stays behind it.
LEMMA CallStays ==
  ASSUME QInv, NEW pu, NEW pv, NEW w0, NEW i, Plain(pu, pv, w0, i), NEW r \in Calls
  PROVE  /\ r \in Held /\ queue[r] \notin Completing /\ r \in Calls'
         /\ \E t \in Slot :
              /\ t = queue[r].rob_tag /\ t = queue'[r].rob_tag /\ Waiting(t)
              /\ \A s \in Slot :
                   /\ s \notin Retired /\ Age(t) < Age(s) => Age(t)' < Age(s)'
                   /\ s \notin Retired /\ Age(t) <= Age(s) => Age(t)' <= Age(s)'
                   /\ dispatch_u # None /\ s = tail => Age(t)' <= Age(s)'
<1>1. r \in Held /\ queue[r].i.op_cat = "SYS_CALL"
  BY DEF Calls
<1>2. queue[r] \notin Completing
  BY <1>1, Issued
<1>3. Old(r) /\ r \in IqSlot
  BY <1>1, <1>2 DEF Old, Held
<1>4. r \in Held' /\ queue'[r].i = queue[r].i /\ queue'[r].rob_tag = queue[r].rob_tag
  BY <1>3, QueueStep
<1>5. PICK t \in Slot : t = queue[r].rob_tag /\ Waiting(t)
  BY <1>1, HeldEntries DEF Entry, QInv, QueueWaits
<1>6. \A s \in Slot : s \notin Retired =>
        /\ Age(t) < Age(s) => Age(t)' < Age(s)'
        /\ Age(t) <= Age(s) => Age(t)' <= Age(s)'
  BY <1>5, AgesShift
<1>7. ASSUME NEW s \in Slot, dispatch_u # None, s = tail PROVE Age(t)' <= Age(s)'
  <2>1. Age(t)' < Age(s)'
    BY <1>5, <1>7, OrderStep
  <2>2. IInv'
    BY PlainRenames DEF RInv
  <2>3. Age(t)' \in Int /\ Age(s)' \in Int
    BY <2>2, NAssumption DEF IInv, TypeOK, Age, Slot
  <2> QED BY <2>1, <2>3
<1>8. r \in Calls'
  BY <1>1, <1>4 DEF Calls
<1> QED BY <1>1, <1>2, <1>4, <1>5, <1>6, <1>7, <1>8

\* What waits behind no system call is the only one that does, and is the oldest
\* in the next cycle.
LEMMA BecomesHead ==
  ASSUME QInv, DoneAtHead, ~Blocked, NEW pu, NEW pv, NEW w0, NEW i, Plain(pu, pv, w0, i),
         NEW s \in Slot, Waiting(s)
  PROVE  s = head'
<1>0. IInv /\ N \in Nat /\ N >= 2
  BY NAssumption DEF QInv, RInv
<1>1. \A t \in Slot : Waiting(t) => t = s
  BY DEF QInv, NothingDropped, Unblocked
<1>2. Calls = {}
  BY DEF Calls, Blocked
<1>3. \A t \in Slot : Age(t) < Age(s) => t = head /\ can_retire_u
  <2> SUFFICES ASSUME NEW t \in Slot, Age(t) < Age(s) PROVE t = head /\ can_retire_u
    OBVIOUS
  <2>1. entry_valid[t] /\ t # s
    BY AgesShift, <1>0 DEF Waiting, IInv, TypeOK
  <2>2. entry_complete[t]
    BY <1>1, <2>1 DEF Waiting
  <2>3. t = head
    BY <1>2, <2>1, <2>2 DEF DoneAtHead
  <2> QED BY <2>1, <2>2, <2>3 DEF can_retire_u
<1>4. /\ head \in Slot /\ Age(head) = 0 /\ Plus(head, 0) = head
      /\ Plus(head, 1) \in Slot /\ Age(Plus(head, 1)) = 1
  BY <1>0, HeadAge
<1>5. Age(s) \in 0..(N - 1) /\ Age(s) >= retire_count /\ retire_count \in 0..2
      /\ head' = Plus(head, retire_count)
  BY AgesShift, <1>0
<1>6. Age(s) <= 1
  <2> SUFFICES ASSUME Age(s) > 1 PROVE FALSE
    BY <1>5
  <2>1. Plus(head, 1) = head
    BY <1>3, <1>4
  <2> QED BY <1>4, <2>1
<1>7. CASE Age(s) = 0
  <2>1. s = head
    BY <1>0, <1>4, <1>7, AgesDiffer
  <2>2. retire_count = 0
    BY <1>5, <1>7
  <2> QED BY <1>4, <1>5, <2>1, <2>2
<1>8. CASE Age(s) = 1
  <2>1. s = Plus(head, 1)
    BY <1>0, <1>4, <1>8, AgesDiffer
  <2>2. can_retire_u
    BY <1>3, <1>4, <1>8
  <2>3. retire_count = 1
    BY <1>5, <1>8, <2>2 DEF retire_count
  <2> QED BY <1>5, <2>1, <2>3
<1> QED BY <1>5, <1>6, <1>7, <1>8

LEMMA PlainRetires ==
  ASSUME QInv, OldestIsCall, DoneAtHead,
         NEW pu, NEW pv, NEW w0, NEW i, Plain(pu, pv, w0, i)
  PROVE  OldestIsCall' /\ DoneAtHead'
<1>0. w0 \in ResultBus /\ IInv
  BY DEF Plain, QInv, RInv
<1>1. OldestIsCall'
  <2> SUFFICES ASSUME Blocked'
               PROVE  \E r \in Calls' : \A q \in Held' :
                        (Age(queue[r].rob_tag) <= Age(queue[q].rob_tag))'
    BY DEF OldestIsCall
  <2>1. CASE Blocked
    <3>1. PICK r \in Calls : \A q \in Held : Age(queue[r].rob_tag) <= Age(queue[q].rob_tag)
      BY <2>1 DEF OldestIsCall
    <3>2. r \in Calls'
      BY CallStays
    <3>3. PICK t \in Slot :
            /\ t = queue[r].rob_tag /\ t = queue'[r].rob_tag
            /\ \A s \in Slot :
                 /\ s \notin Retired /\ Age(t) <= Age(s) => Age(t)' <= Age(s)'
                 /\ dispatch_u # None /\ s = tail => Age(t)' <= Age(s)'
      BY CallStays
    <3>4. ASSUME NEW q \in Held' PROVE (Age(queue[r].rob_tag) <= Age(queue[q].rob_tag))'
      <4>1. q \in IqSlot /\ (New(q) \/ Old(q))
        BY QueueStep DEF Held, IqSlot
      <4>2. \E s \in Slot : s = queue'[q].rob_tag /\ Age(t)' <= Age(s)'
        <5>1. CASE New(q)
          BY <3>3, <4>1, <5>1, QueueStep, WaitingStep DEF New
        <5>2. CASE Old(q)
          <6>1. q \in Held /\ queue'[q].rob_tag = queue[q].rob_tag
            BY <4>1, <5>2, QueueStep DEF Old
          <6>2. PICK s \in Slot : s = queue[q].rob_tag /\ Waiting(s)
            BY <6>1, HeldEntries DEF Entry, QInv, QueueWaits
          <6>3. s \notin Retired /\ Age(t) <= Age(s)
            BY <3>1, <3>3, <6>1, <6>2, AgesShift
          <6> QED BY <3>3, <6>1, <6>2, <6>3
        <5> QED BY <4>1, <5>1, <5>2
      <4> QED BY <3>3, <4>2 DEF Age
    <3> QED BY <3>2, <3>4
  <2>2. CASE ~Blocked
    <3>1. \A q \in Held : queue[q] \in Completing
      BY <2>2, Issued
    <3>2. \A q \in Held' : q \in IqSlot /\ New(q)
      BY <3>1, QueueStep DEF Held, IqSlot, Old
    <3>3. PICK r \in Held' : queue'[r].i.op_cat = "SYS_CALL"
      BY DEF Blocked
    <3>4. \A q \in Held' : q = r
      BY <3>2, QueueStep
    <3>5. PICK s \in Slot : s = queue'[r].rob_tag
      BY <3>2, QueueStep, WaitingStep
    <3>6. IInv'
      BY PlainRenames DEF RInv
    <3>7. Age(s)' \in Int
      BY <3>6, NAssumption DEF IInv, TypeOK, Age, Slot
    <3>8. (Age(queue[r].rob_tag) <= Age(queue[r].rob_tag))'
      <4>1. (Age(queue[r].rob_tag))' = Age(s)'
        BY <3>5 DEF Age
      <4> QED BY <3>7, <4>1
    <3> QED BY <3>3, <3>4, <3>8 DEF Calls
  <2> QED BY <2>1, <2>2
<1>2. DoneAtHead'
  <2> SUFFICES ASSUME NEW s \in Slot, entry_valid'[s], entry_complete'[s]
               PROVE  s = head' \/ \E r \in Calls' : (Age(queue[r].rob_tag))' < Age(s)'
    BY DEF DoneAtHead, Slot
  <2>1. ASSUME NEW r \in Calls, Age(queue[r].rob_tag) < Age(s), s \notin Retired
        PROVE  \E x \in Calls' : (Age(queue[x].rob_tag))' < Age(s)'
    <3>1. r \in Calls'
      BY CallStays
    <3>2. PICK t \in Slot : /\ t = queue[r].rob_tag /\ t = queue'[r].rob_tag
                            /\ s \notin Retired /\ Age(t) < Age(s) => Age(t)' < Age(s)'
      BY CallStays
    <3>3. Age(t)' < Age(s)'
      BY <2>1, <3>2
    <3>4. (Age(queue[r].rob_tag))' < Age(s)'
      BY <3>2, <3>3 DEF Age
    <3> QED BY <3>1, <3>4
  <2>2. CASE entry_valid[s] /\ entry_complete[s] /\ s \notin Retired
    <3>1. s # head
      BY <2>2 DEF Retired, can_retire_u
    <3>2. PICK r \in Calls : Age(queue[r].rob_tag) < Age(s)
      BY <2>2, <3>1 DEF DoneAtHead
    <3> QED BY <2>1, <2>2, <3>2
  <2>3. CASE Waiting(s) /\ w0 # None /\ w0.tag = s
    <3>1. CASE Blocked
      <4>1. PICK r \in Calls : \A q \in Held : Age(queue[r].rob_tag) <= Age(queue[q].rob_tag)
        BY <3>1 DEF OldestIsCall
      <4>2. PICK q \in Held : queue[q] \in Completing /\ queue[q].rob_tag = s
        BY <1>0, <2>3, BusWakes
      <4>3. PICK t \in Slot : t = queue[r].rob_tag
        BY CallStays
      <4>4. t # s
        <5>1. r \in Held /\ queue[r] \notin Completing
          BY CallStays
        <5> QED BY <4>2, <4>3, <5>1 DEF QInv, QueueWaits
      <4>5. Age(t) <= Age(s) /\ Age(t) # Age(s)
        BY <1>0, <4>1, <4>2, <4>3, <4>4, AgesDiffer
      <4>6. Age(t) < Age(s) /\ s \notin Retired
        BY <2>3, <4>5, AgesShift, NAssumption
      <4> QED BY <2>1, <4>3, <4>6
    <3>2. CASE ~Blocked
      BY <2>3, <3>2, BecomesHead
    <3> QED BY <3>1, <3>2
  <2> QED BY <2>2, <2>3, WaitingStep
<1> QED BY <1>1, <1>2

RetireInv == QInv /\ OldestIsCall /\ DoneAtHead

LEMMA InitRetireInv == CoreInit => RetireInv
<1> SUFFICES ASSUME CoreInit PROVE RetireInv
  OBVIOUS
<1>1. Held = {} /\ \A s \in Slot : ~entry_valid[s]
  BY DEF CoreInit, Held, RenameInit, Init
<1> QED BY <1>1, InitQInv DEF RetireInv, OldestIsCall, DoneAtHead, Blocked

LEMMA NextRetireInv == RetireInv /\ [CoreNext]_core_vars => RetireInv'
<1> SUFFICES ASSUME RetireInv, [CoreNext]_core_vars PROVE RetireInv'
  OBVIOUS
<1>1. QInv'
  BY NextQInv DEF RetireInv
<1>2. ASSUME NEW pu, NEW pv, NEW w0, NEW i, Plain(pu, pv, w0, i) PROVE RetireInv'
  BY <1>1, <1>2, PlainRetires DEF RetireInv
<1>3. ASSUME NEW pu, flush, RenameFlush, queue' = queue_next(pu) PROVE RetireInv'
  <2>1. Held' = {} /\ \A s \in Slot : ~entry_valid'[s]
    BY <1>3 DEF queue_next, queue_clear, Held, RenameFlush, Flush, IqSlot
  <2> QED BY <1>1, <2>1 DEF RetireInv, OldestIsCall, DoneAtHead, Blocked, Slot
<1>4. CASE UNCHANGED core_vars
  <2>1. UNCHANGED <<queue, entry_valid, entry_complete, head>>
    BY <1>4 DEF core_vars, front_vars, vars
  <2>2. Held' = Held /\ Calls' = Calls /\ Blocked' = Blocked
    BY <2>1 DEF Held, Calls, Blocked, IqSlot
  <2> QED BY <1>1, <2>1, <2>2 DEF RetireInv, OldestIsCall, DoneAtHead, Age, Slot
<1> QED BY <1>2, <1>3, <1>4, CoreCycles

\* The oldest instruction and the next are not both done.
LEMMA OnePort ==
  ASSUME RetireInv
  PROVE  ~can_retire_v
<1> SUFFICES ASSUME can_retire_v PROVE FALSE
  OBVIOUS
<1>1. IInv
  BY DEF RetireInv, QInv, RInv
<1>2. PICK s \in Slot : s = Plus(head, 1) /\ Age(s) = 1 /\ s # head /\ Age(head) = 0
  <2>1. head \in Slot /\ Age(head) = 0
    BY <1>1, HeadAge
  <2>2. Plus(head, 1) \in Slot /\ Age(Plus(head, 1)) = 1
    BY <1>1, HeadAge
  <2>3. Plus(head, 1) # head
    BY <2>1, <2>2
  <2> QED BY <2>1, <2>2, <2>3
<1>3. PICK r \in Calls : Age(queue[r].rob_tag) < 1
  BY <1>2 DEF RetireInv, DoneAtHead, can_retire_v
<1>4. PICK t \in Slot : t = queue[r].rob_tag /\ Waiting(t)
  <2>1. r \in Held
    BY DEF Calls
  <2> QED BY <2>1, HeldEntries DEF Entry, RetireInv, QInv, QueueWaits
<1>5. Age(t) = 0
  BY <1>1, <1>3, <1>4, AgeRange, NAssumption
<1>6. t = head
  <2>1. head \in Slot /\ Age(head) = 0
    BY <1>1, HeadAge
  <2>2. Age(t) = Age(head)
    BY <1>5, <2>1
  <2> QED BY <1>1, <2>1, <2>2, AgesDiffer
<1> QED BY <1>4, <1>6 DEF can_retire_v, can_retire_u, Waiting

\* Nothing retires by the second port: however a halt, branches and increments
\* overtake each other, the two oldest instructions are never both done.
THEOREM RetiresByOnePort == CoreSpec => []~can_retire_v
BY InitRetireInv, NextRetireInv, OnePort, PTL DEF CoreSpec

-----------------------------------------------------------------------------
\* The issue queue and the reorder buffer agree, and while no system call is
\* in the queue no dispatch is dropped, whatever is fetched and flushed and
\* although nothing holds dispatch when the queue is full.
THEOREM QueueIsRight == CoreSpec => []QueueMatchesBuffer
<1>1. QInv => QueueMatchesBuffer
  BY DEF QInv, QueueMatchesBuffer
<1> QED BY InitQInv, NextQInv, <1>1, PTL DEF CoreSpec

\* A source that is waited for is the destination of an older instruction whose
\* result is still to come: nobody waits for nobody, and nobody in a circle.
THEOREM SourcesAreOlder == CoreSpec => []WaitsForAnOlder
<1>1. QInv => WaitsForAnOlder
  <2> SUFFICES ASSUME QInv, NEW q \in IqSlot, queue[q] # None, queue[q].src # None
               PROVE  \E i, j \in 1..count :
                        /\ i < j /\ SlotOf(j) = queue[q].rob_tag
                        /\ Waiting(SlotOf(i)) /\ entry_instr[SlotOf(i)].dest_valid
                        /\ entry_instr[SlotOf(i)].p_dest = queue[q].src
    BY DEF WaitsForAnOlder
  <2>1. IInv /\ q \in Held
    BY DEF QInv, RInv, Held
  <2>2. PICK s \in Slot : /\ Waiting(s) /\ entry_instr[s].dest_valid
                          /\ entry_instr[s].p_dest = queue[q].src
                          /\ Age(s) < Age(queue[q].rob_tag)
    BY <2>1 DEF QInv, WaitsByAge
  <2>3. PICK t \in Slot : t = queue[q].rob_tag /\ Waiting(t)
    BY <2>1, HeldEntries DEF Entry, QInv, QueueWaits
  <2>4. \A x \in Slot : /\ Waiting(x) => Age(x) + 1 \in 1..count
                        /\ Age(x) \in Nat /\ SlotOf(Age(x) + 1) = x
    <3> SUFFICES ASSUME NEW x \in Slot
                 PROVE  /\ Waiting(x) => Age(x) + 1 \in 1..count
                        /\ Age(x) \in Nat /\ SlotOf(Age(x) + 1) = x
      OBVIOUS
    <3>1. Age(x) \in 0..(N - 1) /\ (entry_valid[x] <=> Age(x) < count)
      BY <2>1, AgeRange, ContiguousAge DEF IInv
    <3>2. head \in Slot /\ count \in 0..N
      BY <2>1 DEF IInv, TypeOK
    <3>3. SlotOf(Age(x) + 1) = x
      BY <3>1, <3>2, NAssumption DEF SlotOf, Plus, Age, Slot
    <3> QED BY <3>1, <3>2, <3>3, NAssumption DEF Waiting
  <2>5. /\ Age(s) + 1 \in 1..count /\ SlotOf(Age(s) + 1) = s
        /\ Age(t) + 1 \in 1..count /\ SlotOf(Age(t) + 1) = t
    BY <2>2, <2>3, <2>4
  <2>6. Age(s) + 1 < Age(t) + 1
    BY <2>2, <2>3, <2>4
  <2> QED BY <2>2, <2>3, <2>5, <2>6
<1> QED BY InitQInv, NextQInv, <1>1, PTL DEF CoreSpec

\* Every cycle of the core is one of RegisterRename: it dispatches only while
\* there is room, and results come for instructions that wait for them.
THEOREM CoreImplementsRename == CoreSpec => DrivesRename
<1>1. CoreInit => RenameInit
  BY DEF CoreInit
<1>2. QInv /\ [CoreNext]_core_vars => [RenameNext]_<<vars, rename_vars>>
  <2> SUFFICES ASSUME QInv, [CoreNext]_core_vars PROVE [RenameNext]_<<vars, rename_vars>>
    OBVIOUS
  <2>1. CASE UNCHANGED core_vars
    BY <2>1 DEF core_vars
  <2> QED BY <2>1, CoreCycles, PlainRenames DEF RenameNext
<1> QED BY InitQInv, NextQInv, <1>1, <1>2, PTL DEF CoreSpec, DrivesRename, RenameSpec

\* So registers are conserved and destinations kept in the core, too.
COROLLARY CoreConserves == CoreSpec => [](Conserved /\ DestinationHeld)
BY CoreImplementsRename, Conservation, DestinationsAreHeld, PTL DEF DrivesRename

\* And instructions leave the core in program order.
COROLLARY CoreKeepsOrder == CoreSpec => InProgramOrder
BY CoreImplementsRename, RenameKeepsOrder, PTL DEF DrivesRename
=============================================================================
