------------------------ MODULE ReorderBuffer_proofs ------------------------
(***************************************************************************)
(* The reorder buffer's type correctness and its occupancy bookkeeping,    *)
(* for every buffer size N >= 2 and every set of instructions and results. *)
(*                                                                         *)
(* TypeOK alone is not inductive: that count stays within 0..N when two    *)
(* entries retire needs the retired slots to be among the count occupied   *)
(* ones, which is what Contiguous says.                                    *)
(***************************************************************************)
EXTENDS ReorderBuffer, SequenceTheorems, TLAPS

IInv == TypeOK /\ Contiguous

\* Distance of slot s from head, going round.
Age(s) == IF s >= head THEN s - head ELSE s + N - head

LEMMA InitIInv == Init => IInv
  BY NAssumption DEF Init, IInv, TypeOK, Contiguous, Slot, Plus

\* A wrapped sum of a slot and a number of slots up to N is a slot.
LEMMA PlusType ==
  ASSUME NEW s \in Slot, NEW k \in 0..N PROVE Plus(s, k) \in Slot
  BY NAssumption DEF Slot, Plus

\* Moving the end of a run of c slots by d moves it as far from a start that
\* has moved by r.
LEMMA PlusShift ==
  ASSUME NEW h \in Slot, NEW c \in 0..N, NEW d \in 0..2, NEW r \in 0..2,
         r <= c, c + d <= N
  PROVE  Plus(Plus(h, c), d) = Plus(Plus(h, r), c + d - r)
  BY NAssumption DEF Slot, Plus

\* At most as many entries retire as the buffer holds.
LEMMA RetireBound ==
  ASSUME IInv PROVE retire_count \in 0..2 /\ retire_count <= count
<1> USE NAssumption DEF IInv, TypeOK, Slot
<1>1. can_retire_u => count >= 1
  BY DEF can_retire_u, Contiguous
<1>2. can_retire_v => count >= 2 /\ can_retire_u
  BY DEF can_retire_v, can_retire_u, Contiguous, Plus
<1>3. QED
  BY <1>1, <1>2 DEF retire_count

LEMMA FlushIInv == ASSUME IInv, Flush PROVE IInv'
  BY NAssumption DEF IInv, TypeOK, Contiguous, Flush, Slot, Plus

LEMMA DispatchCount ==
  ASSUME NEW u, NEW v PROVE dispatch_count(u, v) \in 0..2
  BY DEF dispatch_count

\* The clock edge keeps every register in its range.
LEMMA ClockType ==
  ASSUME IInv,
         NEW u \in DispatchInput, NEW v \in DispatchInput,
         NEW w0 \in Bus0Input, NEW w1 \in Bus1Input(u, v),
         Clock(u, v, w0, w1)
  PROVE  TypeOK'
<1> USE NAssumption
<1> DEFINE new == Allocated(u, v)
           Hit(s) == Hits(w0, s, u, v) \/ Hits(w1, s, u, v)
           Bus(s) == IF Hits(w1, s, u, v) THEN w1 ELSE w0
<1>1. \A s \in Slot : Hit(s) => Bus(s).exc \in BOOLEAN /\ Bus(s).data \in Data
  BY DEF Hits, Bus0Input, Bus1Input, Transfer
<1>2. \A s \in new : (v # None /\ s = v_slot(u) /\ v \in Instr) \/ u \in Instr
  BY DEF Allocated, DispatchInput
<1>3. entry_valid' \in [Slot -> BOOLEAN]
  BY DEF Clock, IInv, TypeOK
<1>4. entry_complete' \in [Slot -> BOOLEAN]
  BY DEF Clock, IInv, TypeOK, Hits
<1>5. entry_exception' \in [Slot -> BOOLEAN]
  <2>1. \A s \in Slot : (IF Hit(s) THEN Bus(s).exc
                         ELSE s \notin new /\ entry_exception[s]) \in BOOLEAN
    BY <1>1 DEF IInv, TypeOK
  <2>2. QED BY <2>1 DEF Clock
<1>6. entry_instr' \in [Slot -> Instr \cup {None}]
  BY <1>2 DEF Clock, IInv, TypeOK, DispatchInput
<1>7. entry_data' \in [Slot -> Data \cup {None}]
  <2>1. \A s \in Slot : (IF Hit(s) THEN Bus(s).data
                         ELSE IF s \in new THEN None ELSE entry_data[s]) \in Data \cup {None}
    BY <1>1 DEF IInv, TypeOK
  <2>2. QED BY <2>1 DEF Clock
<1>8. head' \in Slot
  BY RetireBound, PlusType DEF Clock, IInv, TypeOK
<1>9. tail' \in Slot
  <2>1. dispatch_count(u, v) \in 0..N
    BY DispatchCount
  <2>2. QED BY <2>1, PlusType DEF Clock, IInv, TypeOK
<1>10. count' \in 0..N
  <2>1. full => dispatch_count(u, v) = 0
    BY DEF DispatchInput, dispatch_count
  <2>2. CASE full
    BY <2>1, <2>2, RetireBound DEF Clock, IInv, TypeOK
  <2>3. CASE ~full
    BY <2>3, RetireBound, DispatchCount DEF Clock, IInv, TypeOK, full
  <2>4. QED BY <2>2, <2>3
<1>11. QED
  BY <1>3, <1>4, <1>5, <1>6, <1>7, <1>8, <1>9, <1>10 DEF TypeOK

\* The occupied slots are those whose distance from head is below count.
LEMMA ContiguousAge ==
  ASSUME TypeOK PROVE Contiguous <=> /\ tail = Plus(head, count)
                                     /\ \A s \in Slot : entry_valid[s] <=> Age(s) < count
  BY NAssumption DEF Contiguous, Age, TypeOK, Slot

\* What a cycle adds to the pointers never overfills the buffer.
LEMMA DispatchFits ==
  ASSUME IInv, NEW u \in DispatchInput, NEW v \in DispatchInput
  PROVE  /\ dispatch_count(u, v) \in 0..2
         /\ full => dispatch_count(u, v) = 0
         /\ count + dispatch_count(u, v) <= N
  BY NAssumption DEF DispatchInput, dispatch_count, full, IInv, TypeOK

LEMMA AgeRange == ASSUME IInv, NEW s \in Slot PROVE Age(s) \in 0..(N - 1)
  BY NAssumption DEF Age, IInv, TypeOK, Slot

\* Dispatch writes the slots right after the occupied run.
LEMMA AllocatedAge ==
  ASSUME IInv, NEW u \in DispatchInput, NEW v \in DispatchInput, NEW s \in Slot
  PROVE  s \in Allocated(u, v) <=> /\ Age(s) >= count
                                  /\ Age(s) < count + dispatch_count(u, v)
<1> USE NAssumption
<1>1. CASE full
  BY <1>1, DispatchFits, AgeRange DEF Allocated, IInv, TypeOK
<1>2. CASE ~full
  <2>1. count + 2 <= N /\ tail = Plus(head, count)
    BY <1>2 DEF full, IInv, TypeOK, Contiguous
  <2>2. (s = tail <=> Age(s) = count) /\ (s = Plus(tail, 1) <=> Age(s) = count + 1)
    BY <2>1 DEF Age, Plus, IInv, TypeOK, Slot
  <2>3. QED
    BY <1>2, <2>2 DEF Allocated, v_slot, dispatch_count, Age, IInv, TypeOK, Slot
<1>3. QED BY <1>1, <1>2

\* Retirement empties the slots at the front of the run.
LEMMA RetiredAge ==
  ASSUME IInv, NEW s \in Slot PROVE s \in Retired <=> Age(s) < retire_count
<1>1. (s = head <=> Age(s) = 0) /\ (s = Plus(head, 1) <=> Age(s) = 1)
  BY NAssumption DEF Age, Plus, IInv, TypeOK, Slot
<1>2. QED
  BY <1>1, AgeRange DEF Retired, retire_count, can_retire_v

\* Ages shrink by the number retired.
LEMMA AgeMoves ==
  ASSUME IInv, NEW s \in Slot, head' = Plus(head, retire_count)
  PROVE  Age(s)' = IF Age(s) >= retire_count THEN Age(s) - retire_count
                   ELSE Age(s) + N - retire_count
<1>1. retire_count \in 0..2 /\ retire_count <= count
  BY RetireBound
<1>2. QED
  BY <1>1, NAssumption DEF Age, Plus, IInv, TypeOK, Slot

\* Dispatch appends at the end of the occupied run, retirement drops its
\* front, and both pointers move by what was appended and dropped.
LEMMA ClockContiguous ==
  ASSUME IInv,
         NEW u \in DispatchInput, NEW v \in DispatchInput,
         NEW w0 \in Bus0Input, NEW w1 \in Bus1Input(u, v),
         Clock(u, v, w0, w1), TypeOK'
  PROVE  Contiguous'
<1> USE NAssumption
<1> DEFINE d == dispatch_count(u, v)
           r == retire_count
<1>1. d \in 0..2 /\ (full => d = 0) /\ count + d <= N
  BY DispatchFits
<1>2. r \in 0..2 /\ r <= count
  BY RetireBound
<1>3. head' = Plus(head, r) /\ count' = count + d - r
  BY DEF Clock
<1>4. tail' = Plus(tail, d)
  BY <1>1 DEF Clock, Plus, IInv, TypeOK, Slot
<1>5. tail' = Plus(head', count')
  <2>1. tail = Plus(head, count) /\ head \in Slot /\ count \in 0..N
    BY DEF IInv, TypeOK, Contiguous
  <2>2. QED
    BY <1>1, <1>2, <1>3, <1>4, <2>1, PlusShift
<1>6. ASSUME NEW s \in Slot
      PROVE  entry_valid'[s] <=> Age(s) >= r /\ Age(s) < count + d
  <2>1. entry_valid[s] <=> Age(s) < count
    BY DEF IInv, Contiguous, Age
  <2>2. entry_valid'[s] <=> (entry_valid[s] \/ s \in Allocated(u, v)) /\ s \notin Retired
    BY DEF Clock
  <2>3. Age(s) \in Nat /\ count \in Nat
    BY AgeRange DEF IInv, TypeOK
  <2>4. QED BY <1>1, <1>2, AllocatedAge, RetiredAge, <2>1, <2>2, <2>3
<1>7. ASSUME NEW s \in Slot
      PROVE  Age(s)' < count' <=> Age(s) >= r /\ Age(s) < count + d
  <2>1. Age(s) \in 0..(N - 1) /\ count \in Nat
    BY AgeRange DEF IInv, TypeOK
  <2>2. QED BY <1>1, <1>2, <1>3, <2>1, AgeMoves
<1>8. (\A s \in Slot : entry_valid[s] <=> Age(s) < count)'
  BY <1>6, <1>7 DEF Slot
<1>9. QED
  BY <1>5, <1>8 DEF Contiguous, Age

LEMMA NextIInv == IInv /\ [Next]_vars => IInv'
<1> SUFFICES ASSUME IInv, [Next]_vars PROVE IInv'
  OBVIOUS
<1>1. CASE Cycle
  <2>1. PICK u \in DispatchInput, v \in DispatchInput, w0 \in Bus0Input :
          \E w1 \in Bus1Input(u, v) : Clock(u, v, w0, w1)
    BY <1>1 DEF Cycle
  <2>2. PICK w1 \in Bus1Input(u, v) : Clock(u, v, w0, w1)
    BY <2>1
  <2>3. TypeOK'
    BY <2>2, ClockType
  <2>4. QED
    BY <2>2, <2>3, ClockContiguous DEF IInv
<1>2. CASE Flush
  BY <1>2, FlushIInv
<1>3. CASE UNCHANGED vars
  BY <1>3 DEF vars, IInv, TypeOK, Contiguous, Slot, Plus
<1>4. QED
  BY <1>1, <1>2, <1>3 DEF Next

\* Every register keeps its range: in particular the occupancy counter never
\* leaves 0..N, whatever is dispatched, written back, retired or flushed.
THEOREM TypeCorrect == Spec => []TypeOK
<1>1. IInv => TypeOK
  BY DEF IInv
<1>2. QED
  BY InitIInv, NextIInv, <1>1, PTL DEF Spec

\* The valid bits, the two pointers and the counter always describe the same
\* run of slots: what rob_empty, full and the retirement ports read agrees.
THEOREM OccupancyCorrect == Spec => []Contiguous
<1>1. IInv => Contiguous
  BY DEF IInv
<1>2. QED
  BY InitIInv, NextIInv, <1>1, PTL DEF Spec

-----------------------------------------------------------------------------
(***************************************************************************)
(* The window in program order                                             *)
(***************************************************************************)

\* Occupied slots hold instructions: what else is in the arrays is stale.
Filled == \A s \in Slot : entry_valid[s] => entry_instr[s] \in Instr

OInv == IInv /\ Filled

\* What the window shows of a slot.
Cell(s) ==
  [instr |-> entry_instr[s], done |-> entry_complete[s], fault |-> entry_exception[s],
   data |-> IF entry_complete[s] THEN entry_data[s] ELSE None]

WindowIsSound ==
  /\ Len(Window) = count
  /\ \A i \in 1..count :
       /\ SlotOf(i) \in Slot /\ Age(SlotOf(i)) = i - 1 /\ entry_valid[SlotOf(i)]
       /\ Window[i] = Cell(SlotOf(i)) /\ Window[i] \in Order!Entry

LEMMA WindowSound == OInv => WindowIsSound
<1> SUFFICES ASSUME OInv PROVE WindowIsSound
  OBVIOUS
<1>1. IInv /\ TypeOK /\ count \in 0..N
  BY DEF OInv, IInv, TypeOK
<1>2. ASSUME NEW i \in 1..count
      PROVE  SlotOf(i) \in Slot /\ Age(SlotOf(i)) = i - 1 /\ entry_valid[SlotOf(i)]
  <2>1. SlotOf(i) \in Slot /\ Age(SlotOf(i)) = i - 1
    BY <1>1, NAssumption DEF SlotOf, Plus, Age, Slot, TypeOK
  <2> QED BY <1>1, <2>1, ContiguousAge DEF IInv
<1>3. \A i \in 1..count : Window[i] = Cell(SlotOf(i)) /\ Window[i] \in Order!Entry
  <2> SUFFICES ASSUME NEW i \in 1..count
               PROVE  Window[i] = Cell(SlotOf(i)) /\ Cell(SlotOf(i)) \in Order!Entry
    OBVIOUS
  <2>1. Window[i] = Cell(SlotOf(i))
    BY DEF Window, Cell
  <2>2. PICK s \in Slot : s = SlotOf(i) /\ entry_valid[s]
    BY <1>2
  <2>3. Cell(s) \in Order!Entry
    BY <1>1, <2>2 DEF Cell, Order!Entry, OInv, Filled, TypeOK
  <2> QED BY <2>1, <2>2, <2>3
<1>4. Len(Window) = count
  <2>1. Window \in [1..count -> Order!Entry]
    BY <1>3 DEF Window
  <2>2. Window \in Seq(Order!Entry)
    BY <1>1, <2>1, SeqDef
  <2> QED BY <1>1, <2>1, <2>2, LenProperties
<1> QED BY <1>2, <1>3, <1>4 DEF WindowIsSound

LEMMA InitOInv == Init => OInv
BY InitIInv DEF Init, OInv, Filled

LEMMA ClockFilled ==
  ASSUME OInv, NEW u \in DispatchInput, NEW v \in DispatchInput, NEW w0, NEW w1,
         Clock(u, v, w0, w1)
  PROVE  Filled'
<1> SUFFICES ASSUME NEW s \in Slot, entry_valid'[s] PROVE entry_instr'[s] \in Instr
  BY DEF Filled, Slot
<1>1. entry_valid[s] \/ s \in Allocated(u, v)
  BY DEF Clock
<1>2. CASE s \in Allocated(u, v)
  <2>1. entry_instr'[s] = IF v # None /\ s = v_slot(u) THEN v ELSE u
    BY <1>2 DEF Clock
  <2>2. ~full /\ (u # None \/ (v # None /\ s = v_slot(u)))
    BY <1>2 DEF Allocated
  <2> QED BY <2>1, <2>2 DEF DispatchInput
<1>3. CASE s \notin Allocated(u, v)
  BY <1>1, <1>3 DEF Clock, OInv, Filled
<1> QED BY <1>2, <1>3

\* An instruction that stays keeps its slot and, once it is finished, its
\* result: the buses name slots that wait, or the one that V takes.
LEMMA KeptCell ==
  ASSUME OInv, NEW u \in DispatchInput, NEW v \in DispatchInput,
         NEW w0 \in Bus0Input, NEW w1 \in Bus1Input(u, v), Clock(u, v, w0, w1),
         NEW s \in Slot, entry_valid[s]
  PROVE  Order!Progress(Cell(s), Cell(s)')
<1>1. s \notin Allocated(u, v)
  <2>1. Age(s) < count /\ Age(s) \in Nat /\ count \in Nat
    BY ContiguousAge, AgeRange DEF OInv, IInv, TypeOK
  <2> QED BY <2>1, AllocatedAge DEF OInv
<1>2. entry_instr'[s] = entry_instr[s]
  BY <1>1 DEF Clock
<1>3. ASSUME entry_complete[s]
      PROVE  ~Hits(w0, s, u, v) /\ ~Hits(w1, s, u, v)
  <2>1. ~(w0 # None /\ w0.tag = s)
    BY <1>3 DEF Bus0Input, Waiting
  <2>2. v # None => v_slot(u) # s
    <3>1. v # None => ~full
      BY DEF DispatchInput
    <3> QED BY <1>1, <3>1 DEF Allocated
  <2>3. ~(w1 # None /\ w1.tag = s)
    BY <1>3, <2>2 DEF Bus1Input, Bus0Input, Waiting
  <2> QED BY <2>1, <2>3 DEF Hits
<1>4. ASSUME entry_complete[s]
      PROVE  /\ entry_complete'[s] = entry_complete[s]
             /\ entry_exception'[s] = entry_exception[s]
             /\ entry_data'[s] = entry_data[s]
  BY <1>1, <1>3, <1>4 DEF Clock, OInv, IInv, TypeOK
<1> QED BY <1>2, <1>4 DEF Cell, Order!Progress

LEMMA ClockAdvances ==
  ASSUME OInv, NEW u \in DispatchInput, NEW v \in DispatchInput,
         NEW w0 \in Bus0Input, NEW w1 \in Bus1Input(u, v), Clock(u, v, w0, w1)
  PROVE  OInv' /\ Order!Advance
<1> DEFINE r == retire_count
           kept == count - r
<1>1. OInv'
  <2>1. TypeOK'
    BY ClockType DEF OInv
  <2> QED BY <2>1, ClockContiguous, ClockFilled DEF OInv, IInv
<1>2. WindowIsSound
  BY WindowSound
<1>3. WindowIsSound'
  BY <1>1, WindowSound, PTL
<1>4. r \in 0..2 /\ r <= count /\ count \in 0..N /\ head \in Slot
  BY RetireBound DEF OInv, IInv, TypeOK
<1>5. /\ head' = Plus(head, r) /\ count' \in kept..(kept + 2)
      /\ count' \in 0..N
  BY <1>1, <1>4, DispatchFits DEF Clock, OInv, IInv, TypeOK
<1>6. Order!MayRetire(r)
  <2>1. r >= 1 => can_retire_u /\ entry_complete[SlotOf(1)]
    <3>1. SlotOf(1) = head
      BY <1>4, NAssumption DEF SlotOf, Plus, Slot
    <3> QED BY <3>1 DEF retire_count, can_retire_u, can_retire_v
  <2>2. r = 2 => /\ ~entry_exception[SlotOf(1)]
                 /\ entry_complete[SlotOf(2)] /\ ~entry_exception[SlotOf(2)]
    <3>1. SlotOf(1) = head /\ SlotOf(2) = Plus(head, 1)
      BY <1>4, NAssumption DEF SlotOf, Plus, Slot
    <3> QED BY <3>1 DEF retire_count, can_retire_v
  <2>3. \A i \in 1..r : /\ Window[i].done = entry_complete[SlotOf(i)]
                        /\ Window[i].fault = entry_exception[SlotOf(i)]
    BY <1>2, <1>4 DEF WindowIsSound, Cell
  <2>4. Len(Window) = count
    BY <1>2 DEF WindowIsSound
  <2> QED BY <1>4, <2>1, <2>2, <2>3, <2>4 DEF Order!MayRetire
<1>7. ASSUME NEW i \in 1..kept
      PROVE  Order!Progress(Window[i + r], Window'[i])
  <2>1. i + r \in 1..count /\ i \in 1..count'
    BY <1>4, <1>5
  <2>2. PICK s \in Slot : s = SlotOf(i + r) /\ entry_valid[s] /\ Window[i + r] = Cell(s)
    BY <1>2, <2>1 DEF WindowIsSound
  <2>3. SlotOf(i)' = s
    BY <1>4, <1>5, <2>1, <2>2, NAssumption DEF SlotOf, Plus, Slot
  <2>4. Window'[i] = Cell(s)'
    BY <1>3, <2>1, <2>3 DEF WindowIsSound, Cell
  <2>5. Order!Progress(Cell(s), Cell(s)')
    BY <2>2, KeptCell
  <2> QED BY <2>2, <2>4, <2>5
<1>8. /\ Len(Window) = count /\ Len(Window') = count'
      /\ \A i \in 1..count' : Window'[i] \in Order!Entry
  BY <1>2, <1>3 DEF WindowIsSound
<1>9. Order!Advance
  <2>1. r \in 0..2 /\ Order!MayRetire(r)
    BY <1>4, <1>6
  <2>2. /\ Len(Window') \in (Len(Window) - r)..(Len(Window) - r + 2) /\ Len(Window') <= N
        /\ \A i \in 1..Len(Window') : Window'[i] \in Order!Entry
        /\ \A i \in 1..(Len(Window) - r) : Order!Progress(Window[i + r], Window'[i])
    BY <1>5, <1>7, <1>8
  <2> QED BY <2>1, <2>2 DEF Order!Advance
<1> QED BY <1>1, <1>9

LEMMA FlushEmpties == ASSUME OInv, Flush PROVE OInv' /\ Order!Flush
<1>1. OInv'
  BY FlushIInv DEF OInv, Filled, Flush, Slot
<1>2. Window' = << >>
  BY DEF Flush, Window
<1> QED BY <1>1, <1>2 DEF Order!Flush

LEMMA StutterOrder == ASSUME OInv, UNCHANGED vars PROVE OInv' /\ Window' = Window
<1>1. OInv'
  BY DEF vars, OInv, IInv, Filled, TypeOK, Contiguous, Slot, Plus
<1> QED BY <1>1 DEF vars, Window, SlotOf, Plus

LEMMA InitWindow == Init => Order!Init
BY DEF Init, Window, Order!Init

\* The buffer implements a window of instructions in program order
\* (InProgramOrder): instructions leave in the order in which they came,
\* finished, the younger of a pair never with an older one that faulted, and no
\* result of one that is finished changes.
THEOREM ImplementsProgramOrder == Spec => InProgramOrder
<1>1. OInv /\ [Next]_vars => OInv' /\ [Order!Next]_Window
  <2> SUFFICES ASSUME OInv, [Next]_vars PROVE OInv' /\ [Order!Next]_Window
    OBVIOUS
  <2>1. CASE Cycle
    <3>1. PICK u \in DispatchInput, v \in DispatchInput, w0 \in Bus0Input :
            \E w1 \in Bus1Input(u, v) : Clock(u, v, w0, w1)
      BY <2>1 DEF Cycle
    <3>2. PICK w1 \in Bus1Input(u, v) : Clock(u, v, w0, w1)
      BY <3>1
    <3> QED BY <3>2, ClockAdvances DEF Order!Next
  <2>2. CASE Flush
    BY <2>2, FlushEmpties DEF Order!Next
  <2>3. CASE UNCHANGED vars
    BY <2>3, StutterOrder
  <2> QED BY <2>1, <2>2, <2>3 DEF Next
<1> QED BY InitOInv, InitWindow, <1>1, PTL DEF Spec, InProgramOrder, Order!Spec
=============================================================================
