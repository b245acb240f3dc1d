---------------------------- MODULE ReorderBuffer ---------------------------
(***************************************************************************)
(* The reorder buffer (rtl/core/f386_rob.sv): a circular buffer of N slots *)
(* between head (retirement) and tail (dispatch).  Every clock edge at     *)
(* once stores up to two dispatched instructions, takes up to two results  *)
(* from the common data buses and retires up to two instructions.          *)
(*                                                                         *)
(* An instruction is an element of Instr, a result an element of Data; the *)
(* exception vector, error code and fault address travel with the result   *)
(* and are not told apart.  Inputs are chosen under the discipline of      *)
(* f386_ooo_core_top: nothing is dispatched while `full' is up, and a bus  *)
(* names a slot whose instruction is still waiting for its result (or, on  *)
(* bus 1, the slot dispatched to the V pipe in this very cycle).           *)
(*                                                                         *)
(* Speculation masks are left out: a misprediction raises flush in the     *)
(* same cycle, so the masks never decide anything.                         *)
(***************************************************************************)
EXTENDS Integers, Sequences

CONSTANTS
  N,      \* CONF_ROB_ENTRIES
  Instr,  \* dispatched instructions
  Data,   \* results
  None    \* no instruction, no bus transfer, no result yet

ASSUME NAssumption == N \in Nat /\ N >= 2
ASSUME NoneAssumption == None \notin Instr /\ None \notin Data

VARIABLES
  entry_valid,      \* slot is occupied
  entry_complete,   \* its result has arrived
  entry_exception,  \* and was an exception
  entry_instr,
  entry_data,
  head, tail, count

vars == <<entry_valid, entry_complete, entry_exception, entry_instr,
          entry_data, head, tail, count>>

Slot == 0..(N - 1)

\* Slip: the wrap is one slot late.
Plus_late(s, k) == IF s + k > N THEN s + k - N ELSE s + k

\* rob_id_t addition wraps at the buffer size.
Plus(s, k) == IF s + k >= N THEN s + k - N ELSE s + k

\* A bus transfer names a slot and carries a result.
Transfer == [tag : Slot, data : Data, exc : BOOLEAN]

TypeOK ==
  /\ entry_valid \in [Slot -> BOOLEAN]
  /\ entry_complete \in [Slot -> BOOLEAN]
  /\ entry_exception \in [Slot -> BOOLEAN]
  /\ entry_instr \in [Slot -> Instr \cup {None}]
  /\ entry_data \in [Slot -> Data \cup {None}]
  /\ head \in Slot
  /\ tail \in Slot
  /\ count \in 0..N

Init ==
  /\ entry_valid = [s \in Slot |-> FALSE]
  /\ entry_complete = [s \in Slot |-> FALSE]
  /\ entry_exception = [s \in Slot |-> FALSE]
  /\ entry_instr = [s \in Slot |-> None]
  /\ entry_data = [s \in Slot |-> None]
  /\ head = 0 /\ tail = 0 /\ count = 0

-----------------------------------------------------------------------------
(***************************************************************************)
(* Occupancy and tag assignment                                            *)
(***************************************************************************)

\* The conservative rule of the simulated build: room for two is wanted
\* whatever is being dispatched.
full == N - count < 2

dispatch_count(u, v) == (IF u # None THEN 1 ELSE 0) + (IF v # None THEN 1 ELSE 0)

\* The V pipe takes the slot after U, or U's slot when U is idle.
v_slot(u) == IF u # None THEN Plus(tail, 1) ELSE tail

\* The slots written by this cycle's dispatch.
Allocated(u, v) ==
  {s \in Slot : ~full /\ ((u # None /\ s = tail) \/ (v # None /\ s = v_slot(u)))}

(***************************************************************************)
(* Retirement                                                              *)
(***************************************************************************)

\* Slip: a faulting instruction waits at the head instead of retiring.
can_retire_u_clean ==
  entry_valid[head] /\ entry_complete[head] /\ ~entry_exception[head]

can_retire_u == entry_valid[head] /\ entry_complete[head]

\* Slip: the younger of a pair retires with an older one that faulted.
can_retire_v_imprecise ==
  LET next == Plus(head, 1) IN
  can_retire_u /\ entry_valid[next] /\ entry_complete[next]

can_retire_v ==
  LET next == Plus(head, 1) IN
  /\ can_retire_u /\ ~entry_exception[head]
  /\ entry_valid[next] /\ entry_complete[next] /\ ~entry_exception[next]

\* Slip: the second retirement is not counted.
retire_count_single == IF can_retire_u THEN 1 ELSE 0

retire_count == IF can_retire_v THEN 2 ELSE IF can_retire_u THEN 1 ELSE 0

Retired ==
  {s \in Slot : (can_retire_u /\ s = head) \/ (can_retire_v /\ s = Plus(head, 1))}

(***************************************************************************)
(* Writeback: a bus reaches an occupied slot, or one being dispatched.     *)
(***************************************************************************)
Hits(w, s, u, v) ==
  w # None /\ w.tag = s /\ (entry_valid[s] \/ s \in Allocated(u, v))

-----------------------------------------------------------------------------
(***************************************************************************)
(* One clock edge.  Where several of the assignments below meet in a slot  *)
(* the last one wins: dispatch, bus 0, bus 1, retirement.                  *)
(***************************************************************************)
Clock(u, v, w0, w1) ==
  LET new == Allocated(u, v)
      Hit(s) == Hits(w0, s, u, v) \/ Hits(w1, s, u, v)
      Bus(s) == IF Hits(w1, s, u, v) THEN w1 ELSE w0
  IN
  /\ entry_valid' =
       [s \in Slot |-> (entry_valid[s] \/ s \in new) /\ s \notin Retired]
  /\ entry_complete' =
       [s \in Slot |-> Hit(s) \/ (s \notin new /\ entry_complete[s])]
  /\ entry_exception' =
       [s \in Slot |-> IF Hit(s) THEN Bus(s).exc
                       ELSE s \notin new /\ entry_exception[s]]
  /\ entry_instr' =
       [s \in Slot |-> IF s \notin new THEN entry_instr[s]
                       ELSE IF v # None /\ s = v_slot(u) THEN v ELSE u]
  /\ entry_data' =
       [s \in Slot |-> IF Hit(s) THEN Bus(s).data
                       ELSE IF s \in new THEN None ELSE entry_data[s]]
  /\ tail' = IF full THEN tail ELSE Plus(tail, dispatch_count(u, v))
  /\ head' = Plus(head, retire_count)
  /\ count' = count + dispatch_count(u, v) - retire_count

\* A flush forgets every entry; the payload arrays keep their stale contents.
Flush ==
  /\ entry_valid' = [s \in Slot |-> FALSE]
  /\ entry_complete' = [s \in Slot |-> FALSE]
  /\ entry_exception' = [s \in Slot |-> FALSE]
  /\ head' = 0 /\ tail' = 0 /\ count' = 0
  /\ UNCHANGED <<entry_instr, entry_data>>

-----------------------------------------------------------------------------
(***************************************************************************)
(* The surrounding core                                                    *)
(***************************************************************************)

\* f386_ooo_core_top gates both dispatch ports with !rob_full.
DispatchInput == IF full THEN {None} ELSE Instr \cup {None}

Waiting(s) == entry_valid[s] /\ ~entry_complete[s]

Bus0Input == {None} \cup {w \in Transfer : Waiting(w.tag)}

\* Bus 1 also carries the V pipe, which executes in its dispatch cycle.
Bus1Input(u, v) ==
  Bus0Input \cup {w \in Transfer : v # None /\ w.tag = v_slot(u)}

Distinct(w0, w1) == w0 # None /\ w1 # None => w0.tag # w1.tag

Cycle ==
  \E u, v \in DispatchInput : \E w0 \in Bus0Input : \E w1 \in Bus1Input(u, v) :
    Distinct(w0, w1) /\ Clock(u, v, w0, w1)

Next == Cycle \/ Flush

Spec == Init /\ [][Next]_vars

(***************************************************************************)
(* Fairness: the clock runs, and an instruction that waits is executed in  *)
(* the end (the issue queue and the execution units do their part).        *)
(***************************************************************************)
Executes(s) ==
  /\ Waiting(s)
  /\ \E u, v \in DispatchInput : \E w0 \in Bus0Input : \E w1 \in Bus1Input(u, v) :
       /\ \/ w0 # None /\ w0.tag = s
          \/ w1 # None /\ w1.tag = s
       /\ Distinct(w0, w1) /\ Clock(u, v, w0, w1)

FairSpec == Spec /\ WF_vars(Cycle) /\ \A s \in Slot : WF_vars(Executes(s))

-----------------------------------------------------------------------------
(***************************************************************************)
(* Properties                                                              *)
(***************************************************************************)

\* The i-th oldest instruction's slot.
SlotOf(i) == Plus(head, i - 1)

\* Occupancy bookkeeping: the valid slots are exactly the count slots that
\* start at head, and tail is where they end.  It ties together three
\* registers updated in two always blocks (dispatch, retire and count).
Contiguous ==
  /\ tail = Plus(head, count)
  /\ \A s \in Slot :
       entry_valid[s] <=> IF s >= head THEN s - head < count ELSE s + N - head < count

\* What the buffer holds, oldest first.
Window ==
  [i \in 1..count |->
     [instr |-> entry_instr[SlotOf(i)],
      done  |-> entry_complete[SlotOf(i)],
      fault |-> entry_exception[SlotOf(i)],
      data  |-> IF entry_complete[SlotOf(i)] THEN entry_data[SlotOf(i)] ELSE None]]

Order == INSTANCE ProgramOrder
           WITH Capacity <- N, Width <- 2, NoData <- None, window <- Window

\* The buffer implements a window of instructions in program order: two-wide
\* dispatch, retirement and same-cycle V-pipe completion never lose, repeat
\* or reorder an instruction or change a result that has arrived.
InProgramOrder == Order!Spec

\* Nothing stays in the buffer for ever: every occupied slot is retired.
EveryoneRetires == \A s \in Slot : entry_valid[s] ~> ~entry_valid[s]
=============================================================================
