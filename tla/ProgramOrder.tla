---------------------------- MODULE ProgramOrder ----------------------------
(***************************************************************************)
(* What a reorder buffer promises: a window of instructions in program     *)
(* order.  Instructions enter at the back, get a result in any order, and  *)
(* leave only from the front, finished, at most two in a step.  An         *)
(* instruction that faulted leaves alone, so whatever follows it is still  *)
(* in the window at that moment.  A pipeline flush empties the window.     *)
(***************************************************************************)
EXTENDS Integers, Sequences

CONSTANTS
  Capacity,  \* how many instructions the window may hold
  Width,     \* how many may enter, and how many may leave, in one step
  Instr,     \* instructions
  Data,      \* results
  NoData     \* the result of an instruction that has not finished

VARIABLE window

Entry == [instr : Instr, done : BOOLEAN, fault : BOOLEAN, data : Data \cup {NoData}]

Init == window = << >>

\* The first r instructions may leave together.
MayRetire(r) ==
  /\ r <= Len(window)
  /\ \A i \in 1..r : window[i].done
  /\ r > 1 => \A i \in 1..r : ~window[i].fault

\* What an instruction that stays may look like after the step: a finished
\* one is frozen, a waiting one may finish.
Progress(old, new) ==
  /\ new.instr = old.instr
  /\ old.done => new = old

(***************************************************************************)
(* One clock period: r instructions leave at the front, the others stay in *)
(* order, and at most Width new ones join at the back.                     *)
(***************************************************************************)
Advance ==
  \E r \in 0..Width :
    LET kept == Len(window) - r IN
    /\ MayRetire(r)
    /\ Len(window') \in kept..(kept + Width)
    /\ Len(window') <= Capacity
    /\ \A i \in 1..Len(window') : window'[i] \in Entry
    /\ \A i \in 1..kept : Progress(window[i + r], window'[i])

Flush == window' = << >>

Next == Advance \/ Flush

Spec == Init /\ [][Next]_window
=============================================================================
