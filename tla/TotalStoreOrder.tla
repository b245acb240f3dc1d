--------------------------- MODULE TotalStoreOrder --------------------------
(***************************************************************************)
(* What a store queue promises memory: stores are written one at a time,   *)
(* in program order, each once and none before it has committed.  A squash *)
(* drops them all, the committed ones too; the oldest may still be written *)
(* when that happens.                                                      *)
(***************************************************************************)
EXTENDS Naturals, Sequences

CONSTANTS Capacity, Addr, Val, None

VARIABLES
  stores,  \* in program order, oldest first
  mem

vars == <<stores, mem>>

Store == [addr : Addr \cup {None}, data : Val \cup {None}, committed : BOOLEAN]

Unresolved == [addr |-> None, data |-> None, committed |-> FALSE]

Init == stores = << >> /\ mem \in [Addr -> Val]

\* A store learns its address and data once; it commits, and stays committed.
Grows(old, new) ==
  /\ old.committed => new.committed
  /\ old.addr # None => new.addr = old.addr /\ new.data = old.data

\* The queue after a cycle: the stores that were there, and perhaps a new one.
Then(old) ==
  LET new == stores'
      kept == Len(old)
  IN
  /\ Len(new) = kept \/ (Len(new) = kept + 1 /\ new[kept + 1] = Unresolved)
  /\ \A i \in 1..kept :
       new[i] = old[i] \/ (new[i] \in Store /\ Grows(old[i], new[i]))

Writable == stores # << >> /\ Head(stores).committed

Written == [mem EXCEPT ![Head(stores).addr] = Head(stores).data]

Advance == mem' = mem /\ Then(stores)

Write == Writable /\ mem' = Written /\ Then(Tail(stores))

Squash == stores' = << >> /\ (mem' = mem \/ (Writable /\ mem' = Written))

Next == (Advance \/ Write \/ Squash) /\ Len(stores') <= Capacity

Spec == Init /\ [][Next]_vars
=============================================================================
