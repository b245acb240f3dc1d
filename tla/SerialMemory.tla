----------------------------- MODULE SerialMemory ---------------------------
(***************************************************************************)
(* What the memory path promises its clients: loads and stores take effect *)
(* one at a time in the order in which they were issued, each reply is the *)
(* reply to the oldest operation, and a load's reply is what memory held   *)
(* when it took effect.  A flush cancels what has not taken effect, except *)
(* that the oldest operation may still take effect, unheard.               *)
(***************************************************************************)
EXTENDS Naturals, Sequences

CONSTANTS Addr, Val, None

VARIABLES
  mem,
  ops,    \* outstanding operations, oldest first
  reply   \* the reply given in the last step, or None

(* An operation waits, then it is done; an orphan was cancelled by a flush
   while it was being served.                                               *)
Op == [client : {"lsq", "io"}, wr : BOOLEAN, addr : Addr, data : Val \cup {None},
       status : {"waiting", "done", "orphan"}]

vars == <<mem, ops, reply>>

Init == mem \in [Addr -> Val] /\ ops = << >> /\ reply = None

\* The oldest operation has not taken effect.
Pending == ops # << >> /\ Head(ops).status # "done"

\* Its effect on memory, and the operation with its result.
Effect(op) == IF op.wr THEN [mem EXCEPT ![op.addr] = op.data] ELSE mem
Done(op) ==
  [client |-> op.client, wr |-> op.wr, addr |-> op.addr,
   data |-> IF op.wr THEN op.data ELSE mem[op.addr], status |-> "done"]

\* The operations after the step: old ones, at most one new one.
Then(old) ==
  \/ ops' = old
  \/ /\ Len(ops') = Len(old) + 1
     /\ \A i \in DOMAIN old : ops'[i] = old[i]
     /\ ops'[Len(ops')] \in Op /\ ops'[Len(ops')].status = "waiting"

Issue == Then(ops) /\ mem' = mem /\ reply' = None

TakeEffect ==
  /\ Pending
  /\ mem' = Effect(Head(ops))
  /\ Then((IF Head(ops).status = "orphan" THEN << >> ELSE <<Done(Head(ops))>>) \o Tail(ops))
  /\ reply' = None

Answer ==
  /\ ops # << >> /\ Head(ops).status = "done"
  /\ LET op == Head(ops) IN
       reply' = IF op.wr THEN [client |-> op.client, wr |-> TRUE, addr |-> None, data |-> None]
                ELSE [client |-> op.client, wr |-> FALSE, addr |-> op.addr, data |-> op.data]
  /\ mem' = mem
  /\ Then(Tail(ops))

Flush ==
  /\ \/ ops' = << >> /\ (mem' = mem \/ (Pending /\ mem' = Effect(Head(ops))))
     \/ Pending /\ ops' = <<[Head(ops) EXCEPT !.status = "orphan"]>> /\ mem' = mem
  /\ reply' = None

Next == Issue \/ TakeEffect \/ Answer \/ Flush

Spec == Init /\ [][Next]_vars
=============================================================================
