----------------------------- MODULE MCCoreBench ----------------------------
(* A small instance of the testbench for TLC. *)
EXTENDS CoreBench

CONSTANT d1

OneData == {d1}
Bytes == 0..255
NopSled == [i \in 0..19 |-> NOP]

\* Byte strings, lowest address first.
Str(s) == [i \in 0..(Len(s) - 1) |-> s[i + 1]]

\* Increments behind a halt in the queue's first slot: they wait for each other,
\* and the last finds no slot.
Stuck == Str(<<HLT, NOP, NOP, NOP, INC_EAX, NOP, NOP, NOP, INC_EAX, NOP, NOP, NOP,
               INC_EAX, NOP, NOP, NOP>>)
\* A branch that passes a halt in the queue's second slot.
Passing == Str(<<HLT, NOP, NOP, NOP, JE, 244, NOP, NOP>>)
\* A branch behind an increment; the bytes after it lead out of the sled.
Loop == Str(<<INC_EAX, NOP, NOP, NOP, JE, 244, NOP, NOP, INC_EAX, NOP, NOP, NOP, INC_EAX>>)
TwoBranches == Str(<<JE, 144, NOP, NOP, JE, 244, NOP, NOP, NOP>>)
Datum == Str(<<1, 2, 3, 4>>)

Programs ==
  {[op |-> "write8", addr |-> 4, bytes |-> Str(<<HLT>>)],
   [op |-> "write16", addr |-> 4, bytes |-> Str(<<JE, 244>>)],
   [op |-> "write32", addr |-> 126, bytes |-> Str(<<NOP, NOP, NOP, NOP>>)],
   [op |-> "load", addr |-> 4, bytes |-> Nothing],
   [op |-> "load", addr |-> 4, bytes |-> Stuck],
   [op |-> "load", addr |-> 8, bytes |-> Passing],
   [op |-> "load", addr |-> 4, bytes |-> Loop],
   [op |-> "load", addr |-> 8, bytes |-> TwoBranches]}

Images == {NopSled, Str(<<HLT>>), Datum} \cup ({p.bytes : p \in Programs} \ {Nothing})

\* A page boundary outside of the program.
Requests == {[wr |-> TRUE, addr |-> 78, wdata |-> Datum],
             [wr |-> FALSE, addr |-> 78, wdata |-> Datum]}

\* What the theorems about the sled ask of the constants, this instance has.
ASSUME SledAssumption == SledFits
=============================================================================
