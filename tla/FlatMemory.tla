----------------------------- MODULE FlatMemory -----------------------------
(***************************************************************************)
(* What a memory model promises, as the name in its header has it: a flat  *)
(* array of bytes over an address space that wraps, which changes where a  *)
(* store put a byte and nowhere else.                                      *)
(***************************************************************************)
EXTENDS Integers

CONSTANTS
  Space,     \* number of addresses
  Unmapped,  \* what is read where nothing was stored
  None       \* no store yet

VARIABLES
  flat,      \* the bytes
  stored     \* the last store: its address and its bytes, lowest first

Init ==
  /\ flat = [a \in 0..(Space - 1) |-> Unmapped]
  /\ stored = None

\* Where address a lies in a store that begins at base.
Index(base, a) == (a - base) % Space

Apply(base, bytes) ==
  flat' = [a \in 0..(Space - 1) |->
             IF Index(base, a) \in DOMAIN bytes THEN bytes[Index(base, a)] ELSE flat[a]]

Next ==
  /\ stored' # None
  /\ Apply(stored'.addr, stored'.bytes)

Spec == Init /\ [][Next]_<<flat, stored>>
=============================================================================
