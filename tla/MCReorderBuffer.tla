--------------------------- MODULE MCReorderBuffer --------------------------
(* Small instances of the reorder buffer for TLC. *)
EXTENDS ReorderBuffer

CONSTANTS i1, i2, d1

TwoInstr == {i1, i2}
OneData == {d1}
=============================================================================
