-------------------------- MODULE MCRegisterRename --------------------------
(* Small instances of register renaming for TLC. *)
EXTENDS RegisterRename

CONSTANT d1

OneData == {d1}

\* Stale contents of unoccupied slots and the position of head decide nothing.
Occupied == <<Window, rename_vars>>
=============================================================================
