------------------------------- MODULE PageTypes ----------------------------
(***************************************************************************)
(* What translation is about.  A virtual page is a pair of indices, into   *)
(* the directory and into the table; page offsets pass through translation *)
(* and are left out.                                                       *)
(***************************************************************************)
EXTENDS MemTypes

CONSTANTS
  Index,  \* indices in use of a directory or table
  Vpn,    \* virtual page numbers
  Frame   \* physical page numbers

ASSUME IndexAssumption == Index \subseteq Nat
ASSUME VpnAssumption == Vpn \subseteq Index \X Index
ASSUME PageNoneAssumption == None \notin Vpn /\ None \notin Frame /\ None \notin Nat

\* An access to translate: r_linear_addr, r_write, r_user.
Access == [vpn : Vpn, write : BOOLEAN, user : BOOLEAN]

\* An entry of a directory or table.
PageEntry ==
  [present : BOOLEAN, user : BOOLEAN, writable : BOOLEAN, accessed : BOOLEAN,
   dirty : BOOLEAN, base : Frame]

\* {U/S, W/R, P}; the reserved bit is always zero.
FaultCode == [user : BOOLEAN, write : BOOLEAN, present : BOOLEAN]

\* No fault is told apart from any.
ASSUME FaultAssumption == None \notin FaultCode
=============================================================================
