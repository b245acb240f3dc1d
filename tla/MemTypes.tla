------------------------------- MODULE MemTypes -----------------------------
(***************************************************************************)
(* Memory as the controller sees it: 64-bit words, each a pair of 32-bit   *)
(* halves (half 0 is bits 31..0).                                          *)
(***************************************************************************)
EXTENDS Naturals

CONSTANTS
  Addr,  \* addresses of 64-bit words
  Half,  \* contents of a 32-bit half
  Val,   \* contents of a word, as far as they are told apart
  None   \* no request, no response, no data

ASSUME AddrAssumption == Addr # {}
ASSUME ValAssumption == Val \subseteq [0..1 -> Half]
ASSUME MemNoneAssumption == None \notin Val /\ None \notin Addr /\ None \notin Half
=============================================================================
