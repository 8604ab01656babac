---------------------------- MODULE MCObjectAge -----------------------------
(***************************************************************************)
(* A small instance of ObjectAge for TLC: both clocks wrap within MaxNow.  *)
(***************************************************************************)
EXTENDS ObjectAge, TLC

CONSTANTS o1, o2

Symmetry == Permutations(Obj)

=============================================================================
