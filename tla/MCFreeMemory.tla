---------------------------- MODULE MCFreeMemory ----------------------------
(***************************************************************************)
(* Small instances of FreeMemory for TLC: two threads, which see each      *)
(* other's allocations in the counter, and one with long key names.        *)
(***************************************************************************)
EXTENDS FreeMemory

CONSTANTS t1, t2, k1, k2, k3

=============================================================================
