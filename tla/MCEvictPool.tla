---------------------------- MODULE MCEvictPool -----------------------------
(***************************************************************************)
(* A small instance of EvictPool for TLC: a pool that fills up and shifts  *)
(* both ways, a key that fits the buffers and one that does not.           *)
(***************************************************************************)
EXTENDS EvictPool

CONSTANTS k1, k2, c1, c2, c3

=============================================================================
