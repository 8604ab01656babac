------------------------------- MODULE MCDict -------------------------------
(***************************************************************************)
(* A small instance of Dict for TLC: enough keys to grow the table twice,  *)
(* some of which share a chain at every size.                              *)
(***************************************************************************)
EXTENDS Dict, TLC

CONSTANTS k1, k2, k3, k4, k5, v1, v2

\* k1 and k5 collide up to size 8.
HashSmall == [k \in Key |-> CASE k = k1 -> 0 [] k = k2 -> 1 [] k = k3 -> 2
                             [] k = k4 -> 3 [] k = k5 -> 8]

\* No step reads the last reply; ImplementsMap judges it step by step.
View == <<d, canResize>>

=============================================================================
