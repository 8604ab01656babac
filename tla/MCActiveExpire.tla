--------------------------- MODULE MCActiveExpire ---------------------------
(***************************************************************************)
(* Small instances of ActiveExpire for TLC.                                *)
(***************************************************************************)
EXTENDS ActiveExpire

CONSTANTS k1, k2, k3, k4

ASSUME TableAssumption == ExpiresTable

HashSmall == [k \in Key |-> IF k = k1 THEN 0 ELSE IF k = k2 THEN 1
                            ELSE IF k = k3 THEN 2 ELSE 4]

=============================================================================
