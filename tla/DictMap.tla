------------------------------ MODULE DictMap ------------------------------
(***************************************************************************)
(* What dict.h promises its users: a finite map, and a way to draw one of  *)
(* its keys.  Keyspace uses its two dictionaries as such maps.             *)
(***************************************************************************)
CONSTANTS Key, Value, NULL

VARIABLES
  map,      \* map[k]: the value of k, or NULL
  reply     \* the last call: <<name, key, result>>

vars == <<map, reply>>

Init == map = [k \in Key |-> NULL] /\ reply = <<"init", NULL, NULL>>

Return(op, k, r) == reply' = <<op, k, r>>

\* dictAdd refuses a key that is there already.
Add(k, v) ==
  IF map[k] = NULL
  THEN Return("add", k, TRUE) /\ map' = [map EXCEPT ![k] = v]
  ELSE Return("add", k, FALSE) /\ UNCHANGED map

\* dictReplace tells whether the key is new.
Replace(k, v) ==
  Return("replace", k, map[k] = NULL) /\ map' = [map EXCEPT ![k] = v]

\* dictDelete and dictUnlink tell whether the key was there.
Delete(k) ==
  Return("delete", k, map[k] # NULL) /\ map' = [map EXCEPT ![k] = NULL]

Find(k) == Return("find", k, map[k]) /\ UNCHANGED map

RandomKey ==
  /\ \/ \E k \in Key : map[k] # NULL /\ Return("random", NULL, k)
     \/ (\A k \in Key : map[k] = NULL) /\ Return("random", NULL, NULL)
  /\ UNCHANGED map

Empty == Return("empty", NULL, NULL) /\ map' = [k \in Key |-> NULL]

Next ==
  \/ \E k \in Key : \/ Find(k) \/ Delete(k)
                    \/ \E v \in Value : Add(k, v) \/ Replace(k, v)
  \/ RandomKey \/ Empty

Spec == Init /\ [][Next]_vars

=============================================================================
