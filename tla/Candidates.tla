----------------------------- MODULE Candidates -----------------------------
(***************************************************************************)
(* What the eviction pool promises: it remembers the PoolSize best of the  *)
(* candidates it was offered, by the score each had when it was offered,   *)
(* and gives them up best first.                                           *)
(***************************************************************************)
EXTENDS Naturals, Sequences

CONSTANTS Key, PoolSize, MaxIdle

VARIABLES
  cand,     \* the candidates, ascending: a sequence of <<score, key>>
  store,    \* the keyspace: each key is absent, persistent or volatile
  which     \* "all": every key may go; "volatile": those with a deadline

vars == <<cand, store, which>>

Init ==
  /\ cand = <<>>
  /\ store = [k \in Key |-> "absent"]
  /\ which = "all"

Evictable(k) == \/ store[k] = "volatile"
                \/ store[k] = "persistent" /\ which = "all"

\* Insert in order; the worst goes when there are too many.
BestOf(e) ==
  LET n == CHOOSE m \in 0 .. Len(cand) :
             1 .. m = {i \in DOMAIN cand : cand[i][1] < e[1]}
      s == SubSeq(cand, 1, n) \o <<e>> \o SubSeq(cand, n + 1, Len(cand)) IN
  IF Len(s) > PoolSize THEN Tail(s) ELSE s

Offer(k, idle) ==
  /\ Evictable(k)
  /\ cand' = BestOf(<<idle, k>>)
  /\ UNCHANGED <<store, which>>

\* The candidate evicted has the highest score of those still evictable.
Evict ==
  /\ \E i \in DOMAIN cand :
       /\ Evictable(cand[i][2])
       /\ \A j \in DOMAIN cand :
            Evictable(cand[j][2]) => cand[j][1] <= cand[i][1]
       /\ cand' = SubSeq(cand, 1, i - 1)
       /\ store' = [store EXCEPT ![cand[i][2]] = "absent"]
  /\ UNCHANGED which

\* Candidates that are all gone from the keyspace are forgotten.
Forget ==
  /\ \A i \in DOMAIN cand : ~Evictable(cand[i][2])
  /\ cand' = <<>>
  /\ UNCHANGED <<store, which>>

\* Between calls the client changes any key, and the policy may change.
Client ==
  /\ \E k \in Key, s \in {"absent", "persistent", "volatile"} :
       store' = [store EXCEPT ![k] = s]
  /\ UNCHANGED <<cand, which>>

Policy == which' \in {"all", "volatile"} /\ UNCHANGED <<cand, store>>

Next ==
  \/ \E k \in Key, idle \in 0 .. MaxIdle : Offer(k, idle)
  \/ Evict \/ Forget \/ Client \/ Policy

Spec == Init /\ [][Next]_vars

=============================================================================
