------------------------------ MODULE TtlCache ------------------------------
(***************************************************************************)
(* What a cache handle promises its client: a map from keys to values,     *)
(* some with a deadline, from which a key is gone once the clock passes    *)
(* its deadline, and from which the cache may drop any key when it frees   *)
(* memory.  There are no objects, counts or tables here, and no difference *)
(* between a key that expired and one that was deleted.                    *)
(***************************************************************************)
EXTENDS Values, FiniteSets

CONSTANTS Key, NULL, Seconds, Increments, MsPerSec, MaxNow

VARIABLES
  kv,     \* kv[k]: the value of k, or NULL
  ttl,    \* ttl[k]: the deadline of k, or NULL
  now,    \* the clock
  reply   \* the last command: <<name, key, result>>

vars == <<kv, ttl, now, reply>>

Init ==
  /\ kv = [k \in Key |-> NULL]
  /\ ttl = [k \in Key |-> NULL]
  /\ now = 0
  /\ reply = <<"init", NULL, NULL>>

Return(op, k, r) == reply' = <<op, k, r>>

Keep == UNCHANGED <<kv, ttl, now>>

Has(k) == kv[k] # NULL

Drop(K) ==
  /\ kv'  = [k \in Key |-> IF k \in K THEN NULL ELSE kv[k]]
  /\ ttl' = [k \in Key |-> IF k \in K THEN NULL ELSE ttl[k]]

Put(k, v, t) ==
  /\ kv' = [kv EXCEPT ![k] = v]
  /\ ttl' = [ttl EXCEPT ![k] = t]
  /\ UNCHANGED now

\* The clock moves on to t, and the keys whose deadline it passes go.
Advance(t) ==
  /\ t <= MaxNow
  /\ now' = t
  /\ Drop({k \in Key : ttl[k] # NULL /\ t > ttl[k]})

Client == (Return("create", NULL, NULL) \/ Return("release", NULL, NULL)) /\ Keep

Accepts(k, flag) == \/ flag = "set"
                    \/ flag = "setnx" /\ ~Has(k)
                    \/ flag = "setxx" /\ Has(k)

Set(k, ex, flag) ==
  \/ /\ Return(flag, k, <<"INVALID_ARG", ex>>)
     /\ ex # NULL /\ ex <= 0
     /\ Keep
  \/ /\ ex # NULL => ex > 0
     /\ \/ /\ Return(flag, k, <<"ERR", ex>>)
           /\ ~Accepts(k, flag)
           /\ Keep
        \/ /\ Return(flag, k, <<"OK", ex>>)
           /\ Accepts(k, flag)
           /\ \E v \in Strings :
                Put(k, v, IF ex = NULL THEN NULL ELSE now + ex * MsPerSec)

Get(k) ==
  /\ Return("get", k, IF Has(k) /\ IsString(kv[k]) THEN kv[k] ELSE NULL)
  /\ Keep

Touch(k) == Return("touch", k, Has(k)) /\ Keep

Base(k) == IF Has(k) THEN kv[k] ELSE <<"num", 0>>

Incr(k, incr) ==
  \/ ~IsNumber(Base(k)) /\ Return("incr", k, <<"INVALID_TYPE", 0>>) /\ Keep
  \/ /\ IsNumber(Base(k))
     /\ LET n == Base(k)[2] + incr IN
        \/ n \notin LLMin .. LLMax /\ Return("incr", k, <<"OVERFLOW", 0>>) /\ Keep
        \/ n \in LLMin .. LLMax /\ Return("incr", k, <<"OK", n>>)
                               /\ Put(k, <<"num", n>>, ttl[k])

Append(k, w) ==
  LET v == IF Has(k) THEN Cat(kv[k], w) ELSE w IN
  /\ Return("append", k, v)
  /\ Has(k) => IsString(kv[k])
  /\ Put(k, v, ttl[k])

Add(k, v) == Return("add", k, v) /\ ~Has(k) /\ Put(k, v, NULL)

EmptyOut(k) ==
  Return("empty", k, "OK") /\ kv[k] = Agg /\ Drop({k}) /\ UNCHANGED now

ExpireGeneric(op, k, secs, base) ==
  /\ Return(op, k, <<secs, Has(k)>>)
  /\ IF ~Has(k) THEN Keep
     ELSE IF base + secs * MsPerSec <= now THEN Drop({k}) /\ UNCHANGED now
     ELSE Put(k, kv[k], base + secs * MsPerSec)

\* The remaining seconds, rounded, at the time t the command ends; a key
\* whose deadline passes during the command may have 0 seconds left.
TTL(k, t) ==
  /\ \E r \in IF ~Has(k) THEN {-2}
              ELSE IF ttl[k] = NULL THEN {-1}
              ELSE IF t > ttl[k] THEN {-2, 0}
              ELSE {(ttl[k] - t + MsPerSec \div 2) \div MsPerSec} :
       Return("ttl", k, r)
  /\ Advance(t)

Persist(k) ==
  Return("persist", k, Has(k)) /\ Put(k, kv[k], NULL)

\* DEL and EXISTS may still count a key whose deadline has passed.
Del(k) ==
  /\ \E r \in BOOLEAN : (Has(k) => r) /\ Return("del", k, r)
  /\ Drop({k}) /\ UNCHANGED now

Exists(k) ==
  /\ \E r \in BOOLEAN : (Has(k) => r) /\ Return("exists", k, r)
  /\ Keep

Size ==
  /\ \E n \in Cardinality({k \in Key : Has(k)}) .. Cardinality(Key) :
       Return("size", NULL, n)
  /\ Keep

Flush == Return("flush", NULL, NULL) /\ Drop(Key) /\ UNCHANGED now

Randomkey ==
  /\ \/ \E k \in Key : Has(k) /\ Return("random", NULL, k)
     \/ (\A k \in Key : ~Has(k)) /\ Return("random", NULL, NULL)
  /\ Keep

Cycle == (\E n \in 0 .. Cardinality(Key) : Return("cycle", NULL, n)) /\ Keep

Evict ==
  /\ Return("evict", NULL, NULL)
  /\ \E K \in SUBSET Key : Drop(K)
  /\ UNCHANGED now

Tick == Return("tick", NULL, NULL) /\ Advance(now + 1)

Command(k) ==
  \/ \E ex \in Seconds \cup {NULL}, flag \in {"set", "setnx", "setxx"} :
       Set(k, ex, flag)
  \/ \E incr \in Increments : Incr(k, incr)
  \/ \E w \in Strings : Append(k, w)
  \/ \E v \in Val : Add(k, v)
  \/ \E secs \in Seconds : \/ ExpireGeneric("expire", k, secs, now)
                           \/ ExpireGeneric("expireat", k, secs, 0)
  \/ \E t \in now .. now + 2 : TTL(k, t)
  \/ Get(k) \/ Touch(k) \/ Persist(k) \/ EmptyOut(k) \/ Del(k) \/ Exists(k)

Next ==
  \/ Client \/ Size \/ Flush \/ Randomkey \/ Cycle \/ Evict \/ Tick
  \/ \E k \in Key : Command(k)

Spec == Init /\ [][Next]_vars

=============================================================================
