-------------------------- MODULE FreeMemoryProofs ---------------------------
(***************************************************************************)
(* The accounting of FreeMemory, for any number of threads and keys: the   *)
(* shared counter is the sum of what is allocated, and as long as no other *)
(* thread moves it, a call knows from its locals how far it is from its    *)
(* limit.                                                                  *)
(***************************************************************************)
EXTENDS FreeMemory, FiniteSetTheorems, TLAPS

-----------------------------------------------------------------------------
(* Sums.                                                                   *)

Units(f) == {u \in (DOMAIN f) \X (1 .. MaxUsed) : u[2] <= f[u[1]]}

LEMMA UnitsFinite ==
  ASSUME NEW X, IsFiniteSet(X), NEW f \in [X -> 0 .. MaxUsed]
  PROVE  /\ IsFiniteSet(Units(f)) /\ Amount(f) = Cardinality(Units(f))
         /\ Amount(f) \in Nat
<1>1. MaxUsed \in Nat /\ IsFiniteSet(1 .. MaxUsed)
  BY FreeMemoryAssumption, FS_Interval
<1>2. IsFiniteSet(X \X (1 .. MaxUsed))
  BY <1>1, FS_Product
<1>3. Units(f) \subseteq X \X (1 .. MaxUsed)
  BY DEF Units
<1>4. IsFiniteSet(Units(f))
  BY <1>2, <1>3, FS_Subset
<1>5. Amount(f) = Cardinality(Units(f))
  BY DEF Amount, Units
<1> QED
  BY <1>4, <1>5, FS_CardinalityType

\* Changing one value changes the sum by the difference.
LEMMA AmountUpdate ==
  ASSUME NEW X, IsFiniteSet(X), NEW f \in [X -> 0 .. MaxUsed],
         NEW x \in X, NEW n \in 0 .. MaxUsed
  PROVE  /\ Amount([f EXCEPT ![x] = n]) = Amount(f) - f[x] + n
         /\ f[x] <= Amount(f)
<1> DEFINE g == [f EXCEPT ![x] = n]
           Rest == {u \in Units(f) : u[1] # x}
           Col(m) == {x} \X (1 .. m)
<1>1. MaxUsed \in Nat /\ f[x] \in 0 .. MaxUsed /\ f[x] \in Nat /\ n \in Nat
  BY FreeMemoryAssumption
<1>2. IsFiniteSet(Rest)
  BY UnitsFinite, FS_Subset
<1>3. ASSUME NEW m \in Nat
      PROVE  IsFiniteSet(Col(m)) /\ Cardinality(Col(m)) = m
  <2>1. IsFiniteSet(1 .. m) /\ Cardinality(1 .. m) = m
    <3>1. 1 \in Int /\ m \in Int
      OBVIOUS
    <3>2. IsFiniteSet(1 .. m) /\ Cardinality(1 .. m) = IF 1 > m THEN 0 ELSE m - 1 + 1
      BY <3>1, FS_Interval
    <3>3. m = IF 1 > m THEN 0 ELSE m - 1 + 1
      OBVIOUS
    <3> QED
      BY <3>2, <3>3
  <2>2. IsFiniteSet({x}) /\ Cardinality({x}) = 1
    BY FS_Singleton
  <2>3. IsFiniteSet(Col(m)) /\ Cardinality(Col(m)) = 1 * m
    <3> DEFINE I == 1 .. m
               One == {x}
    <3>1. IsFiniteSet(I) /\ IsFiniteSet(One) /\ Cardinality(I) = m /\ Cardinality(One) = 1
      BY <2>1, <2>2
    <3> HIDE DEF I, One
    <3>2. IsFiniteSet(One \X I) /\ Cardinality(One \X I) = 1 * m
      BY <3>1, FS_Product
    <3> QED
      BY <3>2 DEF I, One
  <2> QED
    BY <2>3
<1>4. ASSUME NEW m \in Nat
      PROVE  Cardinality(Rest \cup Col(m)) = Cardinality(Rest) + m
  <2> DEFINE C == Col(m)
  <2>1. Rest \cap C = {}
    OBVIOUS
  <2>2. IsFiniteSet(C) /\ Cardinality(C) = m
    BY <1>3
  <2> HIDE DEF Rest, C
  <2>3. Cardinality(Rest \cup C) = Cardinality(Rest) + Cardinality(C) - Cardinality(Rest \cap C)
    BY <1>2, <2>2, FS_Union
  <2>4. Cardinality(Rest) \in Nat /\ Cardinality(Rest \cap C) = 0
    BY <1>2, <2>1, FS_CardinalityType, FS_EmptySet
  <2>5. Cardinality(Rest \cup C) = Cardinality(Rest) + m
    BY <2>2, <2>3, <2>4
  <2> QED
    BY <2>5 DEF C
<1>5. Units(f) = Rest \cup Col(f[x])
  BY <1>1 DEF Units
<1>6. Units(g) = Rest \cup Col(n)
  BY <1>1 DEF Units
<1>7. g \in [X -> 0 .. MaxUsed]
  OBVIOUS
<1> HIDE DEF g, Rest, Col
<1>8. Amount(f) = Cardinality(Rest) + f[x] /\ Amount(g) = Cardinality(Rest) + n
  BY <1>1, <1>4, <1>5, <1>6, <1>7, UnitsFinite
<1>9. Cardinality(Rest) \in Nat
  BY <1>2, FS_CardinalityType
<1>10. Amount(g) = Amount(f) - f[x] + n /\ f[x] <= Amount(f)
  BY <1>1, <1>8, <1>9
<1> QED
  BY <1>10 DEF g

LEMMA AmountZero ==
  ASSUME NEW X, NEW f, f = [x \in X |-> 0]
  PROVE  Amount(f) = 0
<1>1. {u \in (DOMAIN f) \X (1 .. MaxUsed) : u[2] <= f[u[1]]} = {}
  BY FreeMemoryAssumption
<1> QED
  BY <1>1, FS_EmptySet DEF Amount

LEMMA FlatType ==
  ASSUME NEW s \in [Thread -> [Key -> 0 .. MaxUsed]]
  PROVE  /\ Flat(s) \in [Thread \X Key -> 0 .. MaxUsed]
         /\ IsFiniteSet(Thread \X Key) /\ IsFiniteSet(Thread)
<1>1. IsFiniteSet(Thread) /\ IsFiniteSet(Key)
  BY FreeMemoryAssumption
<1> QED
  BY <1>1, FS_Product DEF Flat

LEMMA FlatUpdate ==
  ASSUME NEW s \in [Thread -> [Key -> 0 .. MaxUsed]],
         NEW t \in Thread, NEW k \in Key, NEW n \in 0 .. MaxUsed
  PROVE  /\ Amount(Flat([s EXCEPT ![t][k] = n])) = Amount(Flat(s)) - s[t][k] + n
         /\ s[t][k] <= Amount(Flat(s)) /\ Amount(Flat(s)) \in Nat
<1> DEFINE f == Flat(s)
           x == <<t, k>>
<1>1. f \in [Thread \X Key -> 0 .. MaxUsed] /\ IsFiniteSet(Thread \X Key)
      /\ x \in Thread \X Key /\ f[x] = s[t][k]
  BY FlatType DEF Flat
<1>2. Flat([s EXCEPT ![t][k] = n]) = [f EXCEPT ![x] = n]
  <2>1. \A y \in Thread \X Key : y = <<y[1], y[2]>> /\ y[1] \in Thread /\ y[2] \in Key
    OBVIOUS
  <2>2. \A y \in Thread \X Key :
          [s EXCEPT ![t][k] = n][y[1]][y[2]] = IF y = x THEN n ELSE s[y[1]][y[2]]
    BY <2>1
  <2> QED
    BY <2>2 DEF Flat
<1> HIDE DEF f, x
<1>3. /\ Amount([f EXCEPT ![x] = n]) = Amount(f) - f[x] + n
      /\ f[x] <= Amount(f) /\ Amount(f) \in Nat
  BY <1>1, AmountUpdate, UnitsFinite
<1> QED
  BY <1>1, <1>2, <1>3 DEF f

-----------------------------------------------------------------------------
(* The accounts.                                                           *)

Locals == [tofree : Nat, freed : 0 .. Word - 1, delta : 0 .. MaxUsed,
           key : Key \cup {NoCall.key}, limit : Nat, names : 0 .. MaxUsed,
           tables : Nat, alone : BOOLEAN]

\* The counter is the sum of what is allocated.
Accounts ==
  /\ used \in 0 .. MaxUsed
  /\ size \in [Thread -> [Key -> 0 .. MaxUsed]]
  /\ names \in [Thread -> 0 .. MaxUsed]
  /\ old \in [Thread -> 0 .. MaxUsed]
  /\ used = Amount(Flat(size)) + Amount(names) + Amount(old)

\* What a call that is alone will have in use, long names aside, when it has
\* freed enough.
Goal(c) == c.limit - c.names - c.tables

\* What the locals of a call say of the counter.
CallOK(t) ==
  /\ pc[t] # "out" => call[t].tofree + call[t].limit <= MaxUsed
  /\ pc[t] \in {"delete", "measure"} => call[t].key \in Key
  /\ pc[t] = "loop" /\ call[t].alone =>
       used = names[t] + call[t].tofree + Goal(call[t]) - call[t].freed
  /\ pc[t] = "delete" /\ call[t].alone =>
       /\ call[t].delta = used /\ call[t].freed < call[t].tofree
       /\ used = names[t] + call[t].tofree + Goal(call[t]) - call[t].freed
  /\ pc[t] = "measure" /\ call[t].alone =>
       /\ used <= call[t].delta
       /\ call[t].delta = names[t] + call[t].tofree + Goal(call[t]) - call[t].freed

FInv ==
  /\ Accounts
  /\ limit \in Limits
  /\ pc \in [Thread -> {"out", "loop", "delete", "measure"}]
  /\ call \in [Thread -> Locals]
  /\ \A t \in Thread : CallOK(t)

LEMMA Bounds ==
  /\ MaxUsed \in Nat /\ Word \in Nat /\ MaxUsed < Word /\ Limits \subseteq Nat
  /\ Sizes \cup {0} \subseteq Nat /\ PoolMemory \subseteq Nat
  /\ TableMemory \subseteq Nat /\ IsFiniteSet(Thread)
  BY FreeMemoryAssumption

LEMMA NoCallType == NoCall \in Locals
  BY Bounds DEF NoCall, Locals

\* What a thread holds is part of what is in use.
LEMMA Holds ==
  ASSUME Accounts, NEW t \in Thread, NEW k \in Key
  PROVE  /\ size[t][k] + names[t] + old[t] <= used
         /\ size[t][k] \in Nat /\ names[t] \in Nat /\ old[t] \in Nat /\ used \in Nat
<1>1. Amount(names) \in Nat /\ names[t] <= Amount(names) /\ names[t] \in Nat
  <2>1. names[t] \in 0 .. MaxUsed
    BY DEF Accounts
  <2> QED
    BY <2>1, Bounds, UnitsFinite, AmountUpdate DEF Accounts
<1>2. Amount(old) \in Nat /\ old[t] <= Amount(old) /\ old[t] \in Nat
  <2>1. old[t] \in 0 .. MaxUsed
    BY DEF Accounts
  <2> QED
    BY <2>1, Bounds, UnitsFinite, AmountUpdate DEF Accounts
<1>3. size[t][k] <= Amount(Flat(size)) /\ size[t][k] \in Nat /\ Amount(Flat(size)) \in Nat
  <2>1. size \in [Thread -> [Key -> 0 .. MaxUsed]] /\ size[t][k] \in 0 .. MaxUsed
    BY DEF Accounts
  <2> QED
    BY <2>1, Bounds, FlatUpdate
<1>4. used = Amount(Flat(size)) + Amount(names) + Amount(old)
  BY DEF Accounts
<1> QED
  BY <1>1, <1>2, <1>3, <1>4

\* A key, the long names and the old tables of one thread take other amounts.
LEMMA AccountsChange ==
  ASSUME Accounts, NEW t \in Thread, NEW k \in Key,
         NEW n \in Nat, NEW p \in Nat, NEW o \in Nat,
         used' = used - size[t][k] + n - names[t] + p - old[t] + o,
         used' <= MaxUsed,
         size' = [size EXCEPT ![t][k] = n],
         names' = [names EXCEPT ![t] = p],
         old' = [old EXCEPT ![t] = o]
  PROVE  Accounts'
<1> DEFINE a == Amount(Flat(size))
           b == Amount(names)
           c == Amount(old)
           l == size[t][k]
           m == names[t]
           w == old[t]
<1>1. l + m + w <= used /\ l \in Nat /\ m \in Nat /\ w \in Nat /\ used \in Nat
  BY Holds
<1>2. n \in 0 .. MaxUsed /\ p \in 0 .. MaxUsed /\ o \in 0 .. MaxUsed
      /\ used' \in 0 .. MaxUsed
  <2> HIDE DEF l, m, w
  <2> QED
    BY <1>1, Bounds DEF l, m, w
<1>3. Amount(Flat(size')) = a - l + n
  BY <1>2, FlatUpdate DEF Accounts
<1>4. names \in [Thread -> 0 .. MaxUsed] /\ old \in [Thread -> 0 .. MaxUsed]
  BY DEF Accounts
<1>5. Amount(names') = b - m + p
  <2>1. Amount([names EXCEPT ![t] = p]) = Amount(names) - names[t] + p
    BY ONLY <1>2, <1>4, Bounds, AmountUpdate, t \in Thread
  <2> QED
    BY <2>1
<1>6. Amount(old') = c - w + o
  <2>1. Amount([old EXCEPT ![t] = o]) = Amount(old) - old[t] + o
    BY ONLY <1>2, <1>4, Bounds, AmountUpdate, t \in Thread
  <2> QED
    BY <2>1
<1>7. a \in Nat /\ b \in Nat /\ c \in Nat
  BY FlatType, UnitsFinite, Bounds DEF Accounts
<1>8. /\ size' \in [Thread -> [Key -> 0 .. MaxUsed]]
      /\ names' \in [Thread -> 0 .. MaxUsed]
      /\ old' \in [Thread -> 0 .. MaxUsed]
  BY <1>2 DEF Accounts
<1>9. used = a + b + c
  BY DEF Accounts
<1> HIDE DEF a, b, c, l, m, w
<1>10. used' = Amount(Flat(size')) + Amount(names') + Amount(old')
  BY <1>1, <1>2, <1>3, <1>5, <1>6, <1>7, <1>9 DEF l, m, w
<1> QED
  BY <1>2, <1>8, <1>10 DEF Accounts

\* A call of another thread either sees the counter stand still, or is told.
LEMMA OthersOK ==
  ASSUME FInv, NEW t \in Thread, NEW u \in Thread, u # t,
         pc'[u] = pc[u], names'[u] = names[u], call'[u] = Moved(t)[u],
         used' \in 0 .. MaxUsed
  PROVE  CallOK(u)' /\ call'[u] \in Locals
<1>1. call[u] \in Locals /\ CallOK(u)
  BY DEF FInv
<1>2. CASE used' = used \/ pc[u] = "out"
  <2>1. call'[u] = call[u]
    BY <1>2 DEF Moved
  <2> QED
    BY <1>1, <1>2, <2>1 DEF CallOK
<1>3. CASE used' # used /\ pc[u] # "out"
  <2>1. call'[u] = [call[u] EXCEPT !.alone = FALSE]
    BY <1>3 DEF Moved
  <2>2. /\ call'[u] \in Locals /\ call'[u].alone = FALSE
        /\ call'[u].tofree = call[u].tofree /\ call'[u].limit = call[u].limit
        /\ call'[u].key = call[u].key
    BY <1>1, <2>1 DEF Locals
  <2> QED
    BY <1>1, <2>2 DEF CallOK
<1> QED
  BY <1>2, <1>3

\* The same when the counter and the other locals are not touched at all.
LEMMA OthersSame ==
  ASSUME FInv, NEW u \in Thread, pc'[u] = pc[u], names'[u] = names[u],
         call'[u] = call[u], used' = used
  PROVE  CallOK(u)' /\ call'[u] \in Locals
  BY DEF FInv, CallOK

LEMMA MovedType ==
  ASSUME FInv, NEW t \in Thread
  PROVE  Moved(t) \in [Thread -> Locals] /\ Moved(t)[t] = call[t]
<1>1. \A u \in Thread : [call[u] EXCEPT !.alone = FALSE] \in Locals
  BY DEF FInv, Locals
<1> QED
  BY <1>1 DEF FInv, Moved

-----------------------------------------------------------------------------
(* The steps.                                                              *)

LEMMA InitFInv == Init => FInv
<1> SUFFICES ASSUME Init PROVE FInv
  OBVIOUS
<1>1. /\ Flat(size) = [x \in Thread \X Key |-> 0]
      /\ names = [t \in Thread |-> 0] /\ old = [t \in Thread |-> 0]
  BY DEF Init, Flat
<1>2. Amount(Flat(size)) = 0 /\ Amount(names) = 0 /\ Amount(old) = 0
  BY <1>1, AmountZero
<1>3. Accounts
  BY <1>2, Bounds DEF Init, Accounts
<1>4. call \in [Thread -> Locals]
  BY NoCallType DEF Init
<1>5. \A t \in Thread : CallOK(t)
  BY DEF Init, CallOK
<1> QED
  BY <1>3, <1>4, <1>5 DEF Init, FInv

LEMMA WriteFInv ==
  ASSUME FInv, NEW t \in Thread, NEW k \in Key, NEW n \in Sizes \cup {0},
         NEW o \in TableMemory, Write(t, k, n, o)
  PROVE  FInv'
<1>1. n \in Nat /\ o \in Nat
  BY Bounds
<1>2. Accounts'
  <2>1. Accounts /\ names = [names EXCEPT ![t] = names[t]]
    BY DEF FInv, Accounts
  <2>2. names[t] \in Nat /\ size[t][k] \in Nat /\ old[t] \in Nat /\ used \in Nat
    BY <2>1, Holds
  <2>3. /\ used' = used - size[t][k] + n - old[t] + o /\ used' <= MaxUsed
        /\ size' = [size EXCEPT ![t][k] = n] /\ old' = [old EXCEPT ![t] = o]
        /\ names' = [names EXCEPT ![t] = names[t]]
    BY <2>1 DEF Write
  <2>4. used' = used - size[t][k] + n - names[t] + names[t] - old[t] + o
    BY <1>1, <2>2, <2>3
  <2> QED
    BY <1>1, <2>1, <2>2, <2>3, <2>4, AccountsChange
<1>3. call' = Moved(t) /\ pc' = pc /\ names' = names /\ limit' = limit /\ pc[t] = "out"
  BY DEF Write
<1>4. CallOK(t)'
  BY <1>3 DEF FInv, CallOK
<1>5. \A u \in Thread : u # t => CallOK(u)'
  BY <1>2, <1>3, OthersOK DEF Accounts
<1>6. call' \in [Thread -> Locals]
  BY <1>3, MovedType
<1> QED
  BY <1>2, <1>3, <1>4, <1>5, <1>6 DEF FInv

LEMMA FinishFInv ==
  ASSUME FInv, NEW t \in Thread, NEW r, Finish(t, r)
  PROVE  FInv'
<1>1. /\ pc' = [pc EXCEPT ![t] = "out"] /\ call' = [call EXCEPT ![t] = NoCall]
      /\ UNCHANGED <<used, limit, size, names, old>>
  BY DEF Finish
<1>2. Accounts' /\ limit' \in Limits
  BY <1>1 DEF FInv, Accounts
<1>3. pc' \in [Thread -> {"out", "loop", "delete", "measure"}] /\ pc'[t] = "out"
  BY <1>1 DEF FInv
<1>4. call' \in [Thread -> Locals]
  BY <1>1, NoCallType DEF FInv
<1>5. CallOK(t)'
  BY <1>3 DEF CallOK
<1>6. \A u \in Thread : u # t => CallOK(u)'
  BY <1>1, OthersSame DEF FInv
<1> QED
  BY <1>2, <1>3, <1>4, <1>5, <1>6 DEF FInv

LEMMA EnterFInv ==
  ASSUME FInv, NEW t \in Thread, Enter(t)
  PROVE  FInv'
<1>1. CASE Finish(t, "OK") \/ Finish(t, "ERR")
  BY <1>1, FinishFInv
<1> DEFINE c == [NoCall EXCEPT !.tofree = used - limit, !.limit = limit,
                               !.names = names[t]]
<1>2. CASE /\ used > limit
           /\ pc' = [pc EXCEPT ![t] = "loop"] /\ call' = [call EXCEPT ![t] = c]
           /\ UNCHANGED <<used, limit, size, names, old>>
  <2>1. Accounts' /\ limit' \in Limits
    BY <1>2 DEF FInv, Accounts
  <2>2. pc' \in [Thread -> {"out", "loop", "delete", "measure"}] /\ pc'[t] = "loop"
    BY <1>2 DEF FInv
  <2>3. limit \in Nat /\ used \in 0 .. MaxUsed /\ names[t] \in 0 .. MaxUsed
    BY Bounds DEF FInv, Accounts
  <2>4. /\ c.tofree = used - limit /\ c.limit = limit /\ c.names = names[t]
        /\ c.freed = 0 /\ c.tables = 0 /\ c \in Locals
    <3>1. /\ c.tofree = used - limit /\ c.limit = limit /\ c.names = names[t]
          /\ c.freed = 0 /\ c.tables = 0
      BY DEF NoCall
    <3>2. used - limit \in Nat
      BY <1>2, <2>3
    <3>3. c \in Locals
      BY <2>3, <3>2, NoCallType DEF Locals
    <3> QED
      BY <3>1, <3>3
  <2>5. call' \in [Thread -> Locals] /\ call'[t] = c
    BY <1>2, <2>4 DEF FInv
  <2> HIDE DEF c
  <2>6. CallOK(t)'
    BY <1>2, <2>2, <2>3, <2>4, <2>5, Bounds DEF CallOK, Goal
  <2>7. \A u \in Thread : u # t => CallOK(u)'
    BY <1>2, OthersSame DEF FInv
  <2> QED
    BY <2>1, <2>2, <2>5, <2>6, <2>7 DEF FInv
<1> QED
  BY <1>1, <1>2 DEF Enter

LEMMA ChooseFInv ==
  ASSUME FInv, NEW t \in Thread, NEW k \in Key, NEW p \in PoolMemory,
         NEW o \in TableMemory, Choose(t, k, p, o)
  PROVE  FInv'
<1> DEFINE c == [call[t] EXCEPT !.key = k, !.delta = used', !.tables = @ + old[t] - o]
<1>1. /\ pc[t] = "loop" /\ ~Enough(t) /\ o <= old[t] /\ used' <= MaxUsed
      /\ used' = used - names[t] + p - old[t] + o
      /\ names' = [names EXCEPT ![t] = p] /\ old' = [old EXCEPT ![t] = o]
      /\ pc' = [pc EXCEPT ![t] = "delete"] /\ size' = size /\ limit' = limit
      /\ call' = [Moved(t) EXCEPT ![t].key = k, ![t].delta = used',
                                  ![t].tables = @ + old[t] - o]
  BY DEF Choose
<1>2. p \in Nat /\ o \in Nat
  BY Bounds
<1>3. /\ Accounts /\ size[t][k] \in Nat /\ names[t] \in Nat /\ old[t] \in Nat
      /\ used \in Nat
  BY Holds DEF FInv
<1>4. Accounts'
  <2>1. size' = [size EXCEPT ![t][k] = size[t][k]]
    BY <1>1, <1>3 DEF Accounts
  <2>2. used' = used - size[t][k] + size[t][k] - names[t] + p - old[t] + o
    BY <1>1, <1>2, <1>3
  <2> QED
    BY <1>1, <1>2, <1>3, <2>1, <2>2, AccountsChange
<1>5. used' \in 0 .. MaxUsed /\ used' \in Nat
  BY <1>4, Bounds DEF Accounts
<1>6. call[t] \in Locals /\ CallOK(t)
  BY DEF FInv
<1>7. call' = [Moved(t) EXCEPT ![t] = c]
  BY <1>1, MovedType
<1>8. /\ c \in Locals /\ c.key = k /\ c.delta = used' /\ c.tofree = call[t].tofree
      /\ c.limit = call[t].limit /\ c.freed = call[t].freed
      /\ c.names = call[t].names /\ c.alone = call[t].alone
      /\ c.tables = call[t].tables + old[t] - o
  <2>1. call[t].tables \in Nat
    BY <1>6 DEF Locals
  <2>2. call[t].tables + old[t] - o \in Nat
    BY <1>1, <1>2, <1>3, <2>1
  <2> QED
    BY <1>5, <1>6, <2>2 DEF Locals
<1> HIDE DEF c
<1>9. call' \in [Thread -> Locals] /\ call'[t] = c
      /\ \A u \in Thread : u # t => call'[u] = Moved(t)[u]
  BY <1>7, <1>8, MovedType
<1>10. /\ pc' \in [Thread -> {"out", "loop", "delete", "measure"}] /\ pc'[t] = "delete"
       /\ names'[t] = p
       /\ \A u \in Thread : u # t => pc'[u] = pc[u] /\ names'[u] = names[u]
  BY <1>1 DEF FInv, Accounts
<1>11. CallOK(t)'
  <2> DEFINE z == call[t]
             v == z.tables + old[t] - o
  <2>1. z.tofree \in Nat /\ z.freed \in Nat /\ z.limit \in Nat
        /\ z.names \in Nat /\ z.tables \in Nat
    BY <1>6, Bounds DEF Locals
  <2>2. z.freed < z.tofree
    BY <1>1, <2>1 DEF Enough
  <2>3. z.tofree + z.limit <= MaxUsed
    BY <1>1, <1>6 DEF CallOK
  <2>4. z.alone => used = names[t] + z.tofree + (z.limit - z.names - z.tables) - z.freed
    BY <1>1, <1>6 DEF CallOK, Goal
  <2>5. z.alone => used' = p + z.tofree + (z.limit - z.names - v) - z.freed
    BY <1>1, <1>2, <1>3, <2>1, <2>4
  <2> HIDE DEF z
  <2> QED
    BY <1>8, <1>9, <1>10, <2>2, <2>3, <2>5 DEF CallOK, Goal, z
<1>12. \A u \in Thread : u # t => CallOK(u)'
  BY <1>5, <1>9, <1>10, OthersOK
<1>13. limit' \in Limits
  BY <1>1 DEF FInv
<1> QED
  BY <1>4, <1>9, <1>10, <1>11, <1>12, <1>13 DEF FInv

LEMMA DeleteFInv ==
  ASSUME FInv, NEW t \in Thread, NEW o \in TableMemory, Delete(t, o)
  PROVE  FInv'
<1> DEFINE k == call[t].key
           n == size[t][k]
<1>1. /\ pc[t] = "delete" /\ o <= old[t] /\ used' = used - n - old[t] + o
      /\ size' = [size EXCEPT ![t][k] = 0] /\ old' = [old EXCEPT ![t] = o]
      /\ call' = Moved(t) /\ pc' = [pc EXCEPT ![t] = "measure"]
      /\ limit' = limit /\ names' = names
  BY DEF Delete
<1>2. k \in Key /\ call[t] \in Locals /\ CallOK(t)
  BY <1>1 DEF FInv, CallOK
<1>3. /\ Accounts /\ n \in Nat /\ names[t] \in Nat /\ old[t] \in Nat /\ used \in Nat
      /\ o \in Nat /\ used <= MaxUsed /\ MaxUsed \in Nat
  BY <1>2, Holds, Bounds DEF FInv, Accounts
<1>4. used' <= used
  BY <1>1, <1>3
<1>5. Accounts'
  <2>1. used' = used - size[t][k] + 0 - names[t] + names[t] - old[t] + o
    BY <1>1, <1>3
  <2>2. names' = [names EXCEPT ![t] = names[t]]
    BY <1>1, <1>3 DEF Accounts
  <2>3. used' <= MaxUsed
    BY <1>1, <1>3
  <2> HIDE DEF k
  <2> QED
    BY <1>1, <1>2, <1>3, <2>1, <2>2, <2>3, AccountsChange
<1>6. /\ pc' \in [Thread -> {"out", "loop", "delete", "measure"}] /\ pc'[t] = "measure"
      /\ \A u \in Thread : u # t => pc'[u] = pc[u]
  BY <1>1 DEF FInv
<1>7. call' \in [Thread -> Locals] /\ call'[t] = call[t]
  BY <1>1, MovedType
<1>8. CallOK(t)'
  BY <1>1, <1>2, <1>4, <1>6, <1>7 DEF CallOK, Goal
<1>9. \A u \in Thread : u # t => CallOK(u)'
  BY <1>1, <1>5, <1>6, OthersOK DEF Accounts
<1>10. limit' \in Limits
  BY <1>1 DEF FInv
<1> QED
  BY <1>5, <1>6, <1>7, <1>8, <1>9, <1>10 DEF FInv

\* The sum of what was freed does not wrap as long as the call is alone.
LEMMA MeasureFInv ==
  ASSUME FInv, NEW t \in Thread, Measure(t)
  PROVE  FInv'
<1> DEFINE x == call[t].freed + call[t].delta - used
           c == [call[t] EXCEPT !.freed = x % Word, !.key = NoCall.key, !.delta = 0]
<1>1. /\ pc[t] = "measure" /\ call' = [call EXCEPT ![t] = c]
      /\ pc' = [pc EXCEPT ![t] = "loop"] /\ UNCHANGED <<used, limit, size, names, old>>
  BY DEF Measure, FInv
<1>2. call[t] \in Locals /\ CallOK(t)
  BY DEF FInv
<1>3. /\ used \in Nat /\ names[t] \in Nat /\ names[t] <= used
      /\ MaxUsed \in Nat /\ Word \in Nat /\ MaxUsed < Word
  <2>1. Accounts /\ call[t].key \in Key
    BY <1>1, <1>2 DEF FInv, CallOK
  <2>2. /\ size[t][call[t].key] + names[t] + old[t] <= used
        /\ size[t][call[t].key] \in Nat /\ names[t] \in Nat /\ old[t] \in Nat
        /\ used \in Nat
    BY <2>1, Holds
  <2> QED
    BY <2>2, Bounds
<1>4. /\ call[t].tofree \in Nat /\ call[t].freed \in Nat /\ call[t].limit \in Nat
      /\ call[t].names \in Nat /\ call[t].delta \in Nat /\ call[t].tables \in Nat
  BY <1>2, Bounds DEF Locals
<1>5. x \in Int
  BY <1>3, <1>4
<1>6. x % Word \in 0 .. Word - 1 /\ (x \in 0 .. Word - 1 => x % Word = x)
  <2> HIDE DEF x
  <2> QED
    BY <1>3, <1>5
<1>7. /\ c \in Locals /\ c.tofree = call[t].tofree /\ c.limit = call[t].limit
      /\ c.names = call[t].names /\ c.tables = call[t].tables
      /\ c.alone = call[t].alone /\ c.freed = x % Word
  <2> DEFINE y == x % Word
  <2>1. y \in 0 .. Word - 1 /\ 0 \in 0 .. MaxUsed
    BY <1>3, <1>6
  <2>2. c = [call[t] EXCEPT !.freed = y, !.key = NoCall.key, !.delta = 0]
    OBVIOUS
  <2> HIDE DEF x, y, c
  <2>3. c \in Locals
    BY <1>2, <2>1, <2>2 DEF Locals
  <2>4. /\ c.tofree = call[t].tofree /\ c.limit = call[t].limit
        /\ c.names = call[t].names /\ c.tables = call[t].tables
        /\ c.alone = call[t].alone /\ c.freed = y
    BY <1>2, <2>2 DEF Locals
  <2> QED
    BY <2>3, <2>4 DEF y
<1> HIDE DEF c
<1>8. call' \in [Thread -> Locals] /\ call'[t] = c
      /\ \A u \in Thread : u # t => call'[u] = call[u]
  BY <1>1, <1>7 DEF FInv
<1>9. /\ pc' \in [Thread -> {"out", "loop", "delete", "measure"}] /\ pc'[t] = "loop"
      /\ \A u \in Thread : u # t => pc'[u] = pc[u]
  BY <1>1 DEF FInv
<1>10. CallOK(t)'
  <2>1. call[t].tofree + call[t].limit <= MaxUsed
    BY <1>1, <1>2 DEF CallOK
  <2>2. ASSUME call[t].alone
        PROVE  x % Word = x
               /\ used = names[t] + call[t].tofree + (call[t].limit - call[t].names - call[t].tables) - x
    <3>1. /\ used <= call[t].delta
          /\ call[t].delta = names[t] + call[t].tofree
                               + (call[t].limit - call[t].names - call[t].tables) - call[t].freed
      BY <1>1, <1>2, <2>2 DEF CallOK, Goal
    <3>2. used = names[t] + call[t].tofree + (call[t].limit - call[t].names - call[t].tables) - x
      BY <1>3, <1>4, <3>1
    <3>3. x \in 0 .. Word - 1
      BY <1>3, <1>4, <2>1, <3>1, <3>2
    <3> QED
      BY <1>6, <3>2, <3>3
  <2> HIDE DEF x
  <2> QED
    BY <1>1, <1>7, <1>8, <1>9, <2>1, <2>2 DEF CallOK, Goal
<1>11. \A u \in Thread : u # t => CallOK(u)'
  BY <1>1, <1>8, <1>9, OthersSame
<1>12. Accounts' /\ limit' \in Limits
  BY <1>1 DEF FInv, Accounts
<1> QED
  BY <1>8, <1>9, <1>10, <1>11, <1>12 DEF FInv

LEMMA NextFInv == FInv /\ [Next]_vars => FInv'
<1> SUFFICES ASSUME FInv, [Next]_vars PROVE FInv'
  OBVIOUS
<1>1. ASSUME NEW t \in Thread, Step(t)
      PROVE  FInv'
  <2>1. CASE ReturnOk(t) \/ NothingLeft(t)
    BY <2>1, FinishFInv DEF ReturnOk, NothingLeft
  <2> QED
    BY <1>1, <2>1, ChooseFInv, DeleteFInv, MeasureFInv DEF Step
<1>2. CASE UNCHANGED vars \/ \E l \in Limits : RcSetConfig(l)
  <2>1. /\ UNCHANGED <<used, size, names, old, pc, call>> /\ limit' \in Limits
    BY <1>2 DEF vars, RcSetConfig, FInv
  <2> QED
    BY <2>1 DEF FInv, Accounts, CallOK
<1> QED
  BY <1>1, <1>2, EnterFInv, WriteFInv DEF Next, Command

\* Only Finish and Enter write what a call returned.
Results == result \in [Thread -> {"none", "OK", "ERR"}]

LEMMA SpecResults == Spec => []Results
<1>1. Init => Results
  BY DEF Init, Results
<1>2. ASSUME Results, [Next]_vars PROVE Results'
  <2>1. ASSUME NEW t \in Thread, NEW r \in {"OK", "ERR"}, Finish(t, r) PROVE Results'
    BY <1>2, <2>1 DEF Finish, Results
  <2>2. ASSUME NEW t \in Thread, Enter(t) PROVE Results'
    BY <1>2, <2>1, <2>2 DEF Enter, Results
  <2>3. ASSUME NEW t \in Thread, ReturnOk(t) \/ NothingLeft(t) PROVE Results'
    BY <2>1, <2>3 DEF ReturnOk, NothingLeft
  <2>4. ASSUME result' = result PROVE Results'
    BY <1>2, <2>4 DEF Results
  <2>5. UNCHANGED vars \/ (\E l \in Limits : RcSetConfig(l)) => result' = result
    BY DEF vars, RcSetConfig
  <2>6. \A t \in Thread, o \in TableMemory : Delete(t, o) \/ Measure(t) => result' = result
    BY DEF Delete, Measure
  <2>7. \A t \in Thread, k \in Key, p \in PoolMemory, o \in TableMemory :
          Choose(t, k, p, o) => result' = result
    BY DEF Choose
  <2>8. \A t \in Thread : Measure(t) \/ Command(t) => result' = result
    BY DEF Command, Write, Measure
  <2> QED
    BY <1>2, <2>2, <2>3, <2>4, <2>5, <2>6, <2>7, <2>8 DEF Next, Step
<1> QED
  BY <1>1, <1>2, PTL DEF Spec

LEMMA SpecFInv == Spec => []FInv
  BY InitFInv, NextFInv, PTL DEF Spec

-----------------------------------------------------------------------------
(* What follows.                                                           *)

LEMMA LocalsType ==
  ASSUME FInv, NEW t \in Thread
  PROVE  /\ used \in Nat /\ names[t] \in Nat
         /\ call[t].tofree \in Nat /\ call[t].freed \in 0 .. Word - 1
         /\ call[t].freed \in Nat /\ call[t].limit \in Nat /\ call[t].names \in Nat
         /\ call[t].tables \in Nat
<1>1. call[t] \in Locals /\ used \in 0 .. MaxUsed /\ names[t] \in 0 .. MaxUsed
  BY DEF FInv, Accounts
<1> QED
  BY <1>1, Bounds DEF Locals

\* Whatever the threads do, used_memory is the sum of what the keys, the
\* pool's names and the old tables take, and a call's sum of what it freed stays within size_t.
THEOREM AccountsExact == Spec => []TypeOK
<1>1. FInv => TypeOK
  <2> SUFFICES ASSUME FInv PROVE TypeOK
    OBVIOUS
  <2>1. \A t \in Thread : call[t].freed \in 0 .. Word - 1
    BY LocalsType
  <2> QED
    BY <2>1 DEF FInv, Accounts, TypeOK
<1> QED
  BY <1>1, SpecFInv, PTL

\* A call returns C_OK from its loop only under the limit it read, by as much
\* as the old tables it freed while choosing keys took (names kept in the pool
\* aside), as long as no other thread moved the counter: the unsigned sum of signed differences
\* never runs ahead of what was really freed.
THEOREM OkMeansUnderLimit == Spec => OkIsUnderLimit
<1>1. ASSUME FInv, Results, [Next]_vars, NEW t \in Thread, LoopReturns(t, "OK"), call[t].alone
      PROVE  used <= Aim(t)
  <2>1. pc[t] = "loop" /\ pc'[t] = "out" /\ result'[t] = "OK"
    BY <1>1 DEF LoopReturns
  <2>2. Enough(t)
    <3>1. PICK u \in Thread :
            \/ Enter(u) \/ ReturnOk(u) \/ NothingLeft(u) \/ Measure(u)
            \/ \E o \in TableMemory : Delete(u, o)
            \/ \E k \in Key, p \in PoolMemory, o \in TableMemory : Choose(u, k, p, o)
      <4>1. UNCHANGED vars \/ (\E l \in Limits : RcSetConfig(l)) => pc' = pc
        BY DEF vars, RcSetConfig
      <4>2. \A u \in Thread : Command(u) => pc' = pc
        <5>1. \A u \in Thread, k \in Key, n \in Sizes \cup {0}, o \in TableMemory :
                Write(u, k, n, o) => pc' = pc
          BY SMTT(40) DEF Write
        <5> QED
          BY <5>1, Zenon DEF Command
      <4> QED
        BY <1>1, <2>1, <4>1, <4>2 DEF Next, Step
    <3>2. \E s \in {"out", "loop", "delete", "measure"} : pc' = [pc EXCEPT ![u] = s]
      BY <3>1 DEF Enter, Finish, ReturnOk, NothingLeft, Delete, Measure, Choose
    <3>3. u = t
      BY <2>1, <3>2
    <3>4. ~Enter(t) /\ ~Measure(t) /\ \A o \in TableMemory : ~Delete(t, o)
      BY <2>1 DEF Enter, Delete, Measure
    <3>5. \A k \in Key, p \in PoolMemory, o \in TableMemory : ~Choose(t, k, p, o)
      BY <2>1, <1>1 DEF Choose, FInv
    <3>6. ~NothingLeft(t)
      <4>1. ASSUME NothingLeft(t) PROVE FALSE
        <5>1. result' = [result EXCEPT ![t] = "ERR"]
          BY <4>1 DEF NothingLeft, Finish
        <5> QED
          BY <1>1, <5>1, <2>1 DEF Results
      <4> QED
        BY <4>1
    <3> QED
      BY <3>1, <3>3, <3>4, <3>5, <3>6 DEF ReturnOk
  <2>3. used = names[t] + call[t].tofree + (call[t].limit - call[t].names - call[t].tables) - call[t].freed
    BY <1>1, <2>1 DEF FInv, CallOK, Goal
  <2>4. call[t].freed >= call[t].tofree
    BY <2>2 DEF Enough
  <2> QED
    BY <1>1, <2>3, <2>4, LocalsType DEF Aim
<1>2. FInv /\ Results /\ [Next]_vars =>
        [\A t \in Thread : LoopReturns(t, "OK") /\ call[t].alone => used <= Aim(t)]_vars
  BY <1>1
<1> QED
  BY <1>2, SpecFInv, SpecResults, PTL DEF Spec, OkIsUnderLimit

\* A call that is alone evicts in vain at most what the old tables it freed
\* while choosing keys took: at every eviction the process is over the limit
\* less these tables (and less the names dropped from the pool).
THEOREM VainEvictionIsBounded == Spec => EvictsOverAim
<1>1. ASSUME FInv, NEW t \in Thread, pc[t] = "delete", call[t].alone
      PROVE  used > Aim(t)
  <2>1. /\ call[t].freed < call[t].tofree
        /\ used = names[t] + call[t].tofree + (call[t].limit - call[t].names - call[t].tables) - call[t].freed
    BY <1>1 DEF FInv, CallOK, Goal
  <2> QED
    BY <1>1, <2>1, LocalsType DEF Aim
<1>2. FInv /\ [Next]_vars =>
        [\A t \in Thread : pc[t] = "delete" /\ pc'[t] = "measure" /\ call[t].alone
           => used > Aim(t)]_vars
  BY <1>1
<1> QED
  BY <1>2, SpecFInv, PTL DEF Spec, EvictsOverAim

=============================================================================
