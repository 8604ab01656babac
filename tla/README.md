# A TLA+ development of rediscache

rediscache is the data store of Redis 4 cut out of its server: a C library with
no network, no replication, no persistence and no event loop. A program links
it, creates cache handles (`RcCreateCacheHandle`), and calls commands on them
(`RcSet`, `RcGet`, `RcHSet`, ...). A handle is used by one thread at a time;
several threads may use several handles. They share the configuration
`g_db_config`, the statistics `g_db_status` and the allocator's counter
`used_memory`, which are accessed through `atomicvar.h`.

This directory holds TLA+ modules that model the library, TLC configurations
that check them on small instances, and TLAPS proofs. The repository has no
manual and no tests of its own commands: the code and its comments are the reference.
Some files taken over from Redis have a test main of their own behind `REDIS_TEST` or
`SDS_TEST_MAIN` (`ziplist.c:1247`, `quicklist.c:1414`, `intset.c:284`, `util.c:676`,
`sds.c:1111` and a few more), which no build file turns on. They call one structure at a
time, in one order, and none of them reaches a key, a policy or a second thread.

## The system

| Component | State | Operations | What is hard |
|---|---|---|---|
| Keyspace: `db.c`, `redis.c` | two dictionaries: `dict` (key -> object), `expires` (key -> deadline) | lookup, add, overwrite, delete, expire, flush, random key | `expires` borrows the key strings of `dict`; keys die lazily, in whatever command meets them; deadlines overflow |
| Strings: `t_string.c` | objects of type string | SET with NX/XX/EX, GET, INCR..., APPEND, SETRANGE, GETRANGE, STRLEN | in-place changes of shared objects, overflow, keeping or dropping deadlines |
| Objects: `object.c` | type, encoding, reference count, access field | create, incr/decr count, convert | references handed over or shared, by convention only |
| Dictionary: `dict.c` | two tables, a rehash index, an iterator count | find, add, replace, delete, random key, scan, resize | incremental rehashing: every call moves a bucket |
| Eviction: `evict.c`, `freeMemoryIfNeeded` | a pool of 16 candidates that outlives the call | sample, insert, pick | buffers that move with slots, names of keys that are gone |
| Memory limit: `zmalloc.c`, `freeMemoryIfNeeded` | one counter for the process | alloc, free, read | all threads move the counter a call measures with |
| Access field: `evict.c`, `object.c` | 24 bits: a clock, or a coarse clock and a counter | touch, estimate, decay | rounding and wrapping, two formats |
| Active expiration: `activeExpireCycle` | a static variable | a cycle of random lookups | progress, sparse tables |
| Hashes: `t_hash.c` | ziplist or dictionary | set, get, delete, incr, all | conversion by length or number of fields, empty hashes |
| Sets: `t_set.c`, `intset.c` | intset or dictionary | add, remove, random member | widening in place, conversion |
| Lists: `t_list.c`, `quicklist.c` | linked list of ziplists with cached counts and sizes | push, pop, insert, set, remove, trim, range | node splits and merges, iterators that delete |
| Sorted sets: `t_zset.c`, `zset.c` | ziplist, or skip list and dictionary | add, incr, remove, rank, ranges | spans on every level, two structures that must agree |
| Ziplist: `ziplist.c` | entries behind the length of the one before | insert, delete, merge, walk, find | cascading updates, a count that saturates |
| Dynamic strings and bits: `sds.c`, `bitops.c` | a header of one of five types, a buffer | grow, append, set and find bits | header fields too narrow, words and padding, range ends |
| Numbers: `util.c` | none | parse, print | boundaries |

Commands call the keyspace; the keyspace calls its dictionaries and the
objects; eviction and expiration are calls of the same handle that delete keys
through the keyspace. Nothing calls back into a client. Concurrency comes from
the shared counter and the configuration; the clock moves during commands.

What makes each modelled component correct:

- keyspace and objects: no freed string or object is touched, none leaks,
  counts are exact, a client's object never changes; to the client, the cache
  is a map whose keys vanish at their deadline;
- dictionary: a map, through every half-finished rehash; every entry can be
  found and drawn; chains stay short while it grows;
- eviction: the pool holds the best candidates seen, the best goes first, the
  loop ends, the process ends up under its limit;
- access field: wrapping clocks never reverse the order of eviction;
- expiration: keys past their deadline are deleted in the end;
- aggregates: whatever the encoding, the value is the map, set, sequence or
  sorted set that the commands promise, and it goes with its last element;
- ziplist, strings: the headers agree with the bytes, the bytes with what was
  stored.

## Modules

The modules come in two groups that meet at the value of a key. In the
first, a list, set, hash or sorted set is one value: what the keyspace sees of it
is that it is created, held and emptied. In the second, a module models the
commands of one type on one key; what the keyspace does to that key meanwhile,
delete it or overwrite it, are the actions `Vanish` and `Become`.

### The keyspace and what it rests on

`Values` is the domain of values: numbers, other strings, one aggregate.

`Keyspace` models `db.c`, the generic commands, `t_string.c` and the counts of
`object.c`. The database is one record: `dict` and `expires` map a key to its
entry; `live` are the allocated key strings; `rc`, `str` and `enc` are the
objects' counts, values and encodings; `uaf` becomes true when a call touches
a string or object that is not allocated. Every C function that changes the
keyspace is an operator from one such record to the next (`dbDelete`,
`setKey`, `setExpire`, ...); a command is one action that composes them as its
handler does. Allocation picks any free member of `KeyPtr` or `Obj`. The client is the
environment: it creates and releases strings and passes those it holds.

`TtlCache` is the abstract cache: a map, deadlines, a clock. No objects, no
expired keys. `Keyspace` implements it (`ImplementsTtlCache`): the map is the
keys that are present and not past their deadline.

`Dict` models `dict.c`. A table is its size, its counter `used`, and a function
from buckets to sets of entries. `RehashStep`, `Settle`, `ExpandIfNeeded`,
`dictExpand` and `dictResize` are operators from one dictionary to the next;
each call is an action that composes them in the order of the code.
`DictMap` is the map it implements.

`EvictPool` models the pool of `evict.c` and the loop of `freeMemoryIfNeeded`
around it, one step for each sample and each round. Slots have a score, the string that
names the key, and a buffer; `text` is the contents of buffers and heap
strings. The score of a sample is any number, so the model covers every policy,
and the uninitialised score of a policy that changes in mid-call.
`Candidates` is the sorted list it implements.

`FreeMemory` models the same loop from the side of the accounting: one handle
per thread, the shared counter, the limit, the unsigned sum. A step is one
access to the shared counter; `alone` records whether another thread moved it
since the call began, `names` what the long names in the pool took then, and `tables`
the old hash tables that the rehash steps of its lookups freed while it chose keys.
Commands start and end rehashes (`old`); a deletion may end one too, between the two
readings, and is credited with it.

`ObjectAge` models the access field in milliseconds: both clocks round down and wrap;
clock and counter formats, aging, decay, the change of policy.

`ActiveExpire` extends `Dict`: the expires dictionary is a `Dict` whose values
are deadlines, and the cycle draws from it.

The modules `KeyspaceProofs`, `DictProofs`, `EvictPoolProofs`, `FreeMemoryProofs`,
`ObjectAgeProofs`, `StringProofs`, `ListProofs` and `AggregateProofs` hold the proofs about
the modules they are named for, `DictProofs` also those about `ActiveExpire`. The `MC*`
modules give constants values for TLC.

### The types of values

For each type there is a module of the structure, whose operators are the C
functions from one structure to the next; a module of commands, one action for each;
and an abstract specification of the commands on mathematical values, which it
implements. `call` and `reply` are the last command with its arguments and its
result, so that the refinement is about every reply too.

`IntSet` models `intset.c` over memory: a sequence of units of the narrowest
width, so that widening in place and moving overwrite what they would overwrite
in C. `SetType` and `HashType` are the two encodings each of sets and hashes,
`Aggregates` the commands of `t_set.c` and `t_hash.c`, `Collections` their promise:
a map or a set.

`QuickList` models `quicklist.c`: nodes with their cached count and size,
splitting, merging, partial deletion, iterators. `ListType` is `t_list.c`,
`Lists` the sequence it promises.

`SkipList` models the skip list of `zset.c` with addresses, levels, spans and
backward pointers; a walk down the levels, `Descend`, is the one search that the code
repeats in each function. `ZSet` adds the ziplist encoding and the dictionary,
whose entries point into nodes; `ZSetType` is `t_zset.c`; `SortedSets` is the map from
elements to scores with the order it induces. The level of a new node is drawn at random
in the code and is any level here.

`ZipList` models `ziplist.c` with its bytes: the size of the field that holds the
previous length, the header's three numbers, and memory moves, which set `cut`
when they would lose bytes. Its actions are the operations of the ziplist's
interface. `PackedSequence` is the sequence. The other modules use a ziplist as a
sequence, which is what this refinement is for.

`Sds` models the strings of `sds.c`: header types, fields as wide as they are,
room ahead, the terminator. `StringType` is the part of `t_string.c` and
`bitops.c` that looks into the bytes, over string objects in their three encodings.
BITCOUNT and BITPOS work on memory that starts any number of bytes (`skew`) before an aligned
word: `redisPopcount` is the table for the first and the last bytes and the sideways addition
of blocks of words in between, with its masks and its product that has to fit a byte.
`Strings` is the sequence of bytes, with bits counted one by one.

### Mutants

A definition whose comment starts with "Mutant" is a plausible mistake in the
definition below it. The mutants are not part of a specification; they
show that each property can tell the code from a mistaken version of it.

## Runs

| Run | Shows | Instance |
|---|---|---|
| `keyspace` | heap safety of every sequence of commands, and the refinement of `TtlCache` | 2 keys, 2 key strings, 3 objects, numbers from -8 to 7, increments of 6 and -6 that overflow either way, clock up to 3, arguments in the past and in the future |
| `dict` | the dictionary is a map, searchable and drawable in full | 4 keys, two of which collide at every size, sizes 1 to 8, 2 values, an iterator, resizing disabled at any time |
| `evict_pool` | the pool is the sorted list of best candidates; the loop around it ends | 3 slots, 2 keys of which one has a long name, 2 scores, 2 samples |
| `free_memory` | accounting while no other thread interferes: under the limit in the end, and how much can go in vain; termination in any case | 2 threads with 2 keys each of size 1 or 2, limits 1 and 2, changing, names of size 0 or 1 in the pools, old tables of size 0 or 1 |
| `active_expire` | every key past its deadline goes, unless the table is sparse; a growing table keeps up | 3 keys, table sizes 1 to 8, sparse below 30 % |
| `object_age` | rounded and wrapping clocks never reverse the order of eviction; idle times and decays are near the real ones | 2 objects, 16 ticks of 2 ms and 4 minutes of 4 ms, time up to 36 ms: both clocks wrap |
| `aggregates` | `CompactSound`, no empty aggregate, the refinement of `Collections` | 7 members, 3 fields and 4 values, one of each too long for a ziplist; widths of 2, 4 and 8 bits; limits of 0 to 2 fields, 4 integers |
| `list_type` | counts and sizes, no empty list, the refinement of `Lists` | up to 5 entries of three sizes; a node holds two or three small ones |
| `zset_type` | spans, agreement with the dictionary, no empty sorted set, the refinement of `SortedSets` | 3 elements, scores 0, 1 and both infinities, 3 levels, limits of 0 and 2 entries in a ziplist |
| `ziplist` | headers and previous lengths exact, the refinement of `PackedSequence` | 5 entries; payloads of 0 to 300 bytes around the length of 254, a number of 2 bytes and one of 8; the count saturates at 3 |
| `string_type` | headers agree with buffers, the refinement of `Strings` | strings of up to 6 bytes through all header types; words of 2 bytes, blocks of 2 words, every alignment: a byte before, a block, a byte behind |
| `string_range` | violation: GETRANGE reads behind the string | the same with an index past the unsigned integers |

Bounds. Two keys suffice for every interaction of the heap: the functions of
`db.c` touch one key, and two keys can share an object, a freed string can be
reused for the other key. Three objects are one for each key and one in the
client's hand. `LLMax` is 7 so that sums and products overflow within the
instance; `MsPerSec` is 2 so that rounding is visible. The dictionary needs four
keys to grow twice and shrink. Three slots are the smallest pool in which an
insertion can shift slots to either side of a slot that stays. `Word` is larger
than all memory, as `size_t` is.

Three entries per node suffice for a split with a half on either side and a merge
with a neighbour; three levels for a node that is below, at, and above the levels
in use; five ziplist entries for a cascade that stops, goes on, and reaches the tail. The
small widths are the real ones scaled down where the code compares with the width
only: 2, 4 and 8 bits for 16, 32 and 64, header types up to 2, 4 and 8 bytes. The
lengths of ziplist entries are the real ones; its numbers are not: a byte there has 3 bits
(`IntBits`), so that a number of 8 bytes is one TLC can hold. `MaxLength` of 6 is the 512 MB of
`checkStringLength`. Bytes of strings have their 8 bits; words have 2 bytes for 4, and blocks of
BITCOUNT 2 words for 7, because TLC's integers end at 32 bits. That the ones of a block fit a
byte, 8 * 28 < 256, is an assumption of the module.

`Resolution` and `MinuteLength` are more than 1 so that an access and a query can fall
anywhere in a tick. `TableMemory` of 1 with a limit of 1 or 2 lets a freed table alone bring the
process under its limit, and the eviction that follows is in vain.

Views and symmetry. Every run over commands ignores the last reply, which no step
reads; the refinement judges it step by step. The keyspace run also ignores the
bytes of freed objects and permutes strings and objects, which the code does not
compare; the sorted set run names nodes by their elements, since an address is only
followed. Liveness runs use neither.

Deadlock is checked in every run.

Fairness. In `EvictPool`: a call that began goes on (weak), and sampling finds
an entry sooner or later (strong): `dictGetSomeKeys` starts at a random bucket,
so it fails forever with probability 0. In `FreeMemory`: a thread inside a
call runs (weak). In `ActiveExpire`: the owner of the cache keeps calling the
cycle (strong, because other commands may come in between), a lookup of a
running cycle is made (weak), every key is drawn sooner or later (strong: the
draw is random). Nothing is assumed of the client's commands.

## Where the code disagrees with its comments

Checked, as the run `string_range`:

- `getrangeCommand` cuts the end of a range with `(unsigned)end >= strlen`
  (`t_string.c:193`). An end of 2^32 or a little more looks small, stays as it is,
  and the bytes up to it are copied from behind the string, although the comment
  that follows says "end < strlen".

Seen while modelling; the model has the behaviour, and the text says how to see it,
but no run is spent on it:

- `setKey` frees the old value before it counts the new one (`db.c:231-238`),
  the order `dict.c:338-342` warns against. It is harmless as long as clients
  pass objects they own; `RcGet` returns one they do not. (`MCKeyspace` with
  `LendGet = TRUE` violates `NoUseAfterFree`.)
- A `SET` expire of more than `LLONG_MAX/1000` seconds gives a negative
  deadline, which the lookups take for none (`t_string.c:56`, `db.c:362`) and the
  active cycle for one that has passed.
- With several threads `freeMemoryIfNeeded` can return `C_OK` having evicted
  one key only: memory allocated meanwhile makes the difference negative, and
  the unsigned sum wraps (`db.c:478-481`). `OkIsUnderLimit` without `alone` fails.
- Even alone it may end over the limit by the long key names it copied into its
  pool (`evict.c:236`), and by no more: that is what `Aim` says.
- Alone it may also evict keys in vain. What must be freed is computed once (`db.c:402`); a
  lookup that chooses a key may take the last step of a rehash and free the old table
  (`dict.c:222`) before the first reading of `delta` (`db.c:478`), and nobody subtracts it.
  `Aim` goes down by these tables: the process ends that much under its limit.
- `RcSetConfig` takes any `maxmemory_samples` (`redis.c:58`). `EvictPool` assumes one at least:
  with 0 no key is ever sampled and, with keys to evict and an empty pool, the loop of
  `freeMemoryIfNeeded` that waits for `bestkey` does not end (`db.c:419`); `evict.c:153` declares
  an array of so many entries, so a negative number is not even defined.
- The active cycle waits for a resize of `expires` that nothing performs
  (`db.c:541-545`). `DueGoes` without `Sparse` fails.
- `estimateObjectIdleTime` "returns the min number of milliseconds the object was never
  requested" (`evict.c:62`), but the clock is rounded down at the access (`evict.c:51`):
  accessed at 999 ms and asked at 1000 ms, an object was idle for 1000 ms. `IdleIsClose`
  says how near the estimate is. (`MCObjectAge` violates `IdleIsMinimum` in three steps.)
- `LFUTimeElapsed` computes "the minimum number of minutes that elapsed since the last
  access" (`evict.c:290`), but rounds the access down to its minute (`evict.c:287`): a second
  later a minute may have elapsed, and with a decay time of 1 the counter loses one.
  `DecayIsClose` says that it is one minute at most, either way.
  (`MCObjectAge` violates `ElapsedIsMinimum`.)
- The comment on counters being halved describes an older algorithm
  (`evict.c:278-280`); one is subtracted for each period.
- Hashes leave the ziplist at `OBJ_ZSET_MAX_ZIPLIST_ENTRIES`, which is 0, and not
  at their own limit of 512 (`t_hash.c:419`, `commondef.h:83-86`): the limit is a
  variable of `Aggregates`, fixed in each behaviour.
- `RcSRem` returns `C_ERR` after it removed what it should (`t_set.c:351`).
  `RcHMSet` with no pairs leaves an empty hash (`t_hash.c:507`).
- "Larger values will live in their own isolated ziplists" (`quicklist.c:49-50`) is
  true of values that are pushed; LSET and LINSERT put one next to others.
- The test for the tail of a node, `offset == node->count` (`quicklist.c:857`), never
  holds, so an insertion behind the last entry of a full node splits it instead of
  using the next one. `quicklistDelRange` with a positive offset can take more from the count of a
  node than it deletes (`quicklist.c:995-1012`); LTRIM never calls it so.
- `zset.c` calls `zslDelete`, `dictAdd` and `ziplistGet` inside `assert`
  (`zset.c:1360`, `1376`): a build with `NDEBUG` leaves them out. The modules model
  a build with assertions.
- An element that is spelled `minstring` or `maxstring` is the end of every
  lexicographic range (`zset.c:583-590`).
- `RcSetBit` has a comment, "Update byte with new bit value and return original value"
  (`bitops.c:243`), and returns a status only: there is nothing to return the bit in.
- `SETBIT` has no limit to the offset (`bitops.c:172`), and the sum in SETRANGE's
  test of the limit can wrap (`t_string.c:222`).

## Proofs

Every theorem is about all values of the constants that satisfy the named
assumptions of its module, which TLC evaluates in each run. What a theorem
assumes beyond these is listed. In each, an inductive invariant is proved of the
initial states and of each action, by a lemma for each operator of the model that
takes a state to the next.

| Module | Theorems | Beyond the constants' assumptions |
|---|---|---|
| `KeyspaceProofs` | `HeapSafety`, and its parts `TypeCorrect`, `MemorySafe`, `KeyStringsAreShared`, `CountsAreExact`; `ClientObjectsSafe`: no step changes a client's object; `KeyspaceRefinesTtlCache`: the keyspace implements the map with deadlines | `LendGet = FALSE`; for the last `NoOverflow` |
| `DictProofs` | `DictTypeCorrect`, `EntriesAreFound`, `FrontierStaysInside`, `EveryKeyCanBeDrawn`; `DictIsAMap`: the dictionary implements `DictMap`; `GrowthEndsInTime` | for the last, no iterator, resizing allowed, `MinFill <= 100` |
| `DictProofs`, on `ActiveExpire` | `CycleLetsGrowthEnd`, `CycleNeverDrawsInVain` | `ExpiresTable`: deadlines for values, no iterator, resizing allowed |
| `EvictPoolProofs` | `PoolKeepsItsShape`, `ScoresAscend`, `EveryNameHasAnOwner`; `PoolKeepsTheBest`: the pool implements `Candidates` | |
| `FreeMemoryProofs` | `AccountsExact`, and the action properties `OkMeansUnderLimit`, `VainEvictionIsBounded` | |
| `ObjectAgeProofs` | `IdleIsNear`, `OrderSurvivesWrap`, `DecayIsNear` | |
| `StringProofs` | `HeadersAreSound` | |
| `ListProofs` | `CountsHold`, `NoEmptyListStays`; `ListImplementsLists`: every list command implements its own on the sequence | |
| `AggregateProofs` | `AggregateTypeCorrect`, `CompactEncodingsHold`, `NoEmptyAggregateStays`; `AggregatesImplementCollections`: every hash and set command implements its own on the map or set | |

`LendGet = FALSE` says that clients pass only objects they own; `setKey` frees
before it counts, so with `LendGet = TRUE` `MemorySafe` is false (see above).
`NoOverflow` says that the seconds passed to EXPIRE and SET can be counted in
milliseconds; where they cannot, a deadline is negative and reads as none.
`ExpiresTable` is no choice: the commands never iterate over the expires dictionary
and nothing in the library disables resizing.

### The keyspace

`NoUseAfterFree` is not inductive, because a delete is safe only if no expires
entry points to a freed string and no count is too low. The inductive invariant
`IInv` is the conjunction of four: that every expires entry borrows the string
of its own key's entry (`KeyStringsOK`) and that counts are exact (`CountsOK`)
is what makes the next call safe. Each database operator takes a database that
satisfies the invariant to one that does, with the client's holdings as a
parameter where references are handed over; `setKey` and INCR pass through
states in which a count is one off, and the lemmas on `dbPut` state by how much.

For the refinement, `SameView` says of two databases that the keys which are
present have the same values and deadlines. Allocation, deletion of what is past its
deadline, and a copy of a shared object do not change the view; `RInv` adds
that no deadline is negative and that clients hold strings only. A command whose key
has expired deletes it first, which is a stutter of the abstract cache: it
has forgotten the key at its deadline.

### The dictionary and its cycle

`DictOK` says of both tables that entries lie in the bucket of their hash and that
`used` is the number of entries (`TableOK`), that no key is in two entries, and that all
buckets below the frontier are empty, the frontier being inside the old table
(`Frontier`). The last is stronger than `FrontierOK`: it is what stops the walk to the
next bucket, since an old table that still has an entry has it at or behind the frontier. All
four properties follow from `DictOK`. `Contents` maps a dictionary to
the map it stands for; a step of rehashing moves entries and keeps `Contents`, which is the
refinement.

`GrowthKeepsUp` is inductive in the form `Growing`: with each bucket the frontier has
still to pass there is room for an entry in the new table. Each insertion takes one and its
step of rehashing gives one back. A resize to a smaller table must not start from a full
one, which is why `MinFill` may be at most 100. The active cycle deletes with steps of
its own; nothing shrinks its dictionary, so it needs no assumption on `MinFill`. `DrawsSucceed`,
that a cycle with lookups left has an entry to draw, is proved and not listed as
a property of the run: with it, the loop `while (num--)` around
`dictGetRandomKey` in `db.c` never sees NULL.

### Eviction and memory

`PoolInv` is the conjunction of `TypeOK`, `PoolOrdered` and `NamesOwned`. An
insertion that shifts slots to either side rotates the buffers: the lemmas on the two
shifts say where every buffer and name went. The refinement maps the used slots, in order,
to the abstract list; the abstract place of insertion is the number of
candidates with a lower score, which the loop of the code is shown to find.

In `FreeMemory` the invariant `FInv` has two parts. `Accounts` says that the counter is
the sum of all sizes, names and old tables. A sum is the cardinality of a set of units, one for each
byte, because what a fold computes cannot be proved by induction here. `CallOK` says
of a call that nobody interfered with how its `freed`, `delta` and limit, and the `names` and
`tables` that it does not know of, add up to the counter at each of its steps. The two action
properties follow from it.

### Ages

`AgeInv` says that the field of each object is its last access, rounded down and modulo the
width of the format it was written in. The rest is arithmetic. For two ticks less than a turn apart,
the difference of the residues is the difference of the ticks (`ClockDifference`); and rounding two
times down changes their difference by less than a tick (`RoundedDifference`), so that as many
ticks begin between them as whole ticks pass, or one more (`WholeDifference`).

### Strings

`HeaderSound` is not inductive: a string of type 5 has to have nothing in
reserve, or `sdsavail` would be wrong about it, and the type has to be able to count
all of `alloc`, not only what is in it now. `SdsOK` says both, and that every byte up to
the length is a number rather than `Unwritten`. `MakeRoomOK` and `ExtendOK` are the lemmas
that matter: the type is chosen for the length after it was doubled, and what is written
over the end takes the terminator along. That powers of 2 are positive is an assumption
because no prover here knows exponents.

### Lists

`ListInv` says that the key holds a list of `Exact`: its nodes are `Full`, each one a
`Node` of a ziplist that is not empty, and its count is the size of what they hold,
`Flat`, the ziplists end to end. Both properties follow. Between the halves of an operation
the count is off by one, so `Off(d)` is the set of quicklists that are exact but
for a difference of `d`: a split leaves it off by one, each of the four merges keeps
whatever it is, and the last assignment of `_quicklistInsert` sets it right. `Left` is
what stays of a chain when one node is cut down to a ziplist: the node is gone when that
is empty. The operators on a chain are then equations between what comes before a node,
the node, and what comes after it.

The loops over nodes and entries are folds. What a fold computes is the last of its
partial results; that a function of these exists for every length (`FoldExists`,
`PartialExists`) needs induction, and has it from `LeastNatural`. Each loop then has a set
of states that its round keeps: `DelStates` for `quicklistDelRange`, where enough
entries are left from the place reached on for what is still to be deleted; `Seekers` for the search
of LINSERT; and `Sweeps` for LREM, whose iterator stays valid through the deletion of
the entry it has in hand and of the node it was in.

For the refinement, `Held` is the sequence a quicklist stands for. What the operations do to
it is said position by position: `IsInsert` and `IsCut` say of two sequences that one is the other with
an element more, or a stretch less, and the lemmas that carry this from a node to the
chain leave the rest to arithmetic. A split and a merge leave `Held` as it is, so they are no part
of what `_quicklistInsert` does to it. An iterator is followed by the position in `Held` that it has in
hand (`Grasps`) or will deliver next (`Awaits`): `NextReaches` says that `quicklistNext`
delivers it, whatever node it is in, and `DelEntryHeld` that
`quicklistDelEntry` takes exactly that position out and leaves the iterator before the
entry that came next, in both directions and also when the node went with the entry.
Each loop then has an invariant in these terms: `Sought` for LINSERT, `Deleted` for both halves of
LTRIM, `Seen` and `Takers` for LRANGE. LREM's, `Winnowed`, says that the part already passed
has lost its occurrences of the value (`Weeded`), as many as `left` has counted down,
and that the rest has only moved up by that many. With `SpentIs` it follows that
the first `count` occurrences are gone, or the last, or all.

### Hashes and sets

`AggInv` says that the key holds nothing, a string, or a hash or set that is sound and not
empty (`ValOK`). `HashOK` and `SetOK` say what sound is for each encoding, and `HashMap` and
`setTypeMembers` what map or set the object stands for; every command is then one lemma which
says that it keeps `AggInv` and does what `Collections` says, the reply included. The other
theorems follow from `AggInv` alone.

An intset is a sequence of units, and an integer of it is read off the digits in its block. By
`ExactDigits` the digits that `_intsetSet` writes are read back as the integer when it fits
the width; nothing more is needed of the numbers. `SetIs`, `MoveIs` and `ResizeIs` say what
each memory operation leaves where, position by position. Insertion and removal
(`InsertIs`, `RemoveIs`) keep `IntsetOK` because the position comes from a search: `SearchIs` says of the
binary search that it finds the integer or the place where it belongs. The search is a recursive
function of its bounds, and exists because each call has a narrower interval than the
one before; that it does is proved by descent, from `LeastNatural`.

`intsetUpgradeAndAdd` rewrites every integer at a larger width, in place, from the last to the first. The
loop's invariant (`MoveOne`, `UpgradeRounds`) is that the integers from some position on are at
their new places and those before it still readable at the old width: the block
written for an integer begins where its own old block does or later, so it covers only
what has been moved. From front to back this fails, which is what the mutant of `CompactSound`
shows. The new integer is below or above all others because it does not fit the old width, so it belongs at
one of the ends. That `long long` is the largest width is the assumption on `LLMax`.

A ziplist hash is a sequence with a field at each odd position and its value behind it, no field
twice (`ZlOK`). Replacing a value, appending a pair and deleting two entries
(`ReplaceIs`, `AppendIs`, `CutIs`) are then equations between the maps before and after. The invariant
as first written, that nothing in a ziplist is long, is false: HINCRBY and HINCRBYFLOAT do not look at the
length of the field they add, and a long one stays in a ziplist until HSET passes a long
string. `CompactSound` therefore says it of values, and TLC's instance has a long field. `HashTypeAssumption` and
`AggregatesAssumption` say why the sums that these commands store are not long: an integer
has at most 20 characters, a fraction at most 39, and the limit is 64.

The loops over fields, pairs and members are folds, followed as those of the lists are: `AddAll`,
`RemoveAll`, `SetAll`, `DelAll`. `Wrote` is the invariant of HMSET's, that for each field the pair
written last counts, which is `WithAll` when all are written (`WroteAll`). HDEL stops
at the field that empties the hash, and its fold goes on without effect.

### What is only model-checked

- Liveness (`CallReturns`, `DueGoes`): out of the prover's reach.
- Data walked by recursion, for every input: the search of the skip list, the cascade of
  the ziplist, bits counted and found. The induction theorems of the
  library take an operator, which no prover here can instantiate; what the loops of the
  list, hash and set commands compute is proved from `LeastNatural`, at some length, and the others have
  no such proof yet. So these properties stay with TLC: `SpansExact`, `DictAgrees` and
  `NoEmptyZset`; `HeadersExact`; and the refinements of `SortedSets`, `PackedSequence` and `Strings`.
- A least element of a set of numbers, which several proofs need, is derived from the
  well-foundedness of strict inclusion (`LeastNatural`), as a fact about sets;
  it is the one form of induction the proofs use.

## Not modelled

- Floating-point sums that are not whole numbers, and their conversion to and
  from text: `INCRBYFLOAT` and `HINCRBYFLOAT` on whole numbers only; scores are
  numbers in the order of the doubles they stand for.
- `RcDestroyCacheHandle`: it ends the use of a handle.
- Statistics counters: no function reads them to decide anything.
- `dictScan`, unsafe iterators and fingerprints: no command scans; the iterators of
  hash and set commands begin and end within a command, and are a traversal there.
- Compression of quicklist nodes: its depth is 0 in this library.
- The functions of `sds.c` that trim, split, join and format: only a path
  helper of `util.c` uses any of them.
- `RcHStrlen`: it reads the length of one value and changes nothing.
- Empty lists of arguments: what a hash or set command does with no fields, pairs or members.
- `string2ll` and `ll2string`: which strings are numbers, and how a number is spelled,
  are parameters.
- `zipmap.c` (no command creates one), `adlist.c` (nothing uses it), `lzf*`,
  `sha1.c`, `siphash.c`, `endianconv.c`: pure or legacy code without state. The hash
  function is a constant of `Dict`.
- Failing allocations: `zmalloc` aborts the process.

## Plan

1. The refinement of `Strings` for the commands without a loop: SET, APPEND, SETRANGE, GETRANGE.
2. The refinement of `PackedSequence` by `ZipList`, entry by entry.
3. Larger instances, where a run has time left.
