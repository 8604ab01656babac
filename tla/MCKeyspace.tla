----------------------------- MODULE MCKeyspace -----------------------------
(***************************************************************************)
(* Small instances of Keyspace for TLC.                                    *)
(***************************************************************************)
EXTENDS Keyspace, TLC

CONSTANTS k1, k2, p1, p2, o1, o2, o3

\* An integer near the limit, and a text too long to be embedded: one that could be
\* changed in place if it were not shared.
CreatedSmall == {<<<<"num", 6>>, "int">>, <<<<"text", 0>>, "raw">>}

\* Either takes an integer of its own sign past the limit and one of the other
\* sign to 0, which is one of the small integers.
IncrementsSmall == {-6, 6}

\* One argument in the past, one in the future.
SecondsSmall == {-1, 1}

\* A freed object keeps its bytes but nothing reads them, and no step reads
\* the last reply, so states that differ only there behave alike.  (Replies
\* are judged step by step, by the action property ImplementsTtlCache.)
View == <<[db EXCEPT !.str = [o \in Obj |-> IF db.rc[o] = 0 THEN Agg ELSE @[o]],
                     !.enc = [o \in Obj |-> IF db.rc[o] = 0 THEN "raw" ELSE @[o]]],
          held, lent, now>>

\* Allocations have no identity the code could use.
Symmetry == Permutations(KeyPtr) \cup Permutations(Obj)

=============================================================================
