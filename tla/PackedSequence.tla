--------------------------- MODULE PackedSequence ---------------------------
(***************************************************************************)
(* What a ziplist promises: a sequence of items, read back as numbers      *)
(* where the item is the decimal form of one.                              *)
(***************************************************************************)
EXTENDS Integers, SequencesExt

CONSTANTS Item, Batches, Indexes, NULL

VARIABLES seq, call, reply

Init == seq = <<>> /\ call = <<"none", <<>>>> /\ reply = NULL

Put(op, args, new) == call' = <<op, args>> /\ seq' = new

\* The value at place k, if there is one.
At(s, k) == IF k \notin DOMAIN s THEN NULL
            ELSE IF "num" \in DOMAIN s[k] THEN s[k].num ELSE s[k]

\* The place of an index, which counts from the end where it is negative.
Place(index) == IF index < 0 THEN Len(seq) + index + 1 ELSE index + 1

Insert(k, item) == Put("insert", <<k, item>>, InsertAt(seq, k, item)) /\ reply' = NULL

\* What follows takes the place.
Delete(k) == Put("delete", k, RemoveAt(seq, k)) /\ reply' = At(seq', k)

DeleteRange(index, num) ==
  LET k == Place(index)
  IN  /\ reply' = NULL
      /\ Put("range", <<index, num>>,
             IF k \notin DOMAIN seq THEN seq
             ELSE SubSeq(seq, 1, k - 1) \o SubSeq(seq, k + num, Len(seq)))

Merge(batch, behind) ==
  /\ reply' = NULL
  /\ Put("merge", <<batch, behind>>, IF behind THEN seq \o batch ELSE batch \o seq)

Read(op, args, out) == Put(op, args, seq) /\ reply' = out

\* Of the places 1, 1 + (skip + 1) and so on.
Find(item, skip) ==
  LET hits == {k \in DOMAIN seq : (k - 1) % (skip + 1) = 0 /\ seq[k] = item}
  IN  Read("find", <<item, skip>>, IF hits = {} THEN 0 ELSE Min(hits))

Next ==
  \/ \E k \in 1 .. Len(seq) + 1, item \in Item : Insert(k, item)
  \/ \E k \in DOMAIN seq :
       Delete(k) \/ \E item \in Item : Read("compare", <<k, item>>, seq[k] = item)
  \/ \E index \in Indexes, num \in 0 .. 2 : DeleteRange(index, num)
  \/ \E batch \in Batches, behind \in BOOLEAN : Merge(batch, behind)
  \/ \E index \in Indexes : Read("index", index, At(seq, Place(index)))
  \/ \E k \in 1 .. Len(seq) + 1 :
       \/ Read("next", k, At(seq, k + 1))
       \/ Read("prev", k, At(seq, k - 1))
  \/ \E item \in Item, skip \in 0 .. 1 : Find(item, skip)
  \/ Read("len", <<>>, Len(seq))

Spec == Init /\ [][Next]_<<seq, call, reply>>

=============================================================================
