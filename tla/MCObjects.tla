------------------------------ MODULE MCObjects -----------------------------
(***************************************************************************)
(* Small programs over the heap: keys of one bucket, and one of another.   *)
(***************************************************************************)
EXTENDS Objects

Colliding(n) == {8 * i : i \in (-1)..(n - 2)}

\* Any objects, two keys of one bucket and one of another, nothing full.
Mixed ==
  [keys |-> {-8, 0, 1}, values |-> {1, 2}, letters |-> {11, 12},
   maxRoots |-> 4, maxBucketItems |-> 4, maxAppends |-> 2, maxWords |-> 36]

\* Four keys of one bucket and eight strings of one builder, as many as fit.
Full ==
  [keys |-> Colliding(4), values |-> {1}, letters |-> {11},
   maxRoots |-> 2, maxBucketItems |-> 4, maxAppends |-> 8, maxWords |-> 60]

\* Six keys of one bucket: the sixth entry's address overwrites the key of
\* the first entry, which lies behind the bucket.
Overfull ==
  [keys |-> Colliding(6), values |-> {1}, letters |-> {},
   maxRoots |-> 1, maxBucketItems |-> 6, maxAppends |-> 0, maxWords |-> 61]

WithinCapacity == {Mixed, Full}
BeyondCapacity == {Overfull}
=============================================================================
