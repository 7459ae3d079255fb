------------------------------- MODULE Heap ---------------------------------
(***************************************************************************)
(* The heap of the runtime (heaps.h, heaps.cpp, gc.cpp) and the layouts of *)
(* its built-in objects (types.h, types.cpp): arrays, dictionaries with    *)
(* their entries, strings and string builders.                             *)
(*                                                                         *)
(* A heap is one page of words of kValueSize bytes; a character of a       *)
(* string takes a word.  Every operation maps a heap to a heap.            *)
(***************************************************************************)
EXTENDS Integers, SequencesExt

CONSTANT PageWords     (* kPageSize in words: the model's bound on the heap *)

ASSUME PageSize == PageWords \in Nat

Address == 1..PageWords

Nil == -1              \* NilType::nilValue(): an address outside the page

\* The type slots of the object heads; what they are does not matter.
IntHead      == 101
StringHead   == 102
ArrayHead    == 103
DictHead     == 104
EntryHead    == 105
BuilderHead  == 106
OptionalHead == 107

\* `mem` holds the words of the page up to the last one stored to: the words
\* behind are zero.  `used` is Page::used; `ok` becomes FALSE where an assertion
\* of Page::allocate fails and the program aborts.
EmptyHeap == [mem |-> <<>>, used |-> 0, ok |-> TRUE]

\* The address of the next object to be allocated.
NextObject(h) == h.used + 1

Zeros(n) == [i \in 1..n |-> 0]

Read(h, a) == IF a \in DOMAIN h.mem THEN h.mem[a] ELSE 0

\* A store outside the page is where the model gives up.
Write(h, a, w) ==
  CASE a \in DOMAIN h.mem -> [h EXCEPT !.mem[a] = w]
    [] a \in Address /\ a > Len(h.mem) ->
         [h EXCEPT !.mem = @ \o Append(Zeros(a - 1 - Len(@)), w)]
    [] a \notin Address -> [h EXCEPT !.ok = FALSE]

\* assert(data[r + i] == 0)
Fresh(h, n) == \A a \in (h.used + 1)..(h.used + n) : Read(h, a) = 0

AllocateUnbounded(h, words) ==                                  \* mutant
  [h EXCEPT !.mem = SubSeq(@, 1, h.used) \o words, !.used = @ + Len(words)]

\* GC::allocate and the first stores of the object's class into its words.
Allocate(h, words) ==
  IF h.ok /\ h.used + Len(words) <= PageWords /\ Fresh(h, Len(words))
  THEN [h EXCEPT !.mem = SubSeq(@, 1, h.used) \o words
                           \o SubSeq(@, h.used + Len(words) + 1, Len(@)),
                 !.used = @ + Len(words)]
  ELSE [h EXCEPT !.ok = FALSE]

-----------------------------------------------------------------------------
(* Optional: head, wrappedValue. *)
OptionalWords(head, value) == <<head, value>>

Wrapped(h, o) == IF o = Nil THEN Nil ELSE Read(h, o + 1)

(* ArrayClass: head, capacity in bytes, length, data. *)
ArrayCapacityTooSmall(n) == Min({c \in {1, 2, 4, 8, 16} : 2 * c >= n})   \* mutant

\* The power of two calculateArrayCapacitySize loops to.
ArrayCapacity(n) == Min({c \in {2, 4, 8, 16} : c >= n})

ArrayWords(n) ==
  <<ArrayHead, 8 * ArrayCapacity(n), 0>> \o Zeros(ArrayCapacity(n))

ArrayLength(h, arr)    == Read(h, arr + 2)
ArrayGet(h, arr, i)    == Read(h, arr + 3 + i)
ArraySet(h, arr, i, w) == Write(h, arr + 3 + i, w)

\* No capacity check: an append to a full array stores behind it.
ArrayAppend(h, arr, w) ==
  LET n == ArrayLength(h, arr)
  IN Write(ArraySet(h, arr, n, w), arr + 2, n + 1)

\* ONEWARRAY: the items are popped, the last one first.
ArrayOf(h, items) ==
  LET n   == Len(items)
      arr == NextObject(h)
      popped[i \in 0..n] ==
        IF i = 0 THEN Allocate(h, ArrayWords(n))
        ELSE ArraySet(popped[i - 1], arr, n - i, items[n - i + 1])
  IN Write(popped[n], arr + 2, n)

-----------------------------------------------------------------------------
(* DictClass: head, capacity, count, bucketSize, buckets; DictEntry: head,  *)
(* key, value.                                                              *)
kDefaultCapacitySize  == 32
kDefaultPerBucketItem == 4

DictWords ==
  LET bucketCount == kDefaultCapacitySize \div kDefaultPerBucketItem
  IN <<DictHead, kDefaultCapacitySize, 0, bucketCount>> \o Zeros(bucketCount)

\* std::hash<Int> is the identity on 64 bits; the bucket count is a power of 2.
BucketSlot(h, d, key) == d + 4 + (key % Read(h, d + 3))

EntryKey(h, e)   == Read(h, e + 1)
EntryValue(h, e) == Read(h, e + 2)

\* DictEntry::setValue wraps the value once more and drops the wrapper.
SetEntryValue(h, e, value) ==
  Write(Allocate(h, OptionalWords(OptionalHead, value)), e + 2, value)

MatchesAnyKey(h, bucket, key) == 0..(ArrayLength(h, bucket) - 1)  \* mutant

\* The positions in the bucket whose entries have the key.
Matches(h, bucket, key) ==
  {i \in 0..(ArrayLength(h, bucket) - 1) : EntryKey(h, ArrayGet(h, bucket, i)) = key}

\* The bucket of a key, made on demand.
WithBucket(h, d, key) ==
  LET slot == BucketSlot(h, d, key)
  IN IF Read(h, slot) # 0 THEN h
     ELSE Write(Allocate(h, ArrayWords(4)), slot, NextObject(h))

AddEntry(h, bucket, key, value) ==
  LET e == NextObject(h)
      g == Write(Allocate(h, <<EntryHead, 0, 0>>), e + 1, key)
  IN ArrayAppend(SetEntryValue(g, e, value), bucket, e)

DictInsertAppends(h0, d, key, value) ==                         \* mutant
  LET h == WithBucket(h0, d, key)
  IN AddEntry(h, Read(h, BucketSlot(h, d, key)), key, value)

DictInsert(h0, d, key, value) ==
  LET h      == WithBucket(h0, d, key)
      bucket == Read(h, BucketSlot(h, d, key))
      found  == Matches(h, bucket, key)
  IN IF found = {}
     THEN AddEntry(h, bucket, key, value)
     ELSE SetEntryValue(h, ArrayGet(h, bucket, Min(found)), value)

DictGet(h, d, key) ==
  LET bucket == Read(h, BucketSlot(h, d, key))
      found  == IF bucket = 0 THEN {} ELSE Matches(h, bucket, key)
  IN IF found = {} THEN Nil ELSE EntryValue(h, ArrayGet(h, bucket, Min(found)))

-----------------------------------------------------------------------------
(* StringClass: head, length, characters; StringBuilderClass: head, array.  *)
StringWords(s) == <<StringHead, Len(s)>> \o s

StringAt(h, str) == [i \in 1..Read(h, str + 1) |-> Read(h, str + 1 + i)]

NewStringBuilder(h) ==
  LET sb  == NextObject(h)
      own == Allocate(h, <<BuilderHead, 0>>)
  IN Write(Allocate(own, ArrayWords(8)), sb + 1, NextObject(own))

\* The strings appended to the builder, the first one first.
Appended(h, sb) ==
  LET arr == Read(h, sb + 1)
  IN [i \in 1..ArrayLength(h, arr) |-> StringAt(h, ArrayGet(h, arr, i - 1))]

BuilderAppend(h, sb, str) == ArrayAppend(h, Read(h, sb + 1), str)

BuilderToStringUnreversed(h, sb) ==                             \* mutant
  Allocate(h, StringWords(FlattenSeq(Appended(h, sb))))

\* toString joins them the last one first: IRGen appends the operands of `+`
\* from the right.
BuilderToString(h, sb) ==
  Allocate(h, StringWords(FlattenSeq(Reverse(Appended(h, sb)))))
=============================================================================
