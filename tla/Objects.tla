------------------------------ MODULE Objects -------------------------------
(***************************************************************************)
(* The objects of a running program in its heap: NEW, ONEWARRAY, SCONST    *)
(* and the built-in functions of sys.cpp, in any order.                    *)
(***************************************************************************)
EXTENDS Heap

CONSTANT Programs         (* what a program may use, see Program           *)

VARIABLES heap,           (* IsolateVM's heap                              *)
          roots,          (* the objects the program holds: kind, address  *)
          program         (* the program that runs                         *)

vars == <<heap, roots, program>>

\* The keys, integers and characters of a program, and its bounds: the objects
\* it holds, its keys per bucket and its strings per builder.
Program == [keys : SUBSET Int, values : SUBSET Int, letters : SUBSET Int,
            maxRoots : Nat, maxBucketItems : Nat, maxAppends : Nat, maxWords : Nat]

ASSUME ProgramsAssumption == \A p \in Programs : p \in Program

Keys == UNION {p.keys : p \in Programs}
Values == UNION {p.values : p \in Programs}
Letters == UNION {p.letters : p \in Programs}

TypeOK ==
  /\ heap.mem \in Seq(Int) /\ Len(heap.mem) <= PageWords
  /\ heap.used \in 0..PageWords
  /\ heap.ok \in BOOLEAN
  /\ roots \in Seq([kind : {"dict", "array", "string", "builder"}, at : Address])
  /\ program \in Programs

Init == heap = EmptyHeap /\ roots = <<>> /\ program \in Programs

Of(kind) == {r \in DOMAIN roots : roots[r].kind = kind}

\* An aborted program leaves nothing to be seen of the operation.
Commit(h) == heap' = IF h.ok THEN h ELSE [heap EXCEPT !.ok = FALSE]

\* The operation that made h allocated a new object first.
Add(kind, h) ==
  /\ Len(roots) < program.maxRoots
  /\ Commit(h)
  /\ roots' = IF h.ok THEN Append(roots, [kind |-> kind, at |-> NextObject(heap)])
                      ELSE roots

Update(h) == Commit(h) /\ UNCHANGED roots

NewDict == Add("dict", Allocate(heap, DictWords))

\* `d[k] = v`: the generator wraps v (Func_AutoWrapping_Int), then insert.
Insert(r, k, v) ==
  LET d       == roots[r].at
      bucket  == Read(heap, BucketSlot(heap, d, k))
      wrapper == NextObject(heap)
  IN /\ bucket # 0 =>
          \/ ArrayLength(heap, bucket) < program.maxBucketItems
          \/ Matches(heap, bucket, k) # {}
     /\ Update(DictInsert(Allocate(heap, OptionalWords(IntHead, v)), d, k, wrapper))

NewArray(v, w) == Add("array", ArrayOf(heap, <<v, w>>))

\* The index is not checked; the program's is in bounds.
SetItem(r, i, v) == Update(ArraySet(heap, roots[r].at, i, v))

NewString(c) == Add("string", Allocate(heap, StringWords(<<c>>)))

NewBuilder == Add("builder", NewStringBuilder(heap))

AppendString(r, s) ==
  /\ Len(Appended(heap, roots[r].at)) < program.maxAppends
  /\ Update(BuilderAppend(heap, roots[r].at, roots[s].at))

JoinStrings(r) == Add("string", BuilderToString(heap, roots[r].at))

Next ==
  /\ heap.ok
  /\ UNCHANGED program
  /\ \/ NewDict
     \/ \E r \in Of("dict"), k \in program.keys :
          \E v \in program.values : Insert(r, k, v)
     \/ \E v, w \in program.values : NewArray(v, w)
     \/ \E r \in Of("array") :
          \E i \in 0..(ArrayLength(heap, roots[r].at) - 1) :
            \E v \in program.values : SetItem(r, i, v)
     \/ \E c \in program.letters : NewString(c)
     \/ NewBuilder
     \/ \E r \in Of("builder") :
          JoinStrings(r) \/ \E s \in Of("string") : AppendString(r, s)
  /\ heap'.used <= program.maxWords

Spec == Init /\ [][Next]_vars

-----------------------------------------------------------------------------
\* No store has left the objects it was meant for and reached memory that is
\* still to be allocated, which the assertion in Page::allocate would notice.
FreshWordsAreZero == heap.ok => Fresh(heap, PageWords - heap.used)

\* What a program sees of a key of a dictionary: the result of get, unwrapped.
ValueOf(root, k) == Wrapped(heap, DictGet(heap, root.at, k))

\* The value a program sees in an object: what a dictionary says of each key,
\* the items of an array, the characters of a string.
Abstract(root) ==
  [kind |-> root.kind,
   val |-> CASE root.kind = "dict" -> [k \in Keys |-> ValueOf(root, k)]
             [] root.kind = "array" ->
                  [i \in 1..ArrayLength(heap, root.at) |-> ArrayGet(heap, root.at, i - 1)]
             [] root.kind = "string" -> StringAt(heap, root.at)
             [] root.kind = "builder" -> Appended(heap, root.at)]

Store == INSTANCE ObjectStore WITH objs <- [r \in DOMAIN roots |-> Abstract(roots[r])]

\* The heap implements maps, arrays, builders and strings that nothing but an
\* operation on the object itself changes.
ImplementsObjectStore == Store!Spec

\* And every operation that does not abort has its effect on the object: no
\* assignment is lost, no string of a builder is dropped, and toString gives the
\* operands of `+` in their order.
TakesEffect ==
  heap'.ok =>
    /\ \A r \in Of("dict"), k \in program.keys, v \in program.values :
         Insert(r, k, v) => Store!Insert(r, k, v)
    /\ \A r \in Of("array"), v \in program.values :
         \A i \in 0..(ArrayLength(heap, roots[r].at) - 1) :
           SetItem(r, i, v) => Store!SetItem(r, i, v)
    /\ \A r \in Of("builder") :
         /\ JoinStrings(r) => Store!JoinStrings(r)
         /\ \A s \in Of("string") : AppendString(r, s) => Store!AppendString(r, s)

OperationsTakeEffect == [][TakesEffect]_vars

\* An assignment `d[k] = v` changes what one dictionary says of one key: the
\* dictionaries remember every other key they hold.
DictsRemember ==
  [][LET changed == {c \in Of("dict") \X program.keys :
                       ValueOf(roots[c[1]], c[2])' # ValueOf(roots[c[1]], c[2])}
     IN \A c, d \in changed : c = d]_vars
=============================================================================
