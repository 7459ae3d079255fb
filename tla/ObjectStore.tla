----------------------------- MODULE ObjectStore ----------------------------
(***************************************************************************)
(* What a program expects of the built-in objects: a dictionary is a map,  *)
(* an array a sequence of fixed length, a string builder a list of strings *)
(* and a string immutable; an operation on an object changes no other.     *)
(***************************************************************************)
EXTENDS Integers, SequencesExt

CONSTANTS Keys, Values, Letters, Nil

VARIABLE objs       (* the objects of the program: [kind, val]             *)

Init == objs = <<>>

Of(kind) == {r \in DOMAIN objs : objs[r].kind = kind}

Add(kind, val) == objs' = Append(objs, [kind |-> kind, val |-> val])

Update(r, val) == objs' = [objs EXCEPT ![r].val = val]

NewDict == Add("dict", [k \in Keys |-> Nil])

Insert(r, k, v) == Update(r, [objs[r].val EXCEPT ![k] = v])

NewArray(v, w) == Add("array", <<v, w>>)

\* The items of an array are numbered from 0.
SetItem(r, i, v) == Update(r, [objs[r].val EXCEPT ![i + 1] = v])

NewString(c) == Add("string", <<c>>)

NewBuilder == Add("builder", <<>>)

AppendString(r, s) == Update(r, Append(objs[r].val, objs[s].val))

JoinStrings(r) == Add("string", FlattenSeq(Reverse(objs[r].val)))

Next ==
  \/ NewDict
  \/ \E r \in Of("dict"), k \in Keys, v \in Values : Insert(r, k, v)
  \/ \E v, w \in Values : NewArray(v, w)
  \/ \E r \in Of("array"), v \in Values :
       \E i \in 0..(Len(objs[r].val) - 1) : SetItem(r, i, v)
  \/ \E c \in Letters : NewString(c)
  \/ NewBuilder
  \/ \E r \in Of("builder") :
       JoinStrings(r) \/ \E s \in Of("string") : AppendString(r, s)

Spec == Init /\ [][Next]_objs
=============================================================================
