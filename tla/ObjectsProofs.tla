---------------------------- MODULE ObjectsProofs ---------------------------
(***************************************************************************)
(* For every program that fills no bucket and no builder beyond its room:  *)
(* the heap is laid out as its objects say, and it implements the maps,    *)
(* arrays, builders and strings a program expects.                         *)
(***************************************************************************)
EXTENDS Objects, Induction

-----------------------------------------------------------------------------
(* Words and their tags.  A tag says whose word it is and who may write it: *)
(* a constant word nobody, a raw one whoever has allocated it.  Tags are    *)
(* all of one shape: a kind, an owner, and a key.                           *)

Tag(kind, owner, key) == <<kind, owner, key>>

Const == Tag("const", 0, 0)
Raw   == Tag("raw", 0, 0)

\* What is in a tag.
LEMMA TagIs ==
  /\ \A kind, owner, key : LET tag == Tag(kind, owner, key)
                          IN tag[1] = kind /\ tag[2] = owner /\ tag[3] = key
  /\ Const[1] = "const" /\ Raw[1] = "raw" /\ Const # Raw
BY DEF Tag, Const, Raw

\* An entry of dictionary d, and what a value has been wrapped in.
IsWrapper(m, t, x) == x \in Nat /\ x + 1 \in 1..Len(m) /\ t[x + 1] = Const

IsEntry(m, t, e, d) ==
  /\ e \in Nat /\ e + 1 \in 1..Len(m) /\ e + 2 \in 1..Len(m)
  /\ t[e + 1] = Const /\ t[e + 2] = Tag("value", d, m[e + 1])

\* A bucket is an array; its length is at a.
IsBucket(m, t, b, d) == b \in Nat /\ b + 2 \in 1..Len(m) /\ t[b + 2] = Tag("bucket", d, 0)

HasEntries(m, t, a, d) ==
  /\ m[a] \in 0..4
  /\ \A i \in 1..4 : a + i \in 1..Len(m) /\ t[a + i] = Tag("item", a, 0)
  /\ \A i \in 1..m[a] : IsEntry(m, t, m[a + i], d)

IsString(m, t, s) ==
  /\ s \in Nat /\ s + 1 \in 1..Len(m) /\ t[s + 1] = Const /\ m[s + 1] \in Nat
  /\ \A i \in 1..m[s + 1] : s + 1 + i \in 1..Len(m) /\ t[s + 1 + i] = Const

HasStrings(m, t, a) ==
  /\ m[a] \in 0..8
  /\ \A i \in 1..8 : a + i \in 1..Len(m) /\ t[a + i] = Tag("item", a, 0)
  /\ \A i \in 1..m[a] : IsString(m, t, m[a + i])

\* What a word holds fits its tag.
Fits(m, t, a) ==
  /\ t[a][1] = "slot" => m[a] = 0 \/ IsBucket(m, t, m[a], t[a][2])
  /\ t[a][1] = "bucket" => HasEntries(m, t, a, t[a][2])
  /\ t[a][1] = "value" => IsWrapper(m, t, m[a])
  /\ t[a][1] = "strings" => HasStrings(m, t, a)

Layout(m, t) == m \in Seq(Int) /\ \A a \in 1..Len(m) : Fits(m, t, a)

\* The objects a program may hold.
IsDict(m, t, d) ==
  /\ d \in Nat /\ d + 3 \in 1..Len(m) /\ t[d + 3] = Const /\ m[d + 3] = 8
  /\ \A j \in 0..7 : d + 4 + j \in 1..Len(m) /\ t[d + 4 + j] = Tag("slot", d, 0)

IsArray(m, t, a) ==
  /\ a \in Nat /\ a + 2 \in 1..Len(m) /\ t[a + 2] = Const /\ m[a + 2] = 2
  /\ \A i \in 0..1 : a + 3 + i \in 1..Len(m) /\ t[a + 3 + i] = Tag("data", a, 0)

IsBuilder(m, t, b) ==
  /\ b \in Nat /\ b + 1 \in 1..Len(m) /\ t[b + 1] = Const
  /\ m[b + 1] \in Nat /\ m[b + 1] + 2 \in 1..Len(m)
  /\ t[m[b + 1] + 2] = Tag("strings", b, 0)

-----------------------------------------------------------------------------
(* Later: constant words have kept what they hold, and tags that are not raw *)
(* are what they were.                                                       *)

Later(m, t, m2, t2) ==
  /\ m \in Seq(Int) /\ m2 \in Seq(Int) /\ Len(m) <= Len(m2)
  /\ \A a \in 1..Len(m) : /\ t[a] # Raw => t2[a] = t[a]
                          /\ t[a] = Const => m2[a] = m[a]

\* What a later heap still has of an earlier one.
LEMMA LaterWord ==
  ASSUME NEW m, NEW t, NEW m2, NEW t2, Later(m, t, m2, t2), NEW a \in 1..Len(m)
  PROVE  /\ Len(m) \in Nat /\ Len(m2) \in Nat /\ a \in 1..Len(m2)
         /\ t[a] # Raw => t2[a] = t[a]
         /\ t[a] = Const => t2[a] = Const /\ m2[a] = m[a]
<1>1. Len(m) \in Nat /\ Len(m2) \in Nat /\ Len(m) <= Len(m2)
  BY LenProperties DEF Later
<1>2. Const # Raw
  BY TagIs
<1>3. QED
  BY <1>1, <1>2 DEF Later

\* A word with a purpose keeps its tag, whatever is stored later.
LEMMA LaterKind ==
  ASSUME NEW m, NEW t, NEW m2, NEW t2, Later(m, t, m2, t2), NEW a \in 1..Len(m),
         t[a][1] # "raw"
  PROVE  a \in 1..Len(m2) /\ t2[a] = t[a]
<1>1. Raw[1] = "raw"
  BY TagIs
<1>2. t[a] # Raw
  BY <1>1
<1>3. QED
  BY <1>2, LaterWord

\* The same, for a tag that is given by its parts.
LEMMA LaterTag ==
  ASSUME NEW m, NEW t, NEW m2, NEW t2, Later(m, t, m2, t2), NEW a \in 1..Len(m),
         NEW kind, NEW x, NEW y, t[a] = Tag(kind, x, y), kind # "raw"
  PROVE  a \in 1..Len(m2) /\ t2[a] = Tag(kind, x, y)
<1>1. t[a][1] = kind
  BY TagIs
<1>2. t[a][1] # "raw"
  BY <1>1
<1>3. a \in 1..Len(m2) /\ t2[a] = t[a]
  BY <1>2, LaterKind
<1>4. QED
  BY <1>3

\* Later is later, over any number of steps.
LEMMA LaterIsTransitive ==
  ASSUME NEW m1, NEW t1, NEW m2, NEW t2, NEW m3, NEW t3,
         Later(m1, t1, m2, t2), Later(m2, t2, m3, t3)
  PROVE  Later(m1, t1, m3, t3)
<1>1. /\ Len(m1) \in Nat /\ Len(m2) \in Nat /\ Len(m3) \in Nat
      /\ m1 \in Seq(Int) /\ m3 \in Seq(Int) /\ Len(m1) <= Len(m2) /\ Len(m2) <= Len(m3)
  BY LenProperties DEF Later
<1>2. \A a \in 1..Len(m1) : /\ t1[a] # Raw => t3[a] = t1[a]
                            /\ t1[a] = Const => m3[a] = m1[a]
  <2> TAKE a \in 1..Len(m1)
  <2>1. a \in 1..Len(m2) /\ (t1[a] # Raw => t2[a] = t1[a])
        /\ (t1[a] = Const => t2[a] = Const /\ m2[a] = m1[a])
    BY LaterWord
  <2>2. (t2[a] # Raw => t3[a] = t2[a]) /\ (t2[a] = Const => t3[a] = Const /\ m3[a] = m2[a])
    BY <2>1, LaterWord
  <2>3. QED
    BY <2>1, <2>2
<1>3. QED
  BY <1>1, <1>2 DEF Later

\* What a value is wrapped in stays so, with the value.
LEMMA WrapperStays ==
  ASSUME NEW m, NEW t, NEW m2, NEW t2, Later(m, t, m2, t2), NEW x, IsWrapper(m, t, x)
  PROVE  IsWrapper(m2, t2, x) /\ m2[x + 1] = m[x + 1]
BY LaterWord DEF IsWrapper

\* An entry stays one of its dictionary, with its key.
LEMMA EntryStays ==
  ASSUME NEW m, NEW t, NEW m2, NEW t2, Later(m, t, m2, t2), NEW e, NEW d, IsEntry(m, t, e, d)
  PROVE  IsEntry(m2, t2, e, d) /\ m2[e + 1] = m[e + 1]
<1>1. /\ e \in Nat /\ e + 1 \in 1..Len(m) /\ e + 2 \in 1..Len(m)
      /\ t[e + 1] = Const /\ t[e + 2] = Tag("value", d, m[e + 1])
  BY DEF IsEntry
<1>2. e + 1 \in 1..Len(m2) /\ t2[e + 1] = Const /\ m2[e + 1] = m[e + 1]
  BY <1>1, LaterWord
<1>3. e + 2 \in 1..Len(m2) /\ t2[e + 2] = Tag("value", d, m[e + 1])
  BY <1>1, LaterTag
<1>4. QED
  BY <1>1, <1>2, <1>3 DEF IsEntry

\* A bucket stays one of its dictionary.
LEMMA BucketStays ==
  ASSUME NEW m, NEW t, NEW m2, NEW t2, Later(m, t, m2, t2), NEW b, NEW d, IsBucket(m, t, b, d)
  PROVE  IsBucket(m2, t2, b, d)
<1>1. b \in Nat /\ b + 2 \in 1..Len(m) /\ t[b + 2] = Tag("bucket", d, 0)
  BY DEF IsBucket
<1>2. b + 2 \in 1..Len(m2) /\ t2[b + 2] = Tag("bucket", d, 0)
  BY <1>1, LaterTag
<1>3. QED
  BY <1>1, <1>2 DEF IsBucket

\* A string stays one, with its characters.
LEMMA StringStays ==
  ASSUME NEW m, NEW t, NEW m2, NEW t2, Later(m, t, m2, t2), NEW s, IsString(m, t, s)
  PROVE  /\ IsString(m2, t2, s) /\ m2[s + 1] = m[s + 1]
         /\ \A i \in 1..m[s + 1] : m2[s + 1 + i] = m[s + 1 + i]
<1>1. /\ s \in Nat /\ s + 1 \in 1..Len(m) /\ t[s + 1] = Const /\ m[s + 1] \in Nat
      /\ \A i \in 1..m[s + 1] : s + 1 + i \in 1..Len(m) /\ t[s + 1 + i] = Const
  BY DEF IsString
<1>2. s + 1 \in 1..Len(m2) /\ t2[s + 1] = Const /\ m2[s + 1] = m[s + 1]
  BY <1>1, LaterWord
<1>3. \A i \in 1..m[s + 1] : /\ s + 1 + i \in 1..Len(m2) /\ t2[s + 1 + i] = Const
                             /\ m2[s + 1 + i] = m[s + 1 + i]
  BY <1>1, LaterWord
<1>4. QED
  BY <1>1, <1>2, <1>3 DEF IsString

\* A dictionary stays one.
LEMMA DictStays ==
  ASSUME NEW m, NEW t, NEW m2, NEW t2, Later(m, t, m2, t2), NEW d, IsDict(m, t, d)
  PROVE  IsDict(m2, t2, d)
<1>1. d \in Nat /\ d + 3 \in 1..Len(m2) /\ t2[d + 3] = Const /\ m2[d + 3] = 8
  BY LaterWord DEF IsDict
<1>2. ASSUME NEW j \in 0..7
      PROVE  d + 4 + j \in 1..Len(m2) /\ t2[d + 4 + j] = Tag("slot", d, 0)
  <2>1. d + 4 + j \in 1..Len(m) /\ t[d + 4 + j] = Tag("slot", d, 0)
    BY DEF IsDict
  <2>2. QED
    BY <2>1, LaterTag
<1>3. QED
  BY <1>1, <1>2 DEF IsDict

\* An array stays one.
LEMMA ArrayStays ==
  ASSUME NEW m, NEW t, NEW m2, NEW t2, Later(m, t, m2, t2), NEW r, IsArray(m, t, r)
  PROVE  IsArray(m2, t2, r)
<1>1. r \in Nat /\ r + 2 \in 1..Len(m2) /\ t2[r + 2] = Const /\ m2[r + 2] = 2
  BY LaterWord DEF IsArray
<1>2. ASSUME NEW i \in 0..1
      PROVE  r + 3 + i \in 1..Len(m2) /\ t2[r + 3 + i] = Tag("data", r, 0)
  <2>1. r + 3 + i \in 1..Len(m) /\ t[r + 3 + i] = Tag("data", r, 0)
    BY DEF IsArray
  <2>2. QED
    BY <2>1, LaterTag
<1>3. QED
  BY <1>1, <1>2 DEF IsArray

\* A builder stays one, with the array it fills.
LEMMA BuilderStays ==
  ASSUME NEW m, NEW t, NEW m2, NEW t2, Later(m, t, m2, t2), NEW b, IsBuilder(m, t, b)
  PROVE  IsBuilder(m2, t2, b) /\ m2[b + 1] = m[b + 1]
<1>1. b \in Nat /\ b + 1 \in 1..Len(m2) /\ t2[b + 1] = Const /\ m2[b + 1] = m[b + 1]
  BY LaterWord DEF IsBuilder
<1>2. m[b + 1] \in Nat /\ m[b + 1] + 2 \in 1..Len(m) /\ t[m[b + 1] + 2] = Tag("strings", b, 0)
  BY DEF IsBuilder
<1>3. m[b + 1] + 2 \in 1..Len(m2) /\ t2[m[b + 1] + 2] = Tag("strings", b, 0)
  BY <1>2, LaterTag
<1>4. QED
  BY <1>1, <1>2, <1>3 DEF IsBuilder

-----------------------------------------------------------------------------
(* Steps that keep the layout. *)

\* What is counted is within the room.
LEMMA Within ==
  ASSUME NEW c \in Nat, NEW n \in 0..c, NEW i \in 1..n
  PROVE  i \in 1..c /\ n \in Nat
OBVIOUS

\* A word that is left alone goes on to fit,
LEMMA FitsStays ==
  ASSUME NEW m, NEW t, NEW m2, NEW t2, Later(m, t, m2, t2), NEW a \in 1..Len(m),
         Fits(m, t, a), t2[a] = t[a], m2[a] = m[a],
         \A i \in 1..m[a] : t[a][1] \in {"bucket", "strings"} => m2[a + i] = m[a + i]
  PROVE  Fits(m2, t2, a)
<1>1. ASSUME t[a][1] = "slot"
      PROVE  m[a] = 0 \/ IsBucket(m2, t2, m[a], t[a][2])
  BY <1>1, BucketStays DEF Fits
<1>2. ASSUME t[a][1] = "bucket"
      PROVE  HasEntries(m2, t2, a, t[a][2])
  <2>1. /\ m[a] \in 0..4
        /\ \A i \in 1..4 : a + i \in 1..Len(m) /\ t[a + i] = Tag("item", a, 0)
        /\ \A i \in 1..m[a] : IsEntry(m, t, m[a + i], t[a][2])
    BY <1>2 DEF Fits, HasEntries
  <2>2. \A i \in 1..4 : a + i \in 1..Len(m2) /\ t2[a + i] = Tag("item", a, 0)
    <3> TAKE i \in 1..4
    <3>1. a + i \in 1..Len(m) /\ t[a + i] = Tag("item", a, 0)
      BY <2>1
    <3>2. QED
      BY <3>1, LaterTag
  <2>3. \A i \in 1..m[a] : IsEntry(m2, t2, m2[a + i], t[a][2])
    BY <1>2, <2>1, EntryStays
  <2>4. QED
    BY <2>1, <2>2, <2>3 DEF HasEntries
<1>3. ASSUME t[a][1] = "value"
      PROVE  IsWrapper(m2, t2, m[a])
  BY <1>3, WrapperStays DEF Fits
<1>4. ASSUME t[a][1] = "strings"
      PROVE  HasStrings(m2, t2, a)
  <2>1. /\ m[a] \in 0..8
        /\ \A i \in 1..8 : a + i \in 1..Len(m) /\ t[a + i] = Tag("item", a, 0)
        /\ \A i \in 1..m[a] : IsString(m, t, m[a + i])
    BY <1>4 DEF Fits, HasStrings
  <2>2. \A i \in 1..8 : a + i \in 1..Len(m2) /\ t2[a + i] = Tag("item", a, 0)
    <3> TAKE i \in 1..8
    <3>1. a + i \in 1..Len(m) /\ t[a + i] = Tag("item", a, 0)
      BY <2>1
    <3>2. QED
      BY <3>1, LaterTag
  <2>3. \A i \in 1..m[a] : IsString(m2, t2, m2[a + i])
    BY <1>4, <2>1, StringStays
  <2>4. QED
    BY <2>1, <2>2, <2>3 DEF HasStrings
<1>5. QED
  BY <1>1, <1>2, <1>3, <1>4 DEF Fits

\* so words may be added and raw ones given tags, if these fit,
LEMMA ExtendLayout ==
  ASSUME NEW m, NEW t, NEW m2, NEW t2, Layout(m, t), m2 \in Seq(Int), Len(m) <= Len(m2),
         \A a \in 1..Len(m) : m2[a] = m[a] /\ (t[a] # Raw => t2[a] = t[a]),
         \A a \in 1..Len(m2) : a \notin 1..Len(m) \/ t[a] = Raw => Fits(m2, t2, a)
  PROVE  Layout(m2, t2) /\ Later(m, t, m2, t2)
<1>1. m \in Seq(Int) /\ Len(m) \in Nat /\ Len(m2) \in Nat
  BY LenProperties DEF Layout
<1>2. Later(m, t, m2, t2)
  BY <1>1 DEF Later
<1>3. ASSUME NEW a \in 1..Len(m2)
      PROVE  Fits(m2, t2, a)
  <2>1. CASE a \in 1..Len(m) /\ t[a] # Raw
    <3>1. Fits(m, t, a) /\ t2[a] = t[a] /\ m2[a] = m[a]
      BY <2>1 DEF Layout
    <3>2. \A i \in 1..m[a] : t[a][1] \in {"bucket", "strings"} => m2[a + i] = m[a + i]
      <4> SUFFICES ASSUME NEW i \in 1..m[a], t[a][1] \in {"bucket", "strings"}
                   PROVE  m2[a + i] = m[a + i]
        OBVIOUS
      <4>1. CASE t[a][1] = "bucket"
        <5>1. m[a] \in 0..4 /\ \A k \in 1..4 : a + k \in 1..Len(m)
          BY <3>1, <4>1 DEF Fits, HasEntries
        <5>2. i \in 1..4
          BY <5>1, Within
        <5>3. QED
          BY <5>1, <5>2
      <4>2. CASE t[a][1] = "strings"
        <5>1. m[a] \in 0..8 /\ \A k \in 1..8 : a + k \in 1..Len(m)
          BY <3>1, <4>2 DEF Fits, HasStrings
        <5>2. i \in 1..8
          BY <5>1, Within
        <5>3. QED
          BY <5>1, <5>2
      <4>3. QED
        BY <4>1, <4>2
    <3>3. QED
      BY <1>2, <2>1, <3>1, <3>2, FitsStays
  <2>2. QED
    BY <2>1
<1>4. QED
  BY <1>2, <1>3 DEF Layout

\* and one that is not constant may be stored to, if what is stored fits.  An item
\* is only stored to behind those the array counts.
Uncounted(m, t, x) == t[x][1] = "item" => x > t[x][2] + m[t[x][2]]

\* Storing what fits its tag in a word keeps the layout.
LEMMA PutLayout ==
  ASSUME NEW m, NEW t, Layout(m, t), NEW x \in 1..Len(m), t[x] # Const, NEW w \in Int,
         Uncounted(m, t, x), Fits([m EXCEPT ![x] = w], t, x)
  PROVE  Layout([m EXCEPT ![x] = w], t) /\ Later(m, t, [m EXCEPT ![x] = w], t)
<1> DEFINE m2 == [m EXCEPT ![x] = w]
<1>1. m \in Seq(Int) /\ Len(m) \in Nat
  BY LenProperties DEF Layout
<1>2. /\ m2 \in Seq(Int) /\ Len(m2) = Len(m)
      /\ \A a \in 1..Len(m) : m2[a] = IF a = x THEN w ELSE m[a]
  BY <1>1, ExceptSeq
<1> HIDE DEF m2
<1>3. Later(m, t, m2, t)
  BY <1>1, <1>2 DEF Later
<1>4. ASSUME NEW a \in 1..Len(m), a # x
      PROVE  Fits(m2, t, a)
  <2>1. Fits(m, t, a) /\ m2[a] = m[a]
    BY <1>2, <1>4 DEF Layout
  <2>2. \A i \in 1..m[a] : t[a][1] \in {"bucket", "strings"} => m2[a + i] = m[a + i]
    <3> SUFFICES ASSUME NEW i \in 1..m[a], t[a][1] \in {"bucket", "strings"}
                 PROVE  m2[a + i] = m[a + i]
      OBVIOUS
    <3>1. m[a] \in Nat /\ a + i \in 1..Len(m) /\ t[a + i] = Tag("item", a, 0)
      <4>1. CASE t[a][1] = "bucket"
        <5>1. m[a] \in 0..4 /\ \A k \in 1..4 : a + k \in 1..Len(m) /\ t[a + k] = Tag("item", a, 0)
          BY <2>1, <4>1 DEF Fits, HasEntries
        <5>2. i \in 1..4 /\ m[a] \in Nat
          BY <5>1, Within
        <5>3. QED
          BY <5>1, <5>2
      <4>2. CASE t[a][1] = "strings"
        <5>1. m[a] \in 0..8 /\ \A k \in 1..8 : a + k \in 1..Len(m) /\ t[a + k] = Tag("item", a, 0)
          BY <2>1, <4>2 DEF Fits, HasStrings
        <5>2. i \in 1..8 /\ m[a] \in Nat
          BY <5>1, Within
        <5>3. QED
          BY <5>1, <5>2
      <4>3. QED
        BY <4>1, <4>2
    <3>2. a + i # x
      <4> SUFFICES ASSUME a + i = x PROVE FALSE
        OBVIOUS
      <4>1. t[x][1] = "item" /\ t[x][2] = a
        BY <3>1, TagIs
      <4>2. x > a + m[a]
        BY <4>1 DEF Uncounted
      <4>3. QED
        BY <3>1, <4>2
    <3>3. QED
      BY <1>2, <3>1, <3>2
  <2>3. QED
    BY <1>3, <2>1, <2>2, FitsStays
<1>5. Fits(m2, t, x)
  BY DEF m2
<1>6. Layout(m2, t)
  BY <1>2, <1>4, <1>5 DEF Layout
<1>7. QED
  BY <1>3, <1>6 DEF m2

-----------------------------------------------------------------------------
(* Heaps: one that has been laid out, and one whose program has been aborted. *)

IsHeap(h) ==
  /\ h \in [mem : Seq(Int), used : Nat, ok : BOOLEAN]
  /\ Len(h.mem) <= PageWords

Alive(h, t) ==
  /\ IsHeap(h) /\ h.ok
  /\ h.used = Len(h.mem) /\ h.used <= PageWords
  /\ Layout(h.mem, t)

Dead(h) == IsHeap(h) /\ ~ h.ok

\* What is in the page is read and stored to.
LEMMA ReadWord ==
  ASSUME NEW h, IsHeap(h), NEW a \in 1..Len(h.mem)
  PROVE  Read(h, a) = h.mem[a] /\ Read(h, a) \in Int
BY LenProperties, ElementOfSeq DEF IsHeap, Read

\* A store within the page changes one word and neither the cursor nor the fate.
LEMMA WriteWord ==
  ASSUME NEW h, IsHeap(h), NEW a \in 1..Len(h.mem), NEW w \in Int
  PROVE  /\ IsHeap(Write(h, a, w))
         /\ Write(h, a, w).mem = [h.mem EXCEPT ![a] = w]
         /\ Write(h, a, w).used = h.used /\ Write(h, a, w).ok = h.ok
<1>1. /\ h.mem \in Seq(Int) /\ h.used \in Nat /\ h.ok \in BOOLEAN /\ a \in DOMAIN h.mem
      /\ Len(h.mem) \in Nat /\ Len(h.mem) <= PageWords /\ PageWords \in Nat
  BY LenProperties, PageSize DEF IsHeap
<1>2. [h.mem EXCEPT ![a] = w] \in Seq(Int) /\ Len([h.mem EXCEPT ![a] = w]) = Len(h.mem)
  BY <1>1, ExceptSeq
<1>3. Write(h, a, w) = [h EXCEPT !.mem[a] = w]
  <2>1. a \in Address /\ ~ (a > Len(h.mem))
    BY <1>1 DEF Address
  <2>2. QED
    BY <1>1, <2>1 DEF Write
<1>4. h = [mem |-> h.mem, used |-> h.used, ok |-> h.ok]
  BY DEF IsHeap
<1>5. Write(h, a, w) = [mem |-> [h.mem EXCEPT ![a] = w], used |-> h.used, ok |-> h.ok]
  BY <1>3, <1>4
<1>6. QED
  BY <1>1, <1>2, <1>5 DEF IsHeap

\* The words asked for are put behind the others, or the program is aborted.
Grown(h, words, g) ==
  /\ IsHeap(g) /\ g.ok /\ g.mem = h.mem \o words
  /\ g.used = h.used + Len(words) /\ g.used <= PageWords

\* Page::allocate puts the words behind the cursor, or the program aborts.
LEMMA AllocateGrows ==
  ASSUME NEW h, IsHeap(h), h.used = Len(h.mem), NEW words \in Seq(Int)
  PROVE  Dead(Allocate(h, words)) \/ Grown(h, words, Allocate(h, words))
<1>1. /\ h.mem \in Seq(Int) /\ h.used \in Nat /\ h.ok \in BOOLEAN
      /\ Len(h.mem) \in Nat /\ Len(words) \in Nat /\ Len(h.mem) <= PageWords
      /\ h = [mem |-> h.mem, used |-> h.used, ok |-> h.ok]
  BY LenProperties DEF IsHeap
<1> DEFINE kept == SubSeq(h.mem, 1, h.used) \o words
                     \o SubSeq(h.mem, h.used + Len(words) + 1, Len(h.mem))
<1>2. kept = h.mem \o words
  <2>1. SubSeq(h.mem, 1, h.used) = h.mem
    BY <1>1, SubSeqFull
  <2>2. SubSeq(h.mem, h.used + Len(words) + 1, Len(h.mem)) = <<>>
    <3>1. /\ h.used + Len(words) + 1 \in Int /\ Len(h.mem) \in Int
          /\ Len(h.mem) < h.used + Len(words) + 1
      BY <1>1
    <3>2. QED
      BY <3>1, SubSeqEmpty
  <2>3. h.mem \o words \in Seq(Int)
    BY <1>1, ConcatProperties
  <2>4. (h.mem \o words) \o <<>> = h.mem \o words
    BY <2>3, ConcatEmptySeq
  <2>5. QED
    BY <2>1, <2>2, <2>4
<1> HIDE DEF kept
<1>3. h.mem \o words \in Seq(Int) /\ Len(h.mem \o words) = Len(h.mem) + Len(words)
  BY <1>1, ConcatProperties
<1>4. CASE h.ok /\ h.used + Len(words) <= PageWords /\ Fresh(h, Len(words))
  <2>1. Allocate(h, words) = [h EXCEPT !.mem = kept, !.used = h.used + Len(words)]
    BY <1>4 DEF Allocate, kept
  <2>2. Allocate(h, words) = [mem |-> kept, used |-> h.used + Len(words), ok |-> h.ok]
    BY <1>1, <2>1
  <2>3. QED
    BY <1>1, <1>2, <1>3, <1>4, <2>2 DEF Grown, IsHeap
<1>5. CASE ~ (h.ok /\ h.used + Len(words) <= PageWords /\ Fresh(h, Len(words)))
  <2>1. Allocate(h, words) = [mem |-> h.mem, used |-> h.used, ok |-> FALSE]
    BY <1>1, <1>5 DEF Allocate
  <2>2. QED
    BY <1>1, <2>1 DEF Dead, IsHeap
<1>6. QED
  BY <1>4, <1>5

\* Zeroed words.
LEMMA ZerosAreWords ==
  ASSUME NEW n \in Nat
  PROVE  Zeros(n) \in Seq(Int) /\ Len(Zeros(n)) = n /\ \A i \in 1..n : Zeros(n)[i] = 0
<1>1. Zeros(n) \in [1..n -> Int]
  BY DEF Zeros
<1>2. Zeros(n) \in Seq(Int)
  BY <1>1, SeqDef
<1>3. QED
  BY <1>1, <1>2, LenProperties DEF Zeros

\* Nothing brings an aborted program back.
LEMMA DeadAllocate ==
  ASSUME NEW h, Dead(h), NEW words
  PROVE  Dead(Allocate(h, words))
<1>1. h = [mem |-> h.mem, used |-> h.used, ok |-> h.ok] /\ ~ h.ok
  BY DEF Dead, IsHeap
<1>2. Allocate(h, words) = [mem |-> h.mem, used |-> h.used, ok |-> FALSE]
  BY <1>1 DEF Allocate
<1>3. QED
  BY <1>2 DEF Dead, IsHeap

\* A store of an aborted program leaves it aborted.
LEMMA DeadWrite ==
  ASSUME NEW h, Dead(h), NEW a, NEW w \in Int
  PROVE  Dead(Write(h, a, w))
<1>1. /\ h = [mem |-> h.mem, used |-> h.used, ok |-> h.ok] /\ ~ h.ok
      /\ h.mem \in Seq(Int) /\ h.used \in Nat /\ h.ok \in BOOLEAN
      /\ Len(h.mem) \in Nat /\ DOMAIN h.mem = 1..Len(h.mem)
      /\ Len(h.mem) <= PageWords /\ PageWords \in Nat
  BY LenProperties, PageSize DEF Dead, IsHeap
<1>2. CASE a \in DOMAIN h.mem
  <2>1. a \in 1..Len(h.mem) /\ IsHeap(h)
    BY <1>1, <1>2 DEF Dead
  <2>2. QED
    BY <1>1, <2>1, WriteWord DEF Dead
<1>3. CASE a \notin DOMAIN h.mem /\ a \in Address
  <2>1. a \in Nat /\ a - 1 - Len(h.mem) \in Nat /\ a > Len(h.mem) /\ a <= PageWords
    BY <1>1, <1>3 DEF Address
  <2> DEFINE more == Append(Zeros(a - 1 - Len(h.mem)), w)
  <2>2. /\ Zeros(a - 1 - Len(h.mem)) \in Seq(Int)
        /\ Len(Zeros(a - 1 - Len(h.mem))) = a - 1 - Len(h.mem)
    BY <2>1, ZerosAreWords
  <2>3. more \in Seq(Int) /\ Len(more) = (a - 1 - Len(h.mem)) + 1
    BY <2>2, AppendProperties
  <2>4. h.mem \o more \in Seq(Int) /\ Len(h.mem \o more) = Len(h.mem) + Len(more)
    BY <1>1, <2>3, ConcatProperties
  <2>5. Write(h, a, w) = [h EXCEPT !.mem = @ \o more]
    BY <1>3, <2>1 DEF Write
  <2> HIDE DEF more
  <2>6. Write(h, a, w) = [mem |-> h.mem \o more, used |-> h.used, ok |-> h.ok]
    BY <1>1, <2>5
  <2>7. Len(h.mem \o more) <= PageWords
    BY <1>1, <2>1, <2>3, <2>4
  <2>8. QED
    BY <1>1, <2>4, <2>6, <2>7 DEF Dead, IsHeap
<1>4. CASE a \notin DOMAIN h.mem /\ a \notin Address
  <2>1. Write(h, a, w) = [h EXCEPT !.ok = FALSE]
    BY <1>4 DEF Write
  <2>2. Write(h, a, w) = [mem |-> h.mem, used |-> h.used, ok |-> FALSE]
    BY <1>1, <2>1
  <2>3. QED
    BY <1>1, <2>2 DEF Dead, IsHeap
<1>5. QED
  BY <1>2, <1>3, <1>4

\* A store, new tags and new words, for a heap that has been laid out.
LEMMA PutAlive ==
  ASSUME NEW h, NEW t, Alive(h, t), NEW x \in 1..Len(h.mem), t[x] # Const, NEW w \in Int,
         Uncounted(h.mem, t, x), Fits([h.mem EXCEPT ![x] = w], t, x)
  PROVE  LET g == Write(h, x, w)
         IN /\ Alive(g, t) /\ Later(h.mem, t, g.mem, t)
            /\ g.mem = [h.mem EXCEPT ![x] = w] /\ Len(g.mem) = Len(h.mem)
            /\ \A a \in 1..Len(h.mem) : g.mem[a] = IF a = x THEN w ELSE h.mem[a]
<1> DEFINE g == Write(h, x, w)
<1>1. IsHeap(h) /\ h.ok /\ h.used = Len(h.mem) /\ h.used <= PageWords /\ Layout(h.mem, t)
      /\ h.mem \in Seq(Int)
  BY DEF Alive, IsHeap
<1>2. IsHeap(g) /\ g.mem = [h.mem EXCEPT ![x] = w] /\ g.used = h.used /\ g.ok = h.ok
  <2>1. IsHeap(h)
    BY <1>1
  <2>2. QED
    BY ONLY <2>1, WriteWord, x \in 1..Len(h.mem), w \in Int
<1>3. /\ Len([h.mem EXCEPT ![x] = w]) = Len(h.mem)
      /\ \A a \in 1..Len(h.mem) : [h.mem EXCEPT ![x] = w][a] = IF a = x THEN w ELSE h.mem[a]
  BY <1>1, ExceptSeq
<1>4. Layout([h.mem EXCEPT ![x] = w], t) /\ Later(h.mem, t, [h.mem EXCEPT ![x] = w], t)
  BY <1>1, PutLayout
<1> HIDE DEF g
<1>5. Alive(g, t) /\ Later(h.mem, t, g.mem, t) /\ Len(g.mem) = Len(h.mem)
  BY <1>1, <1>2, <1>3, <1>4 DEF Alive
<1>6. QED
  BY <1>2, <1>3, <1>5 DEF g

\* A raw word can be given the purpose its value fits.
LEMMA RetagAlive ==
  ASSUME NEW h, NEW t, NEW t2, Alive(h, t),
         \A a \in 1..Len(h.mem) : t[a] # Raw => t2[a] = t[a],
         \A a \in 1..Len(h.mem) : t[a] = Raw => Fits(h.mem, t2, a)
  PROVE  Alive(h, t2) /\ Later(h.mem, t, h.mem, t2)
<1>1. Layout(h.mem, t) /\ h.mem \in Seq(Int) /\ Len(h.mem) \in Nat
  BY LenProperties DEF Alive, IsHeap
<1>2. Layout(h.mem, t2) /\ Later(h.mem, t, h.mem, t2)
  BY <1>1, ExtendLayout
<1>3. QED
  BY <1>2 DEF Alive

FitBehind(h, t, t2, words) ==
  /\ \A a \in 1..Len(h.mem) : t2[a] = t[a]
  /\ \A a \in (Len(h.mem) + 1)..(Len(h.mem) + Len(words)) : Fits(h.mem \o words, t2, a)

\* An allocation whose words fit their tags keeps the layout and all words before.
LEMMA GrowAlive ==
  ASSUME NEW h, NEW t, NEW t2, Alive(h, t), NEW words \in Seq(Int), Allocate(h, words).ok,
         FitBehind(h, t, t2, words)
  PROVE  LET g == Allocate(h, words)
         IN /\ Alive(g, t2) /\ Later(h.mem, t, g.mem, t2)
            /\ g.mem = h.mem \o words
            /\ Len(g.mem) = Len(h.mem) + Len(words)
            /\ \A a \in 1..Len(h.mem) : g.mem[a] = h.mem[a]
            /\ \A i \in 1..Len(words) : g.mem[Len(h.mem) + i] = words[i]
<1> DEFINE g == Allocate(h, words)
           m2 == h.mem \o words
<1>1. /\ IsHeap(h) /\ h.used = Len(h.mem) /\ Layout(h.mem, t) /\ h.mem \in Seq(Int)
      /\ Len(h.mem) \in Nat /\ Len(words) \in Nat
  BY LenProperties DEF Alive, IsHeap
<1>2. Grown(h, words, g)
  BY <1>1, AllocateGrows DEF Dead
<1>3. /\ m2 \in Seq(Int) /\ Len(m2) = Len(h.mem) + Len(words)
      /\ \A i \in 1..(Len(h.mem) + Len(words)) :
           m2[i] = IF i <= Len(h.mem) THEN h.mem[i] ELSE words[i - Len(h.mem)]
  BY <1>1, ConcatProperties
<1> HIDE DEF m2
<1>4. \A a \in 1..Len(h.mem) : m2[a] = h.mem[a]
  <2> TAKE a \in 1..Len(h.mem)
  <2>1. a \in 1..(Len(h.mem) + Len(words)) /\ a <= Len(h.mem)
    BY <1>1
  <2>2. QED
    BY <1>3, <2>1
<1>5. \A i \in 1..Len(words) : m2[Len(h.mem) + i] = words[i]
  <2> TAKE i \in 1..Len(words)
  <2>1. /\ Len(h.mem) + i \in 1..(Len(h.mem) + Len(words)) /\ ~ (Len(h.mem) + i <= Len(h.mem))
        /\ (Len(h.mem) + i) - Len(h.mem) = i
    BY <1>1
  <2>2. QED
    BY <1>3, <2>1
<1>6. \A a \in 1..Len(m2) : a \notin 1..Len(h.mem) \/ t[a] = Raw => Fits(m2, t2, a)
  <2> SUFFICES ASSUME NEW a \in 1..Len(m2), a \notin 1..Len(h.mem) \/ t[a] = Raw
               PROVE  Fits(m2, t2, a)
    OBVIOUS
  <2>1. CASE a \notin 1..Len(h.mem)
    <3>1. a \in (Len(h.mem) + 1)..(Len(h.mem) + Len(words))
      BY <1>1, <1>3, <2>1
    <3>2. QED
      BY <3>1 DEF m2, FitBehind
  <2>2. CASE a \in 1..Len(h.mem)
    <3>1. t2[a] = Raw
      BY <2>2 DEF FitBehind
    <3>2. t2[a][1] = "raw"
      BY <3>1, TagIs
    <3>3. QED
      BY <3>2 DEF Fits
  <2>3. QED
    BY <2>1, <2>2
<1>7. Layout(m2, t2) /\ Later(h.mem, t, m2, t2)
  <2>1. Len(h.mem) <= Len(m2)
    BY <1>1, <1>3
  <2>2. \A a \in 1..Len(h.mem) : m2[a] = h.mem[a] /\ (t[a] # Raw => t2[a] = t[a])
    BY <1>4 DEF FitBehind
  <2>3. QED
    BY <1>1, <1>3, <1>6, <2>1, <2>2, ExtendLayout
<1>8. g.mem = m2 /\ Alive(g, t2)
  BY <1>1, <1>2, <1>3, <1>7 DEF Grown, Alive, m2
<1> HIDE DEF g
<1>9. QED
  BY <1>3, <1>4, <1>5, <1>7, <1>8 DEF g, m2

\* An aborted program's heap says so.
LEMMA OkOrDead ==
  ASSUME NEW h, Dead(h)
  PROVE  ~ h.ok
BY DEF Dead

-----------------------------------------------------------------------------
(* What a program sees of its objects goes through Read. *)

Words(h) == 1..Len(h.mem)
TagAt(t, a) == t[a]

Becomes(h, t, g, u) == Alive(h, t) /\ Alive(g, u) /\ Later(h.mem, t, g.mem, u)

WrapperIn(h, t, x)  == Alive(h, t) /\ IsWrapper(h.mem, t, x)
EntryIn(h, t, e, d) == Alive(h, t) /\ IsEntry(h.mem, t, e, d)
BucketIn(h, t, b, d) == Alive(h, t) /\ IsBucket(h.mem, t, b, d)
DictIn(h, t, d)     == Alive(h, t) /\ IsDict(h.mem, t, d)
ArrayIn(h, t, r)    == Alive(h, t) /\ IsArray(h.mem, t, r)
StringIn(h, t, s)   == Alive(h, t) /\ IsString(h.mem, t, s)
BuilderIn(h, t, b)  == Alive(h, t) /\ IsBuilder(h.mem, t, b)

\* Where the words of an array and of an entry are.
LengthAt(r)  == r + 2
ItemAt(r, i) == r + 3 + i
KeyAt(e)     == e + 1
ValueAt(e)   == e + 2

\* Objects stay what they are.
LEMMA StaysIn ==
  ASSUME NEW h, NEW t, NEW g, NEW u, Becomes(h, t, g, u)
  PROVE  /\ \A x : WrapperIn(h, t, x) => WrapperIn(g, u, x)
         /\ \A e, d : EntryIn(h, t, e, d) => EntryIn(g, u, e, d)
         /\ \A b, d : BucketIn(h, t, b, d) => BucketIn(g, u, b, d)
         /\ \A d : DictIn(h, t, d) => DictIn(g, u, d)
         /\ \A r : ArrayIn(h, t, r) => ArrayIn(g, u, r)
         /\ \A s : StringIn(h, t, s) => StringIn(g, u, s)
         /\ \A b : BuilderIn(h, t, b) => BuilderIn(g, u, b)
<1>1. Later(h.mem, t, g.mem, u) /\ Alive(g, u)
  BY DEF Becomes
<1>2. \A x : WrapperIn(h, t, x) => WrapperIn(g, u, x)
  BY <1>1, WrapperStays DEF WrapperIn
<1>3. \A e, d : EntryIn(h, t, e, d) => EntryIn(g, u, e, d)
  BY <1>1, EntryStays DEF EntryIn
<1>4. \A b, d : BucketIn(h, t, b, d) => BucketIn(g, u, b, d)
  BY <1>1, BucketStays DEF BucketIn
<1>5. \A d : DictIn(h, t, d) => DictIn(g, u, d)
  BY <1>1, DictStays DEF DictIn
<1>6. \A r : ArrayIn(h, t, r) => ArrayIn(g, u, r)
  BY <1>1, ArrayStays DEF ArrayIn
<1>7. \A s : StringIn(h, t, s) => StringIn(g, u, s)
  BY <1>1, StringStays DEF StringIn
<1>8. \A b : BuilderIn(h, t, b) => BuilderIn(g, u, b)
  BY <1>1, BuilderStays DEF BuilderIn
<1>9. QED
  BY <1>2, <1>3, <1>4, <1>5, <1>6, <1>7, <1>8

\* A heap becomes another over any number of steps.
LEMMA BecomesIsTransitive ==
  ASSUME NEW h, NEW t, NEW g, NEW u, NEW j, NEW v, Becomes(h, t, g, u), Becomes(g, u, j, v)
  PROVE  Becomes(h, t, j, v)
<1>1. Later(h.mem, t, j.mem, v)
  BY LaterIsTransitive DEF Becomes
<1>2. QED
  BY <1>1 DEF Becomes

\* A heap becomes itself.
LEMMA BecomesItself ==
  ASSUME NEW h, NEW t, Alive(h, t)
  PROVE  Becomes(h, t, h, t)
BY LenProperties DEF Becomes, Later, Alive, IsHeap

\* A constant word is read the same.
LEMMA SameConst ==
  ASSUME NEW h, NEW t, NEW g, NEW u, Becomes(h, t, g, u), NEW a \in Words(h)
  PROVE  /\ a \in Words(g) /\ Read(h, a) = h.mem[a] /\ Read(g, a) = g.mem[a]
         /\ Read(h, a) \in Int /\ Read(g, a) \in Int
         /\ TagAt(t, a) # Raw => TagAt(u, a) = TagAt(t, a)
         /\ TagAt(t, a) = Const => Read(g, a) = Read(h, a)
<1>1. IsHeap(h) /\ IsHeap(g) /\ Later(h.mem, t, g.mem, u) /\ a \in 1..Len(h.mem)
  BY DEF Becomes, Alive, Words
<1>2. /\ a \in 1..Len(g.mem) /\ (t[a] # Raw => u[a] = t[a])
      /\ (t[a] = Const => g.mem[a] = h.mem[a])
  BY <1>1, LaterWord
<1>3. Read(h, a) = h.mem[a] /\ Read(h, a) \in Int
  BY <1>1, ReadWord
<1>4. Read(g, a) = g.mem[a] /\ Read(g, a) \in Int
  BY <1>1, <1>2, ReadWord
<1>5. QED
  BY <1>2, <1>3, <1>4 DEF Words, TagAt

\* A word of the page holds what its tag says.
LEMMA HeapWord ==
  ASSUME NEW h, NEW t, Alive(h, t), NEW a, a \in 1..Len(h.mem)
  PROVE  Read(h, a) = h.mem[a] /\ Read(h, a) \in Int /\ Fits(h.mem, t, a)
<1>1. IsHeap(h) /\ Layout(h.mem, t)
  BY DEF Alive
<1>2. QED
  BY <1>1, ReadWord DEF Layout

\* The bucket of a key, if there is one.
BucketOf(h, d, k) == Read(h, BucketSlot(h, d, k))

\* A key selects a slot of its dictionary: no bucket, or one of this dictionary.
LEMMA SlotIs ==
  ASSUME NEW h, NEW t, NEW d, DictIn(h, t, d), NEW k \in Int
  PROVE  /\ BucketSlot(h, d, k) \in Words(h)
         /\ TagAt(t, BucketSlot(h, d, k)) = Tag("slot", d, 0)
         /\ BucketOf(h, d, k) # 0 => BucketIn(h, t, BucketOf(h, d, k), d)
<1>1. /\ Alive(h, t) /\ d \in Nat /\ d + 3 \in 1..Len(h.mem) /\ h.mem[d + 3] = 8
      /\ \A j \in 0..7 : d + 4 + j \in 1..Len(h.mem) /\ t[d + 4 + j] = Tag("slot", d, 0)
  BY DEF DictIn, IsDict
<1>2. k % 8 \in 0..7
  OBVIOUS
<1>3. Read(h, d + 3) = 8
  BY <1>1, HeapWord
<1>4. BucketSlot(h, d, k) = d + 4 + (k % 8)
  BY <1>3 DEF BucketSlot
<1> DEFINE x == BucketSlot(h, d, k)
<1>5. x \in 1..Len(h.mem) /\ t[x] = Tag("slot", d, 0)
  BY <1>1, <1>2, <1>4
<1> HIDE DEF x
<1>6. Read(h, x) = h.mem[x] /\ Fits(h.mem, t, x)
  BY <1>1, <1>5, HeapWord
<1>7. h.mem[x] = 0 \/ IsBucket(h.mem, t, h.mem[x], d)
  <2>1. t[x][1] = "slot" /\ t[x][2] = d
    BY <1>5, TagIs
  <2>2. QED
    BY <1>6, <2>1 DEF Fits
<1>8. x \in Words(h) /\ TagAt(t, x) = Tag("slot", d, 0)
  BY <1>5 DEF Words, TagAt
<1>9. Read(h, x) # 0 => BucketIn(h, t, Read(h, x), d)
  BY <1>1, <1>6, <1>7 DEF BucketIn
<1>10. QED
  BY <1>8, <1>9 DEF BucketOf, x

\* The slot of a key stays the same.
LEMMA SameSlot ==
  ASSUME NEW h, NEW t, NEW g, NEW u, Becomes(h, t, g, u), NEW d, DictIn(h, t, d), NEW k
  PROVE  BucketSlot(g, d, k) = BucketSlot(h, d, k)
<1>1. DictIn(g, u, d)
  BY StaysIn
<1>2. Alive(h, t) /\ d + 3 \in 1..Len(h.mem) /\ h.mem[d + 3] = 8
  BY DEF DictIn, IsDict
<1>3. Alive(g, u) /\ d + 3 \in 1..Len(g.mem) /\ g.mem[d + 3] = 8
  BY <1>1 DEF DictIn, IsDict
<1>4. Read(h, d + 3) = 8
  BY <1>2, HeapWord
<1>5. Read(g, d + 3) = 8
  BY <1>3, HeapWord
<1>6. QED
  BY <1>4, <1>5 DEF BucketSlot

\* What is in a bucket and in an entry.
LEMMA BucketIs ==
  ASSUME NEW h, NEW t, NEW b, NEW d, BucketIn(h, t, b, d)
  PROVE  /\ b \in Nat /\ LengthAt(b) \in Words(h) /\ TagAt(t, LengthAt(b)) = Tag("bucket", d, 0)
         /\ ArrayLength(h, b) = Read(h, LengthAt(b)) /\ ArrayLength(h, b) \in 0..4
         /\ \A i \in 0..3 : /\ ItemAt(b, i) \in Words(h)
                            /\ TagAt(t, ItemAt(b, i)) = Tag("item", LengthAt(b), 0)
         /\ \A i \in 0..(ArrayLength(h, b) - 1) : i \in 0..3 /\ EntryIn(h, t, ArrayGet(h, b, i), d)
<1> DEFINE a == LengthAt(b)
<1>1. Alive(h, t) /\ b \in Nat /\ a \in 1..Len(h.mem) /\ t[a] = Tag("bucket", d, 0)
  BY DEF BucketIn, IsBucket, LengthAt
<1>2. a = b + 2
  BY DEF LengthAt
<1> HIDE DEF a
<1>3. Read(h, a) = h.mem[a] /\ HasEntries(h.mem, t, a, d)
  <2>1. t[a][1] = "bucket" /\ t[a][2] = d
    BY <1>1, TagIs
  <2>2. Read(h, a) = h.mem[a] /\ Fits(h.mem, t, a)
    BY <1>1, HeapWord
  <2>3. QED
    BY <2>1, <2>2 DEF Fits
<1>4. /\ h.mem[a] \in 0..4
      /\ \A i \in 1..4 : a + i \in 1..Len(h.mem) /\ t[a + i] = Tag("item", a, 0)
      /\ \A i \in 1..h.mem[a] : IsEntry(h.mem, t, h.mem[a + i], d)
  BY <1>3 DEF HasEntries
<1>5. ArrayLength(h, b) = Read(h, a)
  BY <1>2 DEF ArrayLength
<1>6. ASSUME NEW i \in 0..3
      PROVE  ItemAt(b, i) \in 1..Len(h.mem) /\ t[ItemAt(b, i)] = Tag("item", a, 0)
  <2>1. a + (i + 1) \in 1..Len(h.mem) /\ t[a + (i + 1)] = Tag("item", a, 0)
    BY <1>4
  <2>2. ItemAt(b, i) = a + (i + 1)
    BY <1>1, <1>2 DEF ItemAt
  <2>3. QED
    BY <2>1, <2>2
<1>7. ASSUME NEW i \in 0..(ArrayLength(h, b) - 1)
      PROVE  i \in 0..3 /\ EntryIn(h, t, ArrayGet(h, b, i), d)
  <2>1. \A n \in 0..4 : \A j \in 0..(n - 1) : j \in 0..3 /\ j + 1 \in 1..n
    OBVIOUS
  <2>2. i \in 0..3 /\ i + 1 \in 1..h.mem[a]
    BY <1>3, <1>4, <1>5, <2>1
  <2>3. IsEntry(h.mem, t, h.mem[a + (i + 1)], d)
    BY <1>4, <2>2
  <2>4. ItemAt(b, i) = a + (i + 1)
    BY <1>1, <1>2, <2>2 DEF ItemAt
  <2>5. ItemAt(b, i) \in 1..Len(h.mem)
    BY <1>6, <2>2
  <2>6. Read(h, ItemAt(b, i)) = h.mem[ItemAt(b, i)]
    BY <1>1, <2>5, HeapWord
  <2>7. ArrayGet(h, b, i) = h.mem[a + (i + 1)]
    BY <2>4, <2>6 DEF ArrayGet, ItemAt
  <2>8. QED
    BY <1>1, <2>2, <2>3, <2>7 DEF EntryIn
<1>8. ArrayLength(h, b) \in 0..4
  BY <1>3, <1>4, <1>5
<1>9. QED
  BY <1>1, <1>5, <1>6, <1>7, <1>8 DEF a, Words, TagAt

\* The words of an entry: its key, which nobody writes, and the wrapped value.
LEMMA EntryIs ==
  ASSUME NEW h, NEW t, NEW e, NEW d, EntryIn(h, t, e, d)
  PROVE  /\ e \in Nat /\ KeyAt(e) \in Words(h) /\ ValueAt(e) \in Words(h)
         /\ EntryKey(h, e) = Read(h, KeyAt(e)) /\ EntryValue(h, e) = Read(h, ValueAt(e))
         /\ TagAt(t, KeyAt(e)) = Const
         /\ TagAt(t, ValueAt(e)) = Tag("value", d, EntryKey(h, e))
         /\ WrapperIn(h, t, EntryValue(h, e))
<1> DEFINE p == KeyAt(e)
           q == ValueAt(e)
<1>1. /\ Alive(h, t) /\ e \in Nat /\ p \in 1..Len(h.mem) /\ q \in 1..Len(h.mem)
      /\ t[p] = Const /\ t[q] = Tag("value", d, h.mem[p])
  BY DEF EntryIn, IsEntry, KeyAt, ValueAt
<1>2. EntryKey(h, e) = Read(h, p) /\ EntryValue(h, e) = Read(h, q)
  BY DEF EntryKey, EntryValue, KeyAt, ValueAt
<1> HIDE DEF p, q
<1>3. Read(h, p) = h.mem[p]
  BY <1>1, HeapWord
<1>4. Read(h, q) = h.mem[q] /\ Fits(h.mem, t, q)
  BY <1>1, HeapWord
<1>5. t[q][1] = "value"
  BY <1>1, TagIs
<1>6. WrapperIn(h, t, Read(h, q))
  BY <1>1, <1>4, <1>5 DEF WrapperIn, Fits
<1>7. QED
  BY <1>1, <1>2, <1>3, <1>6 DEF p, q, Words, TagAt

\* A key and a wrapped value are read the same.
LEMMA SameKey ==
  ASSUME NEW h, NEW t, NEW g, NEW u, Becomes(h, t, g, u), NEW e, NEW d, EntryIn(h, t, e, d)
  PROVE  EntryIn(g, u, e, d) /\ EntryKey(g, e) = EntryKey(h, e)
<1>1. EntryIn(g, u, e, d)
  BY StaysIn
<1>2. KeyAt(e) \in Words(h) /\ EntryKey(h, e) = Read(h, KeyAt(e)) /\ TagAt(t, KeyAt(e)) = Const
  BY EntryIs
<1>3. EntryKey(g, e) = Read(g, KeyAt(e))
  BY <1>1, EntryIs
<1>4. Read(g, KeyAt(e)) = Read(h, KeyAt(e))
  BY <1>2, SameConst
<1>5. QED
  BY <1>1, <1>2, <1>3, <1>4

\* A wrapped value is never Nil, and stays what it is.
LEMMA SameWrapped ==
  ASSUME NEW h, NEW t, NEW g, NEW u, Becomes(h, t, g, u), NEW x, WrapperIn(h, t, x)
  PROVE  x # Nil /\ x # 0 - 1 /\ Wrapped(h, x) = Read(h, x + 1) /\ Wrapped(g, x) = Wrapped(h, x)
<1>1. x \in Nat /\ x + 1 \in Words(h) /\ TagAt(t, x + 1) = Const
  BY DEF WrapperIn, IsWrapper, Words, TagAt
<1>2. Read(g, x + 1) = Read(h, x + 1)
  BY <1>1, SameConst
<1>3. x # Nil
  BY <1>1 DEF Nil
<1>4. QED
  BY <1>1, <1>2, <1>3 DEF Wrapped, Nil


-----------------------------------------------------------------------------
(* What a program sees. *)

ValueIn(h, d, k) == Wrapped(h, DictGet(h, d, k))
ItemsIn(h, r)    == [i \in 1..ArrayLength(h, r) |-> ArrayGet(h, r, i - 1)]

\* The entry of a key that has one.
FoundAt(h, b, k) == ArrayGet(h, b, Min(Matches(h, b, k)))

\* What a key finds in a bucket is an entry with this key.
LEMMA FoundIs ==
  ASSUME NEW h, NEW t, NEW b, NEW d, BucketIn(h, t, b, d), NEW k, Matches(h, b, k) # {}
  PROVE  /\ Min(Matches(h, b, k)) \in Matches(h, b, k)
         /\ Min(Matches(h, b, k)) \in 0..(ArrayLength(h, b) - 1)
         /\ EntryIn(h, t, FoundAt(h, b, k), d) /\ EntryKey(h, FoundAt(h, b, k)) = k
<1>1. Matches(h, b, k) \subseteq Nat
  <2>1. ArrayLength(h, b) \in Int
    BY BucketIs
  <2>2. QED
    BY <2>1 DEF Matches
<1>2. \E n \in Matches(h, b, k) : \A i \in Matches(h, b, k) : n <= i
  BY <1>1, LeastElement
<1> DEFINE least == Min(Matches(h, b, k))
<1>3. least \in Matches(h, b, k)
  BY <1>2 DEF Min
<1> HIDE DEF least
<1>4. least \in 0..(ArrayLength(h, b) - 1) /\ EntryKey(h, ArrayGet(h, b, least)) = k
  BY <1>3 DEF Matches
<1>5. EntryIn(h, t, ArrayGet(h, b, least), d)
  BY <1>4, BucketIs
<1>6. QED
  BY <1>3, <1>4, <1>5 DEF FoundAt, least

\* What get finds.
LEMMA GetIs ==
  ASSUME NEW h, NEW d, NEW k
  PROVE  LET b == BucketOf(h, d, k)
         IN /\ b = 0 \/ Matches(h, b, k) = {} => DictGet(h, d, k) = Nil /\ ValueIn(h, d, k) = Nil
            /\ b # 0 /\ Matches(h, b, k) # {} =>
                 DictGet(h, d, k) = EntryValue(h, FoundAt(h, b, k))
<1> DEFINE b == BucketOf(h, d, k)
<1>1. Read(h, BucketSlot(h, d, k)) = b
  BY DEF BucketOf
<1> HIDE DEF b
<1>2. ASSUME b = 0 \/ Matches(h, b, k) = {}
      PROVE  DictGet(h, d, k) = Nil
  BY <1>1, <1>2 DEF DictGet
<1>3. Wrapped(h, Nil) = Nil
  BY DEF Wrapped
<1>4. ASSUME b # 0 /\ Matches(h, b, k) # {}
      PROVE  DictGet(h, d, k) = EntryValue(h, FoundAt(h, b, k))
  BY <1>1, <1>4 DEF DictGet, FoundAt
<1>5. QED
  BY <1>2, <1>3, <1>4 DEF b, ValueIn

\* What there is of a key in a bucket is the same.
SameMatches(h, g, b, k) ==
  /\ Matches(g, b, k) = Matches(h, b, k)
  /\ Matches(h, b, k) # {} =>
       /\ FoundAt(g, b, k) = FoundAt(h, b, k)
       /\ EntryValue(g, FoundAt(h, b, k)) = EntryValue(h, FoundAt(h, b, k))

\* Then the program sees the same value,
LEMMA SameValue ==
  ASSUME NEW h, NEW t, NEW g, NEW u, Becomes(h, t, g, u), NEW d, DictIn(h, t, d), NEW k \in Int,
         BucketOf(g, d, k) = BucketOf(h, d, k),
         BucketOf(h, d, k) # 0 => SameMatches(h, g, BucketOf(h, d, k), k)
  PROVE  ValueIn(g, d, k) = ValueIn(h, d, k)
<1> DEFINE b == BucketOf(h, d, k)
<1>1. CASE b = 0 \/ Matches(h, b, k) = {}
  <2>1. ValueIn(h, d, k) = Nil
    BY <1>1, GetIs
  <2>2. BucketOf(g, d, k) = 0 \/ Matches(g, BucketOf(g, d, k), k) = {}
    BY <1>1 DEF SameMatches
  <2>3. ValueIn(g, d, k) = Nil
    BY <2>2, GetIs
  <2>4. QED
    BY <2>1, <2>3
<1>2. CASE b # 0 /\ Matches(h, b, k) # {}
  <2> DEFINE e == FoundAt(h, b, k)
  <2>1. BucketIn(h, t, b, d)
    BY <1>2, SlotIs
  <2>2. DictGet(h, d, k) = EntryValue(h, e)
    BY <1>2, GetIs
  <2>3. DictGet(g, d, k) = EntryValue(g, FoundAt(g, b, k))
    <3>1. BucketOf(g, d, k) # 0 /\ Matches(g, BucketOf(g, d, k), k) # {}
      BY <1>2 DEF SameMatches
    <3>2. QED
      BY <3>1, GetIs
  <2> HIDE DEF b
  <2>4. FoundAt(g, b, k) = e /\ EntryValue(g, e) = EntryValue(h, e)
    BY <1>2 DEF SameMatches, b
  <2>5. EntryIn(h, t, e, d)
    BY <1>2, <2>1, FoundIs
  <2> HIDE DEF e
  <2>6. WrapperIn(h, t, EntryValue(h, e))
    BY <2>5, EntryIs
  <2>7. Wrapped(g, EntryValue(h, e)) = Wrapped(h, EntryValue(h, e))
    BY <2>6, SameWrapped
  <2>8. QED
    BY <2>2, <2>3, <2>4, <2>7 DEF ValueIn
<1>3. QED
  BY <1>1, <1>2

\* as long as the bucket's entries are where they were and hold what they held, and
\* the entries that have been added are of other keys.
BucketKept(h, t, g, d, b, k) ==
  /\ ArrayLength(h, b) <= ArrayLength(g, b)
  /\ \A i \in 0..(ArrayLength(h, b) - 1) : ArrayGet(g, b, i) = ArrayGet(h, b, i)
  /\ \A i \in 0..(ArrayLength(g, b) - 1) :
       i \in 0..(ArrayLength(h, b) - 1) \/ EntryKey(g, ArrayGet(g, b, i)) # k
  /\ \A a \in Words(h) : TagAt(t, a) = Tag("value", d, k) => Read(g, a) = Read(h, a)

\* A bucket whose entries are kept has the same matches of a key.
LEMMA SameBucket ==
  ASSUME NEW h, NEW t, NEW g, NEW u, Becomes(h, t, g, u), NEW d, NEW b, BucketIn(h, t, b, d),
         NEW k, BucketKept(h, t, g, d, b, k)
  PROVE  SameMatches(h, g, b, k)
<1>1. BucketIn(g, u, b, d)
  BY StaysIn
<1>2. ASSUME NEW i \in 0..(ArrayLength(h, b) - 1)
      PROVE  /\ i \in 0..(ArrayLength(g, b) - 1)
             /\ ArrayGet(g, b, i) = ArrayGet(h, b, i)
             /\ EntryKey(g, ArrayGet(h, b, i)) = EntryKey(h, ArrayGet(h, b, i))
  <2>1. ArrayLength(h, b) \in Int /\ EntryIn(h, t, ArrayGet(h, b, i), d)
    BY BucketIs
  <2>2. ArrayLength(g, b) \in Int
    BY <1>1, BucketIs
  <2>3. \A n, o \in Int : n <= o => \A j \in 0..(n - 1) : j \in 0..(o - 1)
    OBVIOUS
  <2>4. i \in 0..(ArrayLength(g, b) - 1)
    BY <2>1, <2>2, <2>3 DEF BucketKept
  <2>5. EntryKey(g, ArrayGet(h, b, i)) = EntryKey(h, ArrayGet(h, b, i))
    BY <2>1, SameKey
  <2>6. QED
    BY <2>4, <2>5 DEF BucketKept
<1>3. Matches(g, b, k) = Matches(h, b, k)
  <2>1. ASSUME NEW i
        PROVE  i \in Matches(g, b, k) <=> i \in Matches(h, b, k)
    BY <1>2 DEF Matches, BucketKept
  <2>2. QED
    BY <2>1
<1>4. ASSUME Matches(h, b, k) # {}
      PROVE  /\ FoundAt(g, b, k) = FoundAt(h, b, k)
             /\ EntryValue(g, FoundAt(h, b, k)) = EntryValue(h, FoundAt(h, b, k))
  <2>1. /\ Min(Matches(h, b, k)) \in 0..(ArrayLength(h, b) - 1)
        /\ EntryIn(h, t, FoundAt(h, b, k), d) /\ EntryKey(h, FoundAt(h, b, k)) = k
    BY <1>4, FoundIs
  <2>2. FoundAt(g, b, k) = FoundAt(h, b, k)
    BY <1>2, <1>3, <2>1 DEF FoundAt
  <2> DEFINE e == FoundAt(h, b, k)
  <2> HIDE DEF e
  <2>3. EntryIn(h, t, e, d) /\ EntryKey(h, e) = k
    BY <2>1 DEF e
  <2>4. /\ ValueAt(e) \in Words(h) /\ TagAt(t, ValueAt(e)) = Tag("value", d, k)
        /\ EntryValue(h, e) = Read(h, ValueAt(e))
    BY <2>3, EntryIs
  <2>5. EntryIn(g, u, e, d)
    BY <2>3, StaysIn
  <2>6. EntryValue(g, e) = Read(g, ValueAt(e))
    BY <2>5, EntryIs
  <2>7. EntryValue(g, e) = EntryValue(h, e)
    BY <2>4, <2>6 DEF BucketKept
  <2>8. QED
    BY <2>2, <2>7 DEF e
<1>5. QED
  BY <1>3, <1>4 DEF SameMatches

-----------------------------------------------------------------------------
(* Arrays, strings and builders. *)

\* The words of an array.
LEMMA ArrayIs ==
  ASSUME NEW h, NEW t, NEW r, ArrayIn(h, t, r)
  PROVE  /\ r \in Nat /\ ArrayLength(h, r) = 2
         /\ \A i \in 0..1 : /\ ItemAt(r, i) \in Words(h)
                            /\ TagAt(t, ItemAt(r, i)) = Tag("data", r, 0)
                            /\ ArrayGet(h, r, i) = Read(h, ItemAt(r, i))
<1>1. /\ Alive(h, t) /\ r \in Nat /\ r + 2 \in 1..Len(h.mem) /\ h.mem[r + 2] = 2
      /\ \A i \in 0..1 : r + 3 + i \in 1..Len(h.mem) /\ t[r + 3 + i] = Tag("data", r, 0)
  BY DEF ArrayIn, IsArray
<1>2. Read(h, r + 2) = 2
  BY <1>1, HeapWord
<1>3. ArrayLength(h, r) = 2
  BY <1>2 DEF ArrayLength
<1>4. QED
  BY <1>1, <1>3 DEF ItemAt, Words, TagAt, ArrayGet

\* An array keeps its length.
LEMMA SameArrayLength ==
  ASSUME NEW h, NEW t, NEW g, NEW u, Becomes(h, t, g, u), NEW r, ArrayIn(h, t, r)
  PROVE  ArrayLength(g, r) = ArrayLength(h, r)
<1>1. ArrayIn(g, u, r)
  BY StaysIn
<1>2. QED
  BY <1>1, ArrayIs

\* A string keeps its characters.
LEMMA SameString ==
  ASSUME NEW h, NEW t, NEW g, NEW u, Becomes(h, t, g, u), NEW s, StringIn(h, t, s)
  PROVE  StringAt(g, s) = StringAt(h, s) /\ Read(h, s + 1) \in Nat
<1>1. /\ Later(h.mem, t, g.mem, u) /\ IsString(h.mem, t, s) /\ Alive(h, t) /\ Alive(g, u)
  BY DEF StringIn, Becomes
<1>2. /\ IsString(g.mem, u, s) /\ g.mem[s + 1] = h.mem[s + 1]
      /\ \A i \in 1..h.mem[s + 1] : g.mem[s + 1 + i] = h.mem[s + 1 + i]
  BY <1>1, StringStays
<1>3. /\ s \in Nat /\ s + 1 \in 1..Len(h.mem) /\ h.mem[s + 1] \in Nat
      /\ \A i \in 1..h.mem[s + 1] : s + 1 + i \in 1..Len(h.mem)
  BY <1>1 DEF IsString
<1>4. s + 1 \in 1..Len(g.mem) /\ \A i \in 1..g.mem[s + 1] : s + 1 + i \in 1..Len(g.mem)
  BY <1>2 DEF IsString
<1>5. Read(h, s + 1) = h.mem[s + 1]
  BY <1>1, <1>3, HeapWord
<1>6. Read(g, s + 1) = h.mem[s + 1]
  BY <1>1, <1>2, <1>4, HeapWord
<1>7. ASSUME NEW i \in 1..h.mem[s + 1]
      PROVE  Read(g, s + 1 + i) = Read(h, s + 1 + i)
  <2>1. s + 1 + i \in 1..Len(h.mem) /\ s + 1 + i \in 1..Len(g.mem)
    BY <1>2, <1>3, <1>4
  <2>2. Read(h, s + 1 + i) = h.mem[s + 1 + i]
    BY <1>1, <2>1, HeapWord
  <2>3. Read(g, s + 1 + i) = g.mem[s + 1 + i]
    BY <1>1, <2>1, HeapWord
  <2>4. QED
    BY <1>2, <2>2, <2>3
<1>8. QED
  BY <1>3, <1>5, <1>6, <1>7 DEF StringAt

\* The array of a builder, and what is in it.
StringsOf(h, b) == Read(h, b + 1)

\* The words of a builder: its array, of at most eight strings.
LEMMA BuilderIs ==
  ASSUME NEW h, NEW t, NEW b, BuilderIn(h, t, b)
  PROVE  LET r == StringsOf(h, b)
         IN /\ b \in Nat /\ b + 1 \in Words(h) /\ TagAt(t, b + 1) = Const
            /\ r \in Nat /\ LengthAt(r) \in Words(h)
            /\ TagAt(t, LengthAt(r)) = Tag("strings", b, 0)
            /\ ArrayLength(h, r) = Read(h, LengthAt(r)) /\ ArrayLength(h, r) \in 0..8
            /\ \A i \in 0..7 : /\ ItemAt(r, i) \in Words(h)
                               /\ TagAt(t, ItemAt(r, i)) = Tag("item", LengthAt(r), 0)
            /\ \A i \in 0..(ArrayLength(h, r) - 1) :
                 i \in 0..7 /\ StringIn(h, t, ArrayGet(h, r, i))
<1> DEFINE r == StringsOf(h, b)
           a == LengthAt(r)
<1>1. /\ Alive(h, t) /\ b \in Nat /\ b + 1 \in 1..Len(h.mem) /\ t[b + 1] = Const
      /\ r \in Nat /\ a \in 1..Len(h.mem) /\ t[a] = Tag("strings", b, 0)
  <2>1. /\ Alive(h, t) /\ b \in Nat /\ b + 1 \in 1..Len(h.mem) /\ t[b + 1] = Const
        /\ h.mem[b + 1] \in Nat /\ h.mem[b + 1] + 2 \in 1..Len(h.mem)
        /\ t[h.mem[b + 1] + 2] = Tag("strings", b, 0)
    BY DEF BuilderIn, IsBuilder
  <2>2. r = h.mem[b + 1]
    <3>1. Read(h, b + 1) = h.mem[b + 1]
      BY <2>1, HeapWord
    <3>2. QED
      BY <3>1 DEF StringsOf
  <2> HIDE DEF r
  <2>3. QED
    BY <2>1, <2>2 DEF LengthAt
<1> HIDE DEF r
<1>2. a = r + 2
  BY DEF LengthAt
<1> HIDE DEF a
<1>3. Read(h, a) = h.mem[a] /\ HasStrings(h.mem, t, a)
  <2>1. t[a][1] = "strings"
    BY <1>1, TagIs
  <2>2. Read(h, a) = h.mem[a] /\ Fits(h.mem, t, a)
    BY <1>1, HeapWord
  <2>3. QED
    BY <2>1, <2>2 DEF Fits
<1>4. /\ h.mem[a] \in 0..8
      /\ \A i \in 1..8 : a + i \in 1..Len(h.mem) /\ t[a + i] = Tag("item", a, 0)
      /\ \A i \in 1..h.mem[a] : IsString(h.mem, t, h.mem[a + i])
  BY <1>3 DEF HasStrings
<1>5. ArrayLength(h, r) = Read(h, a)
  BY <1>2 DEF ArrayLength
<1>6. ASSUME NEW i \in 0..7
      PROVE  ItemAt(r, i) \in 1..Len(h.mem) /\ t[ItemAt(r, i)] = Tag("item", a, 0)
  <2>1. a + (i + 1) \in 1..Len(h.mem) /\ t[a + (i + 1)] = Tag("item", a, 0)
    <3>1. i + 1 \in 1..8
      OBVIOUS
    <3>2. QED
      BY ONLY <1>4, <3>1
  <2>2. ItemAt(r, i) = a + (i + 1)
    BY <1>1, <1>2 DEF ItemAt
  <2>3. QED
    BY <2>1, <2>2
<1>7. ASSUME NEW i \in 0..(ArrayLength(h, r) - 1)
      PROVE  i \in 0..7 /\ StringIn(h, t, ArrayGet(h, r, i))
  <2>1. \A n \in 0..8 : \A j \in 0..(n - 1) : j \in 0..7 /\ j + 1 \in 1..n
    OBVIOUS
  <2>2. i \in 0..7 /\ i + 1 \in 1..h.mem[a]
    BY <1>3, <1>4, <1>5, <2>1
  <2>3. IsString(h.mem, t, h.mem[a + (i + 1)])
    BY <1>4, <2>2
  <2>4. ItemAt(r, i) = a + (i + 1)
    BY <1>1, <1>2, <2>2 DEF ItemAt
  <2>5. ItemAt(r, i) \in 1..Len(h.mem)
    BY <1>6, <2>2
  <2>6. Read(h, ItemAt(r, i)) = h.mem[ItemAt(r, i)]
    BY <1>1, <2>5, HeapWord
  <2>7. ArrayGet(h, r, i) = h.mem[a + (i + 1)]
    BY <2>4, <2>6 DEF ArrayGet, ItemAt
  <2>8. QED
    BY <1>1, <2>2, <2>3, <2>7 DEF StringIn
<1>8. ArrayLength(h, r) \in 0..8
  BY <1>3, <1>4, <1>5
<1>9. QED
  BY <1>1, <1>5, <1>6, <1>7, <1>8 DEF a, r, Words, TagAt

\* A builder keeps its array.
LEMMA SameStrings ==
  ASSUME NEW h, NEW t, NEW g, NEW u, Becomes(h, t, g, u), NEW b, BuilderIn(h, t, b)
  PROVE  StringsOf(g, b) = StringsOf(h, b)
<1>1. b + 1 \in Words(h) /\ TagAt(t, b + 1) = Const
  BY BuilderIs
<1>2. QED
  BY <1>1, SameConst DEF StringsOf

\* The strings of a builder that has the same array.
LEMMA SameAppended ==
  ASSUME NEW h, NEW t, NEW g, NEW u, Becomes(h, t, g, u), NEW b, BuilderIn(h, t, b),
         ArrayLength(g, StringsOf(h, b)) = ArrayLength(h, StringsOf(h, b)),
         \A i \in 0..(ArrayLength(h, StringsOf(h, b)) - 1) :
           ArrayGet(g, StringsOf(h, b), i) = ArrayGet(h, StringsOf(h, b), i)
  PROVE  Appended(g, b) = Appended(h, b)
<1> DEFINE r == StringsOf(h, b)
           n == ArrayLength(h, r)
<1>1. n \in 0..8 /\ \A i \in 0..(n - 1) : StringIn(h, t, ArrayGet(h, r, i))
  BY BuilderIs
<1>2. Read(g, b + 1) = r /\ Read(h, b + 1) = r
  BY SameStrings DEF StringsOf
<1>3. ArrayLength(g, r) = n /\ \A i \in 0..(n - 1) : ArrayGet(g, r, i) = ArrayGet(h, r, i)
  OBVIOUS
<1> HIDE DEF n, r
<1>4. ASSUME NEW i \in 1..n
      PROVE  StringAt(g, ArrayGet(g, r, i - 1)) = StringAt(h, ArrayGet(h, r, i - 1))
  <2>1. i - 1 \in 0..(n - 1)
    BY <1>1
  <2>2. ArrayGet(g, r, i - 1) = ArrayGet(h, r, i - 1)
    BY <1>3, <2>1
  <2>3. StringIn(h, t, ArrayGet(h, r, i - 1))
    BY <1>1, <2>1
  <2>4. QED
    BY <2>2, <2>3, SameString
<1>5. Appended(h, b) = [i \in 1..n |-> StringAt(h, ArrayGet(h, r, i - 1))]
  BY <1>2 DEF Appended, n
<1>6. Appended(g, b) = [i \in 1..n |-> StringAt(g, ArrayGet(g, r, i - 1))]
  BY <1>2, <1>3 DEF Appended
<1>7. QED
  BY <1>4, <1>5, <1>6

-----------------------------------------------------------------------------
(* Steps: a heap becomes another, and a program sees no difference but in  *)
(* what has the tag x.                                                     *)

SameValues(h, t, g, x) ==
  \A d : \A k \in Int :
    DictIn(h, t, d) /\ Tag("value", d, k) # x => ValueIn(g, d, k) = ValueIn(h, d, k)

SameItems(h, t, g, x) ==
  \A r : ArrayIn(h, t, r) /\ Tag("data", r, 0) # x =>
    \A i \in 0..1 : ArrayGet(g, r, i) = ArrayGet(h, r, i)

SameAppends(h, t, g, x) ==
  \A b : BuilderIn(h, t, b) /\ Tag("strings", b, 0) # x => Appended(g, b) = Appended(h, b)

Step(h, t, g, u, x) ==
  /\ Becomes(h, t, g, u)
  /\ SameValues(h, t, g, x) /\ SameItems(h, t, g, x) /\ SameAppends(h, t, g, x)

\* Steps at the same tag make one step at it.
LEMMA StepIsTransitive ==
  ASSUME NEW h, NEW t, NEW g, NEW u, NEW j, NEW v, NEW x,
         Step(h, t, g, u, x), Step(g, u, j, v, x)
  PROVE  Step(h, t, j, v, x)
<1>1. Becomes(h, t, g, u) /\ Becomes(g, u, j, v)
  BY DEF Step
<1>2. Becomes(h, t, j, v)
  BY <1>1, BecomesIsTransitive
<1>3. SameValues(h, t, j, x)
  <2>1. SameValues(h, t, g, x) /\ SameValues(g, u, j, x)
    BY DEF Step
  <2>2. \A d : DictIn(h, t, d) => DictIn(g, u, d)
    BY <1>1, StaysIn
  <2>3. QED
    BY <2>1, <2>2 DEF SameValues
<1>4. SameItems(h, t, j, x)
  <2>1. SameItems(h, t, g, x) /\ SameItems(g, u, j, x)
    BY DEF Step
  <2>2. \A r : ArrayIn(h, t, r) => ArrayIn(g, u, r)
    BY <1>1, StaysIn
  <2>3. QED
    BY <2>1, <2>2 DEF SameItems
<1>5. SameAppends(h, t, j, x)
  <2>1. SameAppends(h, t, g, x) /\ SameAppends(g, u, j, x)
    BY DEF Step
  <2>2. \A b : BuilderIn(h, t, b) => BuilderIn(g, u, b)
    BY <1>1, StaysIn
  <2>3. QED
    BY <2>1, <2>2 DEF SameAppends
<1>6. QED
  BY <1>2, <1>3, <1>4, <1>5 DEF Step

\* A step nobody sees, of which none of the objects above has the tag.
LEMMA StepUnseen ==
  ASSUME NEW h, NEW t, NEW g, NEW u, Step(h, t, g, u, Const), NEW x
  PROVE  Step(h, t, g, u, x)
<1>1. /\ \A d, k : Tag("value", d, k) # Const
      /\ \A r : Tag("data", r, 0) # Const
      /\ \A b : Tag("strings", b, 0) # Const
  BY DEF Tag, Const
<1>2. SameValues(h, t, g, x)
  BY <1>1 DEF Step, SameValues
<1>3. SameItems(h, t, g, x)
  BY <1>1 DEF Step, SameItems
<1>4. SameAppends(h, t, g, x)
  BY <1>1 DEF Step, SameAppends
<1>5. QED
  BY <1>2, <1>3, <1>4 DEF Step

\* What a store may change: a raw word, one with the tag x, and an item that its array
\* does not count.
Spare(h, t, a) == \E c : TagAt(t, a) = Tag("item", c, 0) /\ a > c + Read(h, c)

Touches(h, t, g, x) ==
  \A a \in Words(h) :
    Read(g, a) = Read(h, a) \/ TagAt(t, a) = Raw \/ TagAt(t, a) = x \/ Spare(h, t, a)

Plain(x) == x[1] \in {"const", "value", "data", "strings"}

\* Other words are the same,
LEMMA TouchesNot ==
  ASSUME NEW h, NEW t, NEW g, NEW x, Touches(h, t, g, x), NEW a \in Words(h), NEW kind,
         NEW owner, NEW key, TagAt(t, a) = Tag(kind, owner, key), Tag(kind, owner, key) # x,
         kind \notin {"raw", "item"}
  PROVE  Read(g, a) = Read(h, a)
<1>1. TagAt(t, a)[1] = kind
  BY TagIs
<1>2. TagAt(t, a) # Raw
  BY <1>1, TagIs
<1>3. ~ Spare(h, t, a)
  BY <1>1, TagIs DEF Spare
<1>4. QED
  BY <1>2, <1>3 DEF Touches

\* and so are the items that are counted.
LEMMA TouchesNoItem ==
  ASSUME NEW h, NEW t, NEW g, NEW x, Touches(h, t, g, x), x[1] # "item",
         NEW r \in Nat, Read(h, LengthAt(r)) \in Int, NEW i \in 0..(Read(h, LengthAt(r)) - 1),
         ItemAt(r, i) \in Words(h), TagAt(t, ItemAt(r, i)) = Tag("item", LengthAt(r), 0)
  PROVE  ArrayGet(g, r, i) = ArrayGet(h, r, i)
<1> DEFINE a == ItemAt(r, i)
           c == LengthAt(r)
<1>1. a = c + 1 + i
  BY DEF ItemAt, LengthAt
<1>2. c \in Int
  BY DEF LengthAt
<1>3. TagAt(t, a)[1] = "item" /\ TagAt(t, a)[2] = c
  BY TagIs
<1> HIDE DEF a, c
<1>4. ~ Spare(h, t, a)
  <2> SUFFICES ASSUME NEW b, TagAt(t, a) = Tag("item", b, 0), a > b + Read(h, b) PROVE FALSE
    BY DEF Spare
  <2>1. b = c
    BY <1>3, TagIs
  <2>2. Read(h, c) \in Int /\ i \in 0..(Read(h, c) - 1)
    BY DEF c
  <2>3. QED
    BY <1>1, <1>2, <2>1, <2>2
<1>5. TagAt(t, a) # Raw /\ TagAt(t, a) # x
  BY <1>3, TagIs
<1>6. a \in Words(h)
  BY DEF a
<1>7. Read(g, a) = Read(h, a)
  BY <1>4, <1>5, <1>6 DEF Touches
<1>8. QED
  BY <1>7 DEF a, ArrayGet, ItemAt

\* So a bucket that has another tag has the same entries, which have the same values,
LEMMA TouchesNoCount ==
  ASSUME NEW h, NEW t, NEW g, NEW u, NEW x, Becomes(h, t, g, u), Touches(h, t, g, x),
         x[1] # "item", NEW b, NEW d, BucketIn(h, t, b, d), Tag("bucket", d, 0) # x
  PROVE  /\ ArrayLength(g, b) = ArrayLength(h, b)
         /\ \A i \in 0..(ArrayLength(h, b) - 1) : ArrayGet(g, b, i) = ArrayGet(h, b, i)
<1>1. /\ b \in Nat /\ LengthAt(b) \in Words(h) /\ TagAt(t, LengthAt(b)) = Tag("bucket", d, 0)
      /\ ArrayLength(h, b) = Read(h, LengthAt(b)) /\ ArrayLength(h, b) \in 0..4
      /\ \A i \in 0..3 : /\ ItemAt(b, i) \in Words(h)
                         /\ TagAt(t, ItemAt(b, i)) = Tag("item", LengthAt(b), 0)
      /\ \A i \in 0..(ArrayLength(h, b) - 1) : i \in 0..3
  BY BucketIs
<1>2. ArrayLength(g, b) = ArrayLength(h, b)
  <2>1. Read(g, LengthAt(b)) = Read(h, LengthAt(b))
    BY <1>1, TouchesNot
  <2>2. QED
    BY <1>1, <2>1 DEF ArrayLength, LengthAt
<1>3. ASSUME NEW i \in 0..(ArrayLength(h, b) - 1)
      PROVE  ArrayGet(g, b, i) = ArrayGet(h, b, i)
  <2>1. /\ i \in 0..(Read(h, LengthAt(b)) - 1) /\ Read(h, LengthAt(b)) \in Int
        /\ ItemAt(b, i) \in Words(h) /\ TagAt(t, ItemAt(b, i)) = Tag("item", LengthAt(b), 0)
    BY <1>1, <1>3
  <2>2. QED
    BY <1>1, <2>1, TouchesNoItem
<1>4. QED
  BY <1>2, <1>3

\* A store elsewhere leaves the matches of a key in a bucket.
LEMMA TouchesNoBucket ==
  ASSUME NEW h, NEW t, NEW g, NEW u, NEW x, Becomes(h, t, g, u), Touches(h, t, g, x),
         x[1] # "item", NEW b, NEW d, BucketIn(h, t, b, d), NEW k,
         Tag("bucket", d, 0) # x, Tag("value", d, k) # x
  PROVE  SameMatches(h, g, b, k)
<1>1. /\ ArrayLength(g, b) = ArrayLength(h, b)
      /\ \A i \in 0..(ArrayLength(h, b) - 1) : ArrayGet(g, b, i) = ArrayGet(h, b, i)
  BY TouchesNoCount
<1>2. ASSUME NEW a \in Words(h), TagAt(t, a) = Tag("value", d, k)
      PROVE  Read(g, a) = Read(h, a)
  BY <1>2, TouchesNot
<1>3. ArrayLength(h, b) <= ArrayLength(g, b)
  <2>1. ArrayLength(h, b) \in 0..4
    BY BucketIs
  <2>2. QED
    BY <1>1, <2>1
<1>4. BucketKept(h, t, g, d, b, k)
  BY <1>1, <1>2, <1>3 DEF BucketKept
<1>5. QED
  BY <1>4, SameBucket

\* an array the same items and a builder the same strings.
LEMMA TouchesNoObject ==
  ASSUME NEW h, NEW t, NEW g, NEW u, NEW x, Becomes(h, t, g, u), Touches(h, t, g, x),
         x[1] # "item"
  PROVE  SameItems(h, t, g, x) /\ SameAppends(h, t, g, x)
<1>1. ASSUME NEW r, ArrayIn(h, t, r), Tag("data", r, 0) # x, NEW i \in 0..1
      PROVE  ArrayGet(g, r, i) = ArrayGet(h, r, i)
  <2>1. ItemAt(r, i) \in Words(h) /\ TagAt(t, ItemAt(r, i)) = Tag("data", r, 0)
    BY <1>1, ArrayIs
  <2>2. Read(g, ItemAt(r, i)) = Read(h, ItemAt(r, i))
    BY <1>1, <2>1, TouchesNot
  <2>3. QED
    BY <2>2 DEF ArrayGet, ItemAt
<1>2. ASSUME NEW b, BuilderIn(h, t, b), Tag("strings", b, 0) # x
      PROVE  Appended(g, b) = Appended(h, b)
  <2> DEFINE r == StringsOf(h, b)
  <2>1. /\ r \in Nat /\ LengthAt(r) \in Words(h)
        /\ TagAt(t, LengthAt(r)) = Tag("strings", b, 0)
        /\ ArrayLength(h, r) = Read(h, LengthAt(r)) /\ ArrayLength(h, r) \in 0..8
        /\ \A i \in 0..7 : /\ ItemAt(r, i) \in Words(h)
                           /\ TagAt(t, ItemAt(r, i)) = Tag("item", LengthAt(r), 0)
        /\ \A i \in 0..(ArrayLength(h, r) - 1) : i \in 0..7
    BY <1>2, BuilderIs
  <2> HIDE DEF r
  <2>2. ArrayLength(g, r) = ArrayLength(h, r)
    <3>1. Read(g, LengthAt(r)) = Read(h, LengthAt(r))
      BY <1>2, <2>1, TouchesNot
    <3>2. QED
      BY <2>1, <3>1 DEF ArrayLength, LengthAt
  <2>3. ASSUME NEW i \in 0..(ArrayLength(h, r) - 1)
        PROVE  ArrayGet(g, r, i) = ArrayGet(h, r, i)
    <3>1. /\ i \in 0..(Read(h, LengthAt(r)) - 1) /\ Read(h, LengthAt(r)) \in Int
          /\ ItemAt(r, i) \in Words(h) /\ TagAt(t, ItemAt(r, i)) = Tag("item", LengthAt(r), 0)
      BY <2>1, <2>3
    <3>2. QED
      BY <2>1, <3>1, TouchesNoItem
  <2>4. QED
    BY <1>2, <2>2, <2>3, SameAppended DEF r
<1>3. QED
  BY <1>1, <1>2 DEF SameItems, SameAppends

\* A store at one tag is a step at this tag.
LEMMA TouchesStep ==
  ASSUME NEW h, NEW t, NEW g, NEW u, NEW x, Becomes(h, t, g, u), Touches(h, t, g, x), Plain(x)
  PROVE  Step(h, t, g, u, x)
<1>1. ASSUME NEW d, NEW k \in Int, DictIn(h, t, d), Tag("value", d, k) # x
      PROVE  ValueIn(g, d, k) = ValueIn(h, d, k)
  <2> DEFINE b == BucketOf(h, d, k)
  <2>1. BucketOf(g, d, k) = b
    <3>1. /\ BucketSlot(h, d, k) \in Words(h)
          /\ TagAt(t, BucketSlot(h, d, k)) = Tag("slot", d, 0)
      BY <1>1, SlotIs
    <3>2. Tag("slot", d, 0) # x
      BY TagIs DEF Plain
    <3>3. Read(g, BucketSlot(h, d, k)) = Read(h, BucketSlot(h, d, k))
      BY <3>1, <3>2, TouchesNot
    <3>4. BucketSlot(g, d, k) = BucketSlot(h, d, k)
      BY <1>1, SameSlot
    <3>5. QED
      BY <3>3, <3>4 DEF BucketOf
  <2>2. ASSUME b # 0
        PROVE  SameMatches(h, g, b, k)
    <3>1. BucketIn(h, t, b, d)
      BY <1>1, <2>2, SlotIs
    <3>2. Tag("bucket", d, 0) # x /\ x[1] # "item"
      BY TagIs DEF Plain
    <3> HIDE DEF b
    <3>3. QED
      BY <1>1, <3>1, <3>2, TouchesNoBucket
  <2>3. QED
    BY <1>1, <2>1, <2>2, SameValue
<1>2. x[1] # "item"
  BY DEF Plain
<1>3. SameItems(h, t, g, x) /\ SameAppends(h, t, g, x)
  BY <1>2, TouchesNoObject
<1>4. QED
  BY <1>1, <1>3 DEF Step, SameValues

-----------------------------------------------------------------------------
(* Stores. *)

Stored(h, g, x, w) ==
  /\ Words(g) = Words(h) /\ g.used = h.used
  /\ \A a : Read(g, a) = IF a = x THEN w ELSE Read(h, a)

\* A store of what fits: the heap becomes the one with the word stored.
LEMMA PutStep ==
  ASSUME NEW h, NEW t, Alive(h, t), NEW x \in Words(h), TagAt(t, x) # Const, NEW w \in Int,
         Uncounted(h.mem, t, x), Fits([h.mem EXCEPT ![x] = w], t, x)
  PROVE  Becomes(h, t, Write(h, x, w), t) /\ Stored(h, Write(h, x, w), x, w)
<1> DEFINE g == Write(h, x, w)
<1>1. x \in 1..Len(h.mem) /\ t[x] # Const
  BY DEF Words, TagAt
<1>2. /\ Alive(g, t) /\ Later(h.mem, t, g.mem, t) /\ Len(g.mem) = Len(h.mem)
      /\ \A a \in 1..Len(h.mem) : g.mem[a] = IF a = x THEN w ELSE h.mem[a]
  BY <1>1, PutAlive
<1> HIDE DEF g
<1>3. g.used = h.used /\ DOMAIN g.mem = 1..Len(h.mem) /\ DOMAIN h.mem = 1..Len(h.mem)
  BY <1>2, LenProperties DEF Alive, IsHeap
<1>4. ASSUME NEW a
      PROVE  Read(g, a) = IF a = x THEN w ELSE Read(h, a)
  BY <1>1, <1>2, <1>3 DEF Read
<1>5. QED
  BY <1>2, <1>3, <1>4 DEF Becomes, Stored, Words, g

\* A store that shows in nothing but what has its tag,
LEMMA StoredStep ==
  ASSUME NEW h, NEW t, NEW g, NEW x, NEW w, NEW who, Becomes(h, t, g, t), Stored(h, g, x, w),
         TagAt(t, x) = Raw \/ TagAt(t, x) = who \/ Spare(h, t, x), Plain(who)
  PROVE  Step(h, t, g, t, who)
<1>1. Touches(h, t, g, who)
  BY DEF Stored, Touches
<1>2. QED
  BY <1>1, TouchesStep

\* into a word that is nobody's yet,
LEMMA PutRaw ==
  ASSUME NEW h, NEW t, Alive(h, t), NEW x \in Words(h), TagAt(t, x) = Raw, NEW w \in Int
  PROVE  Step(h, t, Write(h, x, w), t, Const) /\ Stored(h, Write(h, x, w), x, w)
<1>1. t[x][1] = "raw" /\ TagAt(t, x) # Const
  BY TagIs DEF TagAt
<1>2. Uncounted(h.mem, t, x) /\ Fits([h.mem EXCEPT ![x] = w], t, x)
  BY <1>1 DEF Uncounted, Fits
<1>3. Becomes(h, t, Write(h, x, w), t) /\ Stored(h, Write(h, x, w), x, w)
  BY <1>1, <1>2, PutStep
<1>4. Plain(Const)
  BY TagIs DEF Plain
<1>5. QED
  BY <1>3, <1>4, StoredStep

\* into an array,
LEMMA PutData ==
  ASSUME NEW h, NEW t, Alive(h, t), NEW x \in Words(h), NEW r, TagAt(t, x) = Tag("data", r, 0),
         NEW w \in Int
  PROVE  Step(h, t, Write(h, x, w), t, Tag("data", r, 0)) /\ Stored(h, Write(h, x, w), x, w)
<1>1. t[x][1] = "data" /\ TagAt(t, x) # Const
  BY TagIs DEF TagAt
<1>2. Uncounted(h.mem, t, x) /\ Fits([h.mem EXCEPT ![x] = w], t, x)
  BY <1>1 DEF Uncounted, Fits
<1>3. Becomes(h, t, Write(h, x, w), t) /\ Stored(h, Write(h, x, w), x, w)
  BY <1>1, <1>2, PutStep
<1>4. Plain(Tag("data", r, 0))
  BY TagIs DEF Plain
<1>5. QED
  BY <1>3, <1>4, StoredStep

\* an item that is not counted,
LEMMA PutItem ==
  ASSUME NEW h, NEW t, Alive(h, t), NEW x \in Words(h), NEW c \in Words(h),
         TagAt(t, x) = Tag("item", c, 0), x > c + Read(h, c), NEW w \in Int
  PROVE  Step(h, t, Write(h, x, w), t, Const) /\ Stored(h, Write(h, x, w), x, w)
<1>1. t[x][1] = "item" /\ t[x][2] = c /\ TagAt(t, x) # Const
  BY TagIs DEF TagAt
<1>2. Read(h, c) = h.mem[c]
  BY HeapWord DEF Words
<1>3. Uncounted(h.mem, t, x) /\ Fits([h.mem EXCEPT ![x] = w], t, x)
  BY <1>1, <1>2 DEF Uncounted, Fits
<1>4. Becomes(h, t, Write(h, x, w), t) /\ Stored(h, Write(h, x, w), x, w)
  BY <1>1, <1>3, PutStep
<1>5. Plain(Const) /\ Spare(h, t, x)
  BY TagIs DEF Plain, Spare
<1>6. QED
  BY <1>4, <1>5, StoredStep

\* the value of an entry.
LEMMA PutLater ==
  ASSUME NEW m, NEW t, m \in Seq(Int), NEW x \in 1..Len(m), t[x] # Const, NEW w \in Int
  PROVE  /\ Later(m, t, [m EXCEPT ![x] = w], t)
         /\ Len([m EXCEPT ![x] = w]) = Len(m)
         /\ \A a \in 1..Len(m) : [m EXCEPT ![x] = w][a] = IF a = x THEN w ELSE m[a]
<1> DEFINE m2 == [m EXCEPT ![x] = w]
<1>1. /\ m2 \in Seq(Int) /\ Len(m2) = Len(m)
      /\ \A a \in 1..Len(m) : m2[a] = IF a = x THEN w ELSE m[a]
  BY ExceptSeq
<1> HIDE DEF m2
<1>2. Len(m) \in Nat
  BY LenProperties
<1>3. Later(m, t, m2, t)
  BY <1>1, <1>2 DEF Later
<1>4. QED
  BY <1>1, <1>3 DEF m2

\* A store to the value of an entry is a step at the value of its key.
LEMMA PutValue ==
  ASSUME NEW h, NEW t, Alive(h, t), NEW x \in Words(h), NEW d, NEW k,
         TagAt(t, x) = Tag("value", d, k), NEW w, WrapperIn(h, t, w)
  PROVE  Step(h, t, Write(h, x, w), t, Tag("value", d, k)) /\ Stored(h, Write(h, x, w), x, w)
<1>1. t[x][1] = "value" /\ t[x] # Const /\ TagAt(t, x) # Const /\ x \in 1..Len(h.mem)
  BY TagIs DEF TagAt, Words
<1>2. w \in Int /\ IsWrapper(h.mem, t, w) /\ h.mem \in Seq(Int)
  BY DEF WrapperIn, IsWrapper, Alive, IsHeap
<1> DEFINE m2 == [h.mem EXCEPT ![x] = w]
<1>3. Later(h.mem, t, m2, t) /\ m2[x] = w
  BY <1>1, <1>2, PutLater
<1> HIDE DEF m2
<1>4. IsWrapper(m2, t, m2[x])
  BY <1>2, <1>3, WrapperStays
<1>5. Fits(m2, t, x) /\ Uncounted(h.mem, t, x)
  BY <1>1, <1>4 DEF Fits, Uncounted
<1>6. Becomes(h, t, Write(h, x, w), t) /\ Stored(h, Write(h, x, w), x, w)
  BY <1>1, <1>2, <1>5, PutStep DEF m2
<1>7. Plain(Tag("value", d, k))
  BY TagIs DEF Plain
<1>8. QED
  BY <1>6, <1>7, StoredStep

\* A new bucket,
LEMMA PutSlot ==
  ASSUME NEW h, NEW t, Alive(h, t), NEW x \in Words(h), NEW d, TagAt(t, x) = Tag("slot", d, 0),
         NEW b, BucketIn(h, t, b, d)
  PROVE  Becomes(h, t, Write(h, x, b), t) /\ Stored(h, Write(h, x, b), x, b)
<1>1. /\ t[x][1] = "slot" /\ t[x][2] = d /\ t[x] # Const /\ TagAt(t, x) # Const
      /\ x \in 1..Len(h.mem)
  BY TagIs DEF TagAt, Words
<1>2. b \in Int /\ IsBucket(h.mem, t, b, d) /\ h.mem \in Seq(Int)
  BY DEF BucketIn, IsBucket, Alive, IsHeap
<1> DEFINE m2 == [h.mem EXCEPT ![x] = b]
<1>3. Later(h.mem, t, m2, t) /\ m2[x] = b
  BY <1>1, <1>2, PutLater
<1> HIDE DEF m2
<1>4. IsBucket(m2, t, m2[x], d)
  BY <1>2, <1>3, BucketStays
<1>5. Fits(m2, t, x) /\ Uncounted(h.mem, t, x)
  BY <1>1, <1>4 DEF Fits, Uncounted
<1>6. QED
  BY <1>1, <1>2, <1>5, PutStep DEF m2

\* the count of a bucket's entries,
LEMMA PutCount ==
  ASSUME NEW h, NEW t, NEW b, NEW d, BucketIn(h, t, b, d), ArrayLength(h, b) < 4,
         EntryIn(h, t, ArrayGet(h, b, ArrayLength(h, b)), d)
  PROVE  LET x == LengthAt(b)
             w == ArrayLength(h, b) + 1
         IN Becomes(h, t, Write(h, x, w), t) /\ Stored(h, Write(h, x, w), x, w)
<1> DEFINE x == LengthAt(b)
           n == ArrayLength(h, b)
           m2 == [h.mem EXCEPT ![x] = n + 1]
<1>1. /\ b \in Nat /\ x \in Words(h) /\ TagAt(t, x) = Tag("bucket", d, 0)
      /\ n \in 0..3 /\ Read(h, x) = n
      /\ \A i \in 0..3 : ItemAt(b, i) \in Words(h) /\ TagAt(t, ItemAt(b, i)) = Tag("item", x, 0)
      /\ \A i \in 0..(n - 1) : EntryIn(h, t, ArrayGet(h, b, i), d)
  BY BucketIs
<1>2. EntryIn(h, t, ArrayGet(h, b, n), d)
  OBVIOUS
<1>3. x = b + 2
  BY DEF LengthAt
<1> HIDE DEF x, n
<1>4. Alive(h, t) /\ h.mem \in Seq(Int)
  BY DEF BucketIn, Alive, IsHeap
<1>5. /\ t[x][1] = "bucket" /\ t[x][2] = d /\ t[x] # Const /\ TagAt(t, x) # Const
      /\ x \in 1..Len(h.mem)
  BY <1>1, TagIs DEF TagAt, Words
<1>6. /\ Later(h.mem, t, m2, t) /\ Len(m2) = Len(h.mem)
      /\ \A a \in 1..Len(h.mem) : m2[a] = IF a = x THEN n + 1 ELSE h.mem[a]
  BY <1>1, <1>4, <1>5, PutLater
<1> HIDE DEF m2
<1>7. ASSUME NEW i \in 1..4
      PROVE  /\ x + i \in 1..Len(h.mem) /\ t[x + i] = Tag("item", x, 0)
             /\ m2[x + i] = ArrayGet(h, b, i - 1)
  <2>1. i - 1 \in 0..3 /\ ItemAt(b, i - 1) = x + i /\ x + i # x
    BY <1>1, <1>3 DEF ItemAt
  <2>2. x + i \in 1..Len(h.mem) /\ t[x + i] = Tag("item", x, 0)
    BY <1>1, <2>1 DEF TagAt, Words
  <2>3. Read(h, x + i) = h.mem[x + i]
    BY <1>4, <2>2, HeapWord
  <2>4. ArrayGet(h, b, i - 1) = Read(h, x + i)
    BY <2>1 DEF ArrayGet, ItemAt
  <2>5. m2[x + i] = h.mem[x + i]
    BY <1>6, <2>1, <2>2
  <2>6. QED
    BY <2>2, <2>3, <2>4, <2>5
<1>8. ASSUME NEW i \in 1..(n + 1)
      PROVE  IsEntry(m2, t, m2[x + i], d)
  <2>1. i \in 1..4 /\ (i - 1 \in 0..(n - 1) \/ i - 1 = n)
    BY <1>1
  <2>2. EntryIn(h, t, ArrayGet(h, b, i - 1), d)
    BY <1>1, <1>2, <2>1
  <2>3. IsEntry(h.mem, t, ArrayGet(h, b, i - 1), d)
    BY <2>2 DEF EntryIn
  <2>4. IsEntry(m2, t, ArrayGet(h, b, i - 1), d)
    BY <1>6, <2>3, EntryStays
  <2>5. QED
    BY <1>7, <2>1, <2>4
<1>9. HasEntries(m2, t, x, d)
  <2>1. m2[x] = n + 1 /\ n + 1 \in 0..4
    BY <1>1, <1>5, <1>6
  <2>2. QED
    BY <1>6, <1>7, <1>8, <2>1 DEF HasEntries
<1>10. Fits(m2, t, x) /\ Uncounted(h.mem, t, x)
  BY <1>5, <1>9 DEF Fits, Uncounted
<1>11. Becomes(h, t, Write(h, x, n + 1), t) /\ Stored(h, Write(h, x, n + 1), x, n + 1)
  BY <1>1, <1>4, <1>5, <1>10, PutStep DEF m2
<1>12. QED
  BY <1>11 DEF x, n

\* and that of a builder's strings.
LEMMA PutStrings ==
  ASSUME NEW h, NEW t, NEW b, BuilderIn(h, t, b), ArrayLength(h, StringsOf(h, b)) < 8,
         StringIn(h, t, ArrayGet(h, StringsOf(h, b), ArrayLength(h, StringsOf(h, b))))
  PROVE  LET x == LengthAt(StringsOf(h, b))
             w == ArrayLength(h, StringsOf(h, b)) + 1
         IN /\ Step(h, t, Write(h, x, w), t, Tag("strings", b, 0))
            /\ Stored(h, Write(h, x, w), x, w)
<1> DEFINE r == StringsOf(h, b)
           x == LengthAt(r)
           n == ArrayLength(h, r)
           m2 == [h.mem EXCEPT ![x] = n + 1]
<1>1. /\ r \in Nat /\ x \in Words(h) /\ TagAt(t, x) = Tag("strings", b, 0)
      /\ n \in 0..7 /\ Read(h, x) = n
      /\ \A i \in 0..7 : ItemAt(r, i) \in Words(h) /\ TagAt(t, ItemAt(r, i)) = Tag("item", x, 0)
      /\ \A i \in 0..(n - 1) : StringIn(h, t, ArrayGet(h, r, i))
  BY BuilderIs
<1>2. StringIn(h, t, ArrayGet(h, r, n))
  OBVIOUS
<1> HIDE DEF r, n
<1>3. x = r + 2
  BY DEF LengthAt
<1> HIDE DEF x
<1>4. Alive(h, t) /\ h.mem \in Seq(Int)
  BY DEF BuilderIn, Alive, IsHeap
<1>5. /\ t[x][1] = "strings" /\ t[x] # Const /\ TagAt(t, x) # Const
      /\ x \in 1..Len(h.mem)
  BY <1>1, TagIs DEF TagAt, Words
<1>6. /\ Later(h.mem, t, m2, t) /\ Len(m2) = Len(h.mem)
      /\ \A a \in 1..Len(h.mem) : m2[a] = IF a = x THEN n + 1 ELSE h.mem[a]
  <2>1. n + 1 \in Int
    BY <1>1
  <2>2. QED
    BY ONLY <1>4, <1>5, <2>1, PutLater
<1> HIDE DEF m2
<1>7. ASSUME NEW i \in 1..8
      PROVE  /\ x + i \in 1..Len(h.mem) /\ t[x + i] = Tag("item", x, 0)
             /\ m2[x + i] = ArrayGet(h, r, i - 1)
  <2>1. i - 1 \in 0..7 /\ ItemAt(r, i - 1) = x + i /\ x + i # x
    BY <1>1, <1>3 DEF ItemAt
  <2>2. x + i \in 1..Len(h.mem) /\ t[x + i] = Tag("item", x, 0)
    BY <1>1, <2>1 DEF TagAt, Words
  <2>3. Read(h, x + i) = h.mem[x + i]
    BY <1>4, <2>2, HeapWord
  <2>4. ArrayGet(h, r, i - 1) = Read(h, x + i)
    BY <2>1 DEF ArrayGet, ItemAt
  <2>5. m2[x + i] = h.mem[x + i]
    BY <1>6, <2>1, <2>2
  <2>6. QED
    BY <2>2, <2>3, <2>4, <2>5
<1>8. ASSUME NEW i \in 1..(n + 1)
      PROVE  IsString(m2, t, m2[x + i])
  <2>1. i \in 1..8 /\ (i - 1 \in 0..(n - 1) \/ i - 1 = n)
    BY <1>1
  <2>2. StringIn(h, t, ArrayGet(h, r, i - 1))
    BY <1>1, <1>2, <2>1
  <2>3. IsString(h.mem, t, ArrayGet(h, r, i - 1))
    BY <2>2 DEF StringIn
  <2>4. IsString(m2, t, ArrayGet(h, r, i - 1))
    BY <1>6, <2>3, StringStays
  <2>5. QED
    BY <1>7, <2>1, <2>4
<1>9. HasStrings(m2, t, x)
  <2>1. m2[x] = n + 1 /\ n + 1 \in 0..8
    BY <1>1, <1>5, <1>6
  <2>2. QED
    BY <1>6, <1>7, <1>8, <2>1 DEF HasStrings
<1>10. Fits(m2, t, x) /\ Uncounted(h.mem, t, x)
  BY <1>5, <1>9 DEF Fits, Uncounted
<1>11. Becomes(h, t, Write(h, x, n + 1), t) /\ Stored(h, Write(h, x, n + 1), x, n + 1)
  BY <1>1, <1>4, <1>5, <1>10, PutStep DEF m2
<1>12. Plain(Tag("strings", b, 0))
  BY TagIs DEF Plain
<1>13. Step(h, t, Write(h, x, n + 1), t, Tag("strings", b, 0))
  BY <1>1, <1>11, <1>12, StoredStep
<1>14. QED
  BY <1>11, <1>13 DEF x, n, r

-----------------------------------------------------------------------------
(* New tags, and new words. *)

RetagTo(t, a, tag) == [c \in Int |-> IF c = a THEN tag ELSE t[c]]

\* To give a raw word its purpose is a step nobody sees.
LEMMA RetagStep ==
  ASSUME NEW h, NEW t, Alive(h, t), NEW a \in Words(h), TagAt(t, a) = Raw, NEW tag,
         \/ tag = Const
         \/ \E d, k : tag = Tag("value", d, k) /\ WrapperIn(h, t, Read(h, a))
  PROVE  /\ Step(h, t, h, RetagTo(t, a, tag), Const)
         /\ \A c \in Words(h) : TagAt(RetagTo(t, a, tag), c) = IF c = a THEN tag ELSE TagAt(t, c)
<1> DEFINE u == RetagTo(t, a, tag)
<1>1. Len(h.mem) \in Nat /\ a \in 1..Len(h.mem) /\ t[a] = Raw /\ IsHeap(h) /\ Layout(h.mem, t)
  BY LenProperties DEF Alive, IsHeap, Words, TagAt
<1>2. \A c \in 1..Len(h.mem) : u[c] = IF c = a THEN tag ELSE t[c]
  BY <1>1 DEF RetagTo
<1> HIDE DEF u
<1>3. \A c \in 1..Len(h.mem) : t[c] # Raw => u[c] = t[c]
  BY <1>1, <1>2
<1>4. Later(h.mem, t, h.mem, u)
  BY <1>1, <1>3 DEF Later, IsHeap
<1>5. ASSUME NEW c \in 1..Len(h.mem), t[c] = Raw
      PROVE  Fits(h.mem, u, c)
  <2>1. CASE c # a \/ tag = Const
    <3>1. u[c][1] \in {"raw", "const"}
      BY <1>2, <1>5, <2>1, TagIs
    <3>2. QED
      BY <3>1 DEF Fits
  <2>2. CASE c = a /\ tag # Const
    <3>1. u[c][1] = "value" /\ WrapperIn(h, t, Read(h, a))
      BY <1>2, <2>2, TagIs
    <3>2. Read(h, a) = h.mem[c]
      BY <1>1, <2>2, HeapWord
    <3>3. IsWrapper(h.mem, u, h.mem[c])
      BY <1>4, <3>1, <3>2, WrapperStays DEF WrapperIn
    <3>4. QED
      BY <3>1, <3>3 DEF Fits
  <2>3. QED
    BY <2>1, <2>2
<1>6. Alive(h, u)
  BY <1>3, <1>5, RetagAlive
<1>7. Becomes(h, t, h, u)
  BY <1>4, <1>6 DEF Becomes
<1>8. Touches(h, t, h, Const) /\ Plain(Const)
  BY TagIs DEF Touches, Plain
<1>9. Step(h, t, h, u, Const)
  BY <1>7, <1>8, TouchesStep
<1>10. QED
  BY <1>2, <1>9 DEF u, Words, TagAt

TagsBehind(h, t, tags) ==
  [a \in Int |-> IF a <= Len(h.mem) THEN t[a] ELSE tags[a - Len(h.mem)]]

\* What a new word may be.
NewTag(n, words, tags, i) ==
  \/ tags[i] \in {Const, Raw}
  \/ tags[i][1] \in {"data", "item"}
  \/ tags[i][1] = "slot" /\ words[i] = 0
  \/ /\ tags[i][1] = "bucket" /\ words[i] = 0
     /\ \A j \in 1..4 : i + j \in 1..Len(words) /\ tags[i + j] = Tag("item", n + i, 0)
  \/ /\ tags[i][1] = "strings" /\ words[i] = 0
     /\ \A j \in 1..8 : i + j \in 1..Len(words) /\ tags[i + j] = Tag("item", n + i, 0)

NewWords(h, t, g, u, words, tags) ==
  /\ Len(g.mem) = h.used + Len(words) /\ Len(h.mem) = h.used
  /\ \A a \in Words(h) : TagAt(u, a) = TagAt(t, a) /\ Read(g, a) = Read(h, a)
  /\ \A i \in 1..Len(words) : /\ h.used + i \in Words(g)
                              /\ Read(g, h.used + i) = words[i]
                              /\ TagAt(u, h.used + i) = tags[i]

\* An allocation is a step nobody sees.
LEMMA GrowStep ==
  ASSUME NEW h, NEW t, Alive(h, t), NEW words \in Seq(Int), Allocate(h, words).ok, NEW tags,
         \A i \in 1..Len(words) : NewTag(h.used, words, tags, i)
  PROVE  LET g == Allocate(h, words)
             u == TagsBehind(h, t, tags)
         IN Step(h, t, g, u, Const) /\ NewWords(h, t, g, u, words, tags)
<1> DEFINE g == Allocate(h, words)
           u == TagsBehind(h, t, tags)
           n == Len(h.mem)
           m2 == h.mem \o words
<1>1. /\ n \in Nat /\ h.used = n /\ h.mem \in Seq(Int) /\ Len(words) \in Nat
      /\ m2 \in Seq(Int) /\ Len(m2) = n + Len(words)
      /\ \A i \in 1..(n + Len(words)) : m2[i] = IF i <= n THEN h.mem[i] ELSE words[i - n]
  BY LenProperties, ConcatProperties DEF Alive, IsHeap
<1>2. \A a \in 1..n : u[a] = t[a]
  BY <1>1 DEF TagsBehind
<1>3. ASSUME NEW i \in 1..Len(words)
      PROVE  n + i \in 1..Len(m2) /\ u[n + i] = tags[i] /\ m2[n + i] = words[i]
  <2>1. n + i \in Int /\ ~ (n + i <= n) /\ (n + i) - n = i
    BY <1>1
  <2>2. u[n + i] = tags[i]
    BY <2>1 DEF TagsBehind
  <2>3. n + i \in 1..(n + Len(words))
    BY <1>1
  <2> HIDE DEF m2, n
  <2>4. m2[n + i] = words[i]
    BY <1>1, <2>1, <2>3
  <2>5. QED
    BY <1>1, <2>2, <2>3, <2>4
<1> HIDE DEF u, m2
<1>4. ASSUME NEW a \in (n + 1)..(n + Len(words))
      PROVE  Fits(m2, u, a)
  <2> DEFINE i == a - n
  <2>0. n \in Nat /\ Len(words) \in Nat
    BY <1>1
  <2>1. i \in 1..Len(words) /\ a = n + i /\ i \in Int
    <3>1. \A p, q \in Nat : \A x \in (p + 1)..(p + q) :
            x - p \in 1..q /\ x = p + (x - p) /\ x - p \in Int
      OBVIOUS
    <3> HIDE DEF n
    <3>2. QED
      BY ONLY <2>0, <3>1, a \in (n + 1)..(n + Len(words)) DEF i
  <2> HIDE DEF i, n
  <2>2. NewTag(n, words, tags, i)
    BY <1>1, <2>1
  <2>3. u[a] = tags[i] /\ m2[a] = words[i]
    BY <1>3, <2>1
  <2>4. \A j \in Int : a + j = n + (i + j)
    BY ONLY <2>0, <2>1
  <2>5. CASE tags[i] \in {Const, Raw} \/ tags[i][1] \in {"data", "item"}
    <3>1. u[a][1] \in {"const", "raw", "data", "item"}
      BY <2>3, <2>5, TagIs
    <3>2. QED
      BY <3>1 DEF Fits
  <2>6. CASE tags[i][1] = "slot" /\ words[i] = 0
    BY <2>3, <2>6 DEF Fits
  <2>7. CASE /\ tags[i][1] = "bucket" /\ words[i] = 0
             /\ \A j \in 1..4 : i + j \in 1..Len(words) /\ tags[i + j] = Tag("item", n + i, 0)
    <3>1. m2[a] = 0 /\ u[a][1] = "bucket"
      BY <2>3, <2>7
    <3>2. ASSUME NEW j \in 1..4
          PROVE  a + j \in 1..Len(m2) /\ u[a + j] = Tag("item", a, 0)
      <4>1. i + j \in 1..Len(words) /\ tags[i + j] = Tag("item", a, 0)
        BY <2>1, <2>7
      <4>2. n + (i + j) \in 1..Len(m2) /\ u[n + (i + j)] = tags[i + j]
        BY <1>3, <4>1
      <4>3. a + j = n + (i + j)
        BY <2>4
      <4>4. QED
        BY <4>1, <4>2, <4>3
    <3>3. HasEntries(m2, u, a, u[a][2])
      BY <3>1, <3>2 DEF HasEntries
    <3>4. QED
      BY <3>1, <3>3 DEF Fits
  <2>8. CASE /\ tags[i][1] = "strings" /\ words[i] = 0
             /\ \A j \in 1..8 : i + j \in 1..Len(words) /\ tags[i + j] = Tag("item", n + i, 0)
    <3>1. m2[a] = 0 /\ u[a][1] = "strings"
      BY <2>3, <2>8
    <3>2. ASSUME NEW j \in 1..8
          PROVE  a + j \in 1..Len(m2) /\ u[a + j] = Tag("item", a, 0)
      <4>1. i + j \in 1..Len(words) /\ tags[i + j] = Tag("item", a, 0)
        BY <2>1, <2>8
      <4>2. n + (i + j) \in 1..Len(m2) /\ u[n + (i + j)] = tags[i + j]
        BY <1>3, <4>1
      <4>3. a + j = n + (i + j)
        BY <2>4
      <4>4. QED
        BY <4>1, <4>2, <4>3
    <3>3. HasStrings(m2, u, a)
      BY <3>1, <3>2 DEF HasStrings
    <3>4. QED
      BY <3>1, <3>3 DEF Fits
  <2>9. QED
    BY <2>2, <2>5, <2>6, <2>7, <2>8 DEF NewTag
<1>5. /\ Alive(g, u) /\ Later(h.mem, t, g.mem, u) /\ g.mem = m2
  <2>1. \A a \in 1..Len(h.mem) : u[a] = t[a]
    BY <1>2
  <2>2. \A a \in (Len(h.mem) + 1)..(Len(h.mem) + Len(words)) : Fits(h.mem \o words, u, a)
    BY <1>4 DEF m2
  <2>3. /\ Alive(Allocate(h, words), u) /\ Later(h.mem, t, Allocate(h, words).mem, u)
        /\ Allocate(h, words).mem = h.mem \o words
    <3>1. FitBehind(h, t, u, words)
      BY <2>1, <2>2 DEF FitBehind
    <3>2. QED
      BY ONLY <3>1, Alive(h, t), words \in Seq(Int), Allocate(h, words).ok, GrowAlive
  <2>4. QED
    BY <2>3 DEF m2
<1> HIDE DEF g
<1>6. Becomes(h, t, g, u)
  BY <1>5 DEF Becomes
<1>7. ASSUME NEW a \in Words(h)
      PROVE  TagAt(u, a) = TagAt(t, a) /\ Read(g, a) = Read(h, a)
  <2>1. a \in 1..n /\ a \in 1..Len(m2) /\ m2[a] = h.mem[a]
    BY <1>1 DEF Words
  <2>2. Read(h, a) = h.mem[a]
    BY <2>1, HeapWord
  <2>3. Read(g, a) = m2[a]
    BY <1>5, <2>1, HeapWord
  <2>4. QED
    BY <1>2, <2>1, <2>2, <2>3 DEF TagAt
<1>8. ASSUME NEW i \in 1..Len(words)
      PROVE  /\ h.used + i \in Words(g) /\ Read(g, h.used + i) = words[i]
             /\ TagAt(u, h.used + i) = tags[i]
  <2>1. n + i \in 1..Len(m2) /\ u[n + i] = tags[i] /\ m2[n + i] = words[i]
    BY <1>3
  <2>2. Read(g, n + i) = m2[n + i]
    BY <1>5, <2>1, HeapWord
  <2>3. QED
    BY <1>1, <1>5, <2>1, <2>2 DEF Words, TagAt
<1>9. Step(h, t, g, u, Const)
  <2>1. Touches(h, t, g, Const) /\ Plain(Const)
    BY <1>7, TagIs DEF Touches, Plain
  <2>2. QED
    BY <1>6, <2>1, TouchesStep
<1>10. NewWords(h, t, g, u, words, tags)
  BY <1>1, <1>5, <1>7, <1>8 DEF NewWords
<1>11. QED
  BY <1>9, <1>10 DEF g, u

-----------------------------------------------------------------------------
(* The objects that are made. *)

\* A header and the zeros behind it, word by word.
LEMMA WordsBehind ==
  ASSUME NEW head \in Seq(Int), NEW n \in Nat
  PROVE  /\ head \o Zeros(n) \in Seq(Int) /\ Len(head \o Zeros(n)) = Len(head) + n
         /\ Len(head) \in Nat
         /\ \A i \in 1..Len(head) : (head \o Zeros(n))[i] = head[i]
         /\ \A i \in (Len(head) + 1)..(Len(head) + n) : (head \o Zeros(n))[i] = 0
<1> DEFINE m == Len(head)
           all == head \o Zeros(n)
<1>1. Zeros(n) \in Seq(Int) /\ Len(Zeros(n)) = n /\ \A i \in 1..n : Zeros(n)[i] = 0
  BY ZerosAreWords
<1>2. m \in Nat
  BY LenProperties
<1>3. /\ all \in Seq(Int) /\ Len(all) = m + n
      /\ \A i \in 1..(m + n) : all[i] = IF i <= m THEN head[i] ELSE Zeros(n)[i - m]
  BY <1>1, ConcatProperties
<1> HIDE DEF m, all
<1>4. \A i \in 1..m : all[i] = head[i]
  <2> TAKE i \in 1..m
  <2>1. i \in 1..(m + n) /\ i <= m
    BY <1>2
  <2>2. QED
    BY <1>3, <2>1
<1>5. \A i \in (m + 1)..(m + n) : all[i] = 0
  <2> TAKE i \in (m + 1)..(m + n)
  <2>1. i \in 1..(m + n) /\ ~ (i <= m) /\ i - m \in 1..n
    BY <1>2
  <2>2. QED
    BY <1>1, <1>3, <2>1
<1>6. QED
  BY <1>2, <1>3, <1>4, <1>5 DEF m, all

\* The words of a new dictionary: eight slots without a bucket.
LEMMA DictWordsAre ==
  /\ DictWords \in Seq(Int) /\ Len(DictWords) = 12 /\ DictWords[4] = 8
  /\ \A i \in 5..12 : DictWords[i] = 0
<1> DEFINE head == <<DictHead, 32, 0, 8>>
<1>1. DictWords = head \o Zeros(8)
  BY DEF DictWords, kDefaultCapacitySize, kDefaultPerBucketItem
<1>2. head \in Seq(Int) /\ Len(head) = 4 /\ head[4] = 8
  BY DEF DictHead
<1> HIDE DEF head
<1>3. /\ head \o Zeros(8) \in Seq(Int) /\ Len(head \o Zeros(8)) = 12
      /\ (head \o Zeros(8))[4] = head[4] /\ \A i \in 5..12 : (head \o Zeros(8))[i] = 0
  <2> DEFINE all == head \o Zeros(8)
  <2>0. head \in Seq(Int)
    BY <1>2
  <2>1. /\ all \in Seq(Int) /\ Len(all) = Len(head) + 8
        /\ \A i \in 1..Len(head) : all[i] = head[i]
        /\ \A i \in (Len(head) + 1)..(Len(head) + 8) : all[i] = 0
    <3>1. 8 \in Nat
      OBVIOUS
    <3>2. QED
      BY ONLY <2>0, <3>1, WordsBehind
  <2> HIDE DEF all
  <2>2. /\ all \in Seq(Int) /\ Len(all) = 12
        /\ \A i \in 5..12 : all[i] = 0
    BY <1>2, <2>1
  <2>3. all[4] = head[4]
    BY <1>2, <2>1
  <2>4. QED
    BY <2>2, <2>3 DEF all
<1>4. QED
  BY <1>1, <1>2, <1>3

\* The words of a new array: its length and its items are zero.
LEMMA ArrayWordsAre ==
  ASSUME NEW n \in {2, 4, 8}
  PROVE  /\ ArrayWords(n) \in Seq(Int) /\ Len(ArrayWords(n)) = 3 + n
         /\ \A i \in 3..(3 + n) : ArrayWords(n)[i] = 0
<1>1. ArrayCapacity(n) = n
  <2> DEFINE C == {c \in {2, 4, 8, 16} : c >= n}
  <2>1. n \in C /\ \A c \in C : n <= c
    OBVIOUS
  <2>2. \A c \in C : (\A e \in C : c <= e) => c = n
    BY <2>1
  <2>3. Min(C) = CHOOSE c \in C : \A e \in C : c <= e
    BY DEF Min
  <2> HIDE DEF C
  <2>4. Min(C) = n
    BY <2>1, <2>2, <2>3
  <2>5. QED
    BY <2>4 DEF ArrayCapacity, C
<1> DEFINE head == <<ArrayHead, 8 * n, 0>>
<1>2. ArrayWords(n) = head \o Zeros(n)
  BY <1>1 DEF ArrayWords
<1>3. head \in Seq(Int) /\ Len(head) = 3 /\ head[3] = 0
  BY DEF ArrayHead
<1> HIDE DEF head
<1>4. /\ head \o Zeros(n) \in Seq(Int) /\ Len(head \o Zeros(n)) = 3 + n
      /\ (head \o Zeros(n))[3] = head[3] /\ \A i \in 4..(3 + n) : (head \o Zeros(n))[i] = 0
  <2> DEFINE all == head \o Zeros(n)
  <2>0. head \in Seq(Int) /\ n \in Nat
    BY <1>3
  <2>1. /\ all \in Seq(Int) /\ Len(all) = Len(head) + n
        /\ \A i \in 1..Len(head) : all[i] = head[i]
        /\ \A i \in (Len(head) + 1)..(Len(head) + n) : all[i] = 0
    BY ONLY <2>0, WordsBehind
  <2> HIDE DEF all
  <2>2. /\ all \in Seq(Int) /\ Len(all) = 3 + n
        /\ \A i \in 4..(3 + n) : all[i] = 0
    <3>2. /\ all \in Seq(Int) /\ Len(all) = 3 + n
          /\ \A i \in (3 + 1)..(3 + n) : all[i] = 0
      BY <1>3, <2>1
    <3>3. \A i \in 4..(3 + n) : i \in (3 + 1)..(3 + n)
      OBVIOUS
    <3>4. QED
      BY <3>2, <3>3
  <2>3. all[3] = head[3]
    BY <1>3, <2>1
  <2>4. QED
    BY <2>2, <2>3 DEF all
<1>5. \A i \in 3..(3 + n) : i = 3 \/ i \in 4..(3 + n)
  OBVIOUS
<1>6. QED
  BY <1>2, <1>3, <1>4, <1>5

\* An allocation succeeds or the program is aborted.
LEMMA AllocateOr ==
  ASSUME NEW h, NEW t, Alive(h, t), NEW words \in Seq(Int)
  PROVE  Allocate(h, words).ok \/ Dead(Allocate(h, words))
BY AllocateGrows DEF Alive, Grown

\* A new dictionary, which says Nil of every key.
LEMMA NewDictStep ==
  ASSUME NEW h, NEW t, Alive(h, t), Allocate(h, DictWords).ok
  PROVE  LET g == Allocate(h, DictWords)
             d == NextObject(h)
         IN \E u : /\ Step(h, t, g, u, Const) /\ DictIn(g, u, d)
                   /\ \A k \in Int : ValueIn(g, d, k) = Nil
<1> DEFINE g == Allocate(h, DictWords)
           d == NextObject(h)
           n == h.used
           tags == [i \in 1..12 |-> IF i <= 4 THEN Const ELSE Tag("slot", d, 0)]
           u == TagsBehind(h, t, tags)
<1>1. /\ DictWords \in Seq(Int) /\ Len(DictWords) = 12 /\ DictWords[4] = 8
      /\ \A i \in 5..12 : DictWords[i] = 0
  BY DictWordsAre
<1>2. n \in Nat /\ d = n + 1
  BY DEF Alive, IsHeap, NextObject
<1>3. /\ \A i \in 1..4 : tags[i] = Const
      /\ \A i \in 5..12 : tags[i] = Tag("slot", d, 0)
  OBVIOUS
<1> HIDE DEF d, tags
<1>4. ASSUME NEW i \in 1..Len(DictWords)
      PROVE  NewTag(h.used, DictWords, tags, i)
  <2>1. i \in 1..4 \/ i \in 5..12
    BY <1>1
  <2>2. CASE i \in 1..4
    BY <1>3, <2>2 DEF NewTag
  <2>3. CASE i \in 5..12
    <3>1. tags[i][1] = "slot" /\ DictWords[i] = 0
      BY <1>1, <1>3, <2>3, TagIs
    <3>2. QED
      BY <3>1 DEF NewTag
  <2>4. QED
    BY <2>1, <2>2, <2>3
<1>5. Step(h, t, g, u, Const) /\ NewWords(h, t, g, u, DictWords, tags)
  BY <1>1, <1>4, GrowStep
<1> HIDE DEF g, u, n
<1>6. ASSUME NEW i \in 1..12
      PROVE  n + i \in Words(g) /\ Read(g, n + i) = DictWords[i] /\ TagAt(u, n + i) = tags[i]
  BY <1>1, <1>5 DEF NewWords, n
<1>7. /\ d \in Nat /\ d + 3 \in Words(g) /\ TagAt(u, d + 3) = Const /\ Read(g, d + 3) = 8
  <2>1. d \in Nat /\ d + 3 = n + 4
    BY <1>2
  <2>2. n + 4 \in Words(g) /\ Read(g, n + 4) = DictWords[4] /\ TagAt(u, n + 4) = tags[4]
    BY <1>6
  <2>3. tags[4] = Const /\ DictWords[4] = 8
    BY <1>1, <1>3
  <2>4. QED
    BY <2>1, <2>2, <2>3
<1>8. ASSUME NEW j \in 0..7
      PROVE  /\ d + 4 + j \in Words(g) /\ TagAt(u, d + 4 + j) = Tag("slot", d, 0)
             /\ Read(g, d + 4 + j) = 0
  <2>1. d + 4 + j = n + (5 + j) /\ 5 + j \in 5..12 /\ 5 + j \in 1..12
    BY <1>2
  <2>2. QED
    BY <1>1, <1>3, <1>6, <2>1
<1>9. Alive(g, u)
  BY <1>5 DEF Step, Becomes
<1>10. DictIn(g, u, d)
  <2>1. d + 3 \in 1..Len(g.mem) /\ g.mem[d + 3] = 8
    BY <1>7, <1>9, HeapWord DEF Words
  <2>2. QED
    BY <1>7, <1>8, <1>9, <2>1 DEF DictIn, IsDict, Words, TagAt
<1>11. ASSUME NEW k \in Int
       PROVE  ValueIn(g, d, k) = Nil
  <2>1. k % 8 \in 0..7
    OBVIOUS
  <2>2. BucketSlot(g, d, k) = d + 4 + (k % 8)
    BY <1>7 DEF BucketSlot
  <2>3. BucketOf(g, d, k) = 0
    BY <1>8, <2>1, <2>2 DEF BucketOf
  <2>4. QED
    BY <2>3, GetIs
<1>12. QED
  BY <1>5, <1>10, <1>11 DEF g, d

\* What makes an object one of its kind.
LEMMA MadeWrapper ==
  ASSUME NEW g, NEW u, Alive(g, u), NEW x \in Nat, x + 1 \in Words(g), TagAt(u, x + 1) = Const
  PROVE  WrapperIn(g, u, x)
BY DEF WrapperIn, IsWrapper, Words, TagAt

\* An entry by its words.
LEMMA MadeEntry ==
  ASSUME NEW g, NEW u, Alive(g, u), NEW e \in Nat, KeyAt(e) \in Words(g), ValueAt(e) \in Words(g),
         TagAt(u, KeyAt(e)) = Const, NEW d,
         TagAt(u, ValueAt(e)) = Tag("value", d, Read(g, KeyAt(e)))
  PROVE  EntryIn(g, u, e, d)
<1>1. Read(g, KeyAt(e)) = g.mem[KeyAt(e)]
  BY HeapWord DEF Words
<1>2. QED
  BY <1>1 DEF EntryIn, IsEntry, KeyAt, ValueAt, Words, TagAt

\* A bucket by its words.
LEMMA MadeBucket ==
  ASSUME NEW g, NEW u, Alive(g, u), NEW b \in Nat, LengthAt(b) \in Words(g), NEW d,
         TagAt(u, LengthAt(b)) = Tag("bucket", d, 0)
  PROVE  BucketIn(g, u, b, d)
BY DEF BucketIn, IsBucket, LengthAt, Words, TagAt

\* An array by its words.
LEMMA MadeArray ==
  ASSUME NEW g, NEW u, Alive(g, u), NEW r \in Nat, LengthAt(r) \in Words(g),
         TagAt(u, LengthAt(r)) = Const, Read(g, LengthAt(r)) = 2,
         ItemAt(r, 0) \in Words(g), TagAt(u, ItemAt(r, 0)) = Tag("data", r, 0),
         ItemAt(r, 1) \in Words(g), TagAt(u, ItemAt(r, 1)) = Tag("data", r, 0)
  PROVE  ArrayIn(g, u, r)
<1>1. g.mem[LengthAt(r)] = 2
  BY HeapWord DEF Words
<1>2. ASSUME NEW i \in 0..1
      PROVE  ItemAt(r, i) \in Words(g) /\ TagAt(u, ItemAt(r, i)) = Tag("data", r, 0)
  <2>1. i = 0 \/ i = 1
    OBVIOUS
  <2>2. QED
    BY <2>1
<1>3. QED
  BY <1>1, <1>2 DEF ArrayIn, IsArray, LengthAt, ItemAt, Words, TagAt

\* A builder by its words.
LEMMA MadeBuilder ==
  ASSUME NEW g, NEW u, Alive(g, u), NEW b \in Nat, b + 1 \in Words(g), TagAt(u, b + 1) = Const,
         Read(g, b + 1) \in Nat, LengthAt(Read(g, b + 1)) \in Words(g),
         TagAt(u, LengthAt(Read(g, b + 1))) = Tag("strings", b, 0)
  PROVE  BuilderIn(g, u, b)
<1>1. g.mem[b + 1] = Read(g, b + 1)
  BY HeapWord DEF Words
<1>2. QED
  BY <1>1 DEF BuilderIn, IsBuilder, LengthAt, Words, TagAt

\* A new array is none of those the program held.
LEMMA StepOnNew ==
  ASSUME NEW h, NEW t, NEW g, NEW u, Step(h, t, g, u, Tag("data", NextObject(h), 0))
  PROVE  Step(h, t, g, u, Const)
<1> DEFINE x == Tag("data", NextObject(h), 0)
<1>1. /\ \A d, k : Tag("value", d, k) # x
      /\ \A b : Tag("strings", b, 0) # x
  BY DEF Tag
<1>2. ASSUME NEW r, ArrayIn(h, t, r)
      PROVE  Tag("data", r, 0) # x
  <2>1. r \in Nat /\ r + 2 \in 1..Len(h.mem) /\ h.used = Len(h.mem) /\ h.used \in Nat
    BY <1>2 DEF ArrayIn, IsArray, Alive, IsHeap
  <2>2. r # NextObject(h)
    BY <2>1 DEF NextObject
  <2>3. QED
    BY <2>2, TagIs
<1> HIDE DEF x
<1>3. Step(h, t, g, u, x)
  BY DEF x
<1>4. SameValues(h, t, g, Const)
  BY <1>1, <1>3 DEF Step, SameValues
<1>5. SameItems(h, t, g, Const)
  BY <1>2, <1>3 DEF Step, SameItems
<1>6. SameAppends(h, t, g, Const)
  BY <1>1, <1>3 DEF Step, SameAppends
<1>7. QED
  BY <1>3, <1>4, <1>5, <1>6 DEF Step

\* An array of two items is made by four operations.
LEMMA ArrayOfTwo ==
  ASSUME NEW h, NEW v, NEW w
  PROVE  ArrayOf(h, <<v, w>>)
           = LET r == NextObject(h)
             IN Write(ArraySet(ArraySet(Allocate(h, ArrayWords(2)), r, 1, w), r, 0, v), r + 2, 2)
<1> DEFINE r == NextObject(h)
           items == <<v, w>>
           none == Allocate(h, ArrayWords(2))
           one == ArraySet(none, r, 1, w)
           two == ArraySet(one, r, 0, v)
           Popped(f) == f = [i \in 0..2 |-> IF i = 0 THEN none
                                            ELSE ArraySet(f[i - 1], r, 2 - i, items[2 - i + 1])]
           f0 == [i \in 0..2 |-> IF i = 0 THEN none ELSE IF i = 1 THEN one ELSE two]
           f1 == CHOOSE f : Popped(f)
<1>1. Len(items) = 2 /\ items[1] = v /\ items[2] = w
  OBVIOUS
<1>2. DOMAIN f0 = 0..2 /\ f0[0] = none /\ f0[1] = one /\ f0[2] = two
  OBVIOUS
<1> HIDE DEF none, items
<1>3. ArrayOf(h, items) = Write(f1[2], r + 2, 2)
  BY <1>1 DEF ArrayOf, none
<1>4. Popped(f0)
  <2>1. ASSUME NEW i \in 0..2
        PROVE  f0[i] = IF i = 0 THEN none ELSE ArraySet(f0[i - 1], r, 2 - i, items[2 - i + 1])
    <3>1. CASE i = 0
      BY <1>2, <3>1
    <3>2. CASE i = 1
      BY <1>1, <1>2, <3>2
    <3>3. CASE i = 2
      BY <1>1, <1>2, <3>3
    <3>4. QED
      BY <3>1, <3>2, <3>3
  <2> HIDE DEF one, two
  <2>2. f0 = [i \in 0..2 |-> f0[i]]
    OBVIOUS
  <2> HIDE DEF f0
  <2>3. QED
    BY <2>1, <2>2
<1> HIDE DEF Popped, f0
<1>5. Popped(f1)
  BY <1>4
<1> HIDE DEF f1
<1>6. /\ f1[0] = none
      /\ f1[1] = ArraySet(f1[0], r, 1, items[2])
      /\ f1[2] = ArraySet(f1[1], r, 0, items[1])
  <2>1. \A i \in 0..2 : f1[i] = IF i = 0 THEN none
                                ELSE ArraySet(f1[i - 1], r, 2 - i, items[2 - i + 1])
    BY <1>5 DEF Popped
  <2>2. QED
    BY <2>1
<1>7. QED
  BY <1>1, <1>3, <1>6 DEF none, items

\* A new array of two items.
LEMMA NewArrayStep ==
  ASSUME NEW h, NEW t, Alive(h, t), NEW v \in Int, NEW w \in Int, ArrayOf(h, <<v, w>>).ok
  PROVE  LET g == ArrayOf(h, <<v, w>>)
             r == NextObject(h)
         IN \E u : /\ Step(h, t, g, u, Const) /\ ArrayIn(g, u, r)
                   /\ ArrayGet(g, r, 0) = v /\ ArrayGet(g, r, 1) = w
<1> DEFINE r == NextObject(h)
           n == h.used
           words == ArrayWords(2)
           tags == [i \in 1..5 |-> IF i <= 2 THEN Const
                                   ELSE IF i = 3 THEN Raw ELSE Tag("data", r, 0)]
           none == Allocate(h, words)
           u0 == TagsBehind(h, t, tags)
           one == Write(none, ItemAt(r, 1), w)
           two == Write(one, ItemAt(r, 0), v)
           g == Write(two, LengthAt(r), 2)
           u == RetagTo(u0, LengthAt(r), Const)
<1>1. words \in Seq(Int) /\ Len(words) = 5
  BY ArrayWordsAre
<1>2. n \in Nat /\ r = n + 1 /\ r \in Nat
  BY DEF Alive, IsHeap, NextObject
<1>3. /\ tags[3] = Raw
      /\ \A i \in 1..2 : tags[i] = Const /\ \A j \in 4..5 : tags[j] = Tag("data", r, 0)
  OBVIOUS
<1>4. g = ArrayOf(h, <<v, w>>)
  BY ArrayOfTwo DEF ArraySet, ItemAt, LengthAt
<1> HIDE DEF r, tags
<1>5. none.ok
  <2> SUFFICES ASSUME ~ none.ok PROVE FALSE
    OBVIOUS
  <2>1. Dead(none)
    BY <1>1, AllocateOr
  <2>2. Dead(one)
    BY <2>1, DeadWrite
  <2>3. Dead(two)
    BY <2>2, DeadWrite
  <2>4. Dead(g)
    BY <2>3, DeadWrite
  <2>5. QED
    BY <1>4, <2>4, OkOrDead
<1>6. Step(h, t, none, u0, Const) /\ NewWords(h, t, none, u0, words, tags)
  <2>1. ASSUME NEW i \in 1..Len(words)
        PROVE  NewTag(h.used, words, tags, i)
    <3>0. i \in 1..5
      BY <1>1
    <3>1. i \in 1..2 \/ i = 3 \/ i \in 4..5
      BY ONLY <3>0
    <3>2. CASE i \in 4..5
      <4>1. tags[i][1] = "data"
        BY <1>3, <3>2, TagIs
      <4>2. QED
        BY <4>1 DEF NewTag
    <3>3. QED
      BY <1>3, <3>1, <3>2 DEF NewTag
  <2>2. QED
    BY <1>1, <1>5, <2>1, GrowStep
<1> HIDE DEF none, u0
<1>7. /\ LengthAt(r) \in Words(none) /\ TagAt(u0, LengthAt(r)) = Raw
      /\ \A i \in 0..1 : ItemAt(r, i) \in Words(none) /\ TagAt(u0, ItemAt(r, i)) = Tag("data", r, 0)
  <2>1. \A i \in 1..5 : n + i \in Words(none) /\ TagAt(u0, n + i) = tags[i]
    BY <1>1, <1>6 DEF NewWords
  <2>2. LengthAt(r) = n + 3 /\ \A i \in 0..1 : ItemAt(r, i) = n + (4 + i)
    BY <1>2 DEF LengthAt, ItemAt
  <2> HIDE DEF n
  <2>3. LengthAt(r) \in Words(none) /\ TagAt(u0, LengthAt(r)) = Raw
    BY <1>3, <2>1, <2>2
  <2>4. ASSUME NEW i \in 0..1
        PROVE  ItemAt(r, i) \in Words(none) /\ TagAt(u0, ItemAt(r, i)) = Tag("data", r, 0)
    <3>1. 4 + i \in 1..5 /\ 4 + i \in 4..5
      OBVIOUS
    <3>2. tags[4 + i] = Tag("data", r, 0)
      BY <1>3, <3>1
    <3>3. n + (4 + i) \in Words(none) /\ TagAt(u0, n + (4 + i)) = tags[4 + i]
      BY <2>1, <3>1
    <3>4. QED
      BY <2>2, <3>2, <3>3
  <2>5. QED
    BY <2>3, <2>4
<1> DEFINE x == Tag("data", r, 0)
<1>8. Step(none, u0, one, u0, x) /\ Stored(none, one, ItemAt(r, 1), w)
  <2>1. Alive(none, u0)
    BY <1>6 DEF Step, Becomes
  <2>2. QED
    BY <1>7, <2>1, PutData
<1> HIDE DEF one
<1>9. Step(one, u0, two, u0, x) /\ Stored(one, two, ItemAt(r, 0), v)
  <2>1. Alive(one, u0) /\ ItemAt(r, 0) \in Words(one)
    BY <1>7, <1>8 DEF Step, Becomes, Stored
  <2>2. QED
    BY <1>7, <2>1, PutData
<1> HIDE DEF two
<1>10. Step(two, u0, g, u0, Const) /\ Stored(two, g, LengthAt(r), 2)
  <2>1. Alive(two, u0) /\ LengthAt(r) \in Words(two)
    BY <1>7, <1>8, <1>9 DEF Step, Becomes, Stored
  <2>2. QED
    BY <1>7, <2>1, PutRaw
<1> HIDE DEF g
<1>11. /\ Words(g) = Words(none) /\ Read(g, LengthAt(r)) = 2
       /\ ArrayGet(g, r, 0) = v /\ ArrayGet(g, r, 1) = w
  <2>1. ItemAt(r, 0) # ItemAt(r, 1) /\ ItemAt(r, 0) # LengthAt(r) /\ ItemAt(r, 1) # LengthAt(r)
    BY <1>2 DEF ItemAt, LengthAt
  <2>2. Words(g) = Words(none) /\ Read(g, LengthAt(r)) = 2
    BY <1>8, <1>9, <1>10 DEF Stored
  <2>3. Read(g, ItemAt(r, 0)) = v
    BY <1>9, <1>10, <2>1 DEF Stored
  <2>4. Read(g, ItemAt(r, 1)) = w
    BY <1>8, <1>9, <1>10, <2>1 DEF Stored
  <2>5. QED
    BY <2>2, <2>3, <2>4 DEF ArrayGet, ItemAt
<1>12. /\ Step(g, u0, g, u, Const)
       /\ \A c \in Words(g) : TagAt(u, c) = IF c = LengthAt(r) THEN Const ELSE TagAt(u0, c)
  <2>1. Alive(g, u0)
    BY <1>10 DEF Step, Becomes
  <2>2. QED
    BY <1>7, <1>11, <2>1, RetagStep
<1> HIDE DEF u
<1>13. Step(h, t, g, u, Const)
  <2>1. Step(h, t, none, u0, x)
    BY <1>6, StepUnseen
  <2>2. Step(h, t, one, u0, x)
    BY <1>8, <2>1, StepIsTransitive
  <2>3. Step(h, t, two, u0, x)
    BY <1>9, <2>2, StepIsTransitive
  <2>4. Step(h, t, two, u0, Const)
    BY <2>3, StepOnNew DEF r
  <2>5. Step(h, t, g, u0, Const)
    BY <1>10, <2>4, StepIsTransitive
  <2>6. QED
    BY <1>12, <2>5, StepIsTransitive
<1>14. ArrayIn(g, u, r)
  <2>1. Alive(g, u)
    BY <1>12 DEF Step, Becomes
  <2>2. ItemAt(r, 0) # LengthAt(r) /\ ItemAt(r, 1) # LengthAt(r)
    BY <1>2 DEF ItemAt, LengthAt
  <2>3. LengthAt(r) \in Words(g) /\ TagAt(u, LengthAt(r)) = Const
    BY <1>7, <1>11, <1>12
  <2>4. \A i \in 0..1 : ItemAt(r, i) # LengthAt(r) =>
          ItemAt(r, i) \in Words(g) /\ TagAt(u, ItemAt(r, i)) = Tag("data", r, 0)
    BY <1>7, <1>11, <1>12
  <2>5. QED
    BY <1>2, <1>11, <2>1, <2>2, <2>3, <2>4, MadeArray
<1>15. QED
  BY <1>4, <1>11, <1>13, <1>14 DEF r

\* A new string of the characters given.
LEMMA NewStringStep ==
  ASSUME NEW h, NEW t, Alive(h, t), NEW s \in Seq(Int), Allocate(h, StringWords(s)).ok
  PROVE  LET g == Allocate(h, StringWords(s))
             str == NextObject(h)
         IN \E u : Step(h, t, g, u, Const) /\ StringIn(g, u, str) /\ StringAt(g, str) = s
<1> DEFINE str == NextObject(h)
           n == h.used
           words == StringWords(s)
           tags == [i \in 1..Len(words) |-> Const]
           g == Allocate(h, words)
           u == TagsBehind(h, t, tags)
           m == Len(s)
<1>1. /\ words \in Seq(Int) /\ Len(words) = 2 + m /\ m \in Nat /\ words[2] = m
      /\ \A i \in 1..m : words[2 + i] = s[i]
  <2> DEFINE head == <<StringHead, m>>
             all == head \o s
  <2>1. m \in Nat
    BY LenProperties
  <2>2. words = head \o s
    BY DEF StringWords
  <2>3. head \in Seq(Int) /\ Len(head) = 2 /\ head[2] = m
    BY <2>1 DEF StringHead
  <2> HIDE DEF head
  <2>4. /\ all \in Seq(Int) /\ Len(all) = 2 + m
        /\ \A i \in 1..(2 + m) : all[i] = IF i <= 2 THEN head[i] ELSE s[i - 2]
    <3> HIDE DEF m
    <3>1. s \in Seq(Int) /\ head \in Seq(Int)
      BY <2>3
    <3>2. /\ head \o s \in Seq(Int) /\ Len(head \o s) = Len(head) + Len(s)
          /\ \A i \in 1..(Len(head) + Len(s)) :
               (head \o s)[i] = IF i <= Len(head) THEN head[i] ELSE s[i - Len(head)]
      BY ONLY <3>1, ConcatProperties
    <3>3. Len(head) = 2 /\ Len(s) = m
      BY <2>3 DEF m
    <3>4. QED
      BY <3>2, <3>3
  <2> HIDE DEF m
  <2> HIDE DEF all
  <2>5. all[2] = m
    BY <2>1, <2>3, <2>4
  <2>6. \A i \in 1..m : all[2 + i] = s[i]
    <3> TAKE i \in 1..m
    <3>1. 2 + i \in 1..(2 + m) /\ ~ (2 + i <= 2) /\ (2 + i) - 2 = i
      BY <2>1
    <3>2. QED
      BY <2>4, <3>1
  <2>7. QED
    BY <2>1, <2>2, <2>4, <2>5, <2>6 DEF all
<1>2. n \in Nat /\ str = n + 1
  BY DEF Alive, IsHeap, NextObject
<1>3. \A i \in 1..Len(words) : tags[i] = Const
  OBVIOUS
<1> HIDE DEF tags, words, str
<1>4. Step(h, t, g, u, Const) /\ NewWords(h, t, g, u, words, tags)
  <2>1. \A i \in 1..Len(words) : NewTag(h.used, words, tags, i)
    BY <1>3 DEF NewTag
  <2>2. g.ok
    BY DEF words
  <2>3. QED
    BY <1>1, <2>1, <2>2, GrowStep
<1> HIDE DEF g, u, m
<1>5. ASSUME NEW i \in 1..(2 + m)
      PROVE  n + i \in Words(g) /\ Read(g, n + i) = words[i] /\ TagAt(u, n + i) = Const
  BY <1>1, <1>3, <1>4 DEF NewWords
<1> HIDE DEF n
<1>6. str + 1 \in Words(g) /\ Read(g, str + 1) = m /\ TagAt(u, str + 1) = Const
  <2>1. str + 1 = n + 2 /\ 2 \in 1..(2 + m)
    BY <1>1, <1>2
  <2>2. QED
    BY <1>1, <1>5, <2>1
<1>7. ASSUME NEW i \in 1..m
      PROVE  /\ str + 1 + i \in Words(g) /\ Read(g, str + 1 + i) = s[i]
             /\ TagAt(u, str + 1 + i) = Const
  <2>1. str + 1 + i = n + (2 + i) /\ 2 + i \in 1..(2 + m)
    BY <1>1, <1>2
  <2>2. QED
    BY <1>1, <1>5, <2>1
<1>8. Alive(g, u)
  BY <1>4 DEF Step, Becomes
<1>9. StringIn(g, u, str)
  <2>1. Read(g, str + 1) = g.mem[str + 1]
    BY <1>6, <1>8, HeapWord DEF Words
  <2>2. QED
    BY <1>1, <1>2, <1>6, <1>7, <1>8, <2>1 DEF StringIn, IsString, Words, TagAt
<1>10. StringAt(g, str) = s
  <2>1. s = [i \in 1..m |-> s[i]]
    BY LenProperties DEF m
  <2>2. QED
    BY <1>6, <1>7, <2>1 DEF StringAt
<1>11. QED
  BY <1>4, <1>9, <1>10 DEF g, words, str

\* The words there were are what they were.
Keeps(h, t, g, u) ==
  \A a \in Words(h) : a \in Words(g) /\ Read(g, a) = Read(h, a) /\ TagAt(u, a) = TagAt(t, a)

\* New words leave the old ones and their tags.
LEMMA NewWordsKeep ==
  ASSUME NEW h, NEW t, NEW g, NEW u, NEW words \in Seq(Int), NEW tags,
         NewWords(h, t, g, u, words, tags), h.used \in Nat
  PROVE  Keeps(h, t, g, u)
<1>1. Len(words) \in Nat
  BY LenProperties
<1>2. Len(h.mem) = h.used /\ Len(g.mem) = h.used + Len(words)
  BY DEF NewWords
<1>3. \A a \in Words(h) : a \in Words(g)
  BY <1>1, <1>2 DEF Words
<1>4. QED
  BY <1>3 DEF NewWords, Keeps

\* An array nothing has been stored to yet: a bucket, or the strings of a builder.
LEMMA NewRoomStep ==
  ASSUME NEW h, NEW t, Alive(h, t), NEW size, NEW kind, NEW owner,
         \/ size = 4 /\ kind = "bucket"
         \/ size = 8 /\ kind = "strings",
         Allocate(h, ArrayWords(size)).ok
  PROVE  LET g == Allocate(h, ArrayWords(size))
             r == NextObject(h)
         IN \E u : /\ Step(h, t, g, u, Const) /\ Keeps(h, t, g, u)
                   /\ r \in Nat /\ LengthAt(r) \in Words(g) /\ ArrayLength(g, r) = 0
                   /\ TagAt(u, LengthAt(r)) = Tag(kind, owner, 0)
<1> DEFINE r == NextObject(h)
           n == h.used
           words == ArrayWords(size)
           item == Tag("item", n + 3, 0)
           tags == [i \in 1..(3 + size) |-> IF i <= 2 THEN Const
                                            ELSE IF i = 3 THEN Tag(kind, owner, 0) ELSE item]
           g == Allocate(h, words)
           u == TagsBehind(h, t, tags)
<1>1. size \in Nat /\ size \in {4, 8} /\ size \in {2, 4, 8}
  OBVIOUS
<1>2. words \in Seq(Int) /\ Len(words) = 3 + size /\ \A i \in 3..(3 + size) : words[i] = 0
  BY <1>1, ArrayWordsAre
<1>3. n \in Nat /\ r = n + 1 /\ r \in Nat
  BY DEF Alive, IsHeap, NextObject
<1> HIDE DEF words, r
<1>4. /\ \A i \in 1..2 : tags[i] = Const
      /\ tags[3] = Tag(kind, owner, 0)
      /\ \A i \in 4..(3 + size) : tags[i] = item
  <2>1. \A i \in 1..2 : i \in 1..(3 + size) /\ i <= 2
    BY <1>1
  <2>2. 3 \in 1..(3 + size)
    BY <1>1
  <2>3. \A i \in 4..(3 + size) : i \in 1..(3 + size) /\ ~ (i <= 2) /\ i # 3
    BY <1>1
  <2> HIDE DEF item
  <2>4. QED
    BY <2>1, <2>2, <2>3
<1> HIDE DEF tags
<1>5. NewTag(h.used, words, tags, 3)
  <2>1. words[3] = 0
    BY <1>1, <1>2
  <2>2. tags[3][1] = kind
    BY <1>4, TagIs
  <2>3. ASSUME NEW j \in 1..size
        PROVE  3 + j \in 1..Len(words) /\ tags[3 + j] = Tag("item", h.used + 3, 0)
    <3>1. 3 + j \in 4..(3 + size) /\ 3 + j \in 1..(3 + size)
      BY <1>1
    <3>2. QED
      BY <1>2, <1>4, <3>1
  <2>4. CASE size = 4 /\ kind = "bucket"
    <3>1. \A j \in 1..4 : 3 + j \in 1..Len(words) /\ tags[3 + j] = Tag("item", h.used + 3, 0)
      BY <2>3, <2>4
    <3>2. QED
      BY <2>1, <2>2, <2>4, <3>1 DEF NewTag
  <2>5. CASE size = 8 /\ kind = "strings"
    <3>1. \A j \in 1..8 : 3 + j \in 1..Len(words) /\ tags[3 + j] = Tag("item", h.used + 3, 0)
      BY <2>3, <2>5
    <3>2. QED
      BY <2>1, <2>2, <2>5, <3>1 DEF NewTag
  <2>6. QED
    BY <2>4, <2>5
<1>6. ASSUME NEW i \in 1..Len(words)
      PROVE  NewTag(h.used, words, tags, i)
  <2>0. i \in 1..(3 + size)
    BY <1>2
  <2>1. i \in 1..2 \/ i = 3 \/ i \in 4..(3 + size)
    BY ONLY <1>1, <2>0
  <2>2. CASE i \in 4..(3 + size)
    <3>1. tags[i][1] = "item"
      BY <1>4, <2>2, TagIs
    <3>2. QED
      BY <3>1 DEF NewTag
  <2>3. CASE i \in 1..2
    BY <1>4, <2>3 DEF NewTag
  <2>4. QED
    BY <1>5, <2>1, <2>2, <2>3
<1>7. Step(h, t, g, u, Const) /\ NewWords(h, t, g, u, words, tags)
  <2>1. g.ok
    BY DEF words
  <2>2. QED
    BY <1>2, <1>6, <2>1, GrowStep
<1> HIDE DEF g, u, item
<1>8. n + 3 \in Words(g) /\ Read(g, n + 3) = 0 /\ TagAt(u, n + 3) = Tag(kind, owner, 0)
  <2>1. 3 \in 1..Len(words) /\ words[3] = 0
    BY <1>1, <1>2
  <2>2. QED
    BY <1>4, <1>7, <2>1 DEF NewWords
<1>9. LengthAt(r) = n + 3 /\ ArrayLength(g, r) = Read(g, LengthAt(r))
  BY <1>3 DEF LengthAt, ArrayLength
<1>10. Keeps(h, t, g, u)
  BY <1>2, <1>3, <1>7, NewWordsKeep
<1>11. QED
  BY <1>3, <1>7, <1>8, <1>9, <1>10 DEF g, r, words

\* What a value is wrapped in.
LEMMA NewWrapperStep ==
  ASSUME NEW h, NEW t, Alive(h, t), NEW head \in Int, NEW v \in Int,
         Allocate(h, OptionalWords(head, v)).ok
  PROVE  LET g == Allocate(h, OptionalWords(head, v))
             x == NextObject(h)
         IN \E u : /\ Step(h, t, g, u, Const) /\ Keeps(h, t, g, u)
                   /\ WrapperIn(g, u, x) /\ Wrapped(g, x) = v
<1> DEFINE x == NextObject(h)
           n == h.used
           words == OptionalWords(head, v)
           tags == [i \in 1..2 |-> Const]
           g == Allocate(h, words)
           u == TagsBehind(h, t, tags)
<1>1. words \in Seq(Int) /\ Len(words) = 2 /\ words[2] = v
  BY DEF OptionalWords
<1>2. n \in Nat /\ x = n + 1 /\ x \in Nat
  BY DEF Alive, IsHeap, NextObject
<1>3. \A i \in 1..2 : tags[i] = Const
  OBVIOUS
<1> HIDE DEF words, tags, x
<1>4. Step(h, t, g, u, Const) /\ NewWords(h, t, g, u, words, tags)
  <2>1. \A i \in 1..Len(words) : NewTag(h.used, words, tags, i)
    BY <1>1, <1>3 DEF NewTag
  <2>2. g.ok
    BY DEF words
  <2>3. QED
    BY <1>1, <2>1, <2>2, GrowStep
<1> HIDE DEF g, u
<1>5. n + 2 \in Words(g) /\ Read(g, n + 2) = v /\ TagAt(u, n + 2) = Const
  BY <1>1, <1>3, <1>4 DEF NewWords
<1>6. x + 1 = n + 2
  BY <1>2
<1>7. WrapperIn(g, u, x)
  <2>1. Alive(g, u)
    BY <1>4 DEF Step, Becomes
  <2>2. QED
    BY <1>2, <1>5, <1>6, <2>1, MadeWrapper
<1>8. Wrapped(g, x) = v
  <2>1. x # Nil
    BY <1>2 DEF Nil
  <2>2. QED
    BY <1>5, <1>6, <2>1 DEF Wrapped
<1>9. Keeps(h, t, g, u)
  BY <1>1, <1>2, <1>4, NewWordsKeep
<1>10. QED
  BY <1>4, <1>7, <1>8, <1>9 DEF g, x, words

\* The room of an array is allocated or the program is aborted.
LEMMA RoomOr ==
  ASSUME NEW h, NEW t, Alive(h, t), NEW n \in {2, 4, 8}
  PROVE  Allocate(h, ArrayWords(n)).ok \/ Dead(Allocate(h, ArrayWords(n)))
BY ArrayWordsAre, AllocateOr

\* A builder holds no string yet.
LEMMA NewBuilderStep ==
  ASSUME NEW h, NEW t, Alive(h, t), NewStringBuilder(h).ok
  PROVE  LET g == NewStringBuilder(h)
             b == NextObject(h)
         IN \E u : Step(h, t, g, u, Const) /\ BuilderIn(g, u, b) /\ Appended(g, b) = <<>>
<1> DEFINE b == NextObject(h)
           n == h.used
           words == <<BuilderHead, 0>>
           tags == <<Const, Raw>>
           own == Allocate(h, words)
           t1 == TagsBehind(h, t, tags)
           r == NextObject(own)
           both == Allocate(own, ArrayWords(8))
           g == Write(both, b + 1, r)
<1>1. words \in Seq(Int) /\ Len(words) = 2
  BY DEF BuilderHead
<1>2. n \in Nat /\ b = n + 1 /\ b \in Nat
  BY DEF Alive, IsHeap, NextObject
<1>3. tags[1] = Const /\ tags[2] = Raw
  OBVIOUS
<1>4. NewStringBuilder(h) = g
  BY DEF NewStringBuilder
<1> HIDE DEF words, tags, b
<1>5. IsHeap(own) /\ r \in Int
  <2>1. Dead(own) \/ Grown(h, words, own)
    BY <1>1, AllocateGrows DEF Alive
  <2>2. IsHeap(own)
    BY <2>1 DEF Dead, Grown
  <2>3. QED
    BY <2>2 DEF IsHeap, NextObject
<1>6. own.ok
  <2> SUFFICES ASSUME ~ own.ok PROVE FALSE
    OBVIOUS
  <2>1. Dead(own)
    BY <1>1, AllocateOr
  <2>2. Dead(both)
    BY <2>1, DeadAllocate
  <2>3. Dead(g)
    BY <1>5, <2>2, DeadWrite
  <2>4. QED
    BY <1>4, <2>3, OkOrDead
<1>7. Step(h, t, own, t1, Const) /\ NewWords(h, t, own, t1, words, tags)
  <2>1. ASSUME NEW i \in 1..Len(words)
        PROVE  NewTag(h.used, words, tags, i)
    <3>1. i = 1 \/ i = 2
      BY <1>1
    <3>2. QED
      BY <1>3, <3>1 DEF NewTag
  <2>2. QED
    BY <1>1, <1>6, <2>1, GrowStep
<1>8. b + 1 \in Words(own) /\ TagAt(t1, b + 1) = Raw
  <2>1. n + 2 \in Words(own) /\ TagAt(t1, n + 2) = Raw
    BY <1>1, <1>3, <1>7 DEF NewWords
  <2>2. b + 1 = n + 2
    BY <1>2
  <2>3. QED
    BY <2>1, <2>2
<1>9. Alive(own, t1)
  BY <1>7 DEF Step, Becomes
<1> HIDE DEF own, t1
<1>10. both.ok
  <2> SUFFICES ASSUME ~ both.ok PROVE FALSE
    OBVIOUS
  <2>1. Dead(both)
    BY <1>9, RoomOr
  <2>2. Dead(g)
    BY <1>5, <2>1, DeadWrite
  <2>3. QED
    BY <1>4, <2>2, OkOrDead
<1>11. PICK t2 : /\ Step(own, t1, both, t2, Const) /\ Keeps(own, t1, both, t2)
                 /\ r \in Nat /\ LengthAt(r) \in Words(both) /\ ArrayLength(both, r) = 0
                 /\ TagAt(t2, LengthAt(r)) = Tag("strings", b, 0)
  BY <1>9, <1>10, NewRoomStep
<1> HIDE DEF both, r
<1>12. b + 1 \in Words(both) /\ TagAt(t2, b + 1) = Raw
  BY <1>8, <1>11 DEF Keeps
<1>13. Step(both, t2, g, t2, Const) /\ Stored(both, g, b + 1, r)
  <2>1. Alive(both, t2) /\ r \in Int
    BY <1>11 DEF Step, Becomes
  <2>2. QED
    BY <1>12, <2>1, PutRaw
<1> HIDE DEF g
<1> DEFINE u == RetagTo(t2, b + 1, Const)
<1>14. /\ Step(g, t2, g, u, Const)
       /\ \A c \in Words(g) : TagAt(u, c) = IF c = b + 1 THEN Const ELSE TagAt(t2, c)
  <2>1. Alive(g, t2) /\ b + 1 \in Words(g)
    BY <1>12, <1>13 DEF Step, Becomes, Stored
  <2>2. QED
    BY <1>12, <2>1, RetagStep
<1> HIDE DEF u
<1>15. LengthAt(r) # b + 1
  <2>1. Tag("strings", b, 0) # Raw
    BY TagIs
  <2>2. QED
    BY <1>11, <1>12, <2>1
<1>16. /\ b + 1 \in Words(g) /\ TagAt(u, b + 1) = Const /\ Read(g, b + 1) = r
       /\ LengthAt(r) \in Words(g) /\ TagAt(u, LengthAt(r)) = Tag("strings", b, 0)
       /\ Read(g, LengthAt(r)) = Read(both, LengthAt(r))
  <2>1. b + 1 \in Words(g) /\ LengthAt(r) \in Words(g)
    BY <1>11, <1>12, <1>13 DEF Stored
  <2>2. Read(g, b + 1) = r /\ Read(g, LengthAt(r)) = Read(both, LengthAt(r))
    BY <1>13, <1>15 DEF Stored
  <2>3. TagAt(u, b + 1) = Const /\ TagAt(u, LengthAt(r)) = Tag("strings", b, 0)
    BY <1>11, <1>14, <1>15, <2>1
  <2>4. QED
    BY <2>1, <2>2, <2>3
<1>17. BuilderIn(g, u, b)
  <2>1. Alive(g, u)
    BY <1>14 DEF Step, Becomes
  <2>2. QED
    BY <1>2, <1>11, <1>16, <2>1, MadeBuilder
<1>18. Appended(g, b) = <<>>
  <2>1. ArrayLength(g, r) = 0
    BY <1>11, <1>16 DEF ArrayLength, LengthAt
  <2>2. Read(g, b + 1) = r
    BY <1>16
  <2>3. QED
    BY <2>1, <2>2 DEF Appended
<1>19. Step(h, t, g, u, Const)
  <2>1. Step(h, t, both, t2, Const)
    BY <1>7, <1>11, StepIsTransitive
  <2>2. Step(h, t, g, t2, Const)
    BY <1>13, <2>1, StepIsTransitive
  <2>3. QED
    BY <1>14, <2>2, StepIsTransitive
<1>20. QED
  BY <1>4, <1>17, <1>18, <1>19 DEF b

-----------------------------------------------------------------------------
(* The operations that store to an object there is. *)

\* `a[i] = v`.
LEMMA SetItemStep ==
  ASSUME NEW h, NEW t, NEW r, ArrayIn(h, t, r), NEW i \in 0..1, NEW v \in Int
  PROVE  LET g == ArraySet(h, r, i, v)
         IN /\ Step(h, t, g, t, Tag("data", r, 0))
            /\ \A j \in 0..1 : ArrayGet(g, r, j) = IF j = i THEN v ELSE ArrayGet(h, r, j)
<1> DEFINE x == ItemAt(r, i)
           g == Write(h, x, v)
<1>1. /\ r \in Nat /\ x \in Words(h) /\ TagAt(t, x) = Tag("data", r, 0)
  BY ArrayIs
<1>2. Alive(h, t)
  BY DEF ArrayIn
<1>3. ArraySet(h, r, i, v) = g
  BY DEF ArraySet, ItemAt
<1> HIDE DEF x
<1>4. Step(h, t, g, t, Tag("data", r, 0)) /\ Stored(h, g, x, v)
  BY <1>1, <1>2, PutData
<1> HIDE DEF g
<1>5. ASSUME NEW j \in 0..1
      PROVE  ArrayGet(g, r, j) = IF j = i THEN v ELSE ArrayGet(h, r, j)
  <2>1. ItemAt(r, j) = x <=> j = i
    BY <1>1 DEF x, ItemAt
  <2>2. Read(g, ItemAt(r, j)) = IF j = i THEN v ELSE Read(h, ItemAt(r, j))
    BY <1>4, <2>1 DEF Stored
  <2>3. QED
    BY <2>2 DEF ArrayGet, ItemAt
<1>6. QED
  BY <1>3, <1>4, <1>5

\* The characters of a string, and the strings of a builder.
LEMMA StringIsWords ==
  ASSUME NEW h, NEW t, NEW s, StringIn(h, t, s)
  PROVE  StringAt(h, s) \in Seq(Int)
<1> DEFINE m == Read(h, s + 1)
<1>1. m \in Nat
  <2>1. Becomes(h, t, h, t)
    BY BecomesItself DEF StringIn
  <2>2. QED
    BY <2>1, SameString
<1>2. ASSUME NEW a
      PROVE  Read(h, a) \in Int
  <2>1. h.mem \in Seq(Int)
    BY DEF StringIn, Alive, IsHeap
  <2>2. CASE a \in DOMAIN h.mem
    <3>1. h.mem \in [1..Len(h.mem) -> Int] /\ DOMAIN h.mem = 1..Len(h.mem)
      BY <2>1, LenProperties
    <3>2. QED
      BY <2>2, <3>1 DEF Read
  <2>3. CASE a \notin DOMAIN h.mem
    BY <2>3 DEF Read
  <2>4. QED
    BY <2>2, <2>3
<1>3. StringAt(h, s) = [i \in 1..m |-> Read(h, s + 1 + i)]
  BY DEF StringAt
<1> HIDE DEF m
<1>4. StringAt(h, s) \in [1..m -> Int]
  BY <1>2, <1>3
<1>5. QED
  BY <1>1, <1>4, SeqDef

\* What a builder has: the strings its array points to.
LEMMA AppendedIs ==
  ASSUME NEW h, NEW t, NEW b, BuilderIn(h, t, b)
  PROVE  LET r == StringsOf(h, b)
             n == ArrayLength(h, r)
         IN /\ Appended(h, b) \in Seq(Seq(Int)) /\ Len(Appended(h, b)) = n /\ n \in 0..8
            /\ \A i \in 1..n : Appended(h, b)[i] = StringAt(h, ArrayGet(h, r, i - 1))
<1> DEFINE r == StringsOf(h, b)
           n == ArrayLength(h, r)
           all == Appended(h, b)
<1>1. n \in 0..8 /\ \A i \in 0..(n - 1) : StringIn(h, t, ArrayGet(h, r, i))
  BY BuilderIs
<1>2. all = [i \in 1..n |-> StringAt(h, ArrayGet(h, r, i - 1))]
  BY DEF Appended, StringsOf
<1> HIDE DEF n, all
<1>3. ASSUME NEW i \in 1..n
      PROVE  StringAt(h, ArrayGet(h, r, i - 1)) \in Seq(Int)
  <2>1. i - 1 \in 0..(n - 1)
    BY <1>1
  <2>2. QED
    BY <1>1, <2>1, StringIsWords
<1>4. all \in [1..n -> Seq(Int)]
  BY <1>2, <1>3
<1>5. n \in Nat
  BY <1>1
<1>6. all \in Seq(Seq(Int)) /\ Len(all) = n
  BY <1>4, <1>5, SeqDef, LenProperties
<1>7. \A i \in 1..n : all[i] = StringAt(h, ArrayGet(h, r, i - 1))
  BY <1>2
<1>8. QED
  BY <1>1, <1>6, <1>7 DEF n, all

\* append: the string is stored behind the others, and counted.
LEMMA AppendStep ==
  ASSUME NEW h, NEW t, NEW b, BuilderIn(h, t, b), NEW s, StringIn(h, t, s),
         Len(Appended(h, b)) < 8
  PROVE  LET g == BuilderAppend(h, b, s)
         IN /\ Step(h, t, g, t, Tag("strings", b, 0))
            /\ Appended(g, b) = Append(Appended(h, b), StringAt(h, s))
<1> DEFINE r == StringsOf(h, b)
           n == ArrayLength(h, r)
           x == ItemAt(r, n)
           c == LengthAt(r)
           one == Write(h, x, s)
           g == Write(one, c, n + 1)
<1>1. /\ r \in Nat /\ c \in Words(h) /\ TagAt(t, c) = Tag("strings", b, 0)
      /\ n = Read(h, c) /\ n \in 0..8
      /\ \A i \in 0..7 : ItemAt(r, i) \in Words(h) /\ TagAt(t, ItemAt(r, i)) = Tag("item", c, 0)
      /\ \A i \in 0..(n - 1) : i \in 0..7 /\ StringIn(h, t, ArrayGet(h, r, i))
  BY BuilderIs
<1>2. /\ Appended(h, b) \in Seq(Seq(Int)) /\ Len(Appended(h, b)) = n
      /\ \A i \in 1..n : Appended(h, b)[i] = StringAt(h, ArrayGet(h, r, i - 1))
  BY AppendedIs
<1>3. BuilderAppend(h, b, s) = g
  BY DEF BuilderAppend, ArrayAppend, ArraySet, StringsOf, ItemAt, LengthAt
<1>4. Alive(h, t) /\ s \in Int
  BY DEF StringIn, IsString
<1>5. n \in 0..7
  BY <1>1, <1>2
<1>6. c = r + 2 /\ \A i \in 0..7 : ItemAt(r, i) = r + 3 + i
  BY DEF ItemAt, LengthAt
<1>7. x \in Words(h) /\ TagAt(t, x) = Tag("item", c, 0) /\ x = r + 3 + n
  BY <1>1, <1>5, <1>6
<1>8. x > c + Read(h, c) /\ c # x
  BY <1>1, <1>6, <1>7
<1> HIDE DEF x, c, n, r
<1>9. Step(h, t, one, t, Const) /\ Stored(h, one, x, s)
  BY <1>1, <1>4, <1>7, <1>8, PutItem
<1> HIDE DEF one
<1>10. Becomes(h, t, one, t) /\ BuilderIn(one, t, b) /\ StringIn(one, t, s) /\ StringsOf(one, b) = r
  <2>1. Becomes(h, t, one, t)
    BY <1>9 DEF Step
  <2>2. QED
    BY <2>1, StaysIn, SameStrings DEF r
<1>11. ArrayLength(one, r) = n /\ ArrayGet(one, r, n) = s
  <2>1. c # x
    BY <1>8
  <2>2. Read(one, c) = Read(h, c)
    BY <1>9, <2>1 DEF Stored
  <2>3. Read(one, x) = s
    BY <1>9 DEF Stored
  <2>4. QED
    BY <1>1, <2>2, <2>3 DEF ArrayLength, ArrayGet, c, x, LengthAt, ItemAt
<1>12. Step(one, t, g, t, Tag("strings", b, 0)) /\ Stored(one, g, c, n + 1)
  <2>1. n < 8
    BY <1>5
  <2>2. Step(one, t, Write(one, LengthAt(r), n + 1), t, Tag("strings", b, 0))
        /\ Stored(one, Write(one, LengthAt(r), n + 1), LengthAt(r), n + 1)
    BY <1>10, <1>11, <2>1, PutStrings
  <2>3. QED
    BY <2>2 DEF c
<1> HIDE DEF g
<1>13. Step(h, t, g, t, Tag("strings", b, 0))
  <2>1. Step(h, t, one, t, Tag("strings", b, 0))
    BY <1>9, StepUnseen
  <2>2. QED
    BY <1>12, <2>1, StepIsTransitive
<1>14. Becomes(h, t, g, t) /\ BuilderIn(g, t, b) /\ StringsOf(g, b) = r
  <2>1. Becomes(h, t, g, t)
    BY <1>13 DEF Step
  <2>2. QED
    BY <2>1, StaysIn, SameStrings DEF r
<1>15. ArrayLength(g, r) = n + 1 /\ ArrayGet(g, r, n) = s
  <2>1. c # x
    BY <1>8
  <2>2. Read(g, c) = n + 1 /\ Read(g, x) = s
    BY <1>9, <1>12, <2>1 DEF Stored
  <2>3. QED
    BY <2>2 DEF ArrayLength, ArrayGet, c, x, LengthAt, ItemAt
<1>16. ASSUME NEW i \in 0..(n - 1)
       PROVE  ArrayGet(g, r, i) = ArrayGet(h, r, i)
  <2>0. r \in Nat /\ n \in 0..7 /\ c = r + 2 /\ x = r + 3 + n
    BY <1>1, <1>5, <1>6, <1>7
  <2>1. ItemAt(r, i) # c /\ ItemAt(r, i) # x
    BY <2>0 DEF ItemAt
  <2>2. Read(g, ItemAt(r, i)) = Read(h, ItemAt(r, i))
    BY <1>9, <1>12, <2>1 DEF Stored
  <2>3. QED
    BY <2>2 DEF ArrayGet, ItemAt
<1>17. /\ Appended(g, b) \in Seq(Seq(Int)) /\ Len(Appended(g, b)) = n + 1
       /\ \A i \in 1..(n + 1) : Appended(g, b)[i] = StringAt(g, ArrayGet(g, r, i - 1))
  BY <1>14, <1>15, AppendedIs
<1> DEFINE whole == Append(Appended(h, b), StringAt(h, s))
<1>18. /\ whole \in Seq(Seq(Int)) /\ Len(whole) = n + 1
       /\ \A i \in 1..n : whole[i] = Appended(h, b)[i]
       /\ whole[n + 1] = StringAt(h, s)
  <2>1. StringAt(h, s) \in Seq(Int)
    BY StringIsWords
  <2>2. /\ whole \in Seq(Seq(Int)) /\ Len(whole) = Len(Appended(h, b)) + 1
        /\ \A i \in 1..Len(Appended(h, b)) : whole[i] = Appended(h, b)[i]
        /\ whole[Len(Appended(h, b)) + 1] = StringAt(h, s)
    BY <1>2, <2>1, AppendProperties
  <2>3. QED
    BY <1>2, <2>2
<1> HIDE DEF whole
<1>19. ASSUME NEW i \in 1..(n + 1)
       PROVE  Appended(g, b)[i] = whole[i]
  <2>1. CASE i \in 1..n
    <3>1. i - 1 \in 0..(n - 1)
      BY <1>5, <2>1
    <3>2. StringIn(h, t, ArrayGet(h, r, i - 1)) /\ ArrayGet(g, r, i - 1) = ArrayGet(h, r, i - 1)
      BY <1>1, <1>16, <3>1
    <3>3. StringAt(g, ArrayGet(g, r, i - 1)) = StringAt(h, ArrayGet(h, r, i - 1))
      BY <1>14, <3>2, SameString
    <3>4. QED
      BY <1>2, <1>17, <1>18, <2>1, <3>3
  <2>2. CASE i = n + 1
    <3>1. i - 1 = n
      BY <1>5, <2>2
    <3>2. StringAt(g, s) = StringAt(h, s)
      BY <1>14, SameString
    <3>3. QED
      BY <1>15, <1>17, <1>18, <2>2, <3>1, <3>2
  <2>3. i \in 1..n \/ i = n + 1
    BY <1>5
  <2>4. QED
    BY <2>1, <2>2, <2>3
<1>20. Appended(g, b) = whole
  BY <1>17, <1>18, <1>19, SeqEqual
<1>21. QED
  BY <1>3, <1>13, <1>20 DEF whole

-----------------------------------------------------------------------------
(* insert. *)

\* A new bucket is empty: for a program it is as if there were none.
LEMMA SlotStep ==
  ASSUME NEW h, NEW t, NEW d, DictIn(h, t, d), NEW k \in Int, BucketOf(h, d, k) = 0,
         NEW b, BucketIn(h, t, b, d), ArrayLength(h, b) = 0
  PROVE  LET g == Write(h, BucketSlot(h, d, k), b)
         IN Step(h, t, g, t, Const) /\ BucketOf(g, d, k) = b /\ ArrayLength(g, b) = 0
<1> DEFINE slot == BucketSlot(h, d, k)
           g == Write(h, slot, b)
           x == Tag("slot", d, 0)
<1>1. slot \in Words(h) /\ TagAt(t, slot) = x /\ Read(h, slot) = 0
  BY SlotIs DEF BucketOf
<1>2. Alive(h, t)
  BY DEF DictIn
<1>3. Becomes(h, t, g, t) /\ Stored(h, g, slot, b)
  BY <1>1, <1>2, PutSlot
<1>4. BucketSlot(g, d, k) = slot
  BY <1>3, SameSlot
<1>5. x[1] # "item" /\ \A a, c : Tag("bucket", a, 0) # x /\ Tag("value", a, c) # x
  BY TagIs
<1>6. \A a : Tag("data", a, 0) # x /\ Tag("strings", a, 0) # x
  BY TagIs
<1> HIDE DEF slot, g, x
<1>7. Touches(h, t, g, x)
  BY <1>1, <1>3 DEF Touches, Stored
<1>8. BucketOf(g, d, k) = b
  BY <1>3, <1>4 DEF BucketOf, Stored
<1>9. ArrayLength(g, b) = 0
  <2>1. LengthAt(b) \in Words(h) /\ TagAt(t, LengthAt(b)) = Tag("bucket", d, 0)
    BY BucketIs
  <2>2. LengthAt(b) # slot
    BY <1>1, <1>5, <2>1
  <2>3. Read(g, LengthAt(b)) = Read(h, LengthAt(b))
    BY <1>3, <2>2 DEF Stored
  <2>4. QED
    BY <2>3 DEF ArrayLength, LengthAt
<1>10. ASSUME NEW f, NEW l \in Int, DictIn(h, t, f)
       PROVE  ValueIn(g, f, l) = ValueIn(h, f, l)
  <2> DEFINE other == BucketSlot(h, f, l)
  <2>1. BucketSlot(g, f, l) = other
    BY <1>3, <1>10, SameSlot
  <2> HIDE DEF other
  <2>2. CASE other = slot
    <3>1. BucketOf(h, f, l) = 0 /\ BucketOf(g, f, l) = b
      BY <1>1, <1>3, <2>1, <2>2 DEF BucketOf, Stored, other
    <3>2. Matches(g, b, l) = {}
      BY <1>9 DEF Matches
    <3>3. ValueIn(h, f, l) = Nil
      BY <3>1, GetIs
    <3>4. ValueIn(g, f, l) = Nil
      BY <3>1, <3>2, GetIs
    <3>5. QED
      BY <3>3, <3>4
  <2>3. CASE other # slot
    <3>1. BucketOf(g, f, l) = BucketOf(h, f, l)
      BY <1>3, <2>1, <2>3 DEF BucketOf, Stored, other
    <3> DEFINE c == BucketOf(h, f, l)
    <3>2. ASSUME c # 0
          PROVE  SameMatches(h, g, c, l)
      <4>1. BucketIn(h, t, c, f)
        BY <1>10, <3>2, SlotIs
      <4> HIDE DEF c
      <4>2. QED
        BY <1>3, <1>5, <1>7, <4>1, TouchesNoBucket
    <3>3. QED
      BY <1>3, <1>10, <3>1, <3>2, SameValue
  <2>4. QED
    BY <2>2, <2>3
<1>11. SameItems(h, t, g, x) /\ SameAppends(h, t, g, x)
  BY <1>3, <1>5, <1>7, TouchesNoObject
<1>12. SameValues(h, t, g, Const) /\ SameItems(h, t, g, Const) /\ SameAppends(h, t, g, Const)
  BY <1>6, <1>10, <1>11 DEF SameValues, SameItems, SameAppends
<1>13. QED
  BY <1>3, <1>8, <1>9, <1>12 DEF Step, g, slot

\* The bucket of a key is there, and it has room or the key.
HasBucket(h, t, d, k) ==
  LET b == BucketOf(h, d, k)
  IN /\ b # 0 /\ BucketIn(h, t, b, d)
     /\ ArrayLength(h, b) < 4 \/ Matches(h, b, k) # {}

\* A bucket for a key: the one there is, if it has room, or a new one.
LEMMA WithBucketStep ==
  ASSUME NEW h, NEW t, NEW d, DictIn(h, t, d), NEW k \in Int, ~ Dead(WithBucket(h, d, k)),
         BucketOf(h, d, k) # 0 => HasBucket(h, t, d, k)
  PROVE  LET g == WithBucket(h, d, k)
         IN \E u : Step(h, t, g, u, Const) /\ HasBucket(g, u, d, k)
<1> DEFINE slot == BucketSlot(h, d, k)
           r == NextObject(h)
           room == Allocate(h, ArrayWords(4))
           g == Write(room, slot, r)
<1>1. Alive(h, t) /\ r \in Nat /\ r # 0
  BY DEF DictIn, Alive, IsHeap, NextObject
<1>2. CASE BucketOf(h, d, k) # 0
  <2>1. WithBucket(h, d, k) = h
    BY <1>2 DEF WithBucket, BucketOf
  <2>2. Becomes(h, t, h, t)
    BY <1>1, BecomesItself
  <2>3. Step(h, t, h, t, Const)
    BY <2>2 DEF Step, SameValues, SameItems, SameAppends
  <2>4. QED
    BY <1>2, <2>1, <2>3
<1>3. CASE BucketOf(h, d, k) = 0
  <2>1. WithBucket(h, d, k) = g
    BY <1>3 DEF WithBucket, BucketOf
  <2> HIDE DEF slot
  <2>2. room.ok
    <3> SUFFICES ASSUME ~ room.ok PROVE FALSE
      OBVIOUS
    <3>1. Dead(room) /\ r \in Int
      BY <1>1, RoomOr
    <3> HIDE DEF room, r
    <3>2. Dead(g)
      BY <3>1, DeadWrite
    <3>3. QED
      BY <2>1, <3>2
  <2>3. PICK u : /\ Step(h, t, room, u, Const) /\ Keeps(h, t, room, u)
                 /\ r \in Nat /\ LengthAt(r) \in Words(room) /\ ArrayLength(room, r) = 0
                 /\ TagAt(u, LengthAt(r)) = Tag("bucket", d, 0)
    BY <1>1, <2>2, NewRoomStep
  <2> HIDE DEF room, r
  <2>4. Becomes(h, t, room, u) /\ Alive(room, u)
    BY <2>3 DEF Step, Becomes
  <2>5. DictIn(room, u, d) /\ BucketSlot(room, d, k) = slot
    BY <2>4, StaysIn, SameSlot DEF slot
  <2>6. BucketOf(room, d, k) = 0
    <3>1. slot \in Words(h)
      BY SlotIs DEF slot
    <3>2. Read(room, slot) = Read(h, slot)
      BY <2>3, <3>1 DEF Keeps
    <3>3. QED
      BY <1>3, <2>5, <3>2 DEF BucketOf, slot
  <2>7. BucketIn(room, u, r, d)
    BY <2>3, <2>4, MadeBucket
  <2>8. Step(room, u, g, u, Const) /\ BucketOf(g, d, k) = r /\ ArrayLength(g, r) = 0
    <3>1. LET j == Write(room, BucketSlot(room, d, k), r)
          IN Step(room, u, j, u, Const) /\ BucketOf(j, d, k) = r /\ ArrayLength(j, r) = 0
      BY <2>3, <2>5, <2>6, <2>7, SlotStep
    <3>2. QED
      BY <2>5, <3>1
  <2> HIDE DEF g
  <2>9. Step(h, t, g, u, Const)
    BY <2>3, <2>8, StepIsTransitive
  <2>10. BucketIn(g, u, r, d)
    <3>1. Becomes(room, u, g, u)
      BY <2>8 DEF Step
    <3>2. QED
      BY <2>7, <3>1, StaysIn
  <2>11. HasBucket(g, u, d, k)
    BY <1>1, <2>8, <2>10 DEF HasBucket
  <2>12. QED
    BY <2>1, <2>9, <2>11
<1>4. QED
  BY <1>2, <1>3

\* A bucket whose count and items are the same has the same entries of a key.
LEMMA SameFound ==
  ASSUME NEW h, NEW t, NEW g, NEW u, Becomes(h, t, g, u), NEW b, NEW d, BucketIn(h, t, b, d),
         ArrayLength(g, b) = ArrayLength(h, b),
         \A i \in 0..(ArrayLength(h, b) - 1) : ArrayGet(g, b, i) = ArrayGet(h, b, i), NEW k
  PROVE  /\ Matches(g, b, k) = Matches(h, b, k)
         /\ Matches(h, b, k) # {} => FoundAt(g, b, k) = FoundAt(h, b, k)
<1>1. ASSUME NEW i \in 0..(ArrayLength(h, b) - 1)
      PROVE  EntryKey(g, ArrayGet(g, b, i)) = EntryKey(h, ArrayGet(h, b, i))
  <2>1. EntryIn(h, t, ArrayGet(h, b, i), d)
    BY BucketIs
  <2>2. EntryKey(g, ArrayGet(h, b, i)) = EntryKey(h, ArrayGet(h, b, i))
    BY <2>1, SameKey
  <2>3. QED
    BY <2>2
<1>2. Matches(g, b, k) = Matches(h, b, k)
  BY <1>1 DEF Matches
<1>3. ASSUME Matches(h, b, k) # {}
      PROVE  FoundAt(g, b, k) = FoundAt(h, b, k)
  <2>1. Min(Matches(h, b, k)) \in 0..(ArrayLength(h, b) - 1)
    BY <1>3, FoundIs
  <2>2. QED
    BY <1>2, <2>1 DEF FoundAt
<1>4. QED
  BY <1>2, <1>3

\* A store elsewhere leaves the bucket of a key.
LEMMA TouchesNoSlot ==
  ASSUME NEW h, NEW t, NEW g, NEW u, NEW x, Becomes(h, t, g, u), Touches(h, t, g, x),
         NEW d, DictIn(h, t, d), NEW k \in Int, Tag("slot", d, 0) # x
  PROVE  BucketOf(g, d, k) = BucketOf(h, d, k)
<1>1. /\ BucketSlot(h, d, k) \in Words(h)
      /\ TagAt(t, BucketSlot(h, d, k)) = Tag("slot", d, 0)
  BY SlotIs
<1>2. Read(g, BucketSlot(h, d, k)) = Read(h, BucketSlot(h, d, k))
  BY <1>1, TouchesNot
<1>3. BucketSlot(g, d, k) = BucketSlot(h, d, k)
  BY SameSlot
<1>4. QED
  BY <1>2, <1>3 DEF BucketOf

\* The value of a key that is there is replaced.
LEMMA SetValueStep ==
  ASSUME NEW h, NEW t, NEW d, DictIn(h, t, d), NEW k \in Int, HasBucket(h, t, d, k),
         Matches(h, BucketOf(h, d, k), k) # {}, NEW w, WrapperIn(h, t, w),
         ~ Dead(SetEntryValue(h, FoundAt(h, BucketOf(h, d, k), k), w))
  PROVE  LET g == SetEntryValue(h, FoundAt(h, BucketOf(h, d, k), k), w)
         IN \E u : /\ Step(h, t, g, u, Tag("value", d, k))
                   /\ ValueIn(g, d, k) = Wrapped(h, w)
<1> DEFINE b == BucketOf(h, d, k)
           e == FoundAt(h, b, k)
           one == Allocate(h, OptionalWords(OptionalHead, w))
           g == Write(one, ValueAt(e), w)
           x == Tag("value", d, k)
<1>1. Alive(h, t) /\ w \in Int /\ OptionalHead \in Int
  BY DEF DictIn, WrapperIn, IsWrapper, OptionalHead
<1>2. b # 0 /\ BucketIn(h, t, b, d) /\ Matches(h, b, k) # {}
  BY DEF HasBucket
<1>3. SetEntryValue(h, e, w) = g
  BY DEF SetEntryValue, ValueAt
<1>4. ~ Dead(g)
  BY <1>3
<1> HIDE DEF b
<1>5. EntryIn(h, t, e, d) /\ EntryKey(h, e) = k
  BY <1>2, FoundIs
<1> HIDE DEF e
<1>6. one.ok
  <2> SUFFICES ASSUME ~ one.ok PROVE FALSE
    OBVIOUS
  <2>1. OptionalWords(OptionalHead, w) \in Seq(Int)
    BY <1>1 DEF OptionalWords
  <2>2. Dead(one)
    BY <1>1, <2>1, AllocateOr
  <2> HIDE DEF one
  <2>3. Dead(g)
    BY <1>1, <2>2, DeadWrite
  <2>4. QED
    BY <1>4, <2>3
<1>7. PICK u : Step(h, t, one, u, Const) /\ Keeps(h, t, one, u)
  BY <1>1, <1>6, NewWrapperStep
<1> HIDE DEF one
<1>8. Becomes(h, t, one, u) /\ Alive(one, u)
  BY <1>7 DEF Step, Becomes
<1>9. WrapperIn(one, u, w) /\ EntryIn(one, u, e, d) /\ EntryKey(one, e) = k
  BY <1>5, <1>8, StaysIn, SameKey
<1>10. ValueAt(e) \in Words(one) /\ TagAt(u, ValueAt(e)) = x
  BY <1>9, EntryIs
<1>11. /\ ValueAt(e) \in Words(h) /\ TagAt(t, ValueAt(e)) = x
  BY <1>5, EntryIs
<1>12. Step(one, u, g, u, x) /\ Stored(one, g, ValueAt(e), w)
  BY <1>8, <1>9, <1>10, PutValue
<1> HIDE DEF g
<1>13. Step(h, t, g, u, x) /\ Becomes(h, t, g, u)
  <2>1. Step(h, t, one, u, x)
    BY <1>7, StepUnseen
  <2>2. Step(h, t, g, u, x)
    BY <1>12, <2>1, StepIsTransitive
  <2>3. QED
    BY <2>2 DEF Step
<1>14. x[1] # "item" /\ Tag("bucket", d, 0) # x /\ Tag("slot", d, 0) # x
  BY TagIs
<1> HIDE DEF x
<1>15. Touches(h, t, g, x)
  <2>1. ASSUME NEW a \in Words(h), a # ValueAt(e)
        PROVE  Read(g, a) = Read(h, a)
    BY <1>7, <1>12, <2>1 DEF Keeps, Stored
  <2>2. QED
    BY <1>11, <2>1 DEF Touches
<1>16. BucketOf(g, d, k) = b
  BY <1>13, <1>14, <1>15, TouchesNoSlot DEF b
<1>17. Matches(g, b, k) # {} /\ FoundAt(g, b, k) = e
  <2>1. /\ ArrayLength(g, b) = ArrayLength(h, b)
        /\ \A i \in 0..(ArrayLength(h, b) - 1) : ArrayGet(g, b, i) = ArrayGet(h, b, i)
    BY <1>2, <1>13, <1>14, <1>15, TouchesNoCount
  <2>2. QED
    BY <1>2, <1>13, <2>1, SameFound DEF e
<1>18. EntryValue(g, e) = w
  BY <1>12 DEF EntryValue, ValueAt, Stored
<1>19. DictGet(g, d, k) = w
  BY <1>2, <1>16, <1>17, <1>18, GetIs
<1>20. ValueIn(g, d, k) = Wrapped(h, w)
  BY <1>13, <1>19, SameWrapped DEF ValueIn
<1>21. QED
  BY <1>3, <1>13, <1>20 DEF e, b, x

\* A new entry holds its key and its value.
NewEntry(h, key, value) ==
  SetEntryValue(Write(Allocate(h, <<EntryHead, 0, 0>>), NextObject(h) + 1, key),
                NextObject(h), value)

\* A new entry of a key and what its value is wrapped in.
LEMMA NewEntryStep ==
  ASSUME NEW h, NEW t, Alive(h, t), NEW d, NEW k \in Int, NEW w, WrapperIn(h, t, w),
         ~ Dead(NewEntry(h, k, w))
  PROVE  LET g == NewEntry(h, k, w)
             e == NextObject(h)
         IN \E u : /\ Step(h, t, g, u, Const)
                   /\ \A a \in Words(h) : Read(g, a) = Read(h, a)
                   /\ EntryIn(g, u, e, d) /\ EntryKey(g, e) = k /\ EntryValue(g, e) = w
<1> DEFINE e == NextObject(h)
           n == h.used
           words == <<EntryHead, 0, 0>>
           tags == <<Const, Raw, Raw>>
           h1 == Allocate(h, words)
           t1 == TagsBehind(h, t, tags)
           h2 == Write(h1, KeyAt(e), k)
           h3 == Allocate(h2, OptionalWords(OptionalHead, w))
           g == Write(h3, ValueAt(e), w)
<1>1. words \in Seq(Int) /\ Len(words) = 3
  BY DEF EntryHead
<1>2. n \in Nat /\ e = n + 1 /\ e \in Nat
  BY DEF Alive, IsHeap, NextObject
<1>3. tags[1] = Const /\ tags[2] = Raw /\ tags[3] = Raw
  OBVIOUS
<1>4. NewEntry(h, k, w) = g
  BY DEF NewEntry, SetEntryValue, KeyAt, ValueAt
<1>5. w \in Int /\ OptionalHead \in Int /\ OptionalWords(OptionalHead, w) \in Seq(Int)
  BY DEF WrapperIn, IsWrapper, OptionalHead, OptionalWords
<1> HIDE DEF words, tags, e
<1>6. h1.ok
  <2> SUFFICES ASSUME ~ h1.ok PROVE FALSE
    OBVIOUS
  <2>1. Dead(h1)
    BY <1>1, AllocateOr
  <2> HIDE DEF h1
  <2>2. Dead(h2)
    BY <2>1, DeadWrite
  <2> HIDE DEF h2
  <2>3. Dead(h3)
    BY <2>2, DeadAllocate
  <2> HIDE DEF h3
  <2>4. Dead(g)
    BY <1>5, <2>3, DeadWrite
  <2>5. QED
    BY <1>4, <2>4
<1>7. Step(h, t, h1, t1, Const) /\ NewWords(h, t, h1, t1, words, tags)
  <2>1. ASSUME NEW i \in 1..Len(words)
        PROVE  NewTag(h.used, words, tags, i)
    <3>1. i \in 1..3
      BY <1>1
    <3>2. i = 1 \/ i = 2 \/ i = 3
      BY ONLY <3>1
    <3>3. QED
      BY <1>3, <3>2 DEF NewTag
  <2>2. QED
    BY <1>1, <1>6, <2>1, GrowStep
<1> HIDE DEF h1, t1
<1>8. /\ KeyAt(e) \in Words(h1) /\ TagAt(t1, KeyAt(e)) = Raw
      /\ ValueAt(e) \in Words(h1) /\ TagAt(t1, ValueAt(e)) = Raw
      /\ KeyAt(e) \notin Words(h) /\ ValueAt(e) \notin Words(h) /\ KeyAt(e) # ValueAt(e)
  <2>1. /\ n + 2 \in Words(h1) /\ TagAt(t1, n + 2) = Raw
        /\ n + 3 \in Words(h1) /\ TagAt(t1, n + 3) = Raw /\ Len(h.mem) = n
    BY <1>1, <1>3, <1>7 DEF NewWords
  <2>2. KeyAt(e) = n + 2 /\ ValueAt(e) = n + 3
    BY <1>2 DEF KeyAt, ValueAt
  <2> HIDE DEF n
  <2>3. QED
    BY <1>2, <2>1, <2>2 DEF Words
<1>9. Keeps(h, t, h1, t1)
  BY <1>1, <1>2, <1>7, NewWordsKeep
<1>10. Step(h1, t1, h2, t1, Const) /\ Stored(h1, h2, KeyAt(e), k)
  <2>1. Alive(h1, t1)
    BY <1>7 DEF Step, Becomes
  <2>2. QED
    BY <1>8, <2>1, PutRaw
<1> HIDE DEF h2
<1>11. Alive(h2, t1) /\ Becomes(h, t, h2, t1) /\ WrapperIn(h2, t1, w)
  <2>1. Becomes(h, t, h2, t1)
    BY <1>7, <1>10, BecomesIsTransitive DEF Step
  <2>2. QED
    BY <2>1, StaysIn DEF Becomes
<1>12. h3.ok
  <2> SUFFICES ASSUME ~ h3.ok PROVE FALSE
    OBVIOUS
  <2>1. Dead(h3)
    BY <1>5, <1>11, AllocateOr
  <2> HIDE DEF h3
  <2>2. Dead(g)
    BY <1>5, <2>1, DeadWrite
  <2>3. QED
    BY <1>4, <2>2
<1>13. PICK t3 : Step(h2, t1, h3, t3, Const) /\ Keeps(h2, t1, h3, t3)
  BY <1>5, <1>11, <1>12, NewWrapperStep
<1> HIDE DEF h3
<1>14. /\ KeyAt(e) \in Words(h3) /\ TagAt(t3, KeyAt(e)) = Raw /\ Read(h3, KeyAt(e)) = k
       /\ ValueAt(e) \in Words(h3) /\ TagAt(t3, ValueAt(e)) = Raw
  <2>1. KeyAt(e) \in Words(h2) /\ ValueAt(e) \in Words(h2) /\ Read(h2, KeyAt(e)) = k
    BY <1>8, <1>10 DEF Stored
  <2>2. QED
    BY <1>8, <1>13, <2>1 DEF Keeps
<1>15. Step(h3, t3, g, t3, Const) /\ Stored(h3, g, ValueAt(e), w)
  <2>1. Alive(h3, t3)
    BY <1>13 DEF Step, Becomes
  <2>2. QED
    BY <1>5, <1>14, <2>1, PutRaw
<1> HIDE DEF g
<1>16. /\ KeyAt(e) \in Words(g) /\ Read(g, KeyAt(e)) = k
       /\ ValueAt(e) \in Words(g) /\ Read(g, ValueAt(e)) = w
  BY <1>8, <1>14, <1>15 DEF Stored
<1>17. ASSUME NEW a \in Words(h)
       PROVE  Read(g, a) = Read(h, a)
  <2>1. a \in Words(h1) /\ Read(h1, a) = Read(h, a) /\ a # KeyAt(e) /\ a # ValueAt(e)
    BY <1>8, <1>9 DEF Keeps
  <2>2. a \in Words(h2) /\ Read(h2, a) = Read(h1, a)
    BY <1>10, <2>1 DEF Stored
  <2>3. Read(h3, a) = Read(h2, a)
    BY <1>13, <2>2 DEF Keeps
  <2>4. Read(g, a) = Read(h3, a)
    BY <1>15, <2>1 DEF Stored
  <2>5. QED
    BY <2>1, <2>2, <2>3, <2>4
<1>18. Step(h, t, g, t3, Const)
  <2>1. Step(h, t, h2, t1, Const)
    BY <1>7, <1>10, StepIsTransitive
  <2>2. Step(h, t, h3, t3, Const)
    BY <1>13, <2>1, StepIsTransitive
  <2>3. QED
    BY <1>15, <2>2, StepIsTransitive
<1> DEFINE t4 == RetagTo(t3, KeyAt(e), Const)
           value == Tag("value", d, k)
           u == RetagTo(t4, ValueAt(e), value)
<1>19. /\ Step(g, t3, g, t4, Const)
       /\ \A c \in Words(g) : TagAt(t4, c) = IF c = KeyAt(e) THEN Const ELSE TagAt(t3, c)
  <2>1. Alive(g, t3)
    BY <1>18 DEF Step, Becomes
  <2>2. QED
    BY <1>14, <1>16, <2>1, RetagStep
<1> HIDE DEF t4
<1>20. /\ Step(g, t4, g, u, Const)
       /\ \A c \in Words(g) : TagAt(u, c) = IF c = ValueAt(e) THEN value ELSE TagAt(t4, c)
  <2>1. Alive(g, t4) /\ Becomes(h, t, g, t4)
    <3>1. Step(h, t, g, t4, Const)
      BY <1>18, <1>19, StepIsTransitive
    <3>2. QED
      BY <3>1 DEF Step, Becomes
  <2>2. WrapperIn(g, t4, Read(g, ValueAt(e)))
    BY <1>16, <2>1, StaysIn
  <2>3. TagAt(t4, ValueAt(e)) = Raw
    BY <1>8, <1>14, <1>16, <1>19
  <2>4. \E f, l : value = Tag("value", f, l) /\ WrapperIn(g, t4, Read(g, ValueAt(e)))
    BY <2>2
  <2> HIDE DEF value
  <2>5. QED
    BY <1>16, <2>1, <2>3, <2>4, RetagStep
<1> HIDE DEF u
<1>21. Step(h, t, g, u, Const)
  BY <1>18, <1>19, <1>20, StepIsTransitive
<1>22. EntryIn(g, u, e, d)
  <2>1. Alive(g, u)
    BY <1>21 DEF Step, Becomes
  <2>2. TagAt(u, KeyAt(e)) = Const /\ TagAt(u, ValueAt(e)) = Tag("value", d, Read(g, KeyAt(e)))
    BY <1>8, <1>16, <1>19, <1>20
  <2>3. QED
    BY <1>2, <1>16, <2>1, <2>2, MadeEntry
<1>23. EntryKey(g, e) = k /\ EntryValue(g, e) = w
  BY <1>16 DEF EntryKey, EntryValue, KeyAt, ValueAt
<1>24. QED
  BY <1>4, <1>17, <1>21, <1>22, <1>23 DEF e

\* An entry that is counted shows in what the dictionary says of its key alone.
LEMMA CountStep ==
  ASSUME NEW h, NEW t, NEW b, NEW d, BucketIn(h, t, b, d), ArrayLength(h, b) < 4, NEW e,
         e = ArrayGet(h, b, ArrayLength(h, b)), EntryIn(h, t, e, d), NEW k, EntryKey(h, e) = k
  PROVE  LET c == LengthAt(b)
             w == ArrayLength(h, b) + 1
         IN Step(h, t, Write(h, c, w), t, Tag("value", d, k)) /\ Stored(h, Write(h, c, w), c, w)
<1> DEFINE c == LengthAt(b)
           n == ArrayLength(h, b)
           g == Write(h, c, n + 1)
           x == Tag("bucket", d, 0)
<1>1. Becomes(h, t, g, t) /\ Stored(h, g, c, n + 1)
  BY PutCount
<1>2. /\ b \in Nat /\ c \in Words(h) /\ TagAt(t, c) = x /\ n = Read(h, c) /\ n \in 0..4
      /\ \A i \in 0..3 : ItemAt(b, i) \in Words(h) /\ TagAt(t, ItemAt(b, i)) = Tag("item", c, 0)
      /\ \A i \in 0..(n - 1) : i \in 0..3
  BY BucketIs
<1>3. n \in 0..3 /\ e = ArrayGet(h, b, n)
  BY <1>2
<1>4. x[1] # "item" /\ \A a, l : Tag("value", a, l) # x /\ Tag("slot", a, 0) # x
  BY TagIs
<1>5. \A a : Tag("data", a, 0) # x /\ Tag("strings", a, 0) # x
  BY TagIs
<1>6. \A a : TagAt(t, a)[1] = "item" => a # c
  BY <1>2, <1>4
<1>7. \A f : Tag("bucket", f, 0) = x => f = d
  BY TagIs
<1> HIDE DEF c, n, g, x
<1>8. Touches(h, t, g, x)
  BY <1>1, <1>2 DEF Touches, Stored
<1>9. \A a \in Words(h) : a # c => Read(g, a) = Read(h, a)
  BY <1>1 DEF Stored
<1>10. ASSUME NEW f, NEW l \in Int, DictIn(h, t, f), Tag("value", f, l) # Tag("value", d, k)
       PROVE  ValueIn(g, f, l) = ValueIn(h, f, l)
  <2> DEFINE o == BucketOf(h, f, l)
  <2>1. BucketOf(g, f, l) = o
    BY <1>1, <1>4, <1>8, <1>10, TouchesNoSlot
  <2>2. ASSUME o # 0
        PROVE  SameMatches(h, g, o, l)
    <3>1. BucketIn(h, t, o, f)
      BY <1>10, <2>2, SlotIs
    <3> HIDE DEF o
    <3>2. /\ o \in Nat /\ LengthAt(o) \in Words(h)
          /\ TagAt(t, LengthAt(o)) = Tag("bucket", f, 0)
          /\ ArrayLength(h, o) = Read(h, LengthAt(o)) /\ ArrayLength(h, o) \in 0..4
          /\ \A i \in 0..3 : /\ ItemAt(o, i) \in Words(h)
                             /\ TagAt(t, ItemAt(o, i)) = Tag("item", LengthAt(o), 0)
          /\ \A i \in 0..(ArrayLength(h, o) - 1) : i \in 0..3
      BY <3>1, BucketIs
    <3>3. ASSUME NEW i \in 0..(ArrayLength(h, o) - 1)
          PROVE  ArrayGet(g, o, i) = ArrayGet(h, o, i)
      <4>1. ItemAt(o, i) \in Words(h) /\ TagAt(t, ItemAt(o, i))[1] = "item"
        BY <3>2, TagIs
      <4>2. ItemAt(o, i) # c
        BY <1>6, <4>1
      <4>3. Read(g, ItemAt(o, i)) = Read(h, ItemAt(o, i))
        BY <1>9, <4>1, <4>2
      <4>4. QED
        BY <4>3 DEF ArrayGet, ItemAt
    <3>4. ASSUME NEW a \in Words(h), TagAt(t, a) = Tag("value", f, l)
          PROVE  Read(g, a) = Read(h, a)
      BY <1>2, <1>4, <1>9, <3>4
    <3>5. CASE o # b
      <4>1. LengthAt(o) # c
        BY <1>2, <3>2, <3>5 DEF LengthAt, c
      <4>2. Read(g, LengthAt(o)) = Read(h, LengthAt(o))
        BY <1>9, <3>2, <4>1
      <4>3. ArrayLength(g, o) = ArrayLength(h, o)
        BY <3>2, <4>2 DEF ArrayLength, LengthAt
      <4>4. ArrayLength(h, o) <= ArrayLength(g, o)
        BY <3>2, <4>3
      <4>5. BucketKept(h, t, g, f, o, l)
        BY <3>3, <3>4, <4>3, <4>4 DEF BucketKept
      <4>6. QED
        BY <1>1, <3>1, <4>5, SameBucket
    <3>6. CASE o = b
      <4>1. f = d /\ l # k
        <5>1. TagAt(t, c) = Tag("bucket", f, 0)
          BY <3>2, <3>6 DEF c
        <5>2. f = d
          BY <1>2, <1>7, <5>1
        <5>3. QED
          BY <1>10, <5>2
      <4>2. ArrayLength(g, o) = n + 1 /\ ArrayLength(h, o) = n
        <5>1. Read(g, c) = n + 1
          BY <1>1 DEF Stored
        <5>2. QED
          BY <3>6, <5>1 DEF ArrayLength, LengthAt, c, n
      <4>3. ArrayLength(h, o) <= ArrayLength(g, o)
        BY <1>3, <4>2
      <4>4. ASSUME NEW i \in 0..(ArrayLength(g, o) - 1), i \notin 0..(ArrayLength(h, o) - 1)
            PROVE  EntryKey(g, ArrayGet(g, o, i)) # l
        <5>1. i = n
          BY <1>3, <4>2, <4>4
        <5>2. ItemAt(b, n) \in Words(h) /\ TagAt(t, ItemAt(b, n))[1] = "item"
          BY <1>2, <1>3, TagIs
        <5>3. ItemAt(b, n) # c
          BY <1>6, <5>2
        <5>4. Read(g, ItemAt(b, n)) = Read(h, ItemAt(b, n))
          BY <1>9, <5>2, <5>3
        <5>5. ArrayGet(g, o, i) = e
          BY <1>3, <3>6, <5>1, <5>4 DEF ArrayGet, ItemAt
        <5>6. EntryKey(g, e) = k
          BY <1>1, SameKey
        <5>7. QED
          BY <4>1, <5>5, <5>6
      <4>5. BucketKept(h, t, g, f, o, l)
        BY <3>3, <3>4, <4>3, <4>4 DEF BucketKept
      <4>6. QED
        BY <1>1, <3>1, <4>5, SameBucket
    <3>7. QED
      BY <3>5, <3>6
  <2>3. QED
    BY <1>1, <1>10, <2>1, <2>2, SameValue
<1>11. SameItems(h, t, g, x) /\ SameAppends(h, t, g, x)
  BY <1>1, <1>4, <1>8, TouchesNoObject
<1>12. /\ SameValues(h, t, g, Tag("value", d, k))
       /\ SameItems(h, t, g, Tag("value", d, k)) /\ SameAppends(h, t, g, Tag("value", d, k))
  BY <1>5, <1>10, <1>11 DEF SameValues, SameItems, SameAppends
<1>13. QED
  BY <1>1, <1>12 DEF Step, g, c, n

\* The entry is stored behind the others of its bucket, and counted.
LEMMA AppendEntryStep ==
  ASSUME NEW h, NEW t, NEW d, DictIn(h, t, d), NEW k \in Int, NEW b, b = BucketOf(h, d, k),
         b # 0, BucketIn(h, t, b, d), ArrayLength(h, b) < 4, Matches(h, b, k) = {},
         NEW e, EntryIn(h, t, e, d), EntryKey(h, e) = k
  PROVE  LET g == ArrayAppend(h, b, e)
         IN /\ Step(h, t, g, t, Tag("value", d, k))
            /\ ValueIn(g, d, k) = Wrapped(h, EntryValue(h, e))
<1> DEFINE n == ArrayLength(h, b)
           x == ItemAt(b, n)
           c == LengthAt(b)
           one == Write(h, x, e)
           g == Write(one, c, n + 1)
           tag == Tag("value", d, k)
<1>1. /\ b \in Nat /\ c \in Words(h) /\ TagAt(t, c) = Tag("bucket", d, 0)
      /\ n = Read(h, c) /\ n \in 0..4
      /\ \A i \in 0..3 : ItemAt(b, i) \in Words(h) /\ TagAt(t, ItemAt(b, i)) = Tag("item", c, 0)
      /\ \A i \in 0..(n - 1) : i \in 0..3 /\ EntryIn(h, t, ArrayGet(h, b, i), d)
  BY BucketIs
<1>2. n \in 0..3
  BY <1>1
<1>3. Alive(h, t) /\ e \in Int
  BY DEF EntryIn, IsEntry
<1>4. ArrayAppend(h, b, e) = g
  BY DEF ArrayAppend, ArraySet, ItemAt, LengthAt
<1>5. c = b + 2 /\ \A i \in 0..3 : ItemAt(b, i) = b + 3 + i
  BY DEF ItemAt, LengthAt
<1>6. x \in Words(h) /\ TagAt(t, x) = Tag("item", c, 0) /\ x = b + 3 + n
  BY <1>1, <1>2, <1>5
<1>7. x > c + Read(h, c) /\ x # c
  BY <1>1, <1>5, <1>6
<1> HIDE DEF x, c, n
<1>8. Step(h, t, one, t, Const) /\ Stored(h, one, x, e)
  BY <1>1, <1>3, <1>6, <1>7, PutItem
<1> HIDE DEF one
<1>9. /\ Becomes(h, t, one, t) /\ BucketIn(one, t, b, d)
      /\ EntryIn(one, t, e, d) /\ EntryKey(one, e) = k
  <2>1. Becomes(h, t, one, t)
    BY <1>8 DEF Step
  <2>2. QED
    BY <2>1, StaysIn, SameKey
<1>10. ArrayLength(one, b) = n /\ e = ArrayGet(one, b, n)
  <2>1. Read(one, c) = Read(h, c) /\ Read(one, x) = e
    BY <1>7, <1>8 DEF Stored
  <2>2. QED
    BY <1>1, <2>1 DEF ArrayLength, ArrayGet, c, x, LengthAt, ItemAt
<1>11. Step(one, t, g, t, tag) /\ Stored(one, g, c, n + 1)
  <2>1. ArrayLength(one, b) < 4 /\ e = ArrayGet(one, b, ArrayLength(one, b))
    BY <1>2, <1>10
  <2>2. LET w == ArrayLength(one, b) + 1
        IN /\ Step(one, t, Write(one, LengthAt(b), w), t, Tag("value", d, k))
           /\ Stored(one, Write(one, LengthAt(b), w), LengthAt(b), w)
    BY <1>9, <2>1, CountStep
  <2>3. QED
    BY <1>10, <2>2 DEF c
<1> HIDE DEF g, tag
<1>12. Step(h, t, g, t, tag) /\ Becomes(h, t, g, t)
  <2>1. Step(h, t, one, t, tag)
    BY <1>8, StepUnseen
  <2>2. Step(h, t, g, t, tag)
    BY <1>11, <2>1, StepIsTransitive
  <2>3. QED
    BY <2>2 DEF Step
<1>13. \A a \in Words(h) : a # x /\ a # c => Read(g, a) = Read(h, a)
  BY <1>8, <1>11 DEF Stored
<1>14. BucketOf(g, d, k) = b
  <2>1. /\ BucketSlot(h, d, k) \in Words(h)
        /\ TagAt(t, BucketSlot(h, d, k))[1] = "slot"
    BY SlotIs, TagIs
  <2>2. BucketSlot(h, d, k) # x /\ BucketSlot(h, d, k) # c
    BY <1>1, <1>6, <2>1, TagIs
  <2>3. Read(g, BucketSlot(h, d, k)) = Read(h, BucketSlot(h, d, k))
    BY <1>13, <2>1, <2>2
  <2>4. BucketSlot(g, d, k) = BucketSlot(h, d, k)
    BY <1>12, SameSlot
  <2>5. QED
    BY <2>3, <2>4 DEF BucketOf
<1>15. ArrayLength(g, b) = n + 1 /\ ArrayGet(g, b, n) = e
  <2>1. Read(g, c) = n + 1 /\ Read(g, x) = e
    BY <1>7, <1>8, <1>11 DEF Stored
  <2>2. QED
    BY <2>1 DEF ArrayLength, ArrayGet, c, x, LengthAt, ItemAt
<1>16. EntryIn(g, t, e, d) /\ EntryKey(g, e) = k /\ BucketIn(g, t, b, d)
  BY <1>12, StaysIn, SameKey
<1>17. ASSUME NEW i \in Matches(g, b, k)
       PROVE  i = n
  <2>1. i \in 0..n /\ EntryKey(g, ArrayGet(g, b, i)) = k
    BY <1>2, <1>15 DEF Matches
  <2> SUFFICES ASSUME i \in 0..(n - 1) PROVE FALSE
    BY <1>2, <2>1
  <2>2. ItemAt(b, i) \in Words(h) /\ ItemAt(b, i) # x /\ ItemAt(b, i) # c
    <3>1. i \in 0..3
      BY <1>1
    <3>2. QED
      BY <1>1, <1>2, <1>5, <1>6, <3>1
  <2>3. Read(g, ItemAt(b, i)) = Read(h, ItemAt(b, i))
    BY <1>13, <2>2
  <2>4. ArrayGet(g, b, i) = ArrayGet(h, b, i)
    BY <2>3 DEF ArrayGet, ItemAt
  <2>5. EntryIn(h, t, ArrayGet(h, b, i), d)
    BY <1>1
  <2>6. EntryKey(g, ArrayGet(h, b, i)) = EntryKey(h, ArrayGet(h, b, i))
    BY <1>12, <2>5, SameKey
  <2>7. i \in Matches(h, b, k)
    BY <2>1, <2>4, <2>6 DEF Matches, n
  <2>8. QED
    BY <2>7
<1>18. n \in Matches(g, b, k)
  BY <1>2, <1>15, <1>16 DEF Matches
<1>19. FoundAt(g, b, k) = e
  <2>1. Min(Matches(g, b, k)) \in Matches(g, b, k)
    BY <1>16, <1>18, FoundIs
  <2>2. QED
    BY <1>15, <1>17, <2>1 DEF FoundAt
<1>20. EntryValue(g, e) = EntryValue(h, e)
  <2>1. /\ ValueAt(e) \in Words(h) /\ TagAt(t, ValueAt(e))[1] = "value"
        /\ EntryValue(h, e) = Read(h, ValueAt(e))
    BY EntryIs, TagIs
  <2>2. EntryValue(g, e) = Read(g, ValueAt(e))
    BY <1>16, EntryIs
  <2>3. ValueAt(e) # x /\ ValueAt(e) # c
    BY <1>1, <1>6, <2>1, TagIs
  <2>4. QED
    BY <1>13, <2>1, <2>2, <2>3
<1>21. DictGet(g, d, k) = EntryValue(h, e)
  BY <1>14, <1>18, <1>19, <1>20, GetIs
<1>22. Wrapped(g, EntryValue(h, e)) = Wrapped(h, EntryValue(h, e))
  <2>1. WrapperIn(h, t, EntryValue(h, e))
    BY EntryIs
  <2>2. QED
    BY <1>12, <2>1, SameWrapped
<1>23. QED
  BY <1>4, <1>12, <1>21, <1>22 DEF ValueIn, tag

\* Once the program has been aborted, insert does not bring it back.
LEMMA ReadIsInt ==
  ASSUME NEW h, IsHeap(h), NEW a
  PROVE  Read(h, a) \in Int
<1>1. h.mem \in Seq(Int)
  BY DEF IsHeap
<1>2. h.mem \in [1..Len(h.mem) -> Int] /\ DOMAIN h.mem = 1..Len(h.mem)
  BY <1>1, LenProperties
<1>3. CASE a \in DOMAIN h.mem
  BY <1>2, <1>3 DEF Read
<1>4. CASE a \notin DOMAIN h.mem
  BY <1>4 DEF Read
<1>5. QED
  BY <1>3, <1>4

\* An aborted program stays aborted through a store to an entry.
LEMMA DeadSetValue ==
  ASSUME NEW h, Dead(h), NEW e, NEW w \in Int
  PROVE  Dead(SetEntryValue(h, e, w))
<1>1. Dead(Allocate(h, OptionalWords(OptionalHead, w)))
  BY DeadAllocate
<1>2. QED
  BY <1>1, DeadWrite DEF SetEntryValue

\* And through an append to a bucket.
LEMMA DeadAppend ==
  ASSUME NEW h, Dead(h), NEW b, NEW w \in Int
  PROVE  Dead(ArrayAppend(h, b, w))
<1> DEFINE n == ArrayLength(h, b)
           one == ArraySet(h, b, n, w)
<1>1. n \in Int
  BY ReadIsInt DEF Dead, ArrayLength
<1> HIDE DEF n
<1>2. Dead(one)
  BY DeadWrite DEF ArraySet
<1> HIDE DEF one
<1>3. Dead(Write(one, b + 2, n + 1))
  BY <1>1, <1>2, DeadWrite
<1>4. QED
  BY <1>3 DEF ArrayAppend, one, n

\* And through a whole insert.
LEMMA DeadInsert ==
  ASSUME NEW h, Dead(h), NEW d, NEW k \in Int, NEW w \in Int
  PROVE  Dead(DictInsert(h, d, k, w))
<1> DEFINE g == WithBucket(h, d, k)
           b == BucketOf(g, d, k)
           e == NextObject(g)
           j == Write(Allocate(g, <<EntryHead, 0, 0>>), e + 1, k)
<1>1. NextObject(h) \in Int
  BY DEF Dead, IsHeap, NextObject
<1>2. Dead(g)
  <2>1. Dead(Allocate(h, ArrayWords(4)))
    BY DeadAllocate
  <2>2. Dead(Write(Allocate(h, ArrayWords(4)), BucketSlot(h, d, k), NextObject(h)))
    BY <1>1, <2>1, DeadWrite
  <2>3. QED
    BY <2>2 DEF WithBucket
<1>3. DictInsert(h, d, k, w) = IF Matches(g, b, k) = {}
                               THEN AddEntry(g, b, k, w)
                               ELSE SetEntryValue(g, ArrayGet(g, b, Min(Matches(g, b, k))), w)
  BY DEF DictInsert, BucketOf
<1> HIDE DEF g, b
<1>4. Dead(SetEntryValue(g, ArrayGet(g, b, Min(Matches(g, b, k))), w))
  BY <1>2, DeadSetValue
<1>5. Dead(AddEntry(g, b, k, w))
  <2>1. e \in Int
    BY <1>2 DEF Dead, IsHeap, NextObject
  <2>2. Dead(Allocate(g, <<EntryHead, 0, 0>>))
    BY <1>2, DeadAllocate
  <2>3. Dead(j)
    BY <2>2, DeadWrite
  <2>4. AddEntry(g, b, k, w) = ArrayAppend(SetEntryValue(j, e, w), b, e)
    BY DEF AddEntry
  <2> HIDE DEF j, e
  <2>5. Dead(SetEntryValue(j, e, w))
    BY <2>3, DeadSetValue
  <2>6. Dead(ArrayAppend(SetEntryValue(j, e, w), b, e))
    BY <2>1, <2>5, DeadAppend
  <2>7. QED
    BY <2>4, <2>6
<1>6. QED
  BY <1>3, <1>4, <1>5

\* `d[k] = v` changes what the dictionary says of the key, and nothing else.
InsertInto(h, d, k, v) ==
  DictInsert(Allocate(h, OptionalWords(IntHead, v)), d, k, NextObject(h))

\* An insert is a step at the value of the key, which is then the value given.
LEMMA DictInsertStep ==
  ASSUME NEW h, NEW t, NEW d, DictIn(h, t, d), NEW k \in Int, NEW w, WrapperIn(h, t, w),
         BucketOf(h, d, k) # 0 => HasBucket(h, t, d, k),
         ~ Dead(DictInsert(h, d, k, w))
  PROVE  LET g == DictInsert(h, d, k, w)
         IN \E u : /\ Step(h, t, g, u, Tag("value", d, k))
                   /\ ValueIn(g, d, k) = Wrapped(h, w)
<1> DEFINE j == WithBucket(h, d, k)
           b == BucketOf(j, d, k)
           e == NextObject(j)
           g == DictInsert(h, d, k, w)
           x == Tag("value", d, k)
<1>1. w \in Int
  BY DEF WrapperIn, IsWrapper
<1>2. /\ Matches(j, b, k) = {} => g = ArrayAppend(NewEntry(j, k, w), b, e)
      /\ Matches(j, b, k) # {} => g = SetEntryValue(j, FoundAt(j, b, k), w)
  BY DEF DictInsert, AddEntry, NewEntry, BucketOf, FoundAt
<1>3. ~ Dead(j)
  <2> SUFFICES ASSUME Dead(j) PROVE FALSE
    OBVIOUS
  <2>1. e \in Int
    BY DEF Dead, IsHeap, NextObject
  <2> HIDE DEF j, b, e
  <2>2. Dead(SetEntryValue(j, FoundAt(j, b, k), w))
    BY <1>1, DeadSetValue
  <2>3. Dead(NewEntry(j, k, w))
    <3> DEFINE one == Allocate(j, <<EntryHead, 0, 0>>)
               two == Write(one, NextObject(j) + 1, k)
    <3>1. Dead(one)
      BY DeadAllocate
    <3> HIDE DEF one
    <3>2. Dead(two)
      BY <3>1, DeadWrite
    <3> HIDE DEF two
    <3>3. Dead(SetEntryValue(two, NextObject(j), w))
      BY <1>1, <3>2, DeadSetValue
    <3>4. QED
      BY <3>3 DEF NewEntry, two, one
  <2>4. Dead(ArrayAppend(NewEntry(j, k, w), b, e))
    BY <2>1, <2>3, DeadAppend
  <2>5. QED
    BY <1>2, <2>2, <2>4
<1>4. PICK u : Step(h, t, j, u, Const) /\ HasBucket(j, u, d, k)
  BY <1>3, WithBucketStep
<1>5. Becomes(h, t, j, u) /\ Alive(j, u)
  BY <1>4 DEF Step, Becomes
<1> HIDE DEF j
<1>6. DictIn(j, u, d) /\ WrapperIn(j, u, w) /\ Wrapped(j, w) = Wrapped(h, w)
  BY <1>5, StaysIn, SameWrapped
<1>7. Step(h, t, j, u, x)
  BY <1>4, StepUnseen
<1>8. b # 0 /\ BucketIn(j, u, b, d) /\ (ArrayLength(j, b) < 4 \/ Matches(j, b, k) # {})
  BY <1>4 DEF HasBucket
<1>9. CASE Matches(j, b, k) # {}
  <2>1. g = SetEntryValue(j, FoundAt(j, b, k), w)
    BY <1>2, <1>9
  <2> HIDE DEF g
  <2>2. PICK v : Step(j, u, g, v, x) /\ ValueIn(g, d, k) = Wrapped(j, w)
    BY <1>4, <1>6, <1>9, <2>1, SetValueStep DEF g
  <2>3. Step(h, t, g, v, x)
    BY <1>7, <2>2, StepIsTransitive
  <2>4. QED
    BY <1>6, <2>2, <2>3 DEF g
<1>10. CASE Matches(j, b, k) = {}
  <2> DEFINE one == NewEntry(j, k, w)
  <2>1. g = ArrayAppend(one, b, e)
    BY <1>2, <1>10
  <2>2. e \in Int /\ e \in Nat
    BY <1>5 DEF Alive, IsHeap, NextObject
  <2>3. ~ Dead(one)
    <3> SUFFICES ASSUME Dead(one) PROVE FALSE
      OBVIOUS
    <3> HIDE DEF one, e, b
    <3>1. Dead(ArrayAppend(one, b, e))
      BY <2>2, DeadAppend
    <3>2. QED
      BY <2>1, <3>1
  <2>4. PICK v : /\ Step(j, u, one, v, Const)
                 /\ \A a \in Words(j) : Read(one, a) = Read(j, a)
                 /\ EntryIn(one, v, e, d) /\ EntryKey(one, e) = k /\ EntryValue(one, e) = w
    BY <1>5, <1>6, <2>3, NewEntryStep
  <2> HIDE DEF one, e, b, g
  <2>5. Becomes(j, u, one, v)
    BY <2>4 DEF Step
  <2>6. Touches(j, u, one, Const)
    BY <2>4 DEF Touches
  <2>7. Const[1] # "item" /\ Tag("bucket", d, 0) # Const /\ Tag("slot", d, 0) # Const
    BY TagIs
  <2>8. b = BucketOf(one, d, k)
    BY <1>6, <2>5, <2>6, <2>7, TouchesNoSlot DEF b
  <2>9. /\ ArrayLength(one, b) = ArrayLength(j, b)
        /\ \A i \in 0..(ArrayLength(j, b) - 1) : ArrayGet(one, b, i) = ArrayGet(j, b, i)
    BY <1>8, <2>5, <2>6, <2>7, TouchesNoCount
  <2>10. Matches(one, b, k) = {}
    BY <1>8, <1>10, <2>5, <2>9, SameFound
  <2>11. DictIn(one, v, d) /\ BucketIn(one, v, b, d) /\ ArrayLength(one, b) < 4
    BY <1>6, <1>8, <1>10, <2>5, <2>9, StaysIn
  <2>12. Step(one, v, g, v, x) /\ ValueIn(g, d, k) = Wrapped(one, w)
    BY <1>8, <2>1, <2>4, <2>8, <2>10, <2>11, AppendEntryStep
  <2>13. Wrapped(one, w) = Wrapped(j, w)
    BY <1>6, <2>5, SameWrapped
  <2>14. Step(h, t, g, v, x)
    <3>1. Step(j, u, one, v, x)
      BY <2>4, StepUnseen
    <3>2. Step(j, u, g, v, x)
      BY <2>12, <3>1, StepIsTransitive
    <3>3. QED
      BY <1>7, <3>2, StepIsTransitive
  <2>15. QED
    BY <1>6, <2>12, <2>13, <2>14 DEF g
<1>11. QED
  BY <1>9, <1>10

\* The same of `d[k] = v`, where v is wrapped first.
LEMMA InsertStep ==
  ASSUME NEW h, NEW t, NEW d, DictIn(h, t, d), NEW k \in Int, NEW v \in Int,
         BucketOf(h, d, k) # 0 => HasBucket(h, t, d, k), InsertInto(h, d, k, v).ok
  PROVE  LET g == InsertInto(h, d, k, v)
         IN \E u : Step(h, t, g, u, Tag("value", d, k)) /\ ValueIn(g, d, k) = v
<1> DEFINE j == Allocate(h, OptionalWords(IntHead, v))
           w == NextObject(h)
           g == DictInsert(j, d, k, w)
           x == Tag("value", d, k)
<1>1. Alive(h, t) /\ w \in Int /\ IntHead \in Int
  BY DEF DictIn, Alive, IsHeap, NextObject, IntHead
<1>2. OptionalWords(IntHead, v) \in Seq(Int)
  BY <1>1 DEF OptionalWords
<1>3. g = InsertInto(h, d, k, v)
  BY DEF InsertInto
<1>4. ~ Dead(g)
  BY <1>3, OkOrDead
<1>5. j.ok
  <2> SUFFICES ASSUME ~ j.ok PROVE FALSE
    OBVIOUS
  <2>1. Dead(j)
    BY <1>1, <1>2, AllocateOr
  <2> HIDE DEF j, w
  <2>2. Dead(g)
    BY <1>1, <2>1, DeadInsert
  <2>3. QED
    BY <1>4, <2>2
<1>6. PICK u : /\ Step(h, t, j, u, Const) /\ Keeps(h, t, j, u)
               /\ WrapperIn(j, u, w) /\ Wrapped(j, w) = v
  BY <1>1, <1>5, NewWrapperStep
<1> HIDE DEF j, w
<1>7. Becomes(h, t, j, u)
  BY <1>6 DEF Step
<1>8. DictIn(j, u, d)
  BY <1>7, StaysIn
<1>9. BucketOf(j, d, k) # 0 => HasBucket(j, u, d, k)
  <2>1. Touches(h, t, j, Const)
    BY <1>6 DEF Touches, Keeps
  <2>2. Const[1] # "item" /\ Tag("bucket", d, 0) # Const /\ Tag("slot", d, 0) # Const
    BY TagIs
  <2> DEFINE b == BucketOf(h, d, k)
  <2>3. BucketOf(j, d, k) = b
    BY <1>7, <2>1, <2>2, TouchesNoSlot
  <2> SUFFICES ASSUME b # 0 PROVE HasBucket(j, u, d, k)
    BY <2>3
  <2>4. BucketIn(h, t, b, d) /\ (ArrayLength(h, b) < 4 \/ Matches(h, b, k) # {})
    BY DEF HasBucket
  <2> HIDE DEF b
  <2>5. /\ ArrayLength(j, b) = ArrayLength(h, b)
        /\ \A i \in 0..(ArrayLength(h, b) - 1) : ArrayGet(j, b, i) = ArrayGet(h, b, i)
    BY <1>7, <2>1, <2>2, <2>4, TouchesNoCount
  <2>6. Matches(j, b, k) = Matches(h, b, k)
    BY <1>7, <2>4, <2>5, SameFound
  <2>7. BucketIn(j, u, b, d)
    BY <1>7, <2>4, StaysIn
  <2>8. QED
    BY <2>3, <2>4, <2>5, <2>6, <2>7 DEF HasBucket
<1>10. PICK u2 : Step(j, u, g, u2, x) /\ ValueIn(g, d, k) = Wrapped(j, w)
  BY <1>4, <1>6, <1>8, <1>9, DictInsertStep
<1> HIDE DEF g
<1>11. Step(h, t, g, u2, x)
  <2>1. Step(h, t, j, u, x)
    BY <1>6, StepUnseen
  <2>2. QED
    BY <1>10, <2>1, StepIsTransitive
<1>12. QED
  BY <1>3, <1>6, <1>10, <1>11

\* toString joins strings to one.
LEMMA JoinIsWords ==
  ASSUME NEW ss \in Seq(Seq(Int))
  PROVE  FlattenSeq(Reverse(ss)) \in Seq(Int)
<1> DEFINE n == Len(ss)
           back == Reverse(ss)
<1>1. n \in Nat /\ ss \in [1..n -> Seq(Int)]
  BY LenProperties
<1>2. back = [i \in 1..n |-> ss[n - i + 1]]
  BY DEF Reverse
<1> HIDE DEF n, back
<1>3. back \in [1..n -> Seq(Int)]
  <2>1. \A i \in 1..n : n - i + 1 \in 1..n
    BY <1>1
  <2>2. \A i \in 1..n : ss[n - i + 1] \in Seq(Int)
    BY <1>1, <2>1
  <2>3. QED
    BY <1>2, <2>2
<1>4. back \in Seq(Seq(Int))
  BY <1>1, <1>3, SeqDef
<1>5. PICK f : Joins(f, back, Int)
  BY <1>4, JoinsExist
<1>6. QED
  BY <1>4, <1>5, FlattenSeqJoins DEF back

-----------------------------------------------------------------------------
(* The objects a program holds, and the inductive invariant: there are tags *)
(* by which the heap is laid out and every object is what it is held for.   *)

Kinds == {"dict", "array", "string", "builder"}

RootIs(h, t, root) ==
  /\ root.kind = "dict" => DictIn(h, t, root.at)
  /\ root.kind = "array" => ArrayIn(h, t, root.at)
  /\ root.kind = "string" => StringIn(h, t, root.at)
  /\ root.kind = "builder" => BuilderIn(h, t, root.at)

Holds(h, t, rs) == Alive(h, t) /\ \A r \in DOMAIN rs : RootIs(h, t, rs[r])

Differ(rs) == \A r, s \in DOMAIN rs : rs[r].at = rs[s].at => r = s

StateInv(h, rs, p) ==
  /\ IsHeap(h) /\ h.used <= PageWords
  /\ rs \in Seq([kind : Kinds, at : Address]) /\ Differ(rs)
  /\ p \in Programs
  /\ h.ok => \E t : Holds(h, t, rs)

IInv == StateInv(heap, roots, program)

\* An object is in the page.
LEMMA RootInPage ==
  ASSUME NEW h, NEW t, Alive(h, t), NEW root, root.kind \in Kinds, RootIs(h, t, root)
  PROVE  root.at \in Nat /\ root.at < h.used /\ h.used <= PageWords
<1> DEFINE a == root.at
<1>1. h.used = Len(h.mem) /\ h.used \in Nat /\ h.used <= PageWords
  BY DEF Alive, IsHeap
<1>2. PageWords \in Nat
  BY PageSize
<1>3. CASE root.kind = "dict"
  <2>1. a \in Nat /\ a + 3 \in 1..Len(h.mem)
    BY <1>3 DEF RootIs, DictIn, IsDict
  <2> HIDE DEF a
  <2>2. a < Len(h.mem)
    BY <1>1, <2>1
  <2>3. QED
    BY <1>1, <2>1, <2>2 DEF a
<1>4. CASE root.kind = "array"
  <2>1. a \in Nat /\ a + 2 \in 1..Len(h.mem)
    BY <1>4 DEF RootIs, ArrayIn, IsArray
  <2> HIDE DEF a
  <2>2. a < Len(h.mem)
    BY <1>1, <2>1
  <2>3. QED
    BY <1>1, <2>1, <2>2 DEF a
<1>5. CASE root.kind = "string"
  <2>1. a \in Nat /\ a + 1 \in 1..Len(h.mem)
    BY <1>5 DEF RootIs, StringIn, IsString
  <2> HIDE DEF a
  <2>2. a < Len(h.mem)
    BY <1>1, <2>1
  <2>3. QED
    BY <1>1, <2>1, <2>2 DEF a
<1>6. CASE root.kind = "builder"
  <2>1. a \in Nat /\ a + 1 \in 1..Len(h.mem)
    BY <1>6 DEF RootIs, BuilderIn, IsBuilder
  <2> HIDE DEF a
  <2>2. a < Len(h.mem)
    BY <1>1, <2>1
  <2>3. QED
    BY <1>1, <2>1, <2>2 DEF a
<1>7. QED
  BY <1>3, <1>4, <1>5, <1>6 DEF Kinds

\* Objects stay what they are held for.
LEMMA RootStays ==
  ASSUME NEW h, NEW t, NEW g, NEW u, Becomes(h, t, g, u), NEW root, RootIs(h, t, root)
  PROVE  RootIs(g, u, root)
BY StaysIn DEF RootIs

\* An operation on an object there is,
LEMMA UpdateHolds ==
  ASSUME NEW h, NEW t, NEW rs, NEW p, StateInv(h, rs, p), Holds(h, t, rs),
         NEW g, NEW u, Becomes(h, t, g, u)
  PROVE  StateInv(g, rs, p)
<1>1. Holds(g, u, rs)
  BY RootStays DEF Holds, Becomes
<1>2. IsHeap(g) /\ g.used <= PageWords
  BY DEF Becomes, Alive
<1>3. QED
  BY <1>1, <1>2 DEF StateInv

\* one that makes an object,
LEMMA AddHolds ==
  ASSUME NEW h, NEW t, NEW rs, NEW p, StateInv(h, rs, p), Holds(h, t, rs),
         NEW g, NEW u, Becomes(h, t, g, u), NEW kind \in Kinds,
         RootIs(g, u, [kind |-> kind, at |-> NextObject(h)])
  PROVE  StateInv(g, Append(rs, [kind |-> kind, at |-> NextObject(h)]), p)
<1> DEFINE root == [kind |-> kind, at |-> NextObject(h)]
           all == Append(rs, root)
           S == [kind : Kinds, at : Address]
<1>1. root.kind = kind /\ root.at = NextObject(h)
  OBVIOUS
<1>2. Alive(h, t) /\ Alive(g, u) /\ IsHeap(g) /\ g.used <= PageWords
  BY DEF Becomes, Alive
<1>3. h.used \in Nat /\ NextObject(h) = h.used + 1
  BY <1>2 DEF Alive, IsHeap, NextObject
<1>4. root.at \in Address
  <2>1. root.at \in Nat /\ root.at < g.used
    BY <1>1, <1>2, RootInPage
  <2>2. g.used \in Nat /\ PageWords \in Nat
    BY <1>2, PageSize DEF IsHeap
  <2> HIDE DEF root
  <2>3. QED
    BY <1>1, <1>2, <1>3, <2>1, <2>2 DEF Address
<1>5. root \in S
  BY <1>4
<1>6. rs \in Seq(S)
  BY DEF StateInv
<1> HIDE DEF root, S
<1>7. /\ all \in Seq(S) /\ Len(all) = Len(rs) + 1
      /\ \A i \in 1..Len(rs) : all[i] = rs[i]
      /\ all[Len(rs) + 1] = root
  BY <1>5, <1>6, AppendProperties
<1>8. Len(rs) \in Nat /\ DOMAIN rs = 1..Len(rs) /\ DOMAIN all = 1..(Len(rs) + 1)
  BY <1>6, <1>7, LenProperties
<1> HIDE DEF all
<1>9. \A r \in DOMAIN all : r \in DOMAIN rs \/ r = Len(rs) + 1
  BY <1>8
<1>10. ASSUME NEW r \in DOMAIN rs
       PROVE  all[r] = rs[r] /\ RootIs(g, u, rs[r]) /\ rs[r].at # root.at
  <2>1. RootIs(h, t, rs[r])
    BY DEF Holds
  <2>2. rs[r].kind \in Kinds
    <3>1. rs[r] \in S
      BY <1>6, <1>8, ElementOfSeq
    <3>2. QED
      BY <3>1 DEF S
  <2>3. rs[r].at \in Nat /\ rs[r].at < h.used
    BY <1>2, <2>1, <2>2, RootInPage
  <2>4. rs[r].at # root.at
    BY <1>1, <1>3, <2>3
  <2>5. QED
    BY <1>7, <1>8, <2>1, <2>4, RootStays
<1>11. Holds(g, u, all)
  <2>1. RootIs(g, u, root)
    BY DEF root
  <2>2. \A r \in DOMAIN all : RootIs(g, u, all[r])
    BY <1>7, <1>9, <1>10, <2>1
  <2>3. QED
    BY <1>2, <2>2 DEF Holds
<1>12. Differ(all)
  <2>1. ASSUME NEW r \in DOMAIN all, NEW s \in DOMAIN all, all[r].at = all[s].at
        PROVE  r = s
    <3>1. CASE r \in DOMAIN rs /\ s \in DOMAIN rs
      BY <1>10, <2>1, <3>1 DEF StateInv, Differ
    <3>2. CASE r \in DOMAIN rs /\ s = Len(rs) + 1
      BY <1>7, <1>10, <2>1, <3>2
    <3>3. CASE r = Len(rs) + 1 /\ s \in DOMAIN rs
      BY <1>7, <1>10, <2>1, <3>3
    <3>4. QED
      BY <1>9, <3>1, <3>2, <3>3
  <2>2. QED
    BY <2>1 DEF Differ
<1>13. p \in Programs
  BY DEF StateInv
<1>14. StateInv(g, all, p)
  BY <1>2, <1>7, <1>11, <1>12, <1>13 DEF StateInv, S
<1>15. QED
  BY <1>14 DEF all, root

\* and one that aborts the program.
LEMMA AbortHolds ==
  ASSUME NEW h, NEW rs, NEW p, StateInv(h, rs, p)
  PROVE  LET g == [h EXCEPT !.ok = FALSE]
         IN /\ StateInv(g, rs, p) /\ g.used = h.used
            /\ \A a : Read(g, a) = Read(h, a)
<1> DEFINE g == [h EXCEPT !.ok = FALSE]
<1>1. IsHeap(h)
  BY DEF StateInv
<1>2. IsHeap(g) /\ ~ g.ok /\ g.used = h.used /\ g.mem = h.mem
  BY <1>1 DEF IsHeap
<1> HIDE DEF g
<1>3. StateInv(g, rs, p)
  BY <1>2 DEF StateInv
<1>4. \A a : Read(g, a) = Read(h, a)
  BY <1>2 DEF Read
<1>5. QED
  BY <1>2, <1>3, <1>4 DEF g

-----------------------------------------------------------------------------
(* What a program sees of its objects: the state of the object store.       *)

ValueSeen(h, root) ==
  CASE root.kind = "dict" -> [k \in Keys |-> ValueIn(h, root.at, k)]
    [] root.kind = "array" -> ItemsIn(h, root.at)
    [] root.kind = "string" -> StringAt(h, root.at)
    [] root.kind = "builder" -> Appended(h, root.at)

Seen(h, root) == [kind |-> root.kind, val |-> ValueSeen(h, root)]

SeenAll(h, rs) == [r \in DOMAIN rs |-> Seen(h, rs[r])]

\* What a program may use.
LEMMA ProgramIs ==
  ASSUME NEW p \in Programs
  PROVE  /\ p.keys \subseteq Int /\ p.values \subseteq Int /\ p.letters \subseteq Int
         /\ p.keys \subseteq Keys /\ p.values \subseteq Values /\ p.letters \subseteq Letters
         /\ p.maxBucketItems \in Nat /\ p.maxAppends \in Nat
<1>1. p \in Program
  BY ProgramsAssumption
<1>2. QED
  BY <1>1 DEF Program, Keys, Values, Letters

\* Keys of programs are integers.
LEMMA KeysAreInts == Keys \subseteq Int
BY ProgramIs DEF Keys

\* By kind:
LEMMA SeenIs ==
  ASSUME NEW h, NEW root
  PROVE  /\ root.kind = "dict" => ValueSeen(h, root) = [k \in Keys |-> ValueIn(h, root.at, k)]
         /\ root.kind = "array" => ValueSeen(h, root) = ItemsIn(h, root.at)
         /\ root.kind = "string" => ValueSeen(h, root) = StringAt(h, root.at)
         /\ root.kind = "builder" => ValueSeen(h, root) = Appended(h, root.at)
BY DEF ValueSeen

\* The items of an array.
LEMMA ItemsAre ==
  ASSUME NEW h, NEW t, NEW r, ArrayIn(h, t, r)
  PROVE  ItemsIn(h, r) = [i \in 1..2 |-> ArrayGet(h, r, i - 1)]
BY ArrayIs DEF ItemsIn

\* A step is not seen of an object whose tag it does not have.
NotOf(root, x) ==
  /\ \A k : Tag("value", root.at, k) # x
  /\ Tag("data", root.at, 0) # x /\ Tag("strings", root.at, 0) # x

\* A step is not seen of an object that has not its tag.
LEMMA SameSeen ==
  ASSUME NEW h, NEW t, NEW g, NEW u, NEW x, Step(h, t, g, u, x), NEW root,
         root.kind \in Kinds, RootIs(h, t, root), NotOf(root, x)
  PROVE  Seen(g, root) = Seen(h, root)
<1> DEFINE a == root.at
<1>1. Becomes(h, t, g, u)
  BY DEF Step
<1>2. CASE root.kind = "dict"
  <2>1. DictIn(h, t, a)
    BY <1>2 DEF RootIs
  <2>2. ASSUME NEW k \in Keys
        PROVE  ValueIn(g, a, k) = ValueIn(h, a, k)
    BY <2>1, KeysAreInts DEF Step, SameValues, NotOf
  <2>3. ValueSeen(g, root) = ValueSeen(h, root)
    BY <1>2, <2>2, SeenIs
  <2>4. QED
    BY <2>3 DEF Seen
<1>3. CASE root.kind = "array"
  <2>1. ArrayIn(h, t, a) /\ ArrayIn(g, u, a)
    BY <1>1, <1>3, StaysIn DEF RootIs
  <2>2. \A i \in 0..1 : ArrayGet(g, a, i) = ArrayGet(h, a, i)
    BY <2>1 DEF Step, SameItems, NotOf
  <2> HIDE DEF a
  <2>3. ASSUME NEW i \in 1..2
        PROVE  ArrayGet(g, a, i - 1) = ArrayGet(h, a, i - 1)
    <3>1. i - 1 \in 0..1
      OBVIOUS
    <3>2. QED
      BY <2>2, <3>1
  <2>4. ItemsIn(g, a) = ItemsIn(h, a)
    BY <2>1, <2>3, ItemsAre
  <2>5. ValueSeen(g, root) = ValueSeen(h, root)
    BY <1>3, <2>4, SeenIs DEF a
  <2>6. QED
    BY <2>5 DEF Seen
<1>4. CASE root.kind = "string"
  <2>1. StringIn(h, t, a)
    BY <1>4 DEF RootIs
  <2>2. StringAt(g, a) = StringAt(h, a)
    BY <1>1, <2>1, SameString
  <2>3. ValueSeen(g, root) = ValueSeen(h, root)
    BY <1>4, <2>2, SeenIs
  <2>4. QED
    BY <2>3 DEF Seen
<1>5. CASE root.kind = "builder"
  <2>1. BuilderIn(h, t, a)
    BY <1>5 DEF RootIs
  <2>2. Appended(g, a) = Appended(h, a)
    BY <2>1 DEF Step, SameAppends, NotOf
  <2>3. ValueSeen(g, root) = ValueSeen(h, root)
    BY <1>5, <2>2, SeenIs
  <2>4. QED
    BY <2>3 DEF Seen
<1>6. QED
  BY <1>2, <1>3, <1>4, <1>5 DEF Kinds

\* What is seen of a heap is what is read from it.
LEMMA SameReads ==
  ASSUME NEW h, NEW g, \A a : Read(g, a) = Read(h, a), NEW root
  PROVE  Seen(g, root) = Seen(h, root)
<1>1. ASSUME NEW r, NEW i
      PROVE  ArrayLength(g, r) = ArrayLength(h, r) /\ ArrayGet(g, r, i) = ArrayGet(h, r, i)
  BY DEF ArrayLength, ArrayGet
<1>2. ASSUME NEW s
      PROVE  StringAt(g, s) = StringAt(h, s)
  BY DEF StringAt
<1>3. ASSUME NEW b
      PROVE  Appended(g, b) = Appended(h, b)
  BY <1>1, <1>2 DEF Appended
<1>4. ASSUME NEW d, NEW k
      PROVE  ValueIn(g, d, k) = ValueIn(h, d, k)
  <2> DEFINE b == BucketOf(h, d, k)
             m == Matches(h, b, k)
  <2>1. BucketSlot(g, d, k) = BucketSlot(h, d, k)
    BY DEF BucketSlot
  <2>2. BucketOf(g, d, k) = b
    BY <2>1 DEF BucketOf
  <2> HIDE DEF b
  <2>3. \A e : EntryKey(g, e) = EntryKey(h, e) /\ EntryValue(g, e) = EntryValue(h, e)
    BY DEF EntryKey, EntryValue
  <2>4. Matches(g, b, k) = m
    BY <1>1, <2>3 DEF Matches
  <2> HIDE DEF m
  <2>5. DictGet(g, d, k) = DictGet(h, d, k)
    <3>1. DictGet(h, d, k) = LET found == IF b = 0 THEN {} ELSE m
                             IN IF found = {} THEN Nil
                                ELSE EntryValue(h, ArrayGet(h, b, Min(found)))
      BY DEF DictGet, BucketOf, b, m
    <3>2. DictGet(g, d, k) = LET found == IF b = 0 THEN {} ELSE m
                             IN IF found = {} THEN Nil
                                ELSE EntryValue(g, ArrayGet(g, b, Min(found)))
      BY <2>2, <2>4 DEF DictGet, BucketOf
    <3>3. QED
      BY <1>1, <2>3, <3>1, <3>2
  <2>6. QED
    BY <2>5 DEF ValueIn, Wrapped
<1>5. ItemsIn(g, root.at) = ItemsIn(h, root.at)
  BY <1>1 DEF ItemsIn
<1>6. QED
  BY <1>2, <1>3, <1>4, <1>5 DEF Seen, ValueSeen

\* The objects are those of the heap's state.
LEMMA RootsAre ==
  ASSUME NEW h, NEW rs, NEW p, StateInv(h, rs, p)
  PROVE  /\ Len(rs) \in Nat /\ DOMAIN rs = 1..Len(rs)
         /\ \A r \in DOMAIN rs : rs[r].kind \in Kinds
<1> DEFINE S == [kind : Kinds, at : Address]
<1>1. rs \in Seq(S)
  BY DEF StateInv
<1>2. \A x \in S : x.kind \in Kinds
  OBVIOUS
<1> HIDE DEF S
<1>3. Len(rs) \in Nat /\ DOMAIN rs = 1..Len(rs) /\ \A r \in 1..Len(rs) : rs[r] \in S
  BY <1>1, LenProperties, ElementOfSeq
<1>4. QED
  BY <1>2, <1>3

\* A new object is seen behind the others,
LEMMA AddSeen ==
  ASSUME NEW h, NEW t, NEW rs, NEW p, StateInv(h, rs, p), Holds(h, t, rs),
         NEW g, NEW u, Step(h, t, g, u, Const), NEW root
  PROVE  SeenAll(g, Append(rs, root)) = Append(SeenAll(h, rs), Seen(g, root))
<1> DEFINE n == Len(rs)
           new == Seen(g, root)
           old == SeenAll(h, rs)
           all == Append(rs, root)
           W == {Seen(h, rs[i]) : i \in 1..n} \cup {new}
<1>1. /\ n \in Nat /\ DOMAIN rs = 1..n
      /\ \A r \in DOMAIN rs : rs[r].kind \in Kinds
  BY RootsAre
<1>2. ASSUME NEW r \in DOMAIN rs
      PROVE  Seen(g, rs[r]) = Seen(h, rs[r])
  <2>1. NotOf(rs[r], Const)
    BY TagIs DEF NotOf
  <2>2. RootIs(h, t, rs[r])
    BY DEF Holds
  <2>3. QED
    BY <1>1, <2>1, <2>2, SameSeen
<1>3. /\ DOMAIN all = 1..(n + 1) /\ all[n + 1] = root
      /\ \A i \in 1..n : all[i] = rs[i]
  <2> DEFINE V == {rs[i] : i \in 1..n} \cup {root}
  <2>1. rs \in [1..n -> V]
    <3>1. rs = [i \in 1..n |-> rs[i]]
      BY <1>1 DEF StateInv
    <3>2. QED
      BY <3>1
  <2>2. rs \in Seq(V) /\ root \in V
    BY <1>1, <2>1, SeqDef
  <2> HIDE DEF V, n
  <2>3. /\ Append(rs, root) \in Seq(V) /\ Len(Append(rs, root)) = n + 1
        /\ \A i \in 1..n : Append(rs, root)[i] = rs[i]
        /\ Append(rs, root)[n + 1] = root
    BY <2>2, AppendProperties DEF n
  <2>4. DOMAIN Append(rs, root) = 1..(n + 1)
    BY <2>3, LenProperties
  <2>5. QED
    BY <2>3, <2>4
<1>4. old = [i \in 1..n |-> Seen(h, rs[i])]
  BY <1>1 DEF SeenAll
<1>5. old \in [1..n -> W] /\ new \in W
  BY <1>4
<1> HIDE DEF n, W, new
<1>6. old \in Seq(W) /\ Len(old) = n
  BY <1>1, <1>5, SeqDef, LenProperties
<1> HIDE DEF old, all
<1>7. /\ Append(old, new) \in Seq(W) /\ Len(Append(old, new)) = n + 1
      /\ \A i \in 1..n : Append(old, new)[i] = old[i]
      /\ Append(old, new)[n + 1] = new
  BY <1>5, <1>6, AppendProperties
<1>8. Append(old, new) = [i \in 1..(n + 1) |-> Append(old, new)[i]]
  <2>1. Append(old, new) \in [1..(n + 1) -> W]
    BY <1>7, LenProperties
  <2>2. QED
    BY <2>1
<1>9. ASSUME NEW i \in 1..(n + 1)
      PROVE  Seen(g, all[i]) = Append(old, new)[i]
  <2>1. i \in 1..n \/ i = n + 1
    BY <1>1
  <2>2. CASE i \in 1..n
    BY <1>1, <1>2, <1>3, <1>4, <1>7, <2>2
  <2>3. CASE i = n + 1
    BY <1>3, <1>7, <2>3 DEF new
  <2>4. QED
    BY <2>1, <2>2, <2>3
<1>10. SeenAll(g, all) = [i \in 1..(n + 1) |-> Seen(g, all[i])]
  BY <1>3 DEF SeenAll
<1>11. SeenAll(g, all) = Append(old, new)
  BY <1>8, <1>9, <1>10
<1>12. QED
  BY <1>11 DEF old, new, all

\* and an operation on an object is seen of that object alone.
LEMMA UpdateSeen ==
  ASSUME NEW h, NEW t, NEW rs, NEW p, StateInv(h, rs, p), Holds(h, t, rs), NEW r \in DOMAIN rs,
         NEW g, NEW u, NEW x, Step(h, t, g, u, x), x[2] = rs[r].at
  PROVE  SeenAll(g, rs) = [SeenAll(h, rs) EXCEPT ![r].val = ValueSeen(g, rs[r])]
<1> DEFINE old == SeenAll(h, rs)
           w == ValueSeen(g, rs[r])
<1>1. ASSUME NEW s \in DOMAIN rs, s # r
      PROVE  Seen(g, rs[s]) = Seen(h, rs[s])
  <2>1. rs[s].at # rs[r].at
    BY <1>1 DEF StateInv, Differ
  <2>2. NotOf(rs[s], x)
    BY <2>1, TagIs DEF NotOf
  <2>3. RootIs(h, t, rs[s]) /\ rs[s].kind \in Kinds
    BY RootsAre DEF Holds
  <2>4. QED
    BY <2>2, <2>3, SameSeen
<1>2. old[r] = [kind |-> rs[r].kind, val |-> ValueSeen(h, rs[r])]
  BY DEF SeenAll, Seen
<1>3. [old[r] EXCEPT !.val = w] = Seen(g, rs[r])
  BY <1>2 DEF Seen
<1>4. DOMAIN old = DOMAIN rs /\ old = [s \in DOMAIN rs |-> Seen(h, rs[s])]
  BY DEF SeenAll
<1> HIDE DEF old, w
<1>5. [old EXCEPT ![r].val = w] = [s \in DOMAIN rs |-> IF s = r THEN [old[r] EXCEPT !.val = w]
                                                     ELSE old[s]]
  BY <1>4
<1>6. SeenAll(g, rs) = [s \in DOMAIN rs |-> Seen(g, rs[s])]
  BY DEF SeenAll
<1>7. [old EXCEPT ![r].val = w] = SeenAll(g, rs)
  BY <1>1, <1>3, <1>4, <1>5, <1>6
<1>8. QED
  BY <1>7 DEF old, w

-----------------------------------------------------------------------------
(* What each operation that does not abort the program does to the objects. *)

Root(kind, h) == [kind |-> kind, at |-> NextObject(h)]

Added(h, rs, p, g, kind, val) ==
  /\ StateInv(g, Append(rs, Root(kind, h)), p)
  /\ SeenAll(g, Append(rs, Root(kind, h))) = Append(SeenAll(h, rs), [kind |-> kind, val |-> val])

Updated(h, rs, p, g, r, val) ==
  /\ StateInv(g, rs, p)
  /\ SeenAll(g, rs) = [SeenAll(h, rs) EXCEPT ![r].val = val]

\* An allocation nobody sees adds the new object.
LEMMA AddEffect ==
  ASSUME NEW h, NEW t, NEW rs, NEW p, StateInv(h, rs, p), Holds(h, t, rs),
         NEW g, NEW u, Step(h, t, g, u, Const), NEW kind \in Kinds,
         RootIs(g, u, Root(kind, h))
  PROVE  Added(h, rs, p, g, kind, ValueSeen(g, Root(kind, h)))
<1>1. Becomes(h, t, g, u)
  BY DEF Step
<1>2. StateInv(g, Append(rs, Root(kind, h)), p)
  BY <1>1, AddHolds DEF Root
<1>3. SeenAll(g, Append(rs, Root(kind, h))) = Append(SeenAll(h, rs), Seen(g, Root(kind, h)))
  BY AddSeen
<1>4. Seen(g, Root(kind, h)) = [kind |-> kind, val |-> ValueSeen(g, Root(kind, h))]
  BY DEF Seen, Root
<1>5. QED
  BY <1>2, <1>3, <1>4 DEF Added

\* A step at a tag of an object changes what is seen of this object alone.
LEMMA UpdateEffect ==
  ASSUME NEW h, NEW t, NEW rs, NEW p, StateInv(h, rs, p), Holds(h, t, rs), NEW r \in DOMAIN rs,
         NEW g, NEW u, NEW x, Step(h, t, g, u, x), x[2] = rs[r].at
  PROVE  Updated(h, rs, p, g, r, ValueSeen(g, rs[r]))
<1>1. Becomes(h, t, g, u)
  BY DEF Step
<1>2. QED
  BY <1>1, UpdateHolds, UpdateSeen DEF Updated

\* There are tags by which the objects are what they are held for.
LEMMA TagsOf ==
  ASSUME NEW h, NEW rs, NEW p, StateInv(h, rs, p), h.ok
  PROVE  \E t : Holds(h, t, rs) /\ Alive(h, t)
BY DEF StateInv, Holds

\* The parts of a new root.
LEMMA RootAs ==
  ASSUME NEW h
  PROVE  \A kind : Root(kind, h).kind = kind /\ Root(kind, h).at = NextObject(h)
BY DEF Root

\* A new dictionary is added, empty.
LEMMA NewDictEffect ==
  ASSUME NEW h, NEW rs, NEW p, StateInv(h, rs, p), h.ok, Allocate(h, DictWords).ok
  PROVE  Added(h, rs, p, Allocate(h, DictWords), "dict", [k \in Keys |-> Nil])
<1> DEFINE g == Allocate(h, DictWords)
           root == Root("dict", h)
<1>1. PICK t : Holds(h, t, rs) /\ Alive(h, t)
  BY TagsOf
<1>2. PICK u : /\ Step(h, t, g, u, Const) /\ DictIn(g, u, NextObject(h))
               /\ \A k \in Int : ValueIn(g, NextObject(h), k) = Nil
  BY <1>1, NewDictStep
<1>3. root.kind = "dict" /\ root.at = NextObject(h) /\ "dict" \in Kinds
  BY RootAs DEF Kinds
<1> HIDE DEF g
<1>4. RootIs(g, u, root)
  BY <1>2, <1>3 DEF RootIs
<1>5. ValueSeen(g, root) = [k \in Keys |-> Nil]
  BY <1>2, <1>3, KeysAreInts, SeenIs
<1>6. Added(h, rs, p, g, "dict", ValueSeen(g, root))
  BY <1>1, <1>2, <1>3, <1>4, AddEffect
<1>7. QED
  BY <1>5, <1>6 DEF g

\* A new array is added, with its items.
LEMMA NewArrayEffect ==
  ASSUME NEW h, NEW rs, NEW p, StateInv(h, rs, p), h.ok, NEW v \in Int, NEW w \in Int,
         ArrayOf(h, <<v, w>>).ok
  PROVE  Added(h, rs, p, ArrayOf(h, <<v, w>>), "array", <<v, w>>)
<1> DEFINE g == ArrayOf(h, <<v, w>>)
           root == Root("array", h)
           a == NextObject(h)
<1>1. PICK t : Holds(h, t, rs) /\ Alive(h, t)
  BY TagsOf
<1>2. PICK u : /\ Step(h, t, g, u, Const) /\ ArrayIn(g, u, a)
               /\ ArrayGet(g, a, 0) = v /\ ArrayGet(g, a, 1) = w
  BY <1>1, NewArrayStep
<1>3. root.kind = "array" /\ root.at = a /\ "array" \in Kinds
  BY RootAs DEF Kinds
<1> HIDE DEF g, a
<1>4. RootIs(g, u, root)
  BY <1>2, <1>3 DEF RootIs
<1>5. ValueSeen(g, root) = <<v, w>>
  <2>1. ItemsIn(g, a) = [i \in 1..2 |-> ArrayGet(g, a, i - 1)]
    BY <1>2, ItemsAre
  <2>2. \A i \in 1..2 : ArrayGet(g, a, i - 1) = <<v, w>>[i]
    <3>1. ASSUME NEW i \in 1..2
          PROVE  ArrayGet(g, a, i - 1) = <<v, w>>[i]
      <4>1. CASE i = 1
        BY <1>2, <4>1
      <4>2. CASE i = 2
        BY <1>2, <4>2
      <4>3. QED
        BY <4>1, <4>2
    <3>2. QED
      BY <3>1
  <2>3. <<v, w>> = [i \in 1..2 |-> <<v, w>>[i]]
    OBVIOUS
  <2>4. ItemsIn(g, a) = <<v, w>>
    BY <2>1, <2>2, <2>3
  <2>5. QED
    BY <1>3, <2>4, SeenIs
<1>6. Added(h, rs, p, g, "array", ValueSeen(g, root))
  BY <1>1, <1>2, <1>3, <1>4, AddEffect
<1>7. QED
  BY <1>5, <1>6 DEF g

\* A new string is added.
LEMMA NewStringEffect ==
  ASSUME NEW h, NEW rs, NEW p, StateInv(h, rs, p), h.ok, NEW s \in Seq(Int),
         Allocate(h, StringWords(s)).ok
  PROVE  Added(h, rs, p, Allocate(h, StringWords(s)), "string", s)
<1> DEFINE g == Allocate(h, StringWords(s))
           root == Root("string", h)
<1>1. PICK t : Holds(h, t, rs) /\ Alive(h, t)
  BY TagsOf
<1>2. PICK u : /\ Step(h, t, g, u, Const) /\ StringIn(g, u, NextObject(h))
               /\ StringAt(g, NextObject(h)) = s
  BY <1>1, NewStringStep
<1>3. root.kind = "string" /\ root.at = NextObject(h) /\ "string" \in Kinds
  BY RootAs DEF Kinds
<1> HIDE DEF g
<1>4. RootIs(g, u, root)
  BY <1>2, <1>3 DEF RootIs
<1>5. ValueSeen(g, root) = s
  BY <1>2, <1>3, SeenIs
<1>6. Added(h, rs, p, g, "string", ValueSeen(g, root))
  BY <1>1, <1>2, <1>3, <1>4, AddEffect
<1>7. QED
  BY <1>5, <1>6 DEF g

\* A new builder is added, without strings.
LEMMA NewBuilderEffect ==
  ASSUME NEW h, NEW rs, NEW p, StateInv(h, rs, p), h.ok, NewStringBuilder(h).ok
  PROVE  Added(h, rs, p, NewStringBuilder(h), "builder", <<>>)
<1> DEFINE g == NewStringBuilder(h)
           root == Root("builder", h)
<1>1. PICK t : Holds(h, t, rs) /\ Alive(h, t)
  BY TagsOf
<1>2. PICK u : /\ Step(h, t, g, u, Const) /\ BuilderIn(g, u, NextObject(h))
               /\ Appended(g, NextObject(h)) = <<>>
  BY <1>1, NewBuilderStep
<1>3. root.kind = "builder" /\ root.at = NextObject(h) /\ "builder" \in Kinds
  BY RootAs DEF Kinds
<1> HIDE DEF g
<1>4. RootIs(g, u, root)
  BY <1>2, <1>3 DEF RootIs
<1>5. ValueSeen(g, root) = <<>>
  BY <1>2, <1>3, SeenIs
<1>6. Added(h, rs, p, g, "builder", ValueSeen(g, root))
  BY <1>1, <1>2, <1>3, <1>4, AddEffect
<1>7. QED
  BY <1>5, <1>6 DEF g

\* The hypothesis of the theorems: a program keeps to the room of the arrays
\* append stores to without a check, four entries of a bucket and eight strings
\* of a builder.  DictOverflow shows what happens beyond.
NothingOverfull == \A p \in Programs : p.maxBucketItems <= 4 /\ p.maxAppends <= 8

\* What is seen of one object.
LEMMA SeenAt ==
  ASSUME NEW h, NEW rs, NEW r \in DOMAIN rs
  PROVE  SeenAll(h, rs)[r].val = ValueSeen(h, rs[r])
BY DEF SeenAll, Seen

\* toString adds a string: the strings of the builder, the last one first.
LEMMA JoinEffect ==
  ASSUME NEW h, NEW rs, NEW p, StateInv(h, rs, p), h.ok, NEW r \in DOMAIN rs,
         rs[r].kind = "builder", BuilderToString(h, rs[r].at).ok
  PROVE  Added(h, rs, p, BuilderToString(h, rs[r].at), "string",
               FlattenSeq(Reverse(SeenAll(h, rs)[r].val)))
<1> DEFINE b == rs[r].at
           s == FlattenSeq(Reverse(Appended(h, b)))
<1>1. PICK t : Holds(h, t, rs) /\ Alive(h, t)
  BY TagsOf
<1>2. BuilderIn(h, t, b)
  BY <1>1 DEF Holds, RootIs
<1>3. Appended(h, b) \in Seq(Seq(Int))
  BY <1>2, AppendedIs
<1>4. s \in Seq(Int)
  BY <1>3, JoinIsWords
<1>5. SeenAll(h, rs)[r].val = Appended(h, b)
  BY SeenAt, SeenIs
<1>6. BuilderToString(h, b) = Allocate(h, StringWords(s))
  BY DEF BuilderToString
<1> HIDE DEF s
<1>7. Added(h, rs, p, Allocate(h, StringWords(s)), "string", s)
  BY <1>4, <1>6, NewStringEffect
<1>8. QED
  BY <1>5, <1>6, <1>7 DEF s

\* append adds the string to those of the builder.
LEMMA AppendEffect ==
  ASSUME NEW h, NEW rs, NEW p, StateInv(h, rs, p), h.ok,
         NEW r \in DOMAIN rs, rs[r].kind = "builder",
         NEW s \in DOMAIN rs, rs[s].kind = "string",
         Len(Appended(h, rs[r].at)) < p.maxAppends, NothingOverfull
  PROVE  Updated(h, rs, p, BuilderAppend(h, rs[r].at, rs[s].at), r,
                 Append(SeenAll(h, rs)[r].val, SeenAll(h, rs)[s].val))
<1> DEFINE b == rs[r].at
           a == rs[s].at
           g == BuilderAppend(h, b, a)
           x == Tag("strings", b, 0)
<1>1. PICK t : Holds(h, t, rs) /\ Alive(h, t)
  BY TagsOf
<1>2. BuilderIn(h, t, b) /\ StringIn(h, t, a)
  BY <1>1 DEF Holds, RootIs
<1>3. Len(Appended(h, b)) < 8
  <2>1. Len(Appended(h, b)) \in Nat
    BY <1>2, AppendedIs
  <2>2. p.maxAppends \in Nat /\ p.maxAppends <= 8
    BY ProgramIs DEF NothingOverfull, StateInv
  <2>3. QED
    BY <2>1, <2>2
<1>4. Step(h, t, g, t, x) /\ Appended(g, b) = Append(Appended(h, b), StringAt(h, a))
  BY <1>2, <1>3, AppendStep
<1>5. x[2] = rs[r].at
  BY TagIs
<1> HIDE DEF g, x
<1>6. Updated(h, rs, p, g, r, ValueSeen(g, rs[r]))
  BY <1>1, <1>4, <1>5, UpdateEffect
<1>7. ValueSeen(g, rs[r]) = Appended(g, b)
  BY SeenIs
<1>8. SeenAll(h, rs)[r].val = Appended(h, b) /\ SeenAll(h, rs)[s].val = StringAt(h, a)
  BY SeenAt, SeenIs
<1>9. QED
  BY <1>4, <1>6, <1>7, <1>8 DEF g

\* `a[i] = v` changes one item of one array.
LEMMA SetItemEffect ==
  ASSUME NEW h, NEW rs, NEW p, StateInv(h, rs, p), h.ok,
         NEW r \in DOMAIN rs, rs[r].kind = "array",
         NEW i \in 0..(ArrayLength(h, rs[r].at) - 1), NEW v \in Int
  PROVE  Updated(h, rs, p, ArraySet(h, rs[r].at, i, v), r,
                 [SeenAll(h, rs)[r].val EXCEPT ![i + 1] = v])
<1> DEFINE a == rs[r].at
           g == ArraySet(h, a, i, v)
           x == Tag("data", a, 0)
           old == SeenAll(h, rs)[r].val
<1>1. PICK t : Holds(h, t, rs) /\ Alive(h, t)
  BY TagsOf
<1>2. ArrayIn(h, t, a)
  BY <1>1 DEF Holds, RootIs
<1>3. i \in 0..1
  BY <1>2, ArrayIs
<1>4. /\ Step(h, t, g, t, x)
      /\ \A j \in 0..1 : ArrayGet(g, a, j) = IF j = i THEN v ELSE ArrayGet(h, a, j)
  BY <1>2, <1>3, SetItemStep
<1>5. x[2] = rs[r].at
  BY TagIs
<1> HIDE DEF g, x
<1>6. Updated(h, rs, p, g, r, ValueSeen(g, rs[r]))
  BY <1>1, <1>4, <1>5, UpdateEffect
<1>7. ArrayIn(g, t, a)
  BY <1>2, <1>4, StaysIn DEF Step
<1>8. ValueSeen(g, rs[r]) = ItemsIn(g, a) /\ old = ItemsIn(h, a)
  BY SeenAt, SeenIs
<1> HIDE DEF a, old
<1>9. /\ ValueSeen(g, rs[r]) = [j \in 1..2 |-> ArrayGet(g, a, j - 1)]
      /\ old = [j \in 1..2 |-> ArrayGet(h, a, j - 1)]
  BY <1>2, <1>7, <1>8, ItemsAre
<1>10. ASSUME NEW j \in 1..2
       PROVE  ArrayGet(g, a, j - 1) = IF j = i + 1 THEN v ELSE ArrayGet(h, a, j - 1)
  <2>1. j - 1 \in 0..1 /\ (j - 1 = i <=> j = i + 1)
    BY <1>3
  <2>2. QED
    BY <1>4, <2>1
<1>11. [old EXCEPT ![i + 1] = v]
         = [j \in 1..2 |-> IF j = i + 1 THEN v ELSE ArrayGet(h, a, j - 1)]
  BY <1>9
<1>12. ValueSeen(g, rs[r]) = [old EXCEPT ![i + 1] = v]
  BY <1>9, <1>10, <1>11
<1>13. QED
  BY <1>6, <1>12 DEF g, a, old

\* `d[k] = v` changes the value of one key of one dictionary.
LEMMA InsertEffect ==
  ASSUME NEW h, NEW rs, NEW p, StateInv(h, rs, p), h.ok,
         NEW r \in DOMAIN rs, rs[r].kind = "dict", NEW k \in p.keys, NEW v \in p.values,
         BucketOf(h, rs[r].at, k) # 0 =>
           \/ ArrayLength(h, BucketOf(h, rs[r].at, k)) < p.maxBucketItems
           \/ Matches(h, BucketOf(h, rs[r].at, k), k) # {},
         NothingOverfull, InsertInto(h, rs[r].at, k, v).ok
  PROVE  Updated(h, rs, p, InsertInto(h, rs[r].at, k, v), r,
                 [SeenAll(h, rs)[r].val EXCEPT ![k] = v])
<1> DEFINE d == rs[r].at
           g == InsertInto(h, d, k, v)
           x == Tag("value", d, k)
           old == SeenAll(h, rs)[r].val
           b == BucketOf(h, d, k)
<1>1. PICK t : Holds(h, t, rs) /\ Alive(h, t)
  BY TagsOf
<1>2. DictIn(h, t, d)
  BY <1>1 DEF Holds, RootIs
<1>3. p \in Programs
  BY DEF StateInv
<1>4. k \in Int /\ k \in Keys /\ v \in Int /\ p.maxBucketItems \in Nat /\ p.maxBucketItems <= 4
  BY <1>3, ProgramIs DEF NothingOverfull
<1>5. b # 0 => HasBucket(h, t, d, k)
  <2> SUFFICES ASSUME b # 0 PROVE HasBucket(h, t, d, k)
    OBVIOUS
  <2>1. BucketIn(h, t, b, d)
    BY <1>2, <1>4, SlotIs
  <2> HIDE DEF b
  <2>2. ArrayLength(h, b) \in 0..4
    BY <2>1, BucketIs
  <2>3. ArrayLength(h, b) < p.maxBucketItems \/ Matches(h, b, k) # {}
    BY DEF b
  <2>4. ArrayLength(h, b) < 4 \/ Matches(h, b, k) # {}
    BY <1>4, <2>2, <2>3
  <2>5. QED
    BY <2>1, <2>4 DEF HasBucket, b
<1> HIDE DEF b
<1>6. PICK u : Step(h, t, g, u, x) /\ ValueIn(g, d, k) = v
  BY <1>2, <1>4, <1>5, InsertStep DEF b
<1>7. x[2] = rs[r].at
  BY TagIs
<1> HIDE DEF g
<1>8. Updated(h, rs, p, g, r, ValueSeen(g, rs[r]))
  BY <1>1, <1>6, <1>7, UpdateEffect
<1>9. /\ ValueSeen(g, rs[r]) = [l \in Keys |-> ValueIn(g, d, l)]
      /\ old = [l \in Keys |-> ValueIn(h, d, l)]
  BY SeenAt, SeenIs
<1>10. ASSUME NEW l \in Keys
       PROVE  ValueIn(g, d, l) = IF l = k THEN v ELSE ValueIn(h, d, l)
  <2>1. CASE l # k
    <3>1. Tag("value", d, l) # x
      BY <2>1, TagIs
    <3>2. l \in Int
      BY KeysAreInts
    <3>3. QED
      BY <1>2, <1>6, <2>1, <3>1, <3>2 DEF Step, SameValues
  <2>2. QED
    BY <1>6, <2>1
<1> HIDE DEF old, d
<1>11. [old EXCEPT ![k] = v] = [l \in Keys |-> IF l = k THEN v ELSE ValueIn(h, d, l)]
  BY <1>9
<1>12. ValueSeen(g, rs[r]) = [old EXCEPT ![k] = v]
  BY <1>9, <1>10, <1>11
<1>13. QED
  BY <1>8, <1>12 DEF g, d, old

-----------------------------------------------------------------------------
(* The steps of the program. *)

Objs == [r \in DOMAIN roots |-> Abstract(roots[r])]

\* What the store has of the objects is what is seen of them.
LEMMA ObjsAre == Objs = SeenAll(heap, roots) /\ Objs' = SeenAll(heap', roots')
<1>1. Objs = SeenAll(heap, roots)
  BY DEF Objs, Abstract, ValueOf, SeenAll, Seen, ValueSeen, ValueIn, ItemsIn
<1>2. Objs' = SeenAll(heap', roots')
  BY DEF Objs, Abstract, ValueOf, SeenAll, Seen, ValueSeen, ValueIn, ItemsIn
<1>3. QED
  BY <1>1, <1>2

\* An operation either has its effect or aborts the program.
LEMMA CommitIs ==
  ASSUME IInv, NEW h, Commit(h)
  PROVE  /\ heap'.ok => h.ok /\ heap' = h
         /\ ~ heap'.ok => ~ h.ok /\ heap' = [heap EXCEPT !.ok = FALSE]
<1>1. IsHeap(heap)
  BY DEF IInv, StateInv
<1>2. ~ [heap EXCEPT !.ok = FALSE].ok
  BY <1>1 DEF IsHeap
<1>3. QED
  BY <1>2 DEF Commit

\* An aborted operation leaves everything as it was seen.
LEMMA AbortKeeps ==
  ASSUME IInv, heap' = [heap EXCEPT !.ok = FALSE], UNCHANGED <<roots, program>>
  PROVE  IInv' /\ UNCHANGED Objs
<1> DEFINE g == [heap EXCEPT !.ok = FALSE]
<1>1. StateInv(heap, roots, program)
  BY DEF IInv
<1>2. StateInv(g, roots, program) /\ \A a : Read(g, a) = Read(heap, a)
  BY <1>1, AbortHolds
<1>3. heap' = g
  OBVIOUS
<1> HIDE DEF g
<1>4. IInv'
  BY <1>2, <1>3 DEF IInv
<1>5. \A root : Seen(g, root) = Seen(heap, root)
  BY <1>2, SameReads
<1>6. SeenAll(heap', roots') = SeenAll(heap, roots)
  BY <1>3, <1>5 DEF SeenAll
<1>7. QED
  BY <1>4, <1>6, ObjsAre

\* An operation that makes an object keeps the invariant and adds the object.
LEMMA AddKeeps ==
  ASSUME IInv, NEW kind, NEW h, NEW val, Add(kind, h), program' = program,
         h.ok => Added(heap, roots, program, h, kind, val)
  PROVE  /\ IInv'
         /\ heap'.ok => Objs' = Append(Objs, [kind |-> kind, val |-> val])
         /\ ~ heap'.ok => UNCHANGED Objs
<1>1. Commit(h) /\ roots' = IF h.ok THEN Append(roots, Root(kind, heap)) ELSE roots
  BY DEF Add, Root
<1>2. CASE heap'.ok
  <2>1. h.ok /\ heap' = h /\ roots' = Append(roots, Root(kind, heap))
    BY <1>1, <1>2, CommitIs
  <2>2. Added(heap, roots, program, h, kind, val)
    BY <2>1
  <2>3. IInv'
    BY <2>1, <2>2 DEF IInv, Added
  <2>4. Objs' = Append(Objs, [kind |-> kind, val |-> val])
    BY <2>1, <2>2, ObjsAre DEF Added
  <2>5. QED
    BY <1>2, <2>3, <2>4
<1>3. CASE ~ heap'.ok
  <2>1. heap' = [heap EXCEPT !.ok = FALSE] /\ UNCHANGED <<roots, program>>
    BY <1>1, <1>3, CommitIs
  <2>2. QED
    BY <1>3, <2>1, AbortKeeps
<1>4. QED
  BY <1>2, <1>3

\* An operation on an object keeps the invariant and changes that object.
LEMMA UpdateKeeps ==
  ASSUME IInv, NEW r, NEW h, NEW val, Update(h), program' = program,
         h.ok => Updated(heap, roots, program, h, r, val)
  PROVE  /\ IInv'
         /\ heap'.ok => Objs' = [Objs EXCEPT ![r].val = val]
         /\ ~ heap'.ok => UNCHANGED Objs
<1>1. Commit(h) /\ roots' = roots
  BY DEF Update
<1>2. CASE heap'.ok
  <2>1. h.ok /\ heap' = h
    BY <1>1, <1>2, CommitIs
  <2>2. Updated(heap, roots, program, h, r, val)
    BY <2>1
  <2>3. IInv'
    BY <1>1, <2>1, <2>2 DEF IInv, Updated
  <2>4. Objs' = [Objs EXCEPT ![r].val = val]
    BY <1>1, <2>1, <2>2, ObjsAre DEF Updated
  <2>5. QED
    BY <1>2, <2>3, <2>4
<1>3. CASE ~ heap'.ok
  <2>1. heap' = [heap EXCEPT !.ok = FALSE] /\ UNCHANGED <<roots, program>>
    BY <1>1, <1>3, CommitIs
  <2>2. QED
    BY <1>3, <2>1, AbortKeeps
<1>4. QED
  BY <1>2, <1>3

\* The invariant holds at first.
LEMMA InitHolds ==
  ASSUME Init
  PROVE  IInv /\ Objs = <<>>
<1>1. heap = [mem |-> <<>>, used |-> 0, ok |-> TRUE] /\ roots = <<>> /\ program \in Programs
  BY DEF Init, EmptyHeap
<1>2. Len(heap.mem) = 0 /\ heap.mem \in Seq(Int)
  BY <1>1
<1>3. IsHeap(heap) /\ heap.used <= PageWords /\ heap.used = Len(heap.mem)
  BY <1>1, <1>2, PageSize DEF IsHeap
<1>4. Layout(heap.mem, <<>>)
  BY <1>2 DEF Layout
<1>5. Alive(heap, <<>>)
  BY <1>1, <1>3, <1>4 DEF Alive
<1>6. Holds(heap, <<>>, roots)
  BY <1>1, <1>5 DEF Holds
<1>7. roots \in Seq([kind : Kinds, at : Address]) /\ Differ(roots)
  BY <1>1 DEF Differ
<1>8. IInv
  BY <1>1, <1>3, <1>6, <1>7 DEF IInv, StateInv
<1>9. Objs = <<>>
  BY <1>1 DEF Objs
<1>10. QED
  BY <1>8, <1>9

\* The values of the abstract store, by the object.
LEMMA ObjsAt ==
  ASSUME NEW r \in DOMAIN roots
  PROVE  /\ SeenAll(heap, roots)[r].val = Objs[r].val
         /\ Objs[r].kind = roots[r].kind
<1>1. Objs = SeenAll(heap, roots)
  BY ObjsAre
<1>2. Objs[r].kind = roots[r].kind
  BY DEF Objs, Abstract
<1>3. QED
  BY <1>1, <1>2

\* What a program uses is what the store may hold.
LEMMA ProgramUses ==
  ASSUME IInv
  PROVE  /\ program \in Programs /\ StateInv(heap, roots, program)
         /\ program.keys \subseteq Int /\ program.keys \subseteq Keys
         /\ program.values \subseteq Int /\ program.values \subseteq Values
         /\ program.letters \subseteq Int /\ program.letters \subseteq Letters
<1>1. program \in Programs /\ StateInv(heap, roots, program)
  BY DEF IInv, StateInv
<1>2. program \in Program
  BY <1>1, ProgramsAssumption
<1>3. QED
  BY <1>1, <1>2 DEF Program, Keys, Values, Letters

\* `new` of a dictionary.
LEMMA NewDictKeeps ==
  ASSUME IInv, heap.ok, program' = program, NewDict
  PROVE  IInv' /\ (heap'.ok => Store!NewDict) /\ (~ heap'.ok => UNCHANGED Objs)
<1>1. Add("dict", Allocate(heap, DictWords))
  BY DEF NewDict
<1>2. Allocate(heap, DictWords).ok
        => Added(heap, roots, program, Allocate(heap, DictWords), "dict", [k \in Keys |-> Nil])
  BY ProgramUses, NewDictEffect
<1>3. /\ IInv'
      /\ heap'.ok => Objs' = Append(Objs, [kind |-> "dict", val |-> [k \in Keys |-> Nil]])
      /\ ~ heap'.ok => UNCHANGED Objs
  BY <1>1, <1>2, AddKeeps
<1>4. heap'.ok => Store!NewDict
  BY <1>3 DEF Store!NewDict, Store!Add, Objs
<1>5. QED
  BY <1>3, <1>4

\* A literal of an array.
LEMMA NewArrayKeeps ==
  ASSUME IInv, heap.ok, program' = program,
         NEW v \in program.values, NEW w \in program.values, NewArray(v, w)
  PROVE  IInv' /\ (heap'.ok => Store!NewArray(v, w)) /\ (~ heap'.ok => UNCHANGED Objs)
<1>1. Add("array", ArrayOf(heap, <<v, w>>))
  BY DEF NewArray
<1>2. v \in Int /\ w \in Int /\ StateInv(heap, roots, program)
  BY ProgramUses
<1>3. ArrayOf(heap, <<v, w>>).ok
        => Added(heap, roots, program, ArrayOf(heap, <<v, w>>), "array", <<v, w>>)
  BY <1>2, NewArrayEffect
<1>4. /\ IInv'
      /\ heap'.ok => Objs' = Append(Objs, [kind |-> "array", val |-> <<v, w>>])
      /\ ~ heap'.ok => UNCHANGED Objs
  BY <1>1, <1>3, AddKeeps
<1>5. heap'.ok => Store!NewArray(v, w)
  BY <1>4 DEF Store!NewArray, Store!Add, Objs
<1>6. QED
  BY <1>4, <1>5

\* A literal of a string.
LEMMA NewStringKeeps ==
  ASSUME IInv, heap.ok, program' = program, NEW c \in program.letters, NewString(c)
  PROVE  IInv' /\ (heap'.ok => Store!NewString(c)) /\ (~ heap'.ok => UNCHANGED Objs)
<1>1. Add("string", Allocate(heap, StringWords(<<c>>)))
  BY DEF NewString
<1>2. <<c>> \in Seq(Int) /\ StateInv(heap, roots, program)
  BY ProgramUses
<1>3. Allocate(heap, StringWords(<<c>>)).ok
        => Added(heap, roots, program, Allocate(heap, StringWords(<<c>>)), "string", <<c>>)
  BY <1>2, NewStringEffect
<1>4. /\ IInv'
      /\ heap'.ok => Objs' = Append(Objs, [kind |-> "string", val |-> <<c>>])
      /\ ~ heap'.ok => UNCHANGED Objs
  BY <1>1, <1>3, AddKeeps
<1>5. heap'.ok => Store!NewString(c)
  BY <1>4 DEF Store!NewString, Store!Add, Objs
<1>6. QED
  BY <1>4, <1>5

\* `new` of a string builder.
LEMMA NewBuilderKeeps ==
  ASSUME IInv, heap.ok, program' = program, NewBuilder
  PROVE  IInv' /\ (heap'.ok => Store!NewBuilder) /\ (~ heap'.ok => UNCHANGED Objs)
<1>1. Add("builder", NewStringBuilder(heap))
  BY DEF NewBuilder
<1>2. NewStringBuilder(heap).ok
        => Added(heap, roots, program, NewStringBuilder(heap), "builder", <<>>)
  BY ProgramUses, NewBuilderEffect
<1>3. /\ IInv'
      /\ heap'.ok => Objs' = Append(Objs, [kind |-> "builder", val |-> <<>>])
      /\ ~ heap'.ok => UNCHANGED Objs
  BY <1>1, <1>2, AddKeeps
<1>4. heap'.ok => Store!NewBuilder
  BY <1>3 DEF Store!NewBuilder, Store!Add, Objs
<1>5. QED
  BY <1>3, <1>4

\* The store joins strings as the heap does.
LEMMA StoreJoins == \A s : Store!FlattenSeq(Store!Reverse(s)) = FlattenSeq(Reverse(s))
<1>1. ASSUME NEW s
      PROVE  Store!Reverse(s) = Reverse(s)
  BY DEF Store!Reverse, Reverse
<1>2. ASSUME NEW s
      PROVE  Store!FlattenSeq(s) = FlattenSeq(s)
  BY DEF Store!FlattenSeq, FlattenSeq
<1>3. QED
  BY <1>1, <1>2

\* toString of a builder.
LEMMA JoinKeeps ==
  ASSUME IInv, heap.ok, program' = program, NEW r \in Of("builder"), JoinStrings(r)
  PROVE  IInv' /\ (heap'.ok => Store!JoinStrings(r)) /\ (~ heap'.ok => UNCHANGED Objs)
<1>1. Add("string", BuilderToString(heap, roots[r].at))
  BY DEF JoinStrings
<1>2. r \in DOMAIN roots /\ roots[r].kind = "builder" /\ StateInv(heap, roots, program)
  BY ProgramUses DEF Of
<1>3. SeenAll(heap, roots)[r].val = Objs[r].val
  BY <1>2, ObjsAt
<1>4. BuilderToString(heap, roots[r].at).ok
        => Added(heap, roots, program, BuilderToString(heap, roots[r].at), "string",
                 FlattenSeq(Reverse(Objs[r].val)))
  BY <1>2, <1>3, JoinEffect
<1>5. /\ IInv'
      /\ heap'.ok => Objs' = Append(Objs, [kind |-> "string",
                                           val |-> FlattenSeq(Reverse(Objs[r].val))])
      /\ ~ heap'.ok => UNCHANGED Objs
  BY <1>1, <1>4, AddKeeps
<1>6. Store!FlattenSeq(Store!Reverse(Objs[r].val)) = FlattenSeq(Reverse(Objs[r].val))
  BY StoreJoins
<1>7. Store!JoinStrings(r)
        <=> Objs' = Append(Objs, [kind |-> "string",
                                  val |-> Store!FlattenSeq(Store!Reverse(Objs[r].val))])
  BY Zenon DEF Store!JoinStrings, Store!Add, Objs
<1>8. heap'.ok => Store!JoinStrings(r)
  BY ONLY <1>5, <1>6, <1>7, Zenon
<1>9. QED
  BY <1>5, <1>8

\* append of a builder.
LEMMA AppendKeeps ==
  ASSUME IInv, NothingOverfull, heap.ok, program' = program,
         NEW r \in Of("builder"), NEW s \in Of("string"), AppendString(r, s)
  PROVE  IInv' /\ (heap'.ok => Store!AppendString(r, s)) /\ (~ heap'.ok => UNCHANGED Objs)
<1> DEFINE g == BuilderAppend(heap, roots[r].at, roots[s].at)
<1>1. Update(g) /\ Len(Appended(heap, roots[r].at)) < program.maxAppends
  BY DEF AppendString
<1>2. /\ r \in DOMAIN roots /\ roots[r].kind = "builder"
      /\ s \in DOMAIN roots /\ roots[s].kind = "string"
      /\ StateInv(heap, roots, program)
  BY ProgramUses DEF Of
<1>3. SeenAll(heap, roots)[r].val = Objs[r].val /\ SeenAll(heap, roots)[s].val = Objs[s].val
  BY <1>2, ObjsAt
<1>4. Updated(heap, roots, program, g, r, Append(Objs[r].val, Objs[s].val))
  BY <1>1, <1>2, <1>3, AppendEffect
<1> HIDE DEF g
<1>5. /\ IInv'
      /\ heap'.ok => Objs' = [Objs EXCEPT ![r].val = Append(Objs[r].val, Objs[s].val)]
      /\ ~ heap'.ok => UNCHANGED Objs
  BY <1>1, <1>4, UpdateKeeps
<1>6. heap'.ok => Store!AppendString(r, s)
  BY <1>5 DEF Store!AppendString, Store!Update, Objs
<1>7. QED
  BY <1>5, <1>6

\* `a[i] = v`.
LEMMA SetItemKeeps ==
  ASSUME IInv, heap.ok, program' = program, NEW r \in Of("array"),
         NEW i \in 0..(ArrayLength(heap, roots[r].at) - 1), NEW v \in program.values,
         SetItem(r, i, v)
  PROVE  IInv' /\ (heap'.ok => Store!SetItem(r, i, v)) /\ (~ heap'.ok => UNCHANGED Objs)
<1> DEFINE g == ArraySet(heap, roots[r].at, i, v)
<1>1. Update(g)
  BY DEF SetItem
<1>2. /\ r \in DOMAIN roots /\ roots[r].kind = "array" /\ v \in Int
      /\ StateInv(heap, roots, program)
  BY ProgramUses DEF Of
<1>3. SeenAll(heap, roots)[r].val = Objs[r].val
  BY <1>2, ObjsAt
<1>4. Updated(heap, roots, program, g, r, [Objs[r].val EXCEPT ![i + 1] = v])
  BY <1>2, <1>3, SetItemEffect
<1> HIDE DEF g
<1>5. /\ IInv'
      /\ heap'.ok => Objs' = [Objs EXCEPT ![r].val = [Objs[r].val EXCEPT ![i + 1] = v]]
      /\ ~ heap'.ok => UNCHANGED Objs
  BY <1>1, <1>4, UpdateKeeps
<1>6. heap'.ok => Store!SetItem(r, i, v)
  BY <1>5 DEF Store!SetItem, Store!Update, Objs
<1>7. QED
  BY <1>5, <1>6

\* `d[k] = v`.
LEMMA InsertKeeps ==
  ASSUME IInv, NothingOverfull, heap.ok, program' = program, NEW r \in Of("dict"),
         NEW k \in program.keys, NEW v \in program.values, Insert(r, k, v)
  PROVE  IInv' /\ (heap'.ok => Store!Insert(r, k, v)) /\ (~ heap'.ok => UNCHANGED Objs)
<1> DEFINE d == roots[r].at
           g == InsertInto(heap, d, k, v)
           b == BucketOf(heap, d, k)
<1>1. /\ Update(g)
      /\ b # 0 => \/ ArrayLength(heap, b) < program.maxBucketItems
                  \/ Matches(heap, b, k) # {}
  BY DEF Insert, InsertInto, BucketOf
<1>2. /\ r \in DOMAIN roots /\ roots[r].kind = "dict"
      /\ StateInv(heap, roots, program)
  BY ProgramUses DEF Of
<1>3. SeenAll(heap, roots)[r].val = Objs[r].val
  BY <1>2, ObjsAt
<1>4. g.ok => Updated(heap, roots, program, g, r, [Objs[r].val EXCEPT ![k] = v])
  BY <1>1, <1>2, <1>3, InsertEffect
<1> HIDE DEF g
<1>5. /\ IInv'
      /\ heap'.ok => Objs' = [Objs EXCEPT ![r].val = [Objs[r].val EXCEPT ![k] = v]]
      /\ ~ heap'.ok => UNCHANGED Objs
  BY <1>1, <1>4, UpdateKeeps
<1>6. heap'.ok => Store!Insert(r, k, v)
  BY <1>5 DEF Store!Insert, Store!Update, Objs
<1>7. QED
  BY <1>5, <1>6

-----------------------------------------------------------------------------
(* The theorems. *)

\* The store sees the objects the program holds, by the kind they have.
LEMMA StoreOf ==
  ASSUME NEW kind
  PROVE  Store!Of(kind) = Of(kind)
<1>1. Store!Of(kind) = {r \in DOMAIN Objs : Objs[r].kind = kind}
  BY DEF Store!Of, Objs
<1>2. DOMAIN Objs = DOMAIN roots
  BY DEF Objs
<1>3. \A r \in DOMAIN roots : Objs[r].kind = roots[r].kind
  BY ObjsAt
<1> HIDE DEF Objs
<1>4. QED
  BY <1>1, <1>2, <1>3 DEF Of

\* The array a program holds has two items, here and in the store.
LEMMA ArrayItems ==
  ASSUME IInv, heap.ok, NEW r \in Of("array")
  PROVE  ArrayLength(heap, roots[r].at) = 2 /\ Len(Objs[r].val) = 2
<1>1. r \in DOMAIN roots /\ roots[r].kind = "array"
  BY DEF Of
<1>2. PICK t : Holds(heap, t, roots)
  BY DEF IInv, StateInv
<1>3. ArrayIn(heap, t, roots[r].at)
  BY <1>1, <1>2 DEF Holds, RootIs
<1>4. Objs[r].val = [i \in 1..2 |-> ArrayGet(heap, roots[r].at, i - 1)]
  BY <1>1, <1>3, ObjsAt, SeenAt, SeenIs, ItemsAre
<1>5. Len(Objs[r].val) = 2
  BY <1>4
<1>6. QED
  BY <1>3, <1>5, ArrayIs

\* What a step of the program is to the store: an operation of its own, or,
\* when the program is aborted, nothing.
Seems == Store!Next \/ UNCHANGED Objs

\* So is every operation of a program that keeps to the room there is.
LEMMA NextKeeps ==
  ASSUME IInv, NothingOverfull, Next
  PROVE  IInv' /\ Seems
<1>1. heap.ok /\ program' = program
  BY DEF Next
<1>2. /\ program.keys \subseteq Keys /\ program.values \subseteq Values
      /\ program.letters \subseteq Letters
  BY ProgramUses
<1>3. CASE NewDict
  BY <1>1, <1>3, NewDictKeeps DEF Store!Next, Seems
<1>4. CASE \E r \in Of("dict"), k \in program.keys :
             \E v \in program.values : Insert(r, k, v)
  <2>1. PICK r \in Of("dict"), k \in program.keys, v \in program.values : Insert(r, k, v)
    BY <1>4
  <2>2. IInv' /\ (heap'.ok => Store!Insert(r, k, v)) /\ (~ heap'.ok => UNCHANGED Objs)
    BY <1>1, <2>1, InsertKeeps
  <2>3. r \in Store!Of("dict") /\ k \in Keys /\ v \in Values
    BY <1>2, <2>1, StoreOf
  <2>4. QED
    BY <2>2, <2>3 DEF Store!Next, Seems
<1>5. CASE \E v, w \in program.values : NewArray(v, w)
  <2>1. PICK v \in program.values, w \in program.values : NewArray(v, w)
    BY <1>5
  <2>2. IInv' /\ (heap'.ok => Store!NewArray(v, w)) /\ (~ heap'.ok => UNCHANGED Objs)
    BY <1>1, <2>1, NewArrayKeeps
  <2>3. v \in Values /\ w \in Values
    BY <1>2, <2>1
  <2>4. QED
    BY <2>2, <2>3 DEF Store!Next, Seems
<1>6. CASE \E r \in Of("array") :
             \E i \in 0..(ArrayLength(heap, roots[r].at) - 1) :
               \E v \in program.values : SetItem(r, i, v)
  <2>0. PICK r \in Of("array") :
               \E i \in 0..(ArrayLength(heap, roots[r].at) - 1) :
                 \E v \in program.values : SetItem(r, i, v)
    BY <1>6
  <2>1. PICK i \in 0..(ArrayLength(heap, roots[r].at) - 1), v \in program.values :
               SetItem(r, i, v)
    BY <2>0
  <2>2. IInv' /\ (heap'.ok => Store!SetItem(r, i, v)) /\ (~ heap'.ok => UNCHANGED Objs)
    BY <1>1, <2>1, SetItemKeeps
  <2>3. r \in Store!Of("array") /\ v \in Values
    BY <1>2, <2>1, StoreOf
  <2>4. i \in 0..(Len(Objs[r].val) - 1)
    BY <1>1, <2>1, ArrayItems
  <2>5. heap'.ok => Store!Next
    BY <2>2, <2>3, <2>4 DEF Store!Next, Objs
  <2>6. QED
    BY <2>2, <2>5 DEF Seems
<1>7. CASE \E c \in program.letters : NewString(c)
  <2>1. PICK c \in program.letters : NewString(c)
    BY <1>7
  <2>2. IInv' /\ (heap'.ok => Store!NewString(c)) /\ (~ heap'.ok => UNCHANGED Objs)
    BY <1>1, <2>1, NewStringKeeps
  <2>3. c \in Letters
    BY <1>2, <2>1
  <2>4. QED
    BY <2>2, <2>3 DEF Store!Next, Seems
<1>8. CASE NewBuilder
  BY <1>1, <1>8, NewBuilderKeeps DEF Store!Next, Seems
<1>9. CASE \E r \in Of("builder") :
             JoinStrings(r) \/ \E s \in Of("string") : AppendString(r, s)
  <2>1. PICK r \in Of("builder") :
               JoinStrings(r) \/ \E s \in Of("string") : AppendString(r, s)
    BY <1>9
  <2>2. r \in Store!Of("builder")
    BY <2>1, StoreOf
  <2>3. CASE JoinStrings(r)
    <3>1. IInv' /\ (heap'.ok => Store!JoinStrings(r)) /\ (~ heap'.ok => UNCHANGED Objs)
      BY <1>1, <2>1, <2>3, JoinKeeps
    <3>2. QED
      BY <2>2, <3>1 DEF Store!Next, Seems
  <2>4. CASE \E s \in Of("string") : AppendString(r, s)
    <3>1. PICK s \in Of("string") : AppendString(r, s)
      BY <2>4
    <3>2. IInv' /\ (heap'.ok => Store!AppendString(r, s)) /\ (~ heap'.ok => UNCHANGED Objs)
      BY <1>1, <2>1, <3>1, AppendKeeps
    <3>3. s \in Store!Of("string")
      BY <3>1, StoreOf
    <3>4. QED
      BY <2>2, <3>2, <3>3 DEF Store!Next, Seems
  <2>5. QED
    BY <2>1, <2>3, <2>4
<1>10. QED
  BY <1>3, <1>4, <1>5, <1>6, <1>7, <1>8, <1>9 DEF Next

\* So is a step that changes nothing.
LEMMA StepKeeps ==
  ASSUME IInv, NothingOverfull, [Next]_vars
  PROVE  IInv' /\ Seems
<1>1. CASE Next
  BY <1>1, NextKeeps
<1>2. CASE UNCHANGED vars
  <2>1. heap' = heap /\ roots' = roots /\ program' = program
    BY <1>2 DEF vars
  <2>2. IInv'
    BY <2>1 DEF IInv
  <2>3. UNCHANGED Objs
    BY <2>1, ObjsAre
  <2>4. QED
    BY <2>2, <2>3 DEF Seems
<1>3. QED
  BY <1>1, <1>2

\* The inductive invariant: at every moment the words of the heap can be tagged so
\* that each holds what its purpose asks for, and the objects of the program are
\* found in it.
THEOREM HeapIsLaidOut ==
  ASSUME NothingOverfull
  PROVE  Spec => []IInv
<1>1. Init => IInv
  BY InitHolds
<1>2. IInv /\ [Next]_vars => IInv'
  BY StepKeeps
<1>3. QED
  BY <1>1, <1>2, PTL DEF Spec

\* Type correctness of the heap and of the objects a program holds in it.
THEOREM ThmHeapTypes ==
  ASSUME NothingOverfull
  PROVE  Spec => []TypeOK
<1>1. IInv => TypeOK
  <2> SUFFICES ASSUME IInv PROVE TypeOK
    OBVIOUS
  <2>1. /\ IsHeap(heap) /\ heap.used <= PageWords /\ program \in Programs
        /\ roots \in Seq([kind : Kinds, at : Address])
    BY DEF IInv, StateInv
  <2>2. heap.mem \in Seq(Int) /\ heap.used \in Nat /\ heap.ok \in BOOLEAN
        /\ Len(heap.mem) <= PageWords
    BY <2>1 DEF IsHeap
  <2>3. heap.used \in 0..PageWords
    BY <2>1, <2>2, PageSize
  <2>4. QED
    BY <2>1, <2>2, <2>3 DEF TypeOK, Kinds
<1>2. QED
  BY <1>1, HeapIsLaidOut, PTL

\* Page::allocate finds the words behind the cursor untouched: no store of a
\* built-in function leaves the object it is meant for.
THEOREM ThmFreshWords ==
  ASSUME NothingOverfull
  PROVE  Spec => []FreshWordsAreZero
<1>1. IInv => FreshWordsAreZero
  <2> SUFFICES ASSUME IInv, heap.ok PROVE Fresh(heap, PageWords - heap.used)
    BY DEF FreshWordsAreZero
  <2>1. PICK t : Holds(heap, t, roots)
    BY DEF IInv, StateInv
  <2>2. heap.used = Len(heap.mem) /\ heap.mem \in Seq(Int)
    BY <2>1 DEF Holds, Alive, IsHeap
  <2>3. QED
    BY <2>2 DEF Fresh, Read
<1>2. QED
  BY <1>1, HeapIsLaidOut, PTL

\* The heap of words implements the store of objects: an operation on an object
\* changes what the program sees of that object alone, as a map, an array, a
\* string builder or an immutable string would.
THEOREM ThmImplementsObjectStore ==
  ASSUME NothingOverfull
  PROVE  Spec => ImplementsObjectStore
<1>1. Init => Store!Init
  BY InitHolds DEF Store!Init, Objs
<1>2. IInv /\ [Next]_vars => [Store!Next]_Objs
  BY StepKeeps DEF Seems
<1>3. QED
  BY <1>1, <1>2, HeapIsLaidOut, PTL DEF Spec, ImplementsObjectStore, Store!Spec, Objs

\* An operation that does not abort has its effect: no assignment to a key or an
\* item is lost and no string of a builder is dropped.
THEOREM ThmOperationsTakeEffect ==
  ASSUME NothingOverfull
  PROVE  Spec => OperationsTakeEffect
<1>1. ASSUME IInv, Next
      PROVE  TakesEffect
  <2> SUFFICES ASSUME heap'.ok
               PROVE  TakesEffect
    BY DEF TakesEffect
  <2>1. heap.ok /\ program' = program
    BY <1>1 DEF Next
  <2>2. ASSUME NEW r \in Of("dict"), NEW k \in program.keys, NEW v \in program.values,
               Insert(r, k, v)
        PROVE  Store!Insert(r, k, v)
    BY <1>1, <2>1, <2>2, InsertKeeps
  <2>3. ASSUME NEW r \in Of("array"), NEW v \in program.values,
               NEW i \in 0..(ArrayLength(heap, roots[r].at) - 1), SetItem(r, i, v)
        PROVE  Store!SetItem(r, i, v)
    BY <1>1, <2>1, <2>3, SetItemKeeps
  <2>4. ASSUME NEW r \in Of("builder"), JoinStrings(r)
        PROVE  Store!JoinStrings(r)
    BY <1>1, <2>1, <2>4, JoinKeeps
  <2>5. ASSUME NEW r \in Of("builder"), NEW s \in Of("string"), AppendString(r, s)
        PROVE  Store!AppendString(r, s)
    BY <1>1, <2>1, <2>5, AppendKeeps
  <2>6. QED
    BY <2>2, <2>3, <2>4, <2>5 DEF TakesEffect
<1>2. IInv /\ [Next]_vars => [TakesEffect]_vars
  BY <1>1
<1>3. QED
  BY <1>2, HeapIsLaidOut, PTL DEF Spec, OperationsTakeEffect

\* The store changes what its dictionaries say of at most one key of one.
OneKey(o, q) ==
  \E r, k : \A c \in DOMAIN o, l \in Keys :
    o[c].kind = "dict" /\ (c # r \/ l # k)
      => /\ c \in DOMAIN q /\ q[c].kind = "dict"
         /\ q[c].val[l] = o[c].val[l]

\* A store of objects, every dictionary of it with a value of each key.
IsStore(o) ==
  /\ \E n \in Nat : DOMAIN o = 1..n
  /\ o = [c \in DOMAIN o |-> [kind |-> o[c].kind, val |-> o[c].val]]
  /\ \A c \in DOMAIN o : o[c].kind = "dict" => o[c].val = [l \in Keys |-> o[c].val[l]]

\* A new object leaves the others.
LEMMA AddedKeys ==
  ASSUME NEW o, NEW x, IsStore(o)
  PROVE  OneKey(o, Append(o, x))
<1>1. PICK n \in Nat : DOMAIN o = 1..n
  BY DEF IsStore
<1>2. o \in Seq({o[i] : i \in 1..n} \cup {x})
  BY <1>1 DEF IsStore
<1>3. Len(o) = n
  BY <1>1, <1>2
<1>4. ASSUME NEW c \in 1..n
      PROVE  c \in DOMAIN Append(o, x) /\ Append(o, x)[c] = o[c]
  BY <1>2, <1>3, <1>4
<1>5. QED
  BY <1>1, <1>4 DEF OneKey

\* Storing to an object leaves the others; a dictionary keeps the other keys.
LEMMA UpdatedKeys ==
  ASSUME NEW o, IsStore(o), NEW r \in DOMAIN o, NEW x, NEW k,
         o[r].kind = "dict" => \A l \in Keys : l # k => x[l] = o[r].val[l]
  PROVE  OneKey(o, [o EXCEPT ![r].val = x])
<1> DEFINE q == [o EXCEPT ![r].val = x]
<1>1. o = [c \in DOMAIN o |-> [kind |-> o[c].kind, val |-> o[c].val]]
  BY DEF IsStore
<1>2. DOMAIN q = DOMAIN o
  OBVIOUS
<1>3. \A c \in DOMAIN o : c # r => q[c] = o[c]
  OBVIOUS
<1>4. q[r].kind = o[r].kind /\ q[r].val = x
  <2>1. q[r] = [o[r] EXCEPT !.val = x]
    OBVIOUS
  <2>2. o[r] = [kind |-> o[r].kind, val |-> o[r].val]
    BY <1>1
  <2>3. QED
    BY <2>1, <2>2
<1> HIDE DEF q
<1>5. ASSUME NEW c \in DOMAIN o, NEW l \in Keys, o[c].kind = "dict", c # r \/ l # k
      PROVE  c \in DOMAIN q /\ q[c].kind = "dict" /\ q[c].val[l] = o[c].val[l]
  <2>1. CASE c # r
    BY <1>2, <1>3, <1>5, <2>1
  <2>2. CASE c = r /\ l # k
    BY <1>2, <1>4, <1>5, <2>2
  <2>3. QED
    BY <1>5, <2>1, <2>2
<1>6. QED
  BY <1>5 DEF OneKey, q

\* What the program holds is such a store.
LEMMA ObjsStore ==
  ASSUME IInv
  PROVE  IsStore(Objs)
<1>1. DOMAIN Objs = DOMAIN roots
  BY DEF Objs
<1>2. \E n \in Nat : DOMAIN Objs = 1..n
  BY <1>1 DEF IInv, StateInv
<1>3. Objs = [c \in DOMAIN Objs |-> [kind |-> Objs[c].kind, val |-> Objs[c].val]]
  <2>1. Objs = SeenAll(heap, roots)
    BY ObjsAre
  <2>2. ASSUME NEW c \in DOMAIN roots
        PROVE  SeenAll(heap, roots)[c]
                 = [kind |-> SeenAll(heap, roots)[c].kind, val |-> SeenAll(heap, roots)[c].val]
    BY DEF SeenAll, Seen
  <2>3. SeenAll(heap, roots) = [c \in DOMAIN roots |-> SeenAll(heap, roots)[c]]
    BY DEF SeenAll
  <2>4. QED
    BY <1>1, <2>1, <2>2, <2>3
<1>4. ASSUME NEW c \in DOMAIN Objs, Objs[c].kind = "dict"
      PROVE  Objs[c].val = [l \in Keys |-> Objs[c].val[l]]
  <2>1. c \in DOMAIN roots /\ roots[c].kind = "dict"
    BY <1>1, <1>4, ObjsAt
  <2>2. Objs[c].val = [l \in Keys |-> ValueIn(heap, roots[c].at, l)]
    BY <2>1, ObjsAt, SeenAt, SeenIs
  <2> HIDE DEF Objs
  <2>3. QED
    BY <2>2
<1>5. QED
  BY <1>2, <1>3, <1>4 DEF IsStore

\* An operation of the store changes what one dictionary says of one key.
LEMMA SeemsOneKey ==
  ASSUME IInv, Seems
  PROVE  OneKey(Objs, Objs')
<1>1. IsStore(Objs)
  BY ObjsStore
<1>2. DOMAIN Objs = DOMAIN roots
  BY DEF Objs
<1>3. ASSUME NEW x, Objs' = Append(Objs, x)
      PROVE  OneKey(Objs, Objs')
  BY <1>1, <1>3, AddedKeys
<1>4. ASSUME NEW kind, kind # "dict", NEW r \in Of(kind), NEW x,
             Objs' = [Objs EXCEPT ![r].val = x]
      PROVE  OneKey(Objs, Objs')
  <2>1. r \in DOMAIN Objs /\ Objs[r].kind # "dict"
    BY <1>2, <1>4, ObjsAt DEF Of
  <2> HIDE DEF Objs
  <2>2. QED
    BY <1>1, <1>4, <2>1, UpdatedKeys
<1>5. ASSUME NEW r \in Of("dict"), NEW k \in Keys, NEW v, Store!Insert(r, k, v)
      PROVE  OneKey(Objs, Objs')
  <2> DEFINE x == [Objs[r].val EXCEPT ![k] = v]
  <2>1. Objs' = [Objs EXCEPT ![r].val = x]
    BY <1>5 DEF Store!Insert, Store!Update, Objs
  <2>2. r \in DOMAIN Objs
    BY <1>2 DEF Of
  <2>3. \A l \in Keys : l # k => x[l] = Objs[r].val[l]
    OBVIOUS
  <2> HIDE DEF x, Objs
  <2>4. QED
    BY <1>1, <2>1, <2>2, <2>3, UpdatedKeys
<1>6. CASE UNCHANGED Objs
  BY <1>6 DEF OneKey, Objs
<1>7. CASE Store!NewDict
  BY <1>3, <1>7 DEF Store!NewDict, Store!Add, Objs
<1>8. CASE \E r \in Store!Of("dict"), k \in Keys, v \in Values : Store!Insert(r, k, v)
  BY <1>5, <1>8, StoreOf
<1>9. CASE \E v, w \in Values : Store!NewArray(v, w)
  BY <1>3, <1>9 DEF Store!NewArray, Store!Add, Objs
<1>10. CASE \E r \in Store!Of("array"), v \in Values : \E i : Store!SetItem(r, i, v)
  <2>1. PICK r \in Of("array") : \E v, i : Store!SetItem(r, i, v)
    BY <1>10, StoreOf
  <2>2. PICK v, i : Store!SetItem(r, i, v)
    BY <2>1
  <2>3. Objs' = [Objs EXCEPT ![r].val = [Objs[r].val EXCEPT ![i + 1] = v]]
    BY <2>2 DEF Store!SetItem, Store!Update, Objs
  <2> HIDE DEF Objs
  <2>4. QED
    BY <1>4, <2>1, <2>3
<1>11. CASE \E c \in Letters : Store!NewString(c)
  BY <1>3, <1>11 DEF Store!NewString, Store!Add, Objs
<1>12. CASE Store!NewBuilder
  BY <1>3, <1>12 DEF Store!NewBuilder, Store!Add, Objs
<1>13. CASE \E r : Store!JoinStrings(r)
  BY <1>3, <1>13, Zenon DEF Store!JoinStrings, Store!Add, Objs
<1>14. CASE \E r \in Store!Of("builder") : \E s : Store!AppendString(r, s)
  <2>1. PICK r \in Of("builder") : \E s : Store!AppendString(r, s)
    BY <1>14, StoreOf
  <2>2. PICK s : Store!AppendString(r, s)
    BY <2>1
  <2>3. Objs' = [Objs EXCEPT ![r].val = Append(Objs[r].val, Objs[s].val)]
    BY <2>2 DEF Store!AppendString, Store!Update, Objs
  <2> HIDE DEF Objs
  <2>4. QED
    BY <1>4, <2>1, <2>3
<1>15. QED
  BY <1>6, <1>7, <1>8, <1>9, <1>10, <1>11, <1>12, <1>13, <1>14 DEF Seems, Store!Next

\* The dictionaries remember: an operation changes what one of them says of one
\* key, whatever shares its bucket.
THEOREM ThmDictsRemember ==
  ASSUME NothingOverfull
  PROVE  Spec => DictsRemember
<1> DEFINE changed == {c \in Of("dict") \X program.keys :
                         ValueOf(roots[c[1]], c[2])' # ValueOf(roots[c[1]], c[2])}
<1>1. ASSUME IInv, Next
      PROVE  \A c, d \in changed : c = d
  <2>1. IInv' /\ OneKey(Objs, Objs')
    BY <1>1, NextKeeps, SeemsOneKey
  <2>2. PICK r, k : \A c \in DOMAIN Objs, l \in Keys :
               Objs[c].kind = "dict" /\ (c # r \/ l # k)
                 => /\ c \in DOMAIN Objs' /\ Objs'[c].kind = "dict"
                    /\ Objs'[c].val[l] = Objs[c].val[l]
    BY <2>1 DEF OneKey
  <2>3. \A c \in Of("dict"), l \in Keys : ValueOf(roots[c], l) = Objs[c].val[l]
    BY DEF Of, Objs, Abstract
  <2>4. \A c \in Of("dict")', l \in Keys : ValueOf(roots[c], l)' = (Objs[c].val[l])'
    BY DEF Of, Objs, Abstract
  <2>5. ASSUME NEW c \in changed
        PROVE  c = <<r, k>>
    <3>1. /\ c = <<c[1], c[2]>> /\ c[1] \in Of("dict") /\ c[2] \in Keys
          /\ ValueOf(roots[c[1]], c[2])' # ValueOf(roots[c[1]], c[2])
      BY <1>1, ProgramUses
    <3>2. c[1] \in DOMAIN Objs /\ Objs[c[1]].kind = "dict"
      BY <3>1, ObjsAt DEF Of, Objs
    <3>3. ASSUME c[1] # r \/ c[2] # k
          PROVE  FALSE
      <4>1. /\ c[1] \in DOMAIN Objs' /\ Objs'[c[1]].kind = "dict"
            /\ Objs'[c[1]].val[c[2]] = Objs[c[1]].val[c[2]]
        BY <2>2, <3>1, <3>2, <3>3
      <4>2. c[1] \in Of("dict")'
        BY <4>1 DEF Objs, Of, Abstract
      <4>3. QED
        BY <2>3, <2>4, <3>1, <4>1, <4>2
    <3>4. QED
      BY <3>1, <3>3
  <2> HIDE DEF changed
  <2>6. QED
    BY <2>5
<1>2. IInv /\ [Next]_vars => [\A c, d \in changed : c = d]_vars
  BY <1>1
<1>3. QED
  BY <1>2, HeapIsLaidOut, PTL DEF Spec, DictsRemember
=============================================================================
