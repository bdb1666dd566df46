---------------------------- MODULE MemoryProofs ----------------------------
(* Allocations and free elements tile the blocks for resources, for any      *)
(* number of threads and any sizes and alignments, if no block is used to    *)
(* the last element when the runtime is initialised anew.                    *)
EXTENDS Memory, Integers, WellFoundedInduction, FiniteSetTheorems, TLAPS

-----------------------------------------------------------------------------
(* A block of a size: the sequence of its free elements and the set of the   *)
(* extents of its allocations.                                               *)

Element == [start : Nat, size : Nat \ {0}]
Element0(start, size) == [start |-> start, size |-> size]

End(e) == e.start + e.size
Apart(e, f) == End(e) <= f.start \/ End(f) <= e.start

Sorted(list) == \A j, k \in 1 .. Len(list) : j < k => End(list[j]) < list[k].start
Covers(e, p) == e.start <= p /\ p < End(e)

Tiled(list, owned, size) ==
    /\ Sorted(list)
    /\ \A j \in 1 .. Len(list) : End(list[j]) <= size
    /\ \A x \in owned : End(x) <= size
    /\ \A j \in 1 .. Len(list), x \in owned : Apart(list[j], x)
    /\ \A x, y \in owned : x # y => Apart(x, y)
    /\ \A p \in 0 .. size - 1 :
          (\E j \in 1 .. Len(list) : Covers(list[j], p)) \/ (\E x \in owned : Covers(x, p))

(* An element has a place and at least one byte. *)
LEMMA ElementType ==
    ASSUME NEW e \in Element
    PROVE  e.start \in Nat /\ e.size \in Nat \ {0} /\ End(e) \in Nat /\ e.start < End(e)
BY DEF Element, End

(* A free element. *)
LEMMA FreeType ==
    ASSUME NEW list \in Seq(Element), NEW j \in 1 .. Len(list)
    PROVE  list[j] \in Element
OBVIOUS

(* Elements of which one covers a byte of the other are not apart. *)
LEMMA ApartCovers ==
    ASSUME NEW e \in Element, NEW f \in Element, NEW p \in Int, Apart(e, f), Covers(e, p)
    PROVE  ~Covers(f, p)
BY ElementType DEF Apart, Covers

(* Elements are not empty. *)
LEMMA NotApartItself ==
    ASSUME NEW e \in Element
    PROVE  ~Apart(e, e)
BY ElementType DEF Apart

(* AllocationBlock's constructor. *)
LEMMA WholeBlock ==
    ASSUME NEW size \in Nat \ {0}, NEW list, list = <<Element0(0, size)>>
    PROVE  list \in Seq(Element) /\ Tiled(list, {}, size)
<1> DEFINE e == Element0(0, size)
<1>1. e \in Element /\ e.start = 0 /\ End(e) = size
  BY DEF Element, Element0, End
<1> HIDE DEF e
<1>2. list \in Seq(Element) /\ Len(list) = 1 /\ list[1] = e
  BY <1>1 DEF e
<1>3. \A j \in 1 .. Len(list) : j = 1
  BY <1>2
<1>4. \A p \in 0 .. size - 1 : Covers(e, p)
  BY <1>1 DEF Covers
<1>5. \A j, k \in 1 .. Len(list) : ~(j < k)
  BY <1>3
<1> QED
  BY <1>1, <1>2, <1>3, <1>4, <1>5 DEF Tiled, Sorted

(* A block that is one free element holds no allocation. *)
LEMMA FreeBlock ==
    ASSUME NEW size \in Nat \ {0}, NEW list \in Seq(Element), NEW owned \in SUBSET Element,
           Tiled(list, owned, size), Len(list) = 1, list[1].size = size
    PROVE  owned = {}
<1> SUFFICES ASSUME NEW x \in owned PROVE FALSE
  OBVIOUS
<1>1. 1 \in 1 .. Len(list) /\ x \in Element
  OBVIOUS
<1>3. list[1] \in Element
  BY <1>1, FreeType
<1>2. End(list[1]) <= size /\ End(x) <= size /\ Apart(list[1], x)
  BY <1>1 DEF Tiled
<1> QED
  BY <1>1, <1>2, <1>3, ElementType DEF Apart, End

-----------------------------------------------------------------------------
(* AllocationBlock::allocate. *)

(* The end of a free element becomes an allocation. *)
LEMMA Contracts ==
    ASSUME NEW size \in Nat \ {0}, NEW list \in Seq(Element), NEW owned \in SUBSET Element,
           Tiled(list, owned, size), NEW i \in 1 .. Len(list),
           NEW needed \in Nat \ {0}, needed < list[i].size,
           NEW e, e = Element0(list[i].start, list[i].size - needed),
           NEW x, x = Element0(End(list[i]) - needed, needed)
    PROVE  /\ [list EXCEPT ![i] = e] \in Seq(Element) /\ x \in Element /\ x \notin owned
           /\ Tiled([list EXCEPT ![i] = e], owned \cup {x}, size)
<1> DEFINE q == [list EXCEPT ![i] = e]
<1>1. list[i] \in Element
  BY FreeType
<1>2. /\ list[i].start \in Nat /\ list[i].size \in Nat \ {0}
      /\ End(list[i]) = list[i].start + list[i].size
  BY <1>1, ElementType DEF End
<1>3. e \in Element /\ e.start = list[i].start /\ End(e) = End(list[i]) - needed
  <2>1. list[i].size - needed \in Nat \ {0}
    BY <1>2
  <2>2. e.start = list[i].start /\ e.size = list[i].size - needed
    BY DEF Element0
  <2>3. e \in Element
    BY <1>2, <2>1 DEF Element, Element0
  <2> QED
    BY <1>2, <2>2, <2>3 DEF End
<1>4. x \in Element /\ x.start = End(list[i]) - needed /\ End(x) = End(list[i])
  BY <1>2, SMTT(30) DEF Element, Element0, End
<1>5. q \in Seq(Element) /\ Len(q) = Len(list) /\ q[i] = e
  BY <1>3
<1>6. \A j \in 1 .. Len(list) : j # i => q[j] = list[j]
  OBVIOUS
<1> HIDE DEF q
<1>7. \A j \in 1 .. Len(list) : /\ list[j] \in Element /\ q[j].start = list[j].start
                                /\ End(q[j]) <= End(list[j])
  <2> SUFFICES ASSUME NEW j \in 1 .. Len(list)
               PROVE  /\ list[j] \in Element /\ q[j].start = list[j].start
                      /\ End(q[j]) <= End(list[j])
    OBVIOUS
  <2>1. list[j] \in Element /\ End(list[j]) \in Nat /\ End(list[i]) \in Nat
    BY <1>1, FreeType, ElementType
  <2>2. CASE j = i
    BY <1>3, <1>5, <2>1, <2>2
  <2>3. CASE j # i
    BY <1>6, <2>1, <2>3
  <2> QED
    BY <2>2, <2>3
<1>8. Sorted(q)
  <2> SUFFICES ASSUME NEW j \in 1 .. Len(list), NEW k \in 1 .. Len(list), j < k
               PROVE  End(q[j]) < q[k].start
    BY <1>5 DEF Sorted
  <2>1. End(list[j]) < list[k].start
    BY DEF Tiled, Sorted
  <2>2. q[j] \in Element /\ q[k] \in Element /\ list[j] \in Element
    BY <1>5, FreeType
  <2>3. End(q[j]) \in Nat /\ End(list[j]) \in Nat /\ list[k].start \in Nat
    BY <2>2, <1>7, ElementType
  <2>4. End(q[j]) <= End(list[j]) /\ q[k].start = list[k].start
    BY <1>7
  <2> QED
    BY <2>1, <2>3, <2>4
<1>9. \A j \in 1 .. Len(q) : End(q[j]) <= size
  <2> SUFFICES ASSUME NEW j \in 1 .. Len(list) PROVE End(q[j]) <= size
    BY <1>5
  <2>1. End(list[j]) <= size /\ q[j] \in Element /\ list[j] \in Element
    BY <1>5, FreeType DEF Tiled
  <2> QED
    BY <1>7, <2>1, ElementType
<1>10. End(x) <= size
  BY <1>4 DEF Tiled
(* What is apart from the element is apart from both of its parts. *)
<1>11. ASSUME NEW y \in Element, Apart(list[i], y) PROVE Apart(e, y) /\ Apart(x, y) /\ Apart(y, x)
  <2>1. y.start \in Nat /\ End(y) \in Nat /\ y.start < End(y)
    BY ElementType
  <2>2. list[i].start \in Nat /\ End(list[i]) - needed \in Nat /\ list[i].start < End(list[i]) - needed
    BY <1>2
  <2>3. End(list[i]) \in Nat /\ End(list[i]) - needed < End(list[i])
    BY <1>2
  <2>4. End(list[i]) <= y.start \/ End(y) <= list[i].start
    BY <1>11 DEF Apart
  <2>5. /\ e.start = list[i].start /\ End(e) = End(list[i]) - needed
        /\ x.start = End(list[i]) - needed /\ End(x) = End(list[i])
    BY <1>3, <1>4
  <2> QED
    BY ONLY <2>1, <2>2, <2>3, <2>4, <2>5 DEF Apart
<1>12. ASSUME NEW j \in 1 .. Len(list), NEW y \in owned PROVE Apart(q[j], y)
  <2>1. Apart(list[j], y) /\ y \in Element
    BY DEF Tiled
  <2> QED
    BY <1>5, <1>6, <1>11, <2>1
<1>13. ASSUME NEW j \in 1 .. Len(list) PROVE Apart(q[j], x)
  <2>1. CASE j = i
    BY <1>2, <1>3, <1>4, <1>5, <2>1 DEF Apart
  <2>2. CASE j # i
    <3>1. Apart(list[i], list[j])
      <4>1. list[j] \in Element
        BY FreeType
      <4>2. j < i \/ i < j
        BY <2>2
      <4>3. End(list[j]) < list[i].start \/ End(list[i]) < list[j].start
        BY <4>2 DEF Tiled, Sorted
      <4> QED
        BY <1>1, <4>1, <4>3, ElementType DEF Apart
    <3> QED
      BY <1>6, <1>7, <1>11, <2>2, <3>1
  <2> QED
    BY <2>1, <2>2
<1>14. ASSUME NEW y \in owned PROVE Apart(x, y) /\ Apart(y, x)
  BY <1>11 DEF Tiled
<1>15. x \notin owned
  BY <1>4, <1>14, NotApartItself
<1>16. ASSUME NEW p \in 0 .. size - 1
       PROVE  (\E j \in 1 .. Len(q) : Covers(q[j], p)) \/ (\E y \in owned \cup {x} : Covers(y, p))
  <2>1. CASE \E y \in owned : Covers(y, p)
    BY <2>1
  <2>2. CASE \E j \in 1 .. Len(list) : Covers(list[j], p)
    <3>1. PICK j \in 1 .. Len(list) : Covers(list[j], p)
      BY <2>2
    <3>2. CASE j # i
      BY <1>5, <1>6, <3>1, <3>2
    <3>3. CASE j = i
      <4>1. Covers(e, p) \/ Covers(x, p)
        BY <1>2, <1>3, <1>4, <3>1, <3>3 DEF Covers
      <4> QED
        BY <1>5, <4>1
    <3> QED
      BY <3>2, <3>3
  <2> QED
    BY <2>1, <2>2 DEF Tiled
<1>17. Tiled(q, owned \cup {x}, size)
  <2>1. \A y \in owned \cup {x} : End(y) <= size
    BY <1>10 DEF Tiled
  <2>2. \A j \in 1 .. Len(q), y \in owned \cup {x} : Apart(q[j], y)
    BY <1>5, <1>12, <1>13
  <2>3. \A y, z \in owned \cup {x} : y # z => Apart(y, z)
    BY <1>14 DEF Tiled
  <2> QED
    BY <1>8, <1>9, <1>16, <2>1, <2>2, <2>3 DEF Tiled
<1> QED
  BY <1>4, <1>5, <1>15, <1>17 DEF q

(* Lists of which one element was taken out, or some replaced by another. *)
Without(list, i) == SubSeq(list, 1, i - 1) \o SubSeq(list, i + 1, Len(list))
Splice(list, kept, m, from) == SubSeq(list, 1, kept) \o <<m>> \o SubSeq(list, from, Len(list))

IsSplice(new, list, kept, m, from) ==
    /\ new \in Seq(Element) /\ Len(new) = kept + 1 + (Len(list) + 1 - from)
    /\ \A j \in 1 .. kept : new[j] = list[j]
    /\ new[kept + 1] = m
    /\ \A k \in from .. Len(list) : new[k - from + kept + 2] = list[k]

(* The parts of a concatenation ... *)
LEMMA Joins ==
    ASSUME NEW S, NEW s \in Seq(S), NEW t \in Seq(S), NEW u, u = s \o t
    PROVE  /\ u \in Seq(S) /\ Len(u) = Len(s) + Len(t)
           /\ \A j \in 1 .. Len(s) : u[j] = s[j]
           /\ \A j \in 1 .. Len(t) : u[Len(s) + j] = t[j]
OBVIOUS

(* ... and of a subsequence. *)
LEMMA Parts ==
    ASSUME NEW S, NEW list \in Seq(S), NEW a \in 1 .. Len(list) + 1, NEW b \in a - 1 .. Len(list),
           NEW s, s = SubSeq(list, a, b)
    PROVE  /\ s \in Seq(S) /\ Len(list) \in Nat /\ Len(s) = b + 1 - a
           /\ \A j \in 1 .. b + 1 - a : s[j] = list[a + j - 1]
OBVIOUS

(* What Inserted does to the list: a stretch of it is replaced by one element. *)
LEMMA Spliced ==
    ASSUME NEW list \in Seq(Element), NEW m \in Element, NEW n \in Nat, n = Len(list),
           NEW kept \in 0 .. n, NEW from \in 1 .. n + 1, kept < from
    PROVE  IsSplice(Splice(list, kept, m, from), list, kept, m, from)
<1> DEFINE S == Element
<1>0. list \in Seq(S) /\ m \in S
  OBVIOUS
<1> HIDE DEF S
<1> DEFINE new == Splice(list, kept, m, from)
           s == SubSeq(list, 1, kept)
           t == SubSeq(list, from, Len(list))
           u == s \o <<m>>
<1>1. s \in Seq(S) /\ Len(s) = kept /\ \A j \in 1 .. kept : s[j] = list[1 + j - 1]
  <2>1. 1 \in 1 .. Len(list) + 1 /\ kept \in 1 - 1 .. Len(list) /\ kept + 1 - 1 = kept
    OBVIOUS
  <2> QED
    BY <1>0, <2>1, Parts
<1>2. /\ t \in Seq(S) /\ Len(t) = n + 1 - from
      /\ \A j \in 1 .. n + 1 - from : t[j] = list[from + j - 1]
  <2>1. from \in 1 .. Len(list) + 1 /\ Len(list) \in from - 1 .. Len(list)
    OBVIOUS
  <2> QED
    BY <1>0, <2>1, Parts
<1>3. new = u \o t
  BY DEF Splice
<1> HIDE DEF s, t, new
<1>4. /\ u \in Seq(S) /\ Len(u) = kept + 1
      /\ (\A j \in 1 .. kept : u[j] = s[j]) /\ u[kept + 1] = m
  <2> DEFINE v == <<m>>
  <2>1. v \in Seq(S) /\ Len(v) = 1 /\ v[1] = m /\ u = s \o v
    BY <1>0
  <2> HIDE DEF u, v
  <2>5. s \in Seq(S) /\ v \in Seq(S) /\ u = s \o v
    BY <1>1, <2>1
  <2>2. /\ u \in Seq(S) /\ Len(u) = Len(s) + Len(v)
        /\ \A j \in 1 .. Len(s) : u[j] = s[j]
        /\ \A j \in 1 .. Len(v) : u[Len(s) + j] = v[j]
    BY <2>5, Joins
  <2>3. 1 \in 1 .. Len(v)
    BY <2>1
  <2>4. Len(u) = kept + 1 /\ u[kept + 1] = m
    BY <1>1, <2>1, <2>2, <2>3
  <2> QED
    BY <1>1, <2>2, <2>4
<1> HIDE DEF u
<1>5. /\ new \in Seq(S) /\ Len(new) = kept + 1 + (n + 1 - from)
      /\ \A j \in 1 .. kept + 1 : new[j] = u[j]
      /\ \A j \in 1 .. n + 1 - from : new[kept + 1 + j] = t[j]
  <2>1. /\ new \in Seq(S) /\ Len(new) = Len(u) + Len(t)
        /\ \A j \in 1 .. Len(u) : new[j] = u[j]
        /\ \A j \in 1 .. Len(t) : new[Len(u) + j] = t[j]
    <3>1. u \in Seq(S) /\ t \in Seq(S) /\ new = u \o t
      BY <1>2, <1>3, <1>4
    <3> QED
      BY <3>1, Joins
  <2>2. Len(u) = kept + 1 /\ Len(t) = n + 1 - from
    BY <1>2, <1>4
  <2> QED
    BY <2>1, <2>2
<1>6. ASSUME NEW j \in 1 .. kept PROVE new[j] = list[j]
  <2>1. j \in 1 .. kept + 1 /\ 1 + j - 1 = j
    OBVIOUS
  <2> QED
    BY <1>1, <1>4, <1>5, <2>1
<1>7. new[kept + 1] = m
  <2>1. kept + 1 \in 1 .. kept + 1
    OBVIOUS
  <2> QED
    BY <1>4, <1>5, <2>1
<1>8. ASSUME NEW k \in from .. n PROVE new[k - from + kept + 2] = list[k]
  <2> DEFINE j == k - from + 1
  <2>1. j \in 1 .. n + 1 - from /\ from + j - 1 = k /\ kept + 1 + j = k - from + kept + 2
    OBVIOUS
  <2> HIDE DEF j
  <2> QED
    BY <1>2, <1>5, <2>1
<1> QED
  BY <1>5, <1>6, <1>7, <1>8 DEF new, S, IsSplice

(* What erasing an element leaves of a list. *)
LEMMA Removes ==
    ASSUME NEW S, NEW list \in Seq(S), NEW n \in Nat, n = Len(list), NEW i \in 1 .. n
    PROVE  LET new == Without(list, i)
           IN  /\ new \in Seq(S) /\ Len(new) = n - 1
               /\ \A j \in 1 .. i - 1 : new[j] = list[j]
               /\ \A k \in i + 1 .. n : new[k - 1] = list[k]
<1> DEFINE new == Without(list, i)
           s == SubSeq(list, 1, i - 1)
           t == SubSeq(list, i + 1, Len(list))
<1>1. s \in Seq(S) /\ Len(s) = i - 1 /\ \A j \in 1 .. i - 1 : s[j] = list[1 + j - 1]
  <2>1. 1 \in 1 .. Len(list) + 1 /\ i - 1 \in 1 - 1 .. Len(list) /\ i - 1 + 1 - 1 = i - 1
    OBVIOUS
  <2> QED
    BY <2>1, Parts
<1>2. t \in Seq(S) /\ Len(t) = n - i /\ \A j \in 1 .. n - i : t[j] = list[i + 1 + j - 1]
  <2> DEFINE from == i + 1
  <2>1. from \in 1 .. Len(list) + 1 /\ Len(list) \in from - 1 .. Len(list)
    OBVIOUS
  <2>2. Len(list) + 1 - from = n - i /\ t = SubSeq(list, from, Len(list))
    OBVIOUS
  <2> HIDE DEF from, t
  <2>3. t \in Seq(S) /\ Len(t) = Len(list) + 1 - from
    BY <2>1, <2>2, Parts
  <2>4. \A j \in 1 .. Len(list) + 1 - from : t[j] = list[from + j - 1]
    BY <2>1, <2>2, Parts
  <2> QED
    BY <2>2, <2>3, <2>4 DEF from
<1>3. new = s \o t
  BY DEF Without
<1> HIDE DEF s, t, new
<1>4. /\ new \in Seq(S) /\ Len(new) = n - 1
      /\ \A j \in 1 .. i - 1 : new[j] = s[j]
      /\ \A j \in 1 .. n - i : new[i - 1 + j] = t[j]
  <2>1. /\ new \in Seq(S) /\ Len(new) = Len(s) + Len(t)
        /\ \A j \in 1 .. Len(s) : new[j] = s[j]
        /\ \A j \in 1 .. Len(t) : new[Len(s) + j] = t[j]
    <3>1. s \in Seq(S) /\ t \in Seq(S) /\ new = s \o t
      BY <1>1, <1>2, <1>3
    <3> QED
      BY <3>1, Joins
  <2>2. Len(s) = i - 1 /\ Len(t) = n - i /\ i - 1 + (n - i) = n - 1
    BY <1>1, <1>2
  <2> QED
    BY <2>1, <2>2
<1>5. ASSUME NEW j \in 1 .. i - 1 PROVE new[j] = list[j]
  <2>1. 1 + j - 1 = j
    OBVIOUS
  <2> QED
    BY <1>1, <1>4, <2>1
<1>6. ASSUME NEW k \in i + 1 .. n PROVE new[k - 1] = list[k]
  <2> DEFINE j == k - i
  <2>1. j \in 1 .. n - i /\ i + 1 + j - 1 = k /\ i - 1 + j = k - 1
    OBVIOUS
  <2> HIDE DEF j
  <2> QED
    BY <1>2, <1>4, <2>1
<1> QED
  BY <1>4, <1>5, <1>6 DEF new

(* A free element becomes an allocation as it is. *)
LEMMA Erases ==
    ASSUME NEW size \in Nat \ {0}, NEW list \in Seq(Element), NEW owned \in SUBSET Element,
           Tiled(list, owned, size), NEW i \in 1 .. Len(list)
    PROVE  LET new == Without(list, i)
           IN  /\ new \in Seq(Element) /\ list[i] \in Element /\ list[i] \notin owned
               /\ Tiled(new, owned \cup {list[i]}, size)
<1> DEFINE new == Without(list, i)
           x == list[i]
           Old(j) == IF j < i THEN j ELSE j + 1
<1>0. PICK n \in Nat : n = Len(list)
  OBVIOUS
<1>1. /\ new \in Seq(Element) /\ Len(new) = n - 1 /\ i \in 1 .. n
      /\ \A j \in 1 .. i - 1 : new[j] = list[j]
      /\ \A k \in i + 1 .. n : new[k - 1] = list[k]
  <2>1. i \in 1 .. n
    BY <1>0
  <2>2. new \in Seq(Element) /\ Len(new) = n - 1
    BY <1>0, <2>1, Removes
  <2>3. \A j \in 1 .. i - 1 : new[j] = list[j]
    BY <1>0, <2>1, Removes, ZenonT(40)
  <2>4. \A k \in i + 1 .. n : new[k - 1] = list[k]
    BY <1>0, <2>1, Removes, ZenonT(40)
  <2> QED
    BY <2>1, <2>2, <2>3, <2>4
<1> HIDE DEF new
<1>2. ASSUME NEW j \in 1 .. n - 1
      PROVE  Old(j) \in 1 .. n /\ Old(j) # i /\ new[j] = list[Old(j)]
  <2>1. CASE j < i
    <3>1. j \in 1 .. i - 1 /\ j \in 1 .. n /\ Old(j) = j /\ j # i
      BY <2>1
    <3> QED
      BY <1>1, <3>1
  <2>2. CASE j >= i
    <3>1. j + 1 \in i + 1 .. n /\ j + 1 \in 1 .. n /\ j + 1 - 1 = j /\ Old(j) = j + 1 /\ j + 1 # i
      BY <2>2
    <3>2. new[j + 1 - 1] = list[j + 1]
      BY <1>1, <3>1
    <3> QED
      BY <3>1, <3>2
  <2> QED
    BY <2>1, <2>2
<1>3. \A j, k \in 1 .. n - 1 : j < k => Old(j) < Old(k)
  OBVIOUS
<1>4. ASSUME NEW k \in 1 .. n, k # i PROVE \E j \in 1 .. n - 1 : Old(j) = k
  <2>1. CASE k < i
    <3>1. k \in 1 .. n - 1 /\ Old(k) = k
      BY <1>0, <2>1
    <3> QED
      BY <3>1
  <2>2. CASE k > i
    <3>1. k - 1 \in 1 .. n - 1 /\ Old(k - 1) = k
      BY <1>0, <2>2
    <3> QED
      BY <3>1
  <2> QED
    BY <1>4, <2>1, <2>2
<1>5. x \in Element
  BY FreeType
<1> HIDE DEF x, Old
<1>6. Sorted(new)
  <2> SUFFICES ASSUME NEW j \in 1 .. n - 1, NEW k \in 1 .. n - 1, j < k
               PROVE  End(new[j]) < new[k].start
    BY <1>1 DEF Sorted
  <2>1. Old(j) \in 1 .. Len(list) /\ Old(k) \in 1 .. Len(list) /\ Old(j) < Old(k)
    BY <1>0, <1>2, <1>3
  <2>2. End(list[Old(j)]) < list[Old(k)].start
    BY <2>1 DEF Tiled, Sorted
  <2> QED
    BY <1>2, <2>2
<1>7. \A j \in 1 .. Len(new) : End(new[j]) <= size
  BY <1>0, <1>1, <1>2 DEF Tiled
<1>8. End(x) <= size
  BY DEF Tiled, x
<1>9. \A y \in owned : Apart(x, y)
  BY DEF Tiled, x
<1>10. \A y \in owned : Apart(y, x)
  BY <1>9 DEF Apart
<1>11. ASSUME NEW k \in 1 .. Len(list), k # i PROVE Apart(list[k], x)
  <2>1. list[k] \in Element
    BY FreeType
  <2>2. End(list[k]) < x.start \/ End(x) < list[k].start
    <3>1. k < i \/ i < k
      BY <1>11
    <3> QED
      BY <3>1 DEF Tiled, Sorted, x
  <2> QED
    BY <1>5, <2>1, <2>2, ElementType DEF Apart
<1>12. \A j \in 1 .. Len(new), y \in owned \cup {x} : Apart(new[j], y)
  BY <1>0, <1>1, <1>2, <1>11 DEF Tiled
<1>13. \A y, z \in owned \cup {x} : y # z => Apart(y, z)
  BY <1>9, <1>10 DEF Tiled
<1>14. ASSUME NEW p \in 0 .. size - 1
       PROVE  (\E j \in 1 .. Len(new) : Covers(new[j], p)) \/ (\E y \in owned \cup {x} : Covers(y, p))
  <2>1. CASE \E y \in owned : Covers(y, p)
    BY <2>1
  <2>2. CASE \E k \in 1 .. Len(list) : Covers(list[k], p)
    <3>1. PICK k \in 1 .. Len(list) : Covers(list[k], p)
      BY <2>2
    <3>2. CASE k = i
      BY <3>1, <3>2 DEF x
    <3>3. CASE k # i
      <4>1. PICK j \in 1 .. n - 1 : Old(j) = k
        BY <1>0, <1>4, <3>3
      <4> QED
        BY <1>1, <1>2, <3>1, <4>1
    <3> QED
      BY <3>2, <3>3
  <2> QED
    BY <2>1, <2>2 DEF Tiled
<1>15. Tiled(new, owned \cup {x}, size)
  <2>1. \A y \in owned \cup {x} : End(y) <= size
    BY <1>8 DEF Tiled
  <2> QED
    BY <1>6, <1>7, <1>12, <1>13, <1>14, <2>1 DEF Tiled
<1>16. x \notin owned
  BY <1>5, <1>9, NotApartItself
<1> QED
  BY <1>1, <1>5, <1>15, <1>16 DEF x, new

-----------------------------------------------------------------------------
(* AllocationBlock::free. *)

(* Nonempty sets of numbers have a least one. *)
LEMMA LeastOf ==
    ASSUME NEW T \in SUBSET Nat, T # {}
    PROVE  \E k \in T : \A m \in T : k <= m
<1> DEFINE R == OpToRel(<, Nat)
<1>1. IsWellFoundedOn(R, Nat)
  BY NatLessThanWellFounded
<1>2. \A x, y \in Nat : x < y => <<x, y>> \in R
  BY DEF OpToRel
<1> HIDE DEF R
<1>3. PICK k \in T : \A m \in T : ~(<<m, k>> \in R)
  BY <1>1, WFMin
<1>4. ASSUME NEW m \in T PROVE k <= m
  <2>1. k \in Nat /\ m \in Nat
    OBVIOUS
  <2>2. ~(m < k)
    BY <1>2, <1>3, <2>1, Zenon
  <2> QED
    BY <2>1, <2>2
<1> QED
  BY <1>4

(* What lower_bound counts in a sorted list are its first elements. *)
LEMMA LowerBound ==
    ASSUME NEW n \in Nat, NEW S \in SUBSET (1 .. n),
           \A j \in S, k \in 1 .. n : k < j => k \in S
    PROVE  Cardinality(S) \in 0 .. n /\ S = 1 .. Cardinality(S)
<1> DEFINE T == {k \in Nat : k >= 1 /\ k \notin S}
<1>1. n + 1 \in T /\ T \in SUBSET Nat
  OBVIOUS
<1>2. PICK k \in T : \A m \in T : k <= m
  <2>1. T # {}
    BY <1>1
  <2> HIDE DEF T
  <2> QED
    BY <1>1, <2>1, LeastOf
<1>3. k \in Nat /\ k >= 1 /\ k <= n + 1 /\ k \notin S
  BY <1>1, <1>2
<1>4. \A j \in S : j < k
  BY <1>3
<1>5. \A j \in 1 .. k - 1 : j \in S
  BY <1>2, <1>3
<1>6. S = 1 .. k - 1
  <2>1. \A j \in S : j \in 1 .. k - 1
    BY <1>3, <1>4
  <2> QED
    BY <1>5, <2>1
<1>7. Cardinality(1 .. k - 1) = k - 1
  BY <1>3, FS_Interval
<1> QED
  BY <1>3, <1>6, <1>7

(* An allocation x is replaced by an element that covers it and the elements *)
(* between the first ones and the last ones, and keeps its distance to them. *)
Closes(m, list, kept, from, owned, x, size) ==
    /\ \A j \in 1 .. kept : End(list[j]) < m.start
    /\ \A j \in from .. Len(list) : End(m) < list[j].start
    /\ End(m) <= size
    /\ \A y \in owned : y # x => Apart(m, y)
    /\ \A p \in 0 .. size - 1 : Covers(x, p) => Covers(m, p)
    /\ \A p \in 0 .. size - 1, j \in kept + 1 .. from - 1 : Covers(list[j], p) => Covers(m, p)

(* An allocation that is freed becomes a part of the element that closes its gap. *)
LEMMA Replaces ==
    ASSUME NEW size \in Nat \ {0}, NEW list \in Seq(Element), NEW owned \in SUBSET Element,
           Tiled(list, owned, size), NEW n \in Nat, n = Len(list), NEW x \in owned,
           NEW kept \in 0 .. n, NEW from \in 1 .. n + 1, kept < from, NEW m \in Element,
           Closes(m, list, kept, from, owned, x, size)
    PROVE  LET new == Splice(list, kept, m, from)
           IN  new \in Seq(Element) /\ Tiled(new, owned \ {x}, size)
<1> DEFINE new == Splice(list, kept, m, from)
           length == kept + 1 + (n + 1 - from)
           Old(j) == j - kept - 2 + from
           New(k) == k - from + kept + 2
<1>0. IsSplice(new, list, kept, m, from)
  BY Spliced
<1> HIDE DEF new
<1>1. new \in Seq(Element) /\ Len(new) = length
  BY <1>0 DEF IsSplice
<1>2. \A j \in 1 .. kept : new[j] = list[j]
  BY <1>0 DEF IsSplice
<1>3. new[kept + 1] = m
  BY <1>0 DEF IsSplice
<1>4. \A k \in from .. n : new[New(k)] = list[k]
  BY <1>0 DEF IsSplice
<1>5. ASSUME NEW j \in kept + 2 .. length PROVE Old(j) \in from .. n /\ New(Old(j)) = j
  OBVIOUS
<1>6. ASSUME NEW k \in from .. n PROVE New(k) \in 1 .. length
  OBVIOUS
<1>7. ASSUME NEW j \in 1 .. length
      PROVE  \/ j \in 1 .. kept
             \/ j = kept + 1
             \/ j \in kept + 2 .. length
  OBVIOUS
<1>8. \A j \in kept + 2 .. length : new[j] = list[Old(j)]
  <2> SUFFICES ASSUME NEW j \in kept + 2 .. length PROVE new[j] = list[Old(j)]
    OBVIOUS
  <2>1. Old(j) \in from .. n /\ New(Old(j)) = j
    BY <1>5
  <2> HIDE DEF Old, New
  <2>2. new[New(Old(j))] = list[Old(j)]
    BY <1>4, <2>1
  <2> QED
    BY <2>1, <2>2
<1>9. /\ 1 .. kept \subseteq 1 .. n /\ from .. n \subseteq 1 .. n /\ kept + 1 \in 1 .. length
      /\ 1 .. kept \subseteq 1 .. length
  OBVIOUS
<1>10. /\ \A j \in 1 .. kept, k \in kept + 2 .. length : j < Old(k)
       /\ \A j, k \in kept + 2 .. length : j < k => Old(j) < Old(k)
  OBVIOUS
<1>11. \A j, k \in 1 .. n : j < k => End(list[j]) < list[k].start
  BY DEF Tiled, Sorted
<1>12. ASSUME NEW j \in 1 .. length, NEW k \in 1 .. length, j < k
       PROVE  End(new[j]) < new[k].start
  <2>1. CASE j \in 1 .. kept /\ k \in 1 .. kept
    BY <1>2, <1>9, <1>11, <1>12, <2>1
  <2>2. CASE j \in 1 .. kept /\ k = kept + 1
    BY <1>2, <1>3, <2>2 DEF Closes
  <2>3. CASE j \in 1 .. kept /\ k \in kept + 2 .. length
    <3>1. j \in 1 .. n /\ Old(k) \in 1 .. n /\ j < Old(k)
      BY <1>5, <1>9, <1>10, <2>3
    <3> HIDE DEF Old
    <3> QED
      BY <1>2, <1>8, <1>11, <2>3, <3>1
  <2>4. CASE j = kept + 1 /\ k \in kept + 2 .. length
    <3>1. Old(k) \in from .. n
      BY <1>5, <2>4
    <3> HIDE DEF Old
    <3> QED
      BY <1>3, <1>8, <2>4, <3>1 DEF Closes
  <2>5. CASE j \in kept + 2 .. length /\ k \in kept + 2 .. length
    <3>1. Old(j) \in 1 .. n /\ Old(k) \in 1 .. n /\ Old(j) < Old(k)
      BY <1>5, <1>9, <1>10, <1>12, <2>5
    <3> HIDE DEF Old
    <3> QED
      BY <1>8, <1>11, <2>5, <3>1
  <2>6. \/ j \in 1 .. kept /\ k \in 1 .. kept
        \/ j \in 1 .. kept /\ k = kept + 1
        \/ j \in 1 .. kept /\ k \in kept + 2 .. length
        \/ j = kept + 1 /\ k \in kept + 2 .. length
        \/ j \in kept + 2 .. length /\ k \in kept + 2 .. length
    BY <1>12
  <2> QED
    BY <2>1, <2>2, <2>3, <2>4, <2>5, <2>6
(* What holds of the new element and of all old ones holds of all. *)
<1>13. ASSUME NEW j \in 1 .. length PROVE new[j] = m \/ \E k \in 1 .. n : new[j] = list[k]
  <2>1. CASE j \in kept + 2 .. length
    <3>1. Old(j) \in 1 .. n
      BY <1>5, <1>9, <2>1
    <3> HIDE DEF Old
    <3> QED
      BY <1>8, <2>1, <3>1
  <2>2. CASE j \in 1 .. kept
    BY <1>2, <1>9, <2>2
  <2> QED
    BY <1>3, <1>7, <2>1, <2>2
<1>14. \A j \in 1 .. length : End(new[j]) <= size
  BY <1>13 DEF Tiled, Closes
<1>15. \A j \in 1 .. length, y \in owned \ {x} : Apart(new[j], y)
  BY <1>13 DEF Tiled, Closes
<1>16. ASSUME NEW p \in 0 .. size - 1
       PROVE  (\E j \in 1 .. length : Covers(new[j], p)) \/ (\E y \in owned \ {x} : Covers(y, p))
  <2>1. CASE Covers(m, p)
    BY <1>3, <1>9, <2>1
  <2>2. CASE \E y \in owned : Covers(y, p)
    BY <2>1, <2>2 DEF Closes
  <2>3. CASE \E k \in 1 .. n : Covers(list[k], p)
    <3>1. PICK k \in 1 .. n : Covers(list[k], p)
      BY <2>3
    <3>2. CASE k \in 1 .. kept
      BY <1>2, <1>9, <3>1, <3>2
    <3>3. CASE k \in kept + 1 .. from - 1
      BY <2>1, <3>1, <3>3 DEF Closes
    <3>4. CASE k \in from .. n
      <4>1. New(k) \in 1 .. length
        BY <1>6, <3>4
      <4> HIDE DEF New
      <4> QED
        BY <1>4, <3>1, <3>4, <4>1
    <3>5. k \in 1 .. kept \/ k \in kept + 1 .. from - 1 \/ k \in from .. n
      OBVIOUS
    <3> QED
      BY <3>2, <3>3, <3>4, <3>5
  <2> QED
    BY <2>2, <2>3 DEF Tiled
<1>17. Tiled(new, owned \ {x}, size)
  BY <1>1, <1>12, <1>14, <1>15, <1>16 DEF Tiled, Sorted
<1> QED
  BY <1>1, <1>17 DEF new

(* The element that is given back goes where lower_bound says. *)
LEMMA Placed ==
    ASSUME NEW size \in Nat \ {0}, NEW list \in Seq(Element), NEW owned \in SUBSET Element,
           Tiled(list, owned, size), NEW x \in owned, NEW n \in Nat, n = Len(list)
    PROVE  LET i == Resources!Cardinality({j \in DOMAIN list : list[j].start < x.start})
           IN  /\ i \in 0 .. n
               /\ \A j \in 1 .. i : End(list[j]) <= x.start
               /\ \A j \in i + 1 .. n : End(x) <= list[j].start
<1> DEFINE S == {j \in DOMAIN list : list[j].start < x.start}
           i == Cardinality(S)
<1>1. S \in SUBSET (1 .. n)
  OBVIOUS
<1>2. ASSUME NEW j \in S, NEW k \in 1 .. n, k < j PROVE k \in S
  <2>1. k \in 1 .. Len(list) /\ j \in 1 .. Len(list) /\ list[j].start < x.start
    BY <1>1
  <2>2. End(list[k]) < list[j].start
    BY <1>2, <2>1 DEF Tiled, Sorted
  <2>3. list[k] \in Element /\ list[j] \in Element /\ x \in Element
    BY <2>1, FreeType
  <2>4. list[k].start < End(list[k]) /\ list[k].start \in Nat /\ End(list[k]) \in Nat
        /\ list[j].start \in Nat /\ x.start \in Nat
    BY <2>3, ElementType
  <2>5. list[k].start < x.start
    BY <2>1, <2>2, <2>4
  <2> QED
    BY <2>1, <2>5
<1>3. i \in 0 .. n /\ S = 1 .. i
  <2> HIDE DEF S
  <2> QED
    BY <1>1, <1>2, LowerBound
<1>4. ASSUME NEW j \in 1 .. n
      PROVE  /\ list[j] \in Element /\ x \in Element /\ Apart(list[j], x)
             /\ j \in 1 .. i <=> list[j].start < x.start
  <2>1. list[j] \in Element /\ x \in Element /\ Apart(list[j], x)
    BY FreeType DEF Tiled
  <2>2. j \in S <=> list[j].start < x.start
    OBVIOUS
  <2> QED
    BY <1>3, <2>1, <2>2
<1>5. i = Resources!Cardinality(S)
  BY DEF Cardinality, Resources!Cardinality
<1> HIDE DEF S, i
<1>6. ASSUME NEW j \in 1 .. i PROVE End(list[j]) <= x.start
  <2>1. j \in 1 .. n
    BY <1>3
  <2>2. /\ list[j] \in Element /\ x \in Element /\ Apart(list[j], x)
        /\ list[j].start < x.start
    BY <1>4, <2>1
  <2> QED
    BY <2>2, ElementType DEF Apart
<1>7. ASSUME NEW j \in i + 1 .. n PROVE End(x) <= list[j].start
  <2>1. j \in 1 .. n /\ j \notin 1 .. i
    BY <1>3
  <2>2. /\ list[j] \in Element /\ x \in Element /\ Apart(list[j], x)
        /\ ~(list[j].start < x.start)
    BY <1>4, <2>1
  <2> QED
    BY <2>2, ElementType DEF Apart
<1> QED
  BY <1>3, <1>5, <1>6, <1>7 DEF S

(* Free elements stay sorted and apart when one is merged with those it      *)
(* borders on.                                                               *)
LEMMA Inserts ==
    ASSUME NEW size \in Nat \ {0}, NEW list \in Seq(Element), NEW owned \in SUBSET Element,
           Tiled(list, owned, size), NEW x \in owned
    PROVE  LET new == Resources!Inserted(list, x)
           IN  new \in Seq(Element) /\ Tiled(new, owned \ {x}, size)
<1>1. PICK n \in Nat : n = Len(list)
  OBVIOUS
<1> DEFINE i == Resources!Cardinality({j \in DOMAIN list : list[j].start < x.start})
           right == i < n /\ End(x) = list[i + 1].start
           left == i > 0 /\ End(list[i]) = x.start
           m == [start |-> IF left THEN list[i].start ELSE x.start,
                 size |-> x.size + (IF left THEN list[i].size ELSE 0)
                                 + (IF right THEN list[i + 1].size ELSE 0)]
           kept == IF left THEN i - 1 ELSE i
           from == IF right THEN i + 2 ELSE i + 1
<1>2. Resources!Inserted(list, x) = Splice(list, kept, m, from)
  BY <1>1 DEF Resources!Inserted, Resources!Borders, Splice, End
<1>3. /\ i \in 0 .. n
      /\ \A j \in 1 .. i : End(list[j]) <= x.start
      /\ \A j \in i + 1 .. n : End(x) <= list[j].start
  BY <1>1, Placed
<1> HIDE DEF i
<1>4. x \in Element /\ \A j \in 1 .. n : list[j] \in Element
  BY <1>1, FreeType
<1>5. left => i \in 1 .. n /\ list[i].start \in Nat /\ list[i].size \in Nat \ {0}
              /\ list[i].start + list[i].size = x.start
  BY <1>3, <1>4, ElementType DEF End
<1>6. right => i + 1 \in 1 .. n /\ list[i + 1].start \in Nat /\ list[i + 1].size \in Nat \ {0}
               /\ x.start + x.size = list[i + 1].start
               /\ End(list[i + 1]) = list[i + 1].start + list[i + 1].size
  BY <1>3, <1>4, ElementType DEF End
<1>7. x.start \in Nat /\ x.size \in Nat \ {0} /\ End(x) = x.start + x.size
  BY <1>4, ElementType DEF End
<1>8. /\ m \in Element
      /\ m.start = IF left THEN list[i].start ELSE x.start
      /\ End(m) = IF right THEN End(list[i + 1]) ELSE End(x)
  <2> DEFINE l == IF left THEN list[i].size ELSE 0
             r == IF right THEN list[i + 1].size ELSE 0
             a == IF left THEN list[i].start ELSE x.start
  <2>1. l \in Nat /\ r \in Nat /\ a \in Nat /\ a + l = x.start
    BY <1>5, <1>6, <1>7
  <2>2. m.start = a /\ m.size = x.size + l + r /\ m = [start |-> a, size |-> x.size + l + r]
    OBVIOUS
  <2>3. x.start + x.size + r = IF right THEN End(list[i + 1]) ELSE End(x)
    BY <1>6, <1>7
  <2> HIDE DEF left, right, l, r, a, m
  <2>4. x.size + l + r \in Nat \ {0} /\ a + (x.size + l + r) = x.start + x.size + r
    BY <1>7, <2>1
  <2>5. m \in Element
    BY <2>1, <2>2, <2>4 DEF Element
  <2>6. End(m) = IF right THEN End(list[i + 1]) ELSE End(x)
    BY <2>2, <2>3, <2>4 DEF End
  <2> QED
    BY <2>2, <2>5, <2>6 DEF a
<1> HIDE DEF m
<1>9. kept \in 0 .. n /\ from \in 1 .. n + 1 /\ kept < from
  BY <1>3, <1>5, <1>6
<1>10. Closes(m, list, kept, from, owned, x, size)
  <2>a. \A j, k \in 1 .. n : j < k => End(list[j]) < list[k].start
    BY <1>1 DEF Tiled, Sorted
  <2>b. \A j \in 1 .. n : /\ list[j].start \in Nat /\ End(list[j]) \in Nat
                          /\ list[j].start < End(list[j])
    BY <1>4, ElementType
  <2>1. ASSUME NEW j \in 1 .. kept PROVE End(list[j]) < m.start
    <3>1. CASE left
      <4>1. j \in 1 .. n /\ i \in 1 .. n /\ j < i
        BY <1>3, <1>5, <3>1
      <4> QED
        BY <1>8, <2>a, <3>1, <4>1
    <3>2. CASE ~left
      <4>1. i \in 1 .. n /\ j \in 1 .. n /\ m.start = x.start /\ End(list[i]) < x.start
        BY <1>3, <1>7, <1>8, <2>b, <3>2
      <4>2. j = i \/ End(list[j]) < list[i].start
        BY <1>3, <2>a, <3>2, <4>1
      <4> QED
        BY <1>7, <2>b, <4>1, <4>2
    <3> QED
      BY <3>1, <3>2
  <2>2. ASSUME NEW j \in from .. Len(list) PROVE End(m) < list[j].start
    <3>1. CASE right
      <4>1. j \in 1 .. n /\ i + 1 \in 1 .. n /\ i + 1 < j
        BY <1>1, <1>3, <1>6, <3>1
      <4> QED
        BY <1>8, <2>a, <3>1, <4>1
    <3>2. CASE ~right
      <4>1. i + 1 \in 1 .. n /\ j \in 1 .. n /\ End(m) = End(x)
        BY <1>1, <1>3, <1>8, <3>2
      <4>2. End(x) < list[i + 1].start
        <5>1. End(x) <= list[i + 1].start /\ End(x) # list[i + 1].start
          BY <1>3, <3>2, <4>1
        <5>2. list[i + 1].start \in Nat /\ End(x) \in Nat
          BY <1>7, <2>b, <4>1
        <5> QED
          BY <5>1, <5>2
      <4>3. j = i + 1 \/ End(list[i + 1]) < list[j].start
        BY <1>3, <2>a, <3>2, <4>1
      <4> QED
        BY <1>7, <2>b, <4>1, <4>2, <4>3
    <3> QED
      BY <3>1, <3>2
  <2>3. End(m) <= size
    BY <1>1, <1>6, <1>8 DEF Tiled
  <2>4. ASSUME NEW y \in owned, y # x PROVE Apart(m, y)
    <3>1. y \in Element /\ Apart(x, y)
      BY <2>4 DEF Tiled
    <3>2. (left => Apart(list[i], y)) /\ (right => Apart(list[i + 1], y))
      BY <1>1, <1>5, <1>6 DEF Tiled
    <3>3. y.start \in Nat /\ End(y) \in Nat /\ y.start < End(y)
      BY <3>1, ElementType
    <3>4. CASE End(x) <= y.start
      BY <1>5, <1>6, <1>7, <1>8, <3>2, <3>3, <3>4, SMTT(30) DEF Apart
    <3>5. CASE End(y) <= x.start
      <4>1. left => End(list[i]) = x.start
        OBVIOUS
      <4> QED
        BY <1>5, <1>7, <1>8, <3>2, <3>3, <3>5, <4>1 DEF Apart
    <3> QED
      BY <3>1, <3>4, <3>5 DEF Apart
  <2>c. m.start \in Nat /\ End(m) \in Nat /\ m.start <= x.start /\ End(x) <= End(m)
    <3>1. m.start \in Nat /\ End(m) \in Nat
      BY <1>8, ElementType
    <3>2. m.start <= x.start
      BY <1>5, <1>7, <1>8
    <3>3. right => End(x) <= End(list[i + 1])
      <4> HAVE right
      <4>1. End(list[i + 1]) \in Nat /\ list[i + 1].start < End(list[i + 1]) /\ list[i + 1].start \in Nat
        BY <1>6, <2>b
      <4>2. End(x) = list[i + 1].start
        OBVIOUS
      <4> QED
        BY <4>1, <4>2
    <3>4. End(x) <= End(m)
      BY <1>7, <1>8, <3>3
    <3> QED
      BY <3>1, <3>2, <3>4
  <2>5. \A p \in 0 .. size - 1 : Covers(x, p) => Covers(m, p)
    BY <1>7, <2>c DEF Covers
  <2>6. ASSUME NEW p \in 0 .. size - 1, NEW j \in kept + 1 .. from - 1, Covers(list[j], p)
        PROVE  Covers(m, p)
    <3>1. (left /\ j = i) \/ (right /\ j = i + 1)
      BY <1>3
    <3>2. CASE left /\ j = i
      BY <1>5, <1>7, <1>8, <2>b, <2>c, <2>6, <3>2 DEF Covers
    <3>3. CASE right /\ j = i + 1
      <4>1. End(m) = End(list[i + 1]) /\ x.start <= list[i + 1].start /\ list[i + 1].start \in Nat
        BY <1>6, <1>7, <1>8, <3>3
      <4>2. list[i + 1].start <= p /\ p < End(list[i + 1])
        BY <2>6, <3>3 DEF Covers
      <4> QED
        BY <1>7, <2>c, <4>1, <4>2 DEF Covers
    <3> QED
      BY <3>1, <3>2, <3>3
  <2> QED
    BY <2>1, <2>2, <2>3, <2>4, <2>5, <2>6 DEF Closes
<1> HIDE DEF kept, from
<1>11. Splice(list, kept, m, from) \in Seq(Element) /\ Tiled(Splice(list, kept, m, from), owned \ {x}, size)
  BY <1>1, <1>8, <1>9, <1>10, Replaces
<1> QED
  BY <1>2, <1>11

-----------------------------------------------------------------------------
(* The blocks and the allocations. *)

BlockType == [id : Nat, size : Nat \ {0}, free : Seq(Element), available : Nat]
Allocation == [block : Nat, size : Nat, header : Nat, before : Nat, alignment : Nat \ {0}]
Request == [size : Nat, alignment : Nat \ {0}]

BlockTypes ==
    /\ blocks \in Seq(BlockType) /\ blocks # <<>> /\ nextId \in Nat
    /\ live \in SUBSET Allocation
    /\ request \in [Threads -> Request]

(* Blocks are told apart by their ids, also from those that will be added,   *)
(* and allocations by their extents.                                         *)
Identified ==
    /\ \A i \in 1 .. Len(blocks) : blocks[i].id < nextId
    /\ \A i, j \in 1 .. Len(blocks) : blocks[i].id = blocks[j].id => i = j
    /\ \A a \in live : \E i \in 1 .. Len(blocks) : blocks[i].id = a.block
    /\ \A a, c \in live : a.block = c.block /\ Resources!Extent(a) = Resources!Extent(c) => a = c

Aligned(a) == a.before <= a.header /\ (a.header + Header) % a.alignment = 0

Extents(id, allocations) == {Resources!Extent(a) : a \in {c \in allocations : c.block = id}}

BlocksInv ==
    /\ BlockTypes /\ Identified
    /\ \A a \in live : Aligned(a)
    /\ \A i \in 1 .. Len(blocks) :
          Tiled(blocks[i].free, Extents(blocks[i].id, live), blocks[i].size)

(* The sizes of ConfigurationAssumption. *)
LEMMA Configuration ==
    /\ Header \in Nat \ {0} /\ Spare \in Nat \ {0} /\ Word \in Nat \ {0}
    /\ FirstSize \in Nat \ {0} /\ BlockSize \in Nat \ {0} /\ Line \in Nat \ {0}
    /\ \A s \in Sizes, a \in Alignments : [size |-> s, alignment |-> a] \in Request
BY ConfigurationAssumption DEF Request

(* The memory of an allocation. *)
LEMMA ExtentType ==
    ASSUME NEW a \in Allocation, Aligned(a)
    PROVE  Resources!Extent(a) \in Element
<1>1. /\ a.header \in Nat /\ a.before \in Nat /\ a.size \in Nat /\ a.before <= a.header
  BY DEF Allocation, Aligned
<1>2. a.header - a.before \in Nat /\ a.size + a.before + Header \in Nat \ {0}
  BY <1>1, Configuration
<1> QED
  BY <1>2 DEF Element, Resources!Extent

(* The memory of several allocations. *)
LEMMA ExtentsType ==
    ASSUME NEW id, NEW allocations \in SUBSET Allocation, \A a \in allocations : Aligned(a)
    PROVE  Extents(id, allocations) \in SUBSET Element
BY ExtentType DEF Extents

(* The fields of a block. *)
LEMMA BlockFields ==
    ASSUME BlockTypes, NEW i \in 1 .. Len(blocks)
    PROVE  /\ blocks[i] \in BlockType
           /\ blocks[i].id \in Nat /\ blocks[i].size \in Nat \ {0}
           /\ blocks[i].free \in Seq(Element) /\ blocks[i].available \in Nat
<1>1. blocks[i] \in BlockType
  BY DEF BlockTypes
<1> QED
  BY <1>1 DEF BlockType

(* The operator Min finds it. *)
LEMMA LeastIndex ==
    ASSUME NEW S \in SUBSET Nat, S # {}
    PROVE  Resources!Min(S) \in S
<1>1. \E k \in S : \A m \in S : k <= m
  BY LeastOf
<1> QED
  BY <1>1 DEF Resources!Min

(* One block gets another list of free elements, and allocations come or go  *)
(* in this block only.                                                       *)
LEMMA BlockChanges ==
    ASSUME BlocksInv, NEW k \in 1 .. Len(blocks), NEW b \in BlockType,
           b.id = blocks[k].id, b.size = blocks[k].size,
           blocks' = [blocks EXCEPT ![k] = b], nextId' = nextId, request' = request,
           live' \in SUBSET Allocation, \A a \in live' : Aligned(a),
           \A a \in live' : a \in live \/ a.block = b.id,
           \A a \in live : a \in live' \/ a.block = b.id,
           \A a, c \in live' : a.block = b.id /\ c.block = b.id
                               /\ Resources!Extent(a) = Resources!Extent(c) => a = c,
           Tiled(b.free, Extents(b.id, live'), b.size)
    PROVE  BlocksInv'
<1>1. BlockTypes'
  <2>1. blocks \in Seq(BlockType) /\ blocks # <<>> /\ nextId \in Nat /\ request \in [Threads -> Request]
    BY DEF BlocksInv, BlockTypes
  <2>2. blocks' \in Seq(BlockType) /\ blocks' # <<>>
    BY <2>1
  <2> QED
    BY <2>1, <2>2 DEF BlockTypes
<1>2. Len(blocks') = Len(blocks) /\ Len(blocks) \in Nat
  BY DEF BlocksInv, BlockTypes
<1>3. /\ blocks'[k] = b
      /\ \A i \in 1 .. Len(blocks) : i # k => blocks'[i] = blocks[i]
  BY DEF BlocksInv, BlockTypes
<1>4. \A i \in 1 .. Len(blocks) : blocks'[i].id = blocks[i].id
  BY <1>3
<1>5. Identified'
  <2>1. \A i \in 1 .. Len(blocks) : blocks'[i].id < nextId'
    BY <1>4 DEF BlocksInv, Identified
  <2>2. \A i, j \in 1 .. Len(blocks) : blocks'[i].id = blocks'[j].id => i = j
    BY <1>4 DEF BlocksInv, Identified
  <2>3. \A a \in live' : \E i \in 1 .. Len(blocks) : blocks'[i].id = a.block
    BY <1>3, <1>4 DEF BlocksInv, Identified
  <2>4. \A a, c \in live' : a.block = c.block /\ Resources!Extent(a) = Resources!Extent(c) => a = c
    BY DEF BlocksInv, Identified
  <2>5. \A a, c \in live' : a.block = c.block /\ Resources!Extent(a)' = Resources!Extent(c)' => a = c
    BY <2>4 DEF Resources!Extent
  <2> QED
    BY <1>2, <2>1, <2>2, <2>3, <2>5 DEF Identified
<1>6. ASSUME NEW i \in 1 .. Len(blocks)
      PROVE  Tiled(blocks'[i].free, Extents(blocks'[i].id, live'), blocks'[i].size)
  <2>1. CASE i = k
    BY <1>3, <2>1
  <2>2. CASE i # k
    <3>1. blocks'[i] = blocks[i] /\ blocks[i].id # b.id
      BY <1>3, <2>2 DEF BlocksInv, Identified
    <3>2. \A a : a.block = blocks[i].id => (a \in live' <=> a \in live)
      BY <3>1
    <3>3. Extents(blocks[i].id, live') = Extents(blocks[i].id, live)
      BY <3>2 DEF Extents
    <3> QED
      BY <3>1, <3>3 DEF BlocksInv
  <2> QED
    BY <2>1, <2>2
<1> QED
  BY <1>1, <1>2, <1>5, <1>6 DEF BlocksInv, Extents, Resources!Extent, Aligned

-----------------------------------------------------------------------------
(* The steps of the allocator. *)

(* Division with remainder. *)
LEMMA Divides ==
    ASSUME NEW x \in Nat, NEW base \in Nat \ {0}
    PROVE  /\ x \div base \in Nat /\ x % base \in 0 .. base - 1 /\ base * (x \div base) \in Nat
           /\ x = base * (x \div base) + (x % base)
OBVIOUS

(* What find_block cuts off for the alignment. *)
LEMMA RoundsDown ==
    ASSUME NEW x \in Nat, NEW base \in Nat \ {0}
    PROVE  (x % base) \in Nat /\ (x % base) <= x /\ (x - (x % base)) % base = 0
<1> DEFINE q == x \div base
           r == x % base
<1>1. q \in Nat /\ r \in 0 .. base - 1 /\ base * q \in Nat /\ x = base * q + r
  OBVIOUS
<1>2. (base * q) % base = 0
  <2> DEFINE y == base * q
             p == y \div base
             s == y % base
  <2>1. p \in Nat /\ s \in 0 .. base - 1 /\ base * p \in Nat /\ y = base * p + s
    <3> HIDE DEF y
    <3>1. y \in Nat
      BY <1>1 DEF y
    <3> QED
      BY <3>1, Divides
  <2>2. base * p <= base * q /\ base * q < base * p + base
    BY <1>1, <2>1
  <2> HIDE DEF q, r, p, s
  <2>3. p <= q /\ q <= p
    BY <1>1, <2>1, <2>2
  <2>4. s = 0
    BY <1>1, <2>1, <2>3
  <2> QED
    BY <2>4 DEF s
<1> HIDE DEF q
<1>3. x - r = base * q
  BY <1>1
<1> QED
  BY <1>1, <1>2, <1>3

(* What a request takes from a free element in which it fits. *)
LEMMA Takes ==
    ASSUME NEW e \in Element, NEW r \in Request, NEW needed, needed = Resources!Needed(e, r),
           e.size >= r.size + Header, e.size >= needed
    PROVE  /\ needed \in Nat \ {0} /\ needed - Header \in Nat /\ End(e) - needed \in Nat
           /\ needed <= e.size /\ e.start + e.size = End(e)
           /\ (End(e) - needed + Header) % r.alignment = 0
<1> DEFINE x == e.start + e.size - r.size
           pad == x % r.alignment
<1>1. /\ e.start \in Nat /\ e.size \in Nat \ {0} /\ r.size \in Nat /\ r.alignment \in Nat \ {0}
      /\ Header \in Nat \ {0} /\ End(e) = e.start + e.size
  BY Configuration DEF Element, Request, End
<1>2. x \in Nat /\ r.size <= e.size
  BY <1>1
<1>3. pad \in Nat /\ (x - pad) % r.alignment = 0
  BY <1>1, <1>2, RoundsDown
<1>4. needed = r.size + pad + Header
  BY DEF Resources!Needed
<1> HIDE DEF pad
<1>5. End(e) - needed + Header = x - pad
  BY <1>1, <1>3, <1>4
<1> QED
  BY <1>1, <1>3, <1>4, <1>5

(* AllocationBlock::allocate. *)
LEMMA ServedStep ==
    ASSUME BlocksInv, NEW t, NEW r \in Request, Resources!Served(t, r)
    PROVE  BlocksInv'
<1> DEFINE k == Len(blocks)
           b == blocks[k]
           i == Resources!Min(Resources!Fitting(b, r))
           e == b.free[i]
           needed == Resources!Needed(e, r)
           kept == e.size - needed >= Spare
           a == [block |-> b.id, size |-> needed - Header, header |-> e.start + e.size - needed,
                 before |-> IF kept THEN 0 ELSE e.size - needed, alignment |-> r.alignment]
           nb == IF kept THEN Resources!Contracted(b, i, needed) ELSE Resources!Erased(b, i)
<1>1. /\ Resources!Fitting(b, r) # {} /\ blocks' = [blocks EXCEPT ![k] = nb]
      /\ live' = live \cup {a} /\ UNCHANGED <<nextId, request>>
  BY DEF Resources!Served
<1>2. k \in 1 .. Len(blocks)
  BY DEF BlocksInv, BlockTypes
<1>3. /\ b \in BlockType /\ b.id \in Nat /\ b.size \in Nat \ {0} /\ b.free \in Seq(Element)
      /\ b.available \in Nat
  BY <1>2, BlockFields DEF BlocksInv
<1>4. Tiled(b.free, Extents(b.id, live), b.size)
  BY <1>2 DEF BlocksInv
<1> HIDE DEF k, b
<1>5. i \in Resources!Fitting(b, r)
  <2>1. Resources!Fitting(b, r) \in SUBSET Nat
    BY <1>3 DEF Resources!Fitting
  <2> QED
    BY <1>1, <2>1, LeastIndex
<1> HIDE DEF i
<1>6. /\ i \in 1 .. Len(b.free) /\ e.size >= r.size + Header /\ e.size >= needed
  BY <1>3, <1>5 DEF Resources!Fitting
<1>7. e \in Element
  BY <1>3, <1>6, FreeType
<1>8. /\ e.start \in Nat /\ e.size \in Nat \ {0} /\ r.alignment \in Nat \ {0}
      /\ Header \in Nat \ {0} /\ Spare \in Nat \ {0} /\ Word \in Nat \ {0}
  BY <1>7, Configuration DEF Element, Request
<1> HIDE DEF e
<1>9. /\ needed \in Nat \ {0} /\ needed - Header \in Nat /\ End(e) - needed \in Nat
      /\ needed <= e.size /\ e.start + e.size = End(e)
      /\ (End(e) - needed + Header) % r.alignment = 0
  BY <1>6, <1>7, Takes
<1> HIDE DEF needed
<1> DEFINE before == IF kept THEN 0 ELSE e.size - needed
<1>17. /\ a.block = b.id /\ a.size = needed - Header /\ a.header = e.start + e.size - needed
       /\ a.before = before /\ a.alignment = r.alignment
       /\ a \in [block : {b.id}, size : {needed - Header}, header : {e.start + e.size - needed},
                 before : {before}, alignment : {r.alignment}]
  OBVIOUS
<1>18. before \in Nat /\ before <= End(e) - needed /\ e.start + e.size - needed = End(e) - needed
  BY <1>8, <1>9
<1> HIDE DEF a, before
<1>10. a \in Allocation /\ Aligned(a) /\ a.block = b.id
  BY <1>3, <1>8, <1>9, <1>17, <1>18 DEF Allocation, Aligned
<1> DEFINE x == Resources!Extent(a)
<1>11. x = IF kept THEN Element0(End(e) - needed, needed) ELSE e
  <2>1. x = Element0(a.header - a.before, a.size + a.before + Header)
    BY DEF Resources!Extent, Element0
  <2>2. CASE kept
    <3>1. a.header - a.before = End(e) - needed /\ a.size + a.before + Header = needed
      BY <1>8, <1>9, <1>17, <2>2 DEF before
    <3> QED
      BY <2>1, <2>2, <3>1
  <2>3. CASE ~kept
    <3>1. a.header - a.before = e.start /\ a.size + a.before + Header = e.size
      BY <1>8, <1>9, <1>17, <2>3 DEF before
    <3>2. e = Element0(e.start, e.size)
      BY <1>7 DEF Element, Element0
    <3> QED
      BY <2>1, <2>3, <3>1, <3>2
  <2> QED
    BY <2>2, <2>3
<1>12. Extents(b.id, live \cup {a}) = Extents(b.id, live) \cup {x}
  <2> HIDE DEF a
  <2> QED
    BY <1>10 DEF Extents
<1>13. Extents(b.id, live) \in SUBSET Element
  BY ExtentsType DEF BlocksInv, BlockTypes
<1> HIDE DEF a
<1>14. /\ nb \in BlockType /\ nb.id = b.id /\ nb.size = b.size /\ x \notin Extents(b.id, live)
       /\ Tiled(nb.free, Extents(b.id, live) \cup {x}, b.size)
  <2>1. CASE kept
    <3> DEFINE f == Element0(e.start, e.size - needed)
               v == (b.available + Word - needed) % Word
    <3>1. nb = [b EXCEPT !.free = [b.free EXCEPT ![i] = f], !.available = v]
      <4>1. nb = [b EXCEPT !.free[i].size = e.size - needed, !.available = v]
        BY <2>1 DEF Resources!Contracted, e
      <4>2. [b.free[i] EXCEPT !.size = e.size - needed] = f
        BY <1>7 DEF e, Element, Element0
      <4> QED
        BY <4>1, <4>2
    <3>2. /\ [b.free EXCEPT ![i] = f] \in Seq(Element) /\ x \notin Extents(b.id, live)
          /\ Tiled([b.free EXCEPT ![i] = f], Extents(b.id, live) \cup {x}, b.size)
      <4>1. needed < b.free[i].size
        BY <1>8, <1>9, <2>1 DEF e
      <4>2. x = Element0(End(b.free[i]) - needed, needed)
        BY <1>11, <2>1 DEF e
      <4>3. f = Element0(b.free[i].start, b.free[i].size - needed)
        BY DEF e
      <4> DEFINE list == b.free
                 owned == Extents(b.id, live)
                 size == b.size
      <4>4. /\ list \in Seq(Element) /\ owned \in SUBSET Element /\ size \in Nat \ {0}
            /\ Tiled(list, owned, size) /\ i \in 1 .. Len(list)
            /\ needed \in Nat \ {0} /\ needed < list[i].size
            /\ f = Element0(list[i].start, list[i].size - needed)
            /\ x = Element0(End(list[i]) - needed, needed)
        BY <1>3, <1>4, <1>6, <1>9, <1>13, <4>1, <4>2, <4>3
      <4> HIDE DEF x, f, list, owned, size
      <4>5. [list EXCEPT ![i] = f] \in Seq(Element)
        <5>1. list[i].start \in Nat /\ list[i].size \in Nat
          BY <4>4, FreeType, ElementType
        <5>2. list[i].size - needed \in Nat \ {0}
          BY <4>4, <5>1
        <5>3. f \in Element
          BY <4>4, <5>1, <5>2 DEF Element, Element0
        <5> QED
          BY <4>4, <5>3
      <4>6. x \notin owned
        BY <4>4, Contracts, ZenonT(40)
      <4>7. Tiled([list EXCEPT ![i] = f], owned \cup {x}, size)
        BY <4>4, Contracts
      <4> QED
        BY <4>5, <4>6, <4>7 DEF list, owned, size
    <3>3. v \in Nat
      BY <1>3, <1>8, <1>9
    <3> HIDE DEF v, f, nb
    <3>4. nb.free = [b.free EXCEPT ![i] = f] /\ nb.id = b.id /\ nb.size = b.size /\ nb.available = v
      BY <1>3, <3>1 DEF BlockType
    <3>5. nb \in BlockType
      BY <1>3, <3>1, <3>2, <3>3 DEF BlockType
    <3> QED
      BY <3>2, <3>4, <3>5
  <2>2. CASE ~kept
    <3> DEFINE read == b.free[IF i < Len(b.free) THEN i + 1 ELSE i].size
               v == (b.available + Word - read) % Word
    <3>1. nb = [b EXCEPT !.free = Without(b.free, i), !.available = v]
      BY <2>2 DEF Resources!Erased, Without
    <3>2. /\ Without(b.free, i) \in Seq(Element) /\ x \notin Extents(b.id, live)
          /\ Tiled(Without(b.free, i), Extents(b.id, live) \cup {x}, b.size)
      <4>1. x = b.free[i]
        BY <1>11, <2>2 DEF e
      <4> HIDE DEF x
      <4> QED
        BY <1>3, <1>4, <1>6, <1>13, <4>1, Erases
    <3>3. v \in Nat
      <4> DEFINE j == IF i < Len(b.free) THEN i + 1 ELSE i
      <4>1. j \in 1 .. Len(b.free)
        BY <1>3, <1>6
      <4> HIDE DEF j
      <4>2. b.free[j].size \in Nat
        BY <1>3, <4>1, FreeType, ElementType
      <4>3. read \in Nat
        BY <4>2 DEF j
      <4> HIDE DEF read
      <4> QED
        BY <1>3, <1>8, <4>3
    <3> HIDE DEF v, read, nb
    <3>4. nb.free = Without(b.free, i) /\ nb.id = b.id /\ nb.size = b.size /\ nb.available = v
      BY <1>3, <3>1 DEF BlockType
    <3>5. nb \in BlockType
      BY <1>3, <3>1, <3>2, <3>3 DEF BlockType
    <3> QED
      BY <3>2, <3>4, <3>5
  <2> QED
    BY <2>1, <2>2
<1> HIDE DEF nb
<1>15. live' \in SUBSET Allocation /\ \A c \in live' : Aligned(c)
  BY <1>1, <1>10 DEF BlocksInv, BlockTypes
<1>16. ASSUME NEW c \in live', NEW d \in live', c.block = b.id, d.block = b.id,
              Resources!Extent(c) = Resources!Extent(d)
       PROVE  c = d
  <2>1. \A y \in live : y.block = b.id => Resources!Extent(y) \in Extents(b.id, live)
    BY DEF Extents
  <2>2. \A y \in live : y.block = b.id => Resources!Extent(y) # x
    BY <1>14, <2>1
  <2>3. \A y, z \in live : y.block = z.block /\ Resources!Extent(y) = Resources!Extent(z) => y = z
    BY DEF BlocksInv, Identified
  <2> QED
    BY <1>1, <1>16, <2>2, <2>3
<1>19. /\ k \in 1 .. Len(blocks) /\ nb \in BlockType /\ nb.id = blocks[k].id /\ nb.size = blocks[k].size
       /\ blocks' = [blocks EXCEPT ![k] = nb] /\ nextId' = nextId /\ request' = request
  BY <1>1, <1>2, <1>14 DEF b
<1>20. /\ \A c \in live' : c \in live \/ c.block = nb.id
       /\ \A c \in live : c \in live' \/ c.block = nb.id
  BY <1>1, <1>10, <1>14
<1>21. Tiled(nb.free, Extents(nb.id, live'), nb.size)
  BY <1>1, <1>12, <1>14
<1>22. \A c, d \in live' : c.block = nb.id /\ d.block = nb.id
                           /\ Resources!Extent(c) = Resources!Extent(d) => c = d
  BY <1>14, <1>16
<1> QED
  BY <1>15, <1>19, <1>20, <1>21, <1>22, BlockChanges

(* Allocator::free finds the block of the allocation. *)
LEMMA FreeStep ==
    ASSUME BlocksInv, NEW a, Resources!Free(a)
    PROVE  BlocksInv'
<1> DEFINE owners == {i \in DOMAIN blocks : blocks[i].id = a.block}
           k == Resources!Min(owners)
           b == blocks[k]
           x == Resources!Extent(a)
           v == (b.available + x.size) % Word
           nb == [b EXCEPT !.free = Resources!Inserted(b.free, x), !.available = v]
<1>1. a \in live /\ live' = live \ {a} /\ UNCHANGED <<nextId, request>>
  BY DEF Resources!Free
<1>2. owners \in SUBSET Nat /\ owners # {} /\ owners \subseteq 1 .. Len(blocks)
  BY <1>1 DEF BlocksInv, BlockTypes, Identified
<1>3. blocks' = [blocks EXCEPT ![k] = nb]
  BY <1>2 DEF Resources!Free
<1>4. k \in owners
  <2> HIDE DEF owners
  <2> QED
    BY <1>2, LeastIndex
<1> HIDE DEF k
<1>5. k \in 1 .. Len(blocks) /\ b.id = a.block
  BY <1>2, <1>4
<1>6. /\ b \in BlockType /\ b.id \in Nat /\ b.size \in Nat \ {0} /\ b.free \in Seq(Element)
      /\ b.available \in Nat
  BY <1>5, BlockFields DEF BlocksInv
<1>7. Tiled(b.free, Extents(b.id, live), b.size)
  BY <1>5 DEF BlocksInv
<1> HIDE DEF b
<1>8. Extents(b.id, live) \in SUBSET Element /\ x \in Extents(b.id, live)
  BY <1>1, <1>5, ExtentsType DEF BlocksInv, BlockTypes, Extents
<1>9. Extents(b.id, live \ {a}) = Extents(b.id, live) \ {x}
  <2>1. \A c \in live : c.block = b.id /\ Resources!Extent(c) = x => c = a
    BY <1>1, <1>5 DEF BlocksInv, Identified
  <2> QED
    BY <1>1, <1>5, <2>1 DEF Extents
<1> HIDE DEF x
<1>10. /\ Resources!Inserted(b.free, x) \in Seq(Element)
       /\ Tiled(Resources!Inserted(b.free, x), Extents(b.id, live) \ {x}, b.size)
  BY <1>6, <1>7, <1>8, Inserts
<1>11. v \in Nat
  <2>1. x.size \in Nat
    BY <1>8, ElementType
  <2> QED
    BY <1>6, <2>1, Configuration
<1> HIDE DEF v
<1>12. /\ nb \in BlockType /\ nb.id = b.id /\ nb.size = b.size
       /\ nb.free = Resources!Inserted(b.free, x)
  BY <1>6, <1>10, <1>11 DEF BlockType
<1> HIDE DEF nb
<1>13. /\ nb.id = blocks[k].id /\ nb.size = blocks[k].size
       /\ live' \in SUBSET Allocation /\ \A c \in live' : Aligned(c)
  BY <1>1, <1>12 DEF BlocksInv, BlockTypes, b
<1>14. /\ \A c \in live' : c \in live \/ c.block = nb.id
       /\ \A c \in live : c \in live' \/ c.block = nb.id
  BY <1>1, <1>5, <1>12
<1>15. Tiled(nb.free, Extents(nb.id, live'), nb.size)
  BY <1>1, <1>9, <1>10, <1>12
<1>16. \A c, d \in live' : c.block = nb.id /\ d.block = nb.id
                           /\ Resources!Extent(c) = Resources!Extent(d) => c = d
  BY <1>1 DEF BlocksInv, Identified
<1>17. nextId' = nextId /\ request' = request
  BY <1>1
<1> QED
  BY <1>3, <1>5, <1>12, <1>13, <1>14, <1>15, <1>16, <1>17, BlockChanges

(* A new block is one free element. *)
LEMMA NewBlock ==
    ASSUME NEW id \in Nat, NEW size \in Nat \ {0}
    PROVE  /\ Resources!Block(id, size) \in BlockType
           /\ Resources!Block(id, size).id = id /\ Resources!Block(id, size).size = size
           /\ Tiled(Resources!Block(id, size).free, {}, size)
<1> DEFINE list == <<Element0(0, size)>>
<1>1. list \in Seq(Element) /\ Tiled(list, {}, size)
  BY WholeBlock
<1>2. Resources!Block(id, size) = [id |-> id, size |-> size, free |-> list, available |-> size]
  BY DEF Resources!Block, Element0
<1> HIDE DEF list
<1> QED
  BY <1>1, <1>2 DEF BlockType

(* allocate_new_block. *)
LEMMA EmplaceStep ==
    ASSUME BlocksInv, NEW t \in Threads, Resources!Emplace(t)
    PROVE  BlocksInv'
<1> DEFINE multiple == Resources!NextMultiple(request[t].size, Line)
           size == Resources!Max({BlockSize, multiple})
           b == Resources!Block(nextId, size)
<1>1. /\ blocks' = Append(blocks, b) /\ nextId' = nextId + 1 /\ UNCHANGED <<request, live>>
  BY DEF Resources!Emplace
<1>2. size \in Nat \ {0}
  <2>1. multiple \in Nat
    <3>1. request[t].size \in Nat /\ Line \in Nat \ {0}
      BY Configuration DEF BlocksInv, BlockTypes, Request
    <3>2. \A y \in Nat : (y \div Line) * Line \in Nat
      BY <3>1
    <3>3. request[t].size + Line - 1 \in Nat
      BY <3>1
    <3> QED
      BY <3>1, <3>2, <3>3 DEF Resources!NextMultiple
  <2> HIDE DEF multiple
  <2>2. BlockSize \in Nat \ {0}
    BY Configuration
  <2>3. \E y \in {BlockSize, multiple} : \A z \in {BlockSize, multiple} : y >= z
    BY <2>1, <2>2
  <2>4. size \in {BlockSize, multiple} /\ size >= BlockSize
    BY <2>3 DEF Resources!Max
  <2> QED
    BY <2>1, <2>2, <2>4
<1> HIDE DEF size
<1>3. nextId \in Nat
  BY DEF BlocksInv, BlockTypes
<1>4. b \in BlockType /\ b.id = nextId /\ b.size = size /\ Tiled(b.free, {}, b.size)
  BY <1>2, <1>3, NewBlock
<1> HIDE DEF b
<1> DEFINE n == Len(blocks)
<1>5. /\ blocks' \in Seq(BlockType) /\ Len(blocks') = n + 1 /\ n \in Nat /\ blocks' # <<>>
      /\ blocks'[n + 1] = b /\ \A i \in 1 .. n : blocks'[i] = blocks[i]
  BY <1>1, <1>4 DEF BlocksInv, BlockTypes
<1>6. \A i \in 1 .. n : blocks[i].id \in Nat /\ blocks[i].id < nextId
  BY BlockFields DEF BlocksInv, Identified
<1> HIDE DEF n
<1>7. ASSUME NEW a \in live PROVE a.block # nextId
  <2>1. PICK i \in 1 .. n : blocks[i].id = a.block
    BY DEF BlocksInv, Identified, n
  <2>2. a.block \in Nat /\ a.block < nextId
    BY <1>6, <2>1
  <2> QED
    BY <1>3, <2>2
<1>8. \A i \in 1 .. n + 1 : i \in 1 .. n \/ i = n + 1
  BY <1>5
<1>9. BlockTypes'
  BY <1>1, <1>3, <1>5 DEF BlocksInv, BlockTypes
<1>10. Identified'
  <2>1. \A i \in 1 .. n + 1 : blocks'[i].id < nextId'
    BY <1>1, <1>3, <1>4, <1>5, <1>6, <1>8
  <2>2. \A i, j \in 1 .. n + 1 : blocks'[i].id = blocks'[j].id => i = j
    <3> SUFFICES ASSUME NEW i \in 1 .. n + 1, NEW j \in 1 .. n + 1, blocks'[i].id = blocks'[j].id PROVE i = j
      OBVIOUS
    <3>1. CASE i \in 1 .. n /\ j \in 1 .. n
      BY <1>5, <3>1 DEF BlocksInv, Identified, n
    <3>2. CASE i \in 1 .. n /\ j = n + 1
      BY <1>3, <1>4, <1>5, <1>6, <3>2
    <3>3. CASE i = n + 1 /\ j \in 1 .. n
      BY <1>3, <1>4, <1>5, <1>6, <3>3
    <3> QED
      BY <1>8, <3>1, <3>2, <3>3
  <2>3. \A a \in live : \E i \in 1 .. n + 1 : blocks'[i].id = a.block
    <3> SUFFICES ASSUME NEW a \in live PROVE \E i \in 1 .. n + 1 : blocks'[i].id = a.block
      OBVIOUS
    <3>1. PICK i \in 1 .. n : blocks[i].id = a.block
      BY DEF BlocksInv, Identified, n
    <3>2. i \in 1 .. n + 1
      BY <1>5
    <3> QED
      BY <1>5, <3>1, <3>2
  <2> QED
    BY <1>1, <1>5, <2>1, <2>2, <2>3 DEF BlocksInv, Identified, Resources!Extent
<1>11. Extents(nextId, live) = {}
  BY <1>7 DEF Extents
<1>12. \A i \in 1 .. n + 1 : Tiled(blocks'[i].free, Extents(blocks'[i].id, live), blocks'[i].size)
  BY <1>4, <1>5, <1>8, <1>11 DEF BlocksInv, n
<1> QED
  BY <1>1, <1>5, <1>9, <1>10, <1>12 DEF BlocksInv, Extents, Resources!Extent, Aligned

(* A block that is_free() has no allocation, unless it is used to the last   *)
(* element.                                                                  *)
LEMMA FreeBlocks ==
    ASSUME BlocksInv, NEW i \in 1 .. Len(blocks), Resources!IsFree(blocks[i]), blocks[i].free # <<>>
    PROVE  \A a \in live : a.block # blocks[i].id
<1> DEFINE b == blocks[i]
<1>1. b.size \in Nat \ {0} /\ b.free \in Seq(Element)
  BY BlockFields DEF BlocksInv
<1>2. Tiled(b.free, Extents(b.id, live), b.size) /\ Extents(b.id, live) \in SUBSET Element
  BY ExtentsType DEF BlocksInv, BlockTypes
<1>3. Len(b.free) = 1 /\ b.free[1].size = b.size
  BY DEF Resources!IsFree
<1>4. Extents(b.id, live) = {}
  BY <1>1, <1>2, <1>3, FreeBlock
<1> QED
  BY <1>4 DEF Extents

(* runtime::init keeps the blocks with allocations, in their order. *)
LEMMA ReinitStep ==
    ASSUME Roomy, BlocksInv, Resources!Reinit
    PROVE  BlocksInv'
<1> DEFINE I == {i \in DOMAIN blocks : ~Resources!IsFree(blocks[i])}
<1>1. PICK order \in Resources!Orders(I) :
         LET inUse == [k \in DOMAIN order |-> blocks[order[k]]]
             id == IF inUse = <<>> THEN 0 ELSE nextId
         IN  /\ blocks' = Resources!Filled(inUse, id)
             /\ nextId' = IF inUse = <<>> THEN id + 1 ELSE nextId
  BY DEF Resources!Reinit
<1>2. live' = live /\ request' = request
  BY DEF Resources!Reinit
<1> DEFINE n == Resources!Cardinality(I)
           inUse == [k \in 1 .. n |-> blocks[order[k]]]
<1>3. /\ order \in [1 .. n -> I] /\ \A i \in I : \E k \in 1 .. n : order[k] = i
      /\ \A j, k \in 1 .. n : j < k => order[j] < order[k]
  BY DEF Resources!Orders, Resources!Surjection
<1>4. n \in Nat
  <2>1. IsFiniteSet(I)
    <3>1. I \subseteq 1 .. Len(blocks) /\ Len(blocks) \in Nat
      BY DEF BlocksInv, BlockTypes
    <3>2. IsFiniteSet(1 .. Len(blocks))
      BY <3>1, FS_Interval
    <3> HIDE DEF I
    <3> QED
      BY <3>1, <3>2, FS_Subset
  <2>2. n = Cardinality(I)
    BY DEF Cardinality, Resources!Cardinality
  <2> HIDE DEF I, n
  <2> QED
    BY <2>1, <2>2, FS_CardinalityType
<1> HIDE DEF n
<1>5. I \subseteq 1 .. Len(blocks) /\ Len(blocks) \in Nat /\ I \subseteq Nat
  BY DEF BlocksInv, BlockTypes
<1>6. \A i \in 1 .. Len(blocks) : i \notin I => \A a \in live : a.block # blocks[i].id
  <2> SUFFICES ASSUME NEW i \in 1 .. Len(blocks), i \notin I PROVE \A a \in live : a.block # blocks[i].id
    OBVIOUS
  <2>1. DOMAIN blocks = 1 .. Len(blocks)
    BY DEF BlocksInv, BlockTypes
  <2>2. Resources!IsFree(blocks[i]) /\ blocks[i].free # <<>>
    BY <2>1 DEF Resources!Reinit
  <2> QED
    BY <2>2, FreeBlocks
<1>7. DOMAIN order = 1 .. n
  BY <1>3
<1> HIDE DEF I
<1>8. inUse \in Seq(BlockType) /\ Len(inUse) = n
  <2>1. \A k \in 1 .. n : blocks[order[k]] \in BlockType
    BY <1>3, <1>5, BlockFields DEF BlocksInv
  <2> QED
    BY <1>4, <2>1
<1>9. \A k \in 1 .. n : inUse[k] = blocks[order[k]] /\ order[k] \in 1 .. Len(blocks)
  BY <1>3, <1>5
<1>10. /\ blocks' = IF inUse = <<>> THEN <<Resources!Block(0, FirstSize)>> ELSE inUse
       /\ nextId' = IF inUse = <<>> THEN 1 ELSE nextId
  BY <1>1, <1>7, SMTT(30) DEF Resources!Filled
<1> HIDE DEF inUse
<1>11. CASE inUse = <<>>
  <2>1. I = {}
    BY <1>3, <1>4, <1>8, <1>11
  <2>2. live = {}
    <3> SUFFICES ASSUME NEW a \in live PROVE FALSE
      OBVIOUS
    <3>1. PICK i \in 1 .. Len(blocks) : blocks[i].id = a.block
      BY DEF BlocksInv, Identified
    <3> QED
      BY <1>6, <2>1, <3>1
  <2> DEFINE b == Resources!Block(0, FirstSize)
  <2>3. b \in BlockType /\ b.id = 0 /\ b.size = FirstSize /\ Tiled(b.free, {}, b.size)
    BY Configuration, NewBlock
  <2>4. blocks' = <<b>> /\ nextId' = 1
    BY <1>10, <1>11
  <2> HIDE DEF b
  <2>5. /\ blocks' \in Seq(BlockType) /\ Len(blocks') = 1 /\ blocks' # <<>>
        /\ \A i \in 1 .. 1 : i = 1 /\ blocks'[i] = b
    BY <2>3, <2>4
  <2>6. BlockTypes'
    BY <1>2, <2>4, <2>5 DEF BlocksInv, BlockTypes
  <2>7. Identified'
    BY <1>2, <2>2, <2>3, <2>4, <2>5 DEF Identified
  <2>8. Extents(0, live') = {}
    BY <1>2, <2>2 DEF Extents
  <2>9. \A i \in 1 .. Len(blocks') : Tiled(blocks'[i].free, Extents(blocks'[i].id, live'), blocks'[i].size)
    BY <2>3, <2>5, <2>8
  <2> QED
    BY <1>2, <2>2, <2>6, <2>7, <2>9 DEF BlocksInv, Extents, Resources!Extent
<1>12. CASE inUse # <<>>
  <2>1. blocks' = inUse /\ nextId' = nextId /\ Len(blocks') = n
    BY <1>8, <1>10, <1>12
  <2>2. BlockTypes'
    BY <1>2, <1>8, <1>12, <2>1 DEF BlocksInv, BlockTypes
  <2>3. \A j, k \in 1 .. n : order[j] = order[k] => j = k
    <3> SUFFICES ASSUME NEW j \in 1 .. n, NEW k \in 1 .. n, order[j] = order[k] PROVE j = k
      OBVIOUS
    <3>1. order[j] \in Nat /\ order[k] \in Nat
      BY <1>3, <1>5
    <3>2. ~(j < k) /\ ~(k < j)
      BY <1>3, <3>1
    <3> QED
      BY <1>4, <3>2
  <2>4. Identified'
    <3>1. \A k \in 1 .. n : blocks'[k].id < nextId'
      BY <1>9, <2>1 DEF BlocksInv, Identified
    <3>2. \A j, k \in 1 .. n : blocks'[j].id = blocks'[k].id => j = k
      BY <1>9, <2>1, <2>3, SMTT(30) DEF BlocksInv, Identified
    <3>3. \A a \in live : \E k \in 1 .. n : blocks'[k].id = a.block
      <4> SUFFICES ASSUME NEW a \in live PROVE \E k \in 1 .. n : blocks'[k].id = a.block
        OBVIOUS
      <4>1. PICK i \in 1 .. Len(blocks) : blocks[i].id = a.block
        BY DEF BlocksInv, Identified
      <4>2. i \in I
        BY <1>6, <4>1
      <4>3. PICK k \in 1 .. n : order[k] = i
        BY <1>3, <4>2
      <4> QED
        BY <1>9, <2>1, <4>1, <4>3
    <3> QED
      BY <1>2, <2>1, <3>1, <3>2, <3>3 DEF BlocksInv, Identified, Resources!Extent
  <2>5. \A k \in 1 .. n : Tiled(blocks'[k].free, Extents(blocks'[k].id, live), blocks'[k].size)
    BY <1>9, <2>1 DEF BlocksInv
  <2> QED
    BY <1>2, <2>1, <2>2, <2>4, <2>5 DEF BlocksInv, Extents, Resources!Extent, Aligned
<1> QED
  BY <1>11, <1>12

(* Steps that touch neither blocks nor allocations. *)
LEMMA UnchangedBlocks ==
    ASSUME BlocksInv, UNCHANGED <<blocks, nextId, live>>, request' \in [Threads -> Request]
    PROVE  BlocksInv'
BY DEF BlocksInv, BlockTypes, Identified, Extents, Resources!Extent, Aligned

(* Every step of every thread, and every call of runtime::init. *)
LEMMA BlocksStep ==
    ASSUME Roomy, BlocksInv, [MemoryNext]_mvars
    PROVE  BlocksInv'
<1>1. ASSUME NEW t \in Threads, NEW r \in Request, Resources!Missed(t, r) PROVE BlocksInv'
  <2>1. request' \in [Threads -> Request]
    BY <1>1 DEF Resources!Missed, BlocksInv, BlockTypes
  <2> QED
    BY <1>1, <2>1, UnchangedBlocks DEF Resources!Missed
<1>2. CASE UNCHANGED <<blocks, nextId, live, request>>
  BY <1>2, UnchangedBlocks DEF BlocksInv, BlockTypes
<1>3. CASE Reinit
  BY <1>3, ReinitStep DEF Reinit
<1>4. ASSUME NEW t \in Threads, Resources!Allocate(t) PROVE BlocksInv'
  <2>1. PICK r \in Request : Resources!Served(t, r) \/ Resources!Missed(t, r)
    BY <1>4, Configuration DEF Resources!Allocate
  <2> QED
    BY <1>1, <2>1, ServedStep
<1>5. ASSUME NEW t \in Threads, Resources!Proceed(t) PROVE BlocksInv'
  <2>1. CASE Resources!Retry(t)
    <3>1. request[t] \in Request
      BY DEF BlocksInv, BlockTypes
    <3> QED
      BY <1>1, <2>1, <3>1, ServedStep DEF Resources!Retry
  <2>2. CASE Resources!Emplace(t)
    BY <2>2, EmplaceStep
  <2> QED
    BY <1>2, <1>5, <2>1, <2>2 DEF Resources!Proceed, Resources!Exchange, Resources!Release, Resources!Wait
<1>6. ASSUME NEW a \in live, Resources!Free(a) PROVE BlocksInv'
  BY <1>6, FreeStep
<1>7. CASE Resources!Next
  BY <1>4, <1>5, <1>6, <1>7 DEF Resources!Next
<1> QED
  BY <1>2, <1>3, <1>7 DEF MemoryNext, mvars, rvars

(* The first block of a region is one free element. *)
LEMMA BlocksInit == MemoryInit => BlocksInv
<1> SUFFICES ASSUME MemoryInit PROVE BlocksInv
  OBVIOUS
<1> DEFINE b == Resources!Block(0, FirstSize)
<1>1. b \in BlockType /\ b.id = 0 /\ b.size = FirstSize /\ Tiled(b.free, {}, b.size)
  BY Configuration, NewBlock
<1>2. /\ blocks = <<b>> /\ nextId = 1 /\ live = {}
      /\ request = [t \in Threads |-> [size |-> 0, alignment |-> 1]]
  BY DEF MemoryInit, Resources!Init
<1> HIDE DEF b
<1>3. blocks \in Seq(BlockType) /\ Len(blocks) = 1 /\ blocks # <<>> /\ blocks[1] = b
  BY <1>1, <1>2
<1>4. [size |-> 0, alignment |-> 1] \in Request
  BY DEF Request
<1>5. BlockTypes
  BY <1>2, <1>3, <1>4 DEF BlockTypes
<1>6. \A i \in 1 .. Len(blocks) : i = 1
  BY <1>3
<1>7. Identified
  BY <1>1, <1>2, <1>3, <1>6 DEF Identified
<1>8. Extents(0, live) = {}
  BY <1>2 DEF Extents
<1> QED
  BY <1>1, <1>2, <1>3, <1>5, <1>6, <1>7, <1>8 DEF BlocksInv

(* Hence in every reachable state. *)
LEMMA BlocksInvariant ==
    ASSUME Roomy
    PROVE  MemorySpec => []BlocksInv
<1>1. BlocksInv /\ [MemoryNext]_mvars => BlocksInv'
  BY BlocksStep
<1> QED
  BY <1>1, BlocksInit, PTL DEF MemorySpec

(* The invariant in terms of the bytes of a block. *)
LEMMA BlocksTiled == BlocksInv => SpaceIsTiled
<1> SUFFICES ASSUME BlocksInv PROVE Resources!SpaceIsTiled
  BY DEF SpaceIsTiled
<1>1. \A a \in live : (a.header + Header) % a.alignment = 0
  BY DEF BlocksInv, Aligned
<1>2. ASSUME NEW i \in DOMAIN blocks
      PROVE  LET b == blocks[i]
                 parts == Resources!Owned(b) \cup Resources!Range(b.free)
             IN  /\ \A e, f \in parts : e = f \/ Resources!Bytes(e) \cap Resources!Bytes(f) = {}
                 /\ UNION {Resources!Bytes(e) : e \in parts} = 0 .. b.size - 1
                 /\ \A j \in 2 .. Len(b.free) :
                       b.free[j - 1].start + b.free[j - 1].size < b.free[j].start
  <2> DEFINE b == blocks[i]
             list == b.free
             owned == Resources!Owned(b)
             size == b.size
             parts == owned \cup Resources!Range(list)
  <2>1. i \in 1 .. Len(blocks)
    BY DEF BlocksInv, BlockTypes
  <2>2. list \in Seq(Element) /\ size \in Nat \ {0}
    BY <2>1, BlockFields DEF BlocksInv
  <2>3. owned = Extents(b.id, live)
    BY DEF Resources!Owned, Extents
  <2>4. owned \in SUBSET Element /\ Tiled(list, owned, size)
    BY <2>1, <2>3, ExtentsType DEF BlocksInv, BlockTypes
  <2> HIDE DEF owned, size, list, b
  <2>5. Resources!Range(list) = {list[j] : j \in 1 .. Len(list)}
    BY <2>2 DEF Resources!Range
  <2>6. \A e \in parts : e \in Element /\ End(e) <= size
    BY <2>2, <2>4, <2>5, FreeType DEF Tiled
  <2>7. \A e \in Element : \A p : p \in Resources!Bytes(e) <=> p \in Nat /\ Covers(e, p)
    BY ElementType DEF Resources!Bytes, Covers, End
  <2>8. ASSUME NEW e \in parts, NEW f \in parts, e # f PROVE Apart(e, f)
    <3>1. CASE e \in owned /\ f \in owned
      BY <2>4, <2>8, <3>1 DEF Tiled
    <3>2. CASE e \in owned /\ f \in Resources!Range(list)
      BY <2>4, <2>5, <3>2 DEF Tiled, Apart
    <3>3. CASE e \in Resources!Range(list) /\ f \in owned
      BY <2>4, <2>5, <3>3 DEF Tiled
    <3>4. CASE e \in Resources!Range(list) /\ f \in Resources!Range(list)
      <4>1. PICK j \in 1 .. Len(list), k \in 1 .. Len(list) : e = list[j] /\ f = list[k]
        BY <2>5, <3>4
      <4>2. j < k \/ k < j
        BY <2>2, <2>8, <4>1
      <4>3. End(e) < f.start \/ End(f) < e.start
        BY <2>4, <4>1, <4>2 DEF Tiled, Sorted
      <4> QED
        BY <2>6, <4>3, ElementType DEF Apart
    <3> QED
      BY <3>1, <3>2, <3>3, <3>4
  <2>9. ASSUME NEW e \in parts, NEW f \in parts PROVE e = f \/ Resources!Bytes(e) \cap Resources!Bytes(f) = {}
    <3> SUFFICES ASSUME e # f, NEW p \in Resources!Bytes(e), p \in Resources!Bytes(f) PROVE FALSE
      OBVIOUS
    <3>1. e \in Element /\ f \in Element /\ Apart(e, f)
      BY <2>6, <2>8
    <3>2. p \in Nat /\ Covers(e, p) /\ Covers(f, p)
      BY <2>7, <3>1
    <3>3. p \in Int
      BY <3>2
    <3> QED
      BY <3>1, <3>2, <3>3, ApartCovers
  <2>10. UNION {Resources!Bytes(e) : e \in parts} = 0 .. size - 1
    <3>1. ASSUME NEW e \in parts, NEW p \in Resources!Bytes(e) PROVE p \in 0 .. size - 1
      <4>1. e \in Element /\ End(e) <= size /\ p \in Nat /\ Covers(e, p)
        BY <2>6, <2>7
      <4> QED
        BY <2>2, <4>1, ElementType DEF Covers
    <3>2. ASSUME NEW p \in 0 .. size - 1 PROVE \E e \in parts : p \in Resources!Bytes(e)
      <4>1. \E e \in parts : Covers(e, p)
        BY <2>4, <2>5 DEF Tiled
      <4>2. p \in Nat
        BY <2>2
      <4> QED
        BY <2>6, <2>7, <4>1, <4>2
    <3> QED
      BY <3>1, <3>2
  <2>11. ASSUME NEW j \in 2 .. Len(list) PROVE list[j - 1].start + list[j - 1].size < list[j].start
    <3>1. j - 1 \in 1 .. Len(list) /\ j \in 1 .. Len(list) /\ j - 1 < j
      BY <2>2
    <3> QED
      BY <2>4, <3>1 DEF Tiled, Sorted, End
  <2> QED
    BY <2>9, <2>10, <2>11 DEF b, list, owned, size
<1> QED
  BY <1>1, <1>2 DEF Resources!SpaceIsTiled

(* The allocator for resources neither loses a byte nor gives it away twice, *)
(* and returns aligned memory: in every block the free elements, which are   *)
(* sorted and never adjacent, and the extents of the allocations tile the    *)
(* block, for any number of threads, any sizes and alignments, if no block   *)
(* is used to the last element when runtime::init asks is_free().            *)
THEOREM BlocksAreTiled ==
    ASSUME Roomy
    PROVE  MemorySpec => []SpaceIsTiled
BY BlocksInvariant, BlocksTiled, PTL

(* runtime::init, which releases or defragments the memory for resources,    *)
(* keeps every block that has memory in use, and Allocator::free always      *)
(* finds the block of what it is given, under the same condition.            *)
THEOREM BlocksAreKept ==
    ASSUME Roomy
    PROVE  MemorySpec => []BlocksOutliveAllocations
<1>1. ASSUME BlocksInv PROVE BlocksOutliveAllocations
  <2>1. DOMAIN blocks = 1 .. Len(blocks)
    BY <1>1 DEF BlocksInv, BlockTypes
  <2>2. \A a \in live : \E i \in 1 .. Len(blocks) : blocks[i].id = a.block
    BY <1>1 DEF BlocksInv, Identified
  <2> QED
    BY <2>1, <2>2 DEF BlocksOutliveAllocations, Resources!BlocksOutliveAllocations
<1> QED
  BY <1>1, BlocksInvariant, PTL
=============================================================================
