--------------------------- MODULE Interp_proofs ----------------------------
(* The interpreter and its variables, for all programs, values, scopes and  *)
(* slices. First which lists an append and a store may change, what an      *)
(* assignment does to what is seen, and that a subshell leaves the scopes   *)
(* of its parent alone: the interpreter changes variables and lists by      *)
(* these operators only. Then what a statement puts back, whatever it runs  *)
(* and however it ends, by induction over the statements that may still     *)
(* start; that while loops end; and how pushd and popd move the shell.      *)
EXTENDS Interp, SequenceTheorems, Recursion_proofs, TLAPS

Strings == Seq(STRING)
Arrays == Seq(Strings)
Heaps == Seq(Arrays)

\* A slice of a heap: a part of one of its arrays, from its beginning.
Slices(heap) ==
  {l \in [arr : Nat, len : Nat] : l.arr + 1 \in 1..Len(heap) /\ l.len <= Len(heap[l.arr + 1])}

LEMMA ElementsAre ==
  ASSUME NEW heap \in Heaps, NEW l \in Slices(heap)
  PROVE  /\ Elements(heap, l) \in Arrays /\ Len(Elements(heap, l)) = l.len
         /\ heap[l.arr + 1] \in Arrays
         /\ \A i \in 1..l.len : Elements(heap, l)[i] = heap[l.arr + 1][i]
<1>1. heap[l.arr + 1] \in Arrays /\ l.len \in Nat /\ l.len <= Len(heap[l.arr + 1])
  BY DEF Heaps, Slices
<1> DEFINE s == heap[l.arr + 1]
<1> HIDE DEF s
<1>2. s \in Arrays /\ l.len \in Nat /\ l.len <= Len(s)
  BY <1>1 DEF s
<1>3. \A i \in 1..l.len : s[i] \in Strings
  BY <1>2 DEF Arrays
<1>4. /\ SubSeq(s, 1, l.len) \in Seq(Strings)
      /\ Len(SubSeq(s, 1, l.len)) = IF 1 <= l.len THEN l.len - 1 + 1 ELSE 0
      /\ \A i \in 1..l.len - 1 + 1 : SubSeq(s, 1, l.len)[i] = s[1 + i - 1]
  BY <1>2, <1>3, SubSeqProperties
<1>5. Elements(heap, l) = SubSeq(s, 1, l.len)
  BY DEF Elements, s
<1> HIDE DEF Strings
<1> QED BY <1>1, <1>2, <1>4, <1>5 DEF Arrays, s

\* Two slices with the same elements show the same.
LEMMA SameElements ==
  ASSUME NEW heap \in Heaps, NEW l \in Slices(heap),
         NEW other \in Heaps, NEW m \in Slices(other), l.len = m.len,
         \A i \in 1..l.len : heap[l.arr + 1][i] = other[m.arr + 1][i]
  PROVE  Elements(heap, l) = Elements(other, m)
<1>1. /\ Elements(heap, l) \in Seq(Strings) /\ Elements(other, m) \in Seq(Strings)
      /\ Len(Elements(heap, l)) = l.len /\ Len(Elements(other, m)) = l.len
      /\ \A i \in 1..l.len : Elements(heap, l)[i] = heap[l.arr + 1][i]
      /\ \A i \in 1..l.len : Elements(other, m)[i] = other[m.arr + 1][i]
  BY ElementsAre DEF Arrays
<1> QED BY <1>1, SeqEqual

\* A new array at the end of the heap changes no slice.
LEMMA NewArray ==
  ASSUME NEW heap \in Heaps, NEW t \in Arrays,
         NEW new, new = Append(heap, t)
  PROVE  /\ new \in Heaps /\ Len(new) = Len(heap) + 1 /\ new[Len(heap) + 1] = t
         /\ \A m \in Slices(heap) :
              m \in Slices(new) /\ Elements(new, m) = Elements(heap, m)
<1> HIDE DEF Arrays
<1>1. /\ new \in Heaps /\ Len(new) = Len(heap) + 1 /\ new[Len(heap) + 1] = t
      /\ \A i \in 1..Len(heap) : new[i] = heap[i]
  <2> HIDE DEF Arrays
  <2> QED BY AppendProperties DEF Heaps
<1>2. ASSUME NEW m \in Slices(heap)
      PROVE  m \in Slices(new) /\ Elements(new, m) = Elements(heap, m)
  <2>1. /\ m.arr + 1 \in 1..Len(heap) /\ m.len \in Nat /\ m \in [arr : Nat, len : Nat]
        /\ m.len <= Len(heap[m.arr + 1])
    BY DEF Slices
  <2>2. new[m.arr + 1] = heap[m.arr + 1] /\ Len(heap) \in Nat
    BY <1>1, <2>1, LenProperties DEF Heaps
  <2>3. m \in Slices(new)
    BY <1>1, <2>1, <2>2 DEF Slices
  <2> QED BY <1>1, <2>2, <2>3, SameElements
<1> QED BY <1>1, <1>2

\* A heap in which only one array changed, behind its first n elements.
ChangedBehind(heap, new, k, n) ==
  /\ new \in Heaps /\ Len(new) = Len(heap) /\ Len(new[k]) = Len(heap[k])
  /\ \A i \in 1..Len(heap) : i # k => new[i] = heap[i]
  /\ \A i \in 1..Len(heap[k]) : i <= n => new[k][i] = heap[k][i]

\* It changes no slice of these elements.
LEMMA ChangedArray ==
  ASSUME NEW heap \in Heaps, NEW k \in 1..Len(heap), NEW n \in Nat,
         NEW new, ChangedBehind(heap, new, k, n)
  PROVE  \A m \in Slices(heap) :
           /\ m \in Slices(new)
           /\ m.arr + 1 # k \/ m.len <= n => Elements(new, m) = Elements(heap, m)
<1> DEFINE t == new[k]
<1> HIDE DEF t
<1>1. /\ new \in Heaps /\ Len(new) = Len(heap) /\ new[k] = t
      /\ \A i \in 1..Len(heap) : i # k => new[i] = heap[i]
      /\ Len(t) = Len(heap[k]) /\ \A i \in 1..Len(t) : i <= n => t[i] = heap[k][i]
  BY DEF ChangedBehind, t
<1>2. ASSUME NEW m \in Slices(heap)
      PROVE  /\ m \in Slices(new)
             /\ m.arr + 1 # k \/ m.len <= n => Elements(new, m) = Elements(heap, m)
  <2>1. /\ m.arr + 1 \in 1..Len(heap) /\ m.len \in Nat /\ m \in [arr : Nat, len : Nat]
        /\ m.len <= Len(heap[m.arr + 1])
    BY DEF Slices
  <2>2. Len(new[m.arr + 1]) = Len(heap[m.arr + 1])
    BY <1>1, <2>1
  <2>3. m \in Slices(new)
    BY <1>1, <2>1, <2>2 DEF Slices
  <2>4. ASSUME m.arr + 1 # k \/ m.len <= n, NEW i \in 1..m.len
        PROVE  heap[m.arr + 1][i] = new[m.arr + 1][i]
    <3>1. CASE m.arr + 1 # k
      BY <1>1, <2>1, <3>1
    <3>2. CASE m.arr + 1 = k /\ m.len <= n
      <4>1. Len(t) \in Nat
        BY <1>1, LenProperties DEF Heaps, Arrays
      <4>2. i \in 1..Len(t) /\ i <= n
        BY <1>1, <2>1, <3>2, <4>1
      <4> QED BY <1>1, <3>2, <4>2
    <3> QED BY <2>4, <3>1, <3>2
  <2>5. ASSUME m.arr + 1 # k \/ m.len <= n
        PROVE  Elements(new, m) = Elements(heap, m)
    <3>1. \A i \in 1..m.len : heap[m.arr + 1][i] = new[m.arr + 1][i]
      BY <2>4, <2>5
    <3>2. new \in Heaps
      BY <1>1
    <3> QED BY <2>3, <3>1, <3>2, SameElements, Zenon
  <2> QED BY <2>3, <2>5
<1> QED BY <1>1, <1>2

(* A list that is built (an assignment, a list's clone) is new: it shows    *)
(* its elements and changes no other (vars.go, setVarWithIndex and          *)
(* assignVal).                                                              *)
THEOREM NewListsAreOwn ==
  ASSUME NEW heap \in Heaps, NEW xs \in Arrays,
         NEW made, made = MakeSlice(heap, xs)
  PROVE  /\ made.heap \in Heaps /\ made.list \in Slices(made.heap)
         /\ Elements(made.heap, made.list) = xs
         /\ \A m \in Slices(heap) :
              m \in Slices(made.heap) /\ Elements(made.heap, m) = Elements(heap, m)
<1>1. made.heap = Append(heap, xs) /\ made.list = [arr |-> Len(heap), len |-> Len(xs)]
  BY DEF MakeSlice
<1>2. /\ made.heap \in Heaps /\ Len(made.heap) = Len(heap) + 1
      /\ made.heap[Len(heap) + 1] = xs
      /\ \A m \in Slices(heap) :
           m \in Slices(made.heap) /\ Elements(made.heap, m) = Elements(heap, m)
  <2>1. \A new : new = Append(heap, xs) =>
          /\ new \in Heaps /\ Len(new) = Len(heap) + 1 /\ new[Len(heap) + 1] = xs
          /\ \A m \in Slices(heap) :
               m \in Slices(new) /\ Elements(new, m) = Elements(heap, m)
    BY NewArray
  <2> QED BY <1>1, <2>1
<1>3. Len(heap) \in Nat /\ Len(xs) \in Nat
  BY LenProperties DEF Heaps, Arrays
<1>4. made.list \in Slices(made.heap)
  BY <1>1, <1>2, <1>3 DEF Slices
<1>5. /\ Elements(made.heap, made.list) \in Seq(Strings) /\ xs \in Seq(Strings)
      /\ Len(Elements(made.heap, made.list)) = Len(xs)
      /\ \A i \in 1..Len(xs) : Elements(made.heap, made.list)[i] = xs[i]
  <2>1. made.list.len = Len(xs) /\ made.list.arr + 1 = Len(heap) + 1
    BY <1>1
  <2>2. made.heap[made.list.arr + 1] = xs
    BY <1>2, <2>1
  <2> QED BY <1>2, <1>4, <2>1, <2>2, ElementsAre DEF Arrays
<1>6. Elements(made.heap, made.list) = xs
  BY <1>5, SeqEqual
<1> QED BY <1>2, <1>4, <1>6

(* A store into an element shows in every list of the array that reaches    *)
(* that far, and in no other: this is what += on the first element does to  *)
(* the copies of a list (vars.go, assignVal).                               *)
THEOREM StoresReachTheArray ==
  ASSUME NEW heap \in Heaps, NEW l \in Slices(heap), NEW i \in 1..l.len, NEW x \in Strings,
         NEW new, new = StoreAt(heap, l, i, x)
  PROVE  /\ new \in Heaps
         /\ \A m \in Slices(heap) :
              /\ m \in Slices(new)
              /\ IF m.arr = l.arr /\ i <= m.len
                 THEN Elements(new, m)[i] = x
                 ELSE Elements(new, m) = Elements(heap, m)
<1> DEFINE k == l.arr + 1
           t == [heap[k] EXCEPT ![i] = x]
<1>1. /\ k \in 1..Len(heap) /\ l.arr \in Nat /\ l.len \in Nat /\ l.len <= Len(heap[k])
      /\ heap[k] \in Arrays
  BY ElementsAre DEF Slices
<1>2. Len(heap[k]) \in Nat
  BY <1>1, LenProperties DEF Arrays
<1>3. /\ t \in Arrays /\ Len(t) = Len(heap[k]) /\ t[i] = x
      /\ \A j \in 1..Len(heap[k]) : j # i => t[j] = heap[k][j]
  <2> HIDE DEF Strings, k
  <2>1. i \in 1..Len(heap[k])
    BY <1>1, <1>2
  <2> QED BY <1>1, <2>1, ExceptSeq DEF Arrays
<1>4. new = [heap EXCEPT ![k] = t]
  BY DEF StoreAt
<1> HIDE DEF k, t
<1>5. /\ new \in Heaps /\ new[k] = t
      /\ \A m \in Slices(heap) :
           /\ m \in Slices(new)
           /\ m.arr + 1 # k \/ m.len <= i - 1 => Elements(new, m) = Elements(heap, m)
  <2>1. i - 1 \in Nat /\ \A j \in 1..Len(t) : j <= i - 1 => t[j] = heap[k][j]
    BY <1>1, <1>2, <1>3
  <2>2. /\ new \in Heaps /\ Len(new) = Len(heap) /\ new[k] = t
        /\ \A j \in 1..Len(heap) : j # k => new[j] = heap[j]
    <3> HIDE DEF Arrays
    <3> QED BY <1>1, <1>3, <1>4, ExceptSeq DEF Heaps
  <2> DEFINE n == i - 1
  <2>3. n \in Nat /\ ChangedBehind(heap, new, k, n)
    BY <1>3, <2>1, <2>2 DEF ChangedBehind
  <2> HIDE DEF n
  <2>4. \A m \in Slices(heap) :
          /\ m \in Slices(new)
          /\ m.arr + 1 # k \/ m.len <= n => Elements(new, m) = Elements(heap, m)
    BY <1>1, <2>3, ChangedArray
  <2> QED BY <2>2, <2>4 DEF n
<1>6. ASSUME NEW m \in Slices(heap)
      PROVE  IF m.arr = l.arr /\ i <= m.len
             THEN Elements(new, m)[i] = x
             ELSE Elements(new, m) = Elements(heap, m)
  <2>1. m.arr \in Nat /\ m.len \in Nat /\ i \in Nat \ {0}
    BY <1>1 DEF Slices
  <2>2. CASE m.arr = l.arr /\ i <= m.len
    <3>1. i \in 1..m.len /\ m.arr + 1 = k
      BY <2>1, <2>2 DEF k
    <3> QED BY <1>3, <1>5, <2>2, <3>1, ElementsAre
  <2>3. CASE ~(m.arr = l.arr /\ i <= m.len)
    <3>1. m.arr + 1 # k \/ m.len <= i - 1
      BY <1>1, <2>1, <2>3 DEF k
    <3> QED BY <1>5, <2>3, <3>1
  <2> QED BY <2>2, <2>3
<1> QED BY <1>5, <1>6

\* AppendSlice with the capacity that there is, and with an array of its own.
LEMMA AppendInPlace ==
  ASSUME NEW heap \in Heaps, NEW l \in Slices(heap), NEW xs \in Arrays, xs # <<>>,
         l.len + Len(xs) <= Len(heap[l.arr + 1]),
         NEW new, new = AppendSlice(heap, l, xs)
  PROVE  /\ new.heap \in Heaps /\ new.list \in Slices(new.heap)
         /\ Elements(new.heap, new.list) = Elements(heap, l) \o xs
         /\ \A m \in Slices(heap) :
              /\ m \in Slices(new.heap)
              /\ m.arr # l.arr \/ m.len <= l.len =>
                   Elements(new.heap, m) = Elements(heap, m)
<1> DEFINE k == l.arr + 1
           array == heap[k]
           need == l.len + Len(xs)
           At(i) == IF i <= l.len THEN array[i]
                    ELSE IF i <= need THEN xs[i - l.len]
                    ELSE IF i <= Len(array) THEN array[i] ELSE <<>>
           t == [i \in 1..Len(array) |-> At(i)]
<1>1. new.heap = [heap EXCEPT ![k] = t] /\ new.list = [l EXCEPT !.len = need]
  BY Zenon DEF AppendSlice
<1>2. /\ k \in 1..Len(heap) /\ l.arr \in Nat /\ l.len \in Nat /\ l.len <= Len(array)
      /\ array \in Arrays /\ l \in [arr : Nat, len : Nat]
  BY ElementsAre DEF Slices
<1>3. Len(array) \in Nat /\ Len(xs) \in Nat /\ need \in Nat /\ need <= Len(array)
  BY <1>2, LenProperties DEF Arrays
<1>4. \A i \in 1..Len(array) : At(i) \in Strings
  <2> HIDE DEF array, Strings
  <2>1. \A i \in 1..Len(array) : array[i] \in Strings
    BY <1>2 DEF Arrays
  <2>2. \A i \in 1..Len(xs) : xs[i] \in Strings
    BY DEF Arrays
  <2>3. <<>> \in Strings
    BY DEF Strings
  <2> QED BY <1>2, <1>3, <2>1, <2>2, <2>3
<1>5. /\ t \in Arrays /\ Len(t) = Len(array)
      /\ \A i \in 1..Len(array) : t[i] = At(i)
  <2> HIDE DEF Strings, array, At
  <2> QED BY <1>3, <1>4 DEF Arrays
<1>6. /\ \A i \in 1..l.len : t[i] = array[i]
      /\ \A i \in 1..Len(xs) : t[l.len + i] = xs[i]
  <2> HIDE DEF array, t
  <2>1. \A i \in 1..l.len : i \in 1..Len(array) /\ At(i) = array[i]
    BY <1>2, <1>3
  <2>2. \A i \in 1..Len(xs) : l.len + i \in 1..Len(array) /\ At(l.len + i) = xs[i]
    BY <1>2, <1>3
  <2> QED BY <1>5, <2>1, <2>2
<1> HIDE DEF At, t
<1>7. /\ new.heap \in Heaps /\ Len(new.heap) = Len(heap) /\ new.heap[k] = t
      /\ \A j \in 1..Len(heap) : j # k => new.heap[j] = heap[j]
  <2> HIDE DEF Arrays, k
  <2> QED BY <1>1, <1>2, <1>5, ExceptSeq DEF Heaps
<1>8. \A m \in Slices(heap) :
        /\ m \in Slices(new.heap)
        /\ m.arr # l.arr \/ m.len <= l.len => Elements(new.heap, m) = Elements(heap, m)
  <2> DEFINE n == l.len
             grown == new.heap
  <2>1. n \in Nat /\ \A j \in 1..Len(t) : j <= n => t[j] = array[j]
    BY <1>2, <1>3, <1>5, <1>6
  <2>2. \A m \in Slices(heap) : m.arr # l.arr => m.arr + 1 # k
    BY <1>2 DEF Slices
  <2> HIDE DEF k, n, grown
  <2>3. ChangedBehind(heap, grown, k, n)
    <3>1. /\ grown \in Heaps /\ Len(grown) = Len(heap) /\ grown[k] = t
          /\ \A j \in 1..Len(heap) : j # k => grown[j] = heap[j]
      BY <1>7 DEF grown
    <3> QED BY <1>5, <2>1, <3>1 DEF ChangedBehind
  <2>4. \A m \in Slices(heap) :
          /\ m \in Slices(grown)
          /\ m.arr + 1 # k \/ m.len <= n => Elements(grown, m) = Elements(heap, m)
    BY <1>2, <2>1, <2>3, ChangedArray
  <2> QED BY <2>2, <2>4 DEF n, grown
<1>9. /\ new.list.arr = l.arr /\ new.list.len = need
      /\ new.list \in Slices(new.heap)
  <2> HIDE DEF array, need
  <2>1. new.list \in [arr : Nat, len : Nat] /\ new.list.arr = l.arr /\ new.list.len = need
    BY <1>1, <1>2, <1>3
  <2> QED BY <1>2, <1>3, <1>5, <1>7, <2>1 DEF Slices
<1>10. Elements(new.heap, new.list) = Elements(heap, l) \o xs
  <2> DEFINE is == Elements(new.heap, new.list)
             was == Elements(heap, l)
  <2> HIDE DEF array
  <2>1. /\ is \in Seq(Strings) /\ Len(is) = need
        /\ \A i \in 1..need : is[i] = t[i]
    <3>1. new.heap[new.list.arr + 1] = t
      BY <1>7, <1>9
    <3>2. new.heap \in Heaps /\ new.list \in Slices(new.heap) /\ new.list.len = need
      BY <1>7, <1>9
    <3> HIDE DEF need, k, t
    <3>3. /\ is \in Arrays /\ Len(is) = new.list.len
          /\ \A i \in 1..new.list.len : is[i] = new.heap[new.list.arr + 1][i]
      BY <3>2, ElementsAre
    <3> HIDE DEF is
    <3> QED BY <3>1, <3>2, <3>3 DEF Arrays
  <2>2. /\ was \in Seq(Strings) /\ Len(was) = l.len
        /\ \A i \in 1..l.len : was[i] = array[i]
    BY ElementsAre DEF Arrays, array
  <2>3. xs \in Seq(Strings)
    BY DEF Arrays
  <2> HIDE DEF is, was, Strings
  <2>4. /\ was \o xs \in Seq(Strings) /\ Len(was \o xs) = need
        /\ \A i \in 1..need : (was \o xs)[i] = IF i <= l.len THEN was[i] ELSE xs[i - l.len]
    BY <2>2, <2>3, ConcatProperties
  <2>5. ASSUME NEW i \in 1..need PROVE is[i] = (was \o xs)[i]
    <3>1. CASE i <= l.len
      <4>1. i \in 1..l.len
        BY <1>2, <1>3, <3>1
      <4>2. is[i] = t[i] /\ t[i] = array[i] /\ was[i] = array[i]
        BY <1>6, <2>1, <2>2, <4>1
      <4> QED BY <2>4, <3>1, <4>2
    <3>2. CASE ~(i <= l.len)
      <4>1. i - l.len \in 1..Len(xs) /\ l.len + (i - l.len) = i
        BY <1>2, <1>3, <3>2
      <4> QED BY <1>6, <2>1, <2>4, <3>2, <4>1
    <3> QED BY <3>1, <3>2
  <2>6. is = was \o xs
    <3> HIDE DEF need
    <3> QED BY <2>1, <2>4, <2>5, SeqEqual
  <2> QED BY <2>6 DEF is, was
<1> QED BY <1>7, <1>8, <1>9, <1>10

\* AppendSlice into a new array, of twice the capacity or of what is needed.
LEMMA AppendGrows ==
  ASSUME NEW heap \in Heaps, NEW l \in Slices(heap), NEW xs \in Arrays, xs # <<>>,
         ~(l.len + Len(xs) <= Len(heap[l.arr + 1])),
         NEW new, new = AppendSlice(heap, l, xs)
  PROVE  /\ new.heap \in Heaps /\ new.list \in Slices(new.heap)
         /\ Elements(new.heap, new.list) = Elements(heap, l) \o xs
         /\ \A m \in Slices(heap) :
              /\ m \in Slices(new.heap)
              /\ Elements(new.heap, m) = Elements(heap, m)
<1> DEFINE array == heap[l.arr + 1]
           cap == Len(array)
           need == l.len + Len(xs)
           grown == IF 2 * cap >= need THEN 2 * cap ELSE need
           At(i) == IF i <= l.len THEN array[i]
                    ELSE IF i <= need THEN xs[i - l.len]
                    ELSE IF i <= cap THEN array[i] ELSE <<>>
           t == [i \in 1..grown |-> At(i)]
<1>1. new.heap = Append(heap, t) /\ new.list = [arr |-> Len(heap), len |-> need]
  BY Zenon DEF AppendSlice
<1>2. l.len \in Nat /\ l.len <= cap /\ array \in Arrays
  BY ElementsAre DEF Slices
<1>3. /\ cap \in Nat /\ Len(xs) \in Nat /\ need \in Nat /\ Len(heap) \in Nat
      /\ grown \in Nat /\ need <= grown
  BY <1>2, LenProperties DEF Arrays, Heaps
<1> HIDE DEF cap, grown
<1>4. /\ \A i \in 1..l.len : i \in 1..grown /\ At(i) = array[i]
      /\ \A i \in 1..Len(xs) : l.len + i \in 1..grown /\ At(l.len + i) = xs[i]
  <2> HIDE DEF array
  <2>1. ASSUME NEW i \in 1..l.len PROVE i \in 1..grown /\ At(i) = array[i]
    BY <1>2, <1>3
  <2>2. ASSUME NEW i \in 1..Len(xs) PROVE l.len + i \in 1..grown /\ At(l.len + i) = xs[i]
    <3>1. l.len + i \in 1..grown /\ ~(l.len + i <= l.len) /\ l.len + i <= need
      BY <1>2, <1>3
    <3>2. (l.len + i) - l.len = i
      BY <1>2
    <3> QED BY <3>1, <3>2
  <2> HIDE DEF At
  <2> QED BY <2>1, <2>2
<1>5. \A i \in 1..grown : At(i) \in Strings
  <2>1. \A i \in 1..cap : array[i] \in Strings
    BY <1>2 DEF Arrays, cap
  <2>2. \A i \in 1..Len(xs) : xs[i] \in Strings
    BY DEF Arrays
  <2>3. <<>> \in Strings
    BY DEF Strings
  <2> HIDE DEF array, Strings
  <2> QED BY <1>2, <1>3, <2>1, <2>2, <2>3
<1>6. /\ t \in Arrays /\ Len(t) = grown
      /\ \A i \in 1..l.len : t[i] = array[i]
      /\ \A i \in 1..Len(xs) : t[l.len + i] = xs[i]
  <2>1. t \in Arrays /\ Len(t) = grown
    <3> HIDE DEF Strings, array, At
    <3> QED BY <1>3, <1>5 DEF Arrays
  <2>2. \A i \in 1..grown : t[i] = At(i)
    <3> HIDE DEF At
    <3> QED OBVIOUS
  <2> HIDE DEF t, array
  <2> QED BY <1>4, <2>1, <2>2
<1> HIDE DEF At, t
<1>7. /\ new.heap \in Heaps /\ Len(new.heap) = Len(heap) + 1 /\ new.heap[Len(heap) + 1] = t
      /\ \A m \in Slices(heap) :
           m \in Slices(new.heap) /\ Elements(new.heap, m) = Elements(heap, m)
  <2>1. \A x : x = Append(heap, t) =>
          /\ x \in Heaps /\ Len(x) = Len(heap) + 1 /\ x[Len(heap) + 1] = t
          /\ \A m \in Slices(heap) :
               m \in Slices(x) /\ Elements(x, m) = Elements(heap, m)
    BY <1>6, NewArray
  <2> QED BY <1>1, <2>1
<1>8. /\ new.list.arr + 1 = Len(heap) + 1 /\ new.list.len = need
      /\ new.list \in Slices(new.heap)
  <2> HIDE DEF array, need
  <2>1. new.list \in [arr : Nat, len : Nat] /\ new.list.arr = Len(heap) /\ new.list.len = need
    BY <1>1, <1>3
  <2>2. new.list.arr + 1 \in 1..Len(new.heap) /\ new.heap[new.list.arr + 1] = t
    BY <1>3, <1>7, <2>1
  <2>3. new.list.len <= Len(new.heap[new.list.arr + 1])
    BY <1>3, <1>6, <2>1, <2>2
  <2> QED BY <2>1, <2>2, <2>3 DEF Slices
<1>9. Elements(new.heap, new.list) = Elements(heap, l) \o xs
  <2> DEFINE is == Elements(new.heap, new.list)
             was == Elements(heap, l)
  <2> HIDE DEF array
  <2>1. /\ is \in Seq(Strings) /\ Len(is) = need
        /\ \A i \in 1..need : is[i] = t[i]
    <3>1. new.heap[new.list.arr + 1] = t
      BY <1>7, <1>8
    <3> HIDE DEF need
    <3> QED BY <1>7, <1>8, <3>1, ElementsAre DEF Arrays
  <2>2. /\ was \in Seq(Strings) /\ Len(was) = l.len
        /\ \A i \in 1..l.len : was[i] = array[i]
    BY ElementsAre DEF Arrays, array
  <2>3. xs \in Seq(Strings)
    BY DEF Arrays
  <2> HIDE DEF is, was, Strings
  <2>4. /\ was \o xs \in Seq(Strings) /\ Len(was \o xs) = need
        /\ \A i \in 1..need : (was \o xs)[i] = IF i <= l.len THEN was[i] ELSE xs[i - l.len]
    <3>1. /\ was \o xs \in Seq(Strings) /\ Len(was \o xs) = Len(was) + Len(xs)
          /\ \A i \in 1..Len(was) + Len(xs) :
               (was \o xs)[i] = IF i <= Len(was) THEN was[i] ELSE xs[i - Len(was)]
      BY <2>2, <2>3, ConcatProperties
    <3> QED BY <2>2, <3>1
  <2>5. ASSUME NEW i \in 1..need PROVE is[i] = (was \o xs)[i]
    <3>1. CASE i <= l.len
      <4>1. i \in 1..l.len
        BY <1>2, <1>3, <3>1
      <4>2. is[i] = t[i] /\ t[i] = array[i] /\ was[i] = array[i]
        BY <1>6, <2>1, <2>2, <4>1
      <4> QED BY <2>4, <3>1, <4>2
    <3>2. CASE ~(i <= l.len)
      <4>1. i - l.len \in 1..Len(xs) /\ l.len + (i - l.len) = i
        BY <1>2, <1>3, <3>2
      <4> QED BY <1>6, <2>1, <2>4, <3>2, <4>1
    <3> QED BY <3>1, <3>2
  <2>6. is = was \o xs
    <3> HIDE DEF need
    <3> QED BY <2>1, <2>4, <2>5, SeqEqual
  <2> QED BY <2>6 DEF is, was
<1> QED BY <1>7, <1>8, <1>9

(* append: the list has the new elements behind its old ones, and another   *)
(* list changes only if it is longer and of the same array, whose capacity  *)
(* was enough: the one way in which a subshell's += reaches its parent      *)
(* (kish-sh/interp/vars.go, assignVal).                                     *)
THEOREM AppendsReachLongerListsOnly ==
  ASSUME NEW heap \in Heaps, NEW l \in Slices(heap), NEW xs \in Arrays,
         NEW new, new = AppendSlice(heap, l, xs)
  PROVE  /\ new.heap \in Heaps /\ new.list \in Slices(new.heap)
         /\ Elements(new.heap, new.list) = Elements(heap, l) \o xs
         /\ \A m \in Slices(heap) :
              /\ m \in Slices(new.heap)
              /\ \/ m.arr # l.arr \/ m.len <= l.len
                 \/ l.len + Len(xs) > Len(heap[l.arr + 1]) =>
                   Elements(new.heap, m) = Elements(heap, m)
<1>1. CASE xs = <<>>
  <2>1. new.heap = heap /\ new.list = l
    BY <1>1 DEF AppendSlice
  <2>2. Elements(heap, l) \o xs = Elements(heap, l)
    BY <1>1, ElementsAre, ConcatEmptySeq DEF Arrays
  <2> QED BY <2>1, <2>2
<1>2. CASE xs # <<>> /\ l.len + Len(xs) <= Len(heap[l.arr + 1])
  <2>1. ~(l.len + Len(xs) > Len(heap[l.arr + 1]))
    <3>1. l.len \in Nat /\ Len(xs) \in Nat /\ Len(heap[l.arr + 1]) \in Nat
      BY ElementsAre, LenProperties DEF Slices, Arrays
    <3> QED BY <1>2, <3>1
  <2>2. /\ new.heap \in Heaps /\ new.list \in Slices(new.heap)
        /\ Elements(new.heap, new.list) = Elements(heap, l) \o xs
        /\ \A m \in Slices(heap) :
             /\ m \in Slices(new.heap)
             /\ m.arr # l.arr \/ m.len <= l.len =>
                  Elements(new.heap, m) = Elements(heap, m)
    BY <1>2, AppendInPlace
  <2> QED BY <2>1, <2>2
<1>3. CASE xs # <<>> /\ ~(l.len + Len(xs) <= Len(heap[l.arr + 1]))
  <2>1. /\ new.heap \in Heaps /\ new.list \in Slices(new.heap)
        /\ Elements(new.heap, new.list) = Elements(heap, l) \o xs
        /\ \A m \in Slices(heap) :
             /\ m \in Slices(new.heap)
             /\ Elements(new.heap, m) = Elements(heap, m)
    BY <1>3, AppendGrows
  <2> QED BY <2>1
<1> QED BY <1>1, <1>2, <1>3

---------------------------------------------------------------------------
(* Scopes. *)

Kinds == {"Unknown", "String", "Indexed", "NameRef", "KeepValue"}

Vars ==
  [set : BOOLEAN, local : BOOLEAN, exported : BOOLEAN, readonly : BOOLEAN,
   kind : Kinds, str : Strings, list : [arr : Nat, len : Nat]]

Maps == UNION {[D -> Vars] : D \in SUBSET VarNames}

Scopes == [func : BOOLEAN, vals : Maps]

\* The first scope is the process's environment or a subshell's, no function's.
Chains == {c \in Seq(Scopes) : Len(c) > 0 /\ ~ c[1].func}

\* A function's scope holds only the function's locals.
WellScoped(c) ==
  \A i \in 1..Len(c) : c[i].func => \A n \in DOMAIN c[i].vals : c[i].vals[n].local

Holds(c, i, n) == n \in DOMAIN c[i].vals

LEMMA MaxIs ==
  ASSUME NEW N \in Nat, NEW S \in SUBSET (1..N), S # {}
  PROVE  Max(S) \in S /\ \A x \in S : x <= Max(S)
<1>1. S \in SUBSET (0..N)
  OBVIOUS
<1>2. PICK m \in S : \A x \in S : x <= m
  BY <1>1, GreatestExists
<1>3. \A x \in S : m >= x
  BY <1>2
<1>4. Max(S) \in S /\ \A x \in S : Max(S) >= x
  BY <1>3, Zenon DEF Max
<1> QED BY <1>4

LEMMA ScopeTypes ==
  ASSUME NEW c \in Chains
  PROVE  /\ Len(c) \in Nat \ {0} /\ DOMAIN c = 1..Len(c) /\ 1 \in 1..Len(c) /\ ~ c[1].func
         /\ \A i \in 1..Len(c) :
              /\ c[i] \in Scopes /\ c[i].func \in BOOLEAN /\ c[i].vals \in Maps
              /\ DOMAIN c[i].vals \subseteq VarNames
              /\ \A n \in DOMAIN c[i].vals : c[i].vals[n] \in Vars
              /\ \A n : Holds(c, i, n) => Own(c, i, n) = c[i].vals[n]
              /\ \A n : ~ Holds(c, i, n) => Own(c, i, n) = Unset
<1> HIDE DEF Scopes
<1>1. /\ c \in Seq(Scopes) /\ Len(c) \in Nat \ {0} /\ DOMAIN c = 1..Len(c)
      /\ 1 \in 1..Len(c) /\ ~ c[1].func
  BY LenProperties DEF Chains
<1>2. \A i \in 1..Len(c) : c[i] \in Scopes
  BY <1>1
<1>3. \A i \in 1..Len(c) : c[i].func \in BOOLEAN /\ c[i].vals \in Maps
  BY <1>2 DEF Scopes
<1>4. \A f \in Maps : DOMAIN f \subseteq VarNames /\ \A n \in DOMAIN f : f[n] \in Vars
  <2> HIDE DEF Vars
  <2> QED BY DEF Maps
<1> HIDE DEF Maps, Vars
<1>5. ASSUME NEW i \in 1..Len(c)
      PROVE  /\ DOMAIN c[i].vals \subseteq VarNames
             /\ \A n \in DOMAIN c[i].vals : c[i].vals[n] \in Vars
  BY <1>3, <1>4
<1>6. ASSUME NEW i \in 1..Len(c), NEW n
      PROVE  /\ Holds(c, i, n) => Own(c, i, n) = c[i].vals[n]
             /\ ~ Holds(c, i, n) => Own(c, i, n) = Unset
  BY DEF Holds, Own
<1> QED BY <1>1, <1>2, <1>3, <1>5, <1>6

\* Get is what the last scope holds that holds the name.
LEMMA GetIs ==
  ASSUME NEW c \in Chains, NEW n
  PROVE  /\ (\A i \in 1..Len(c) : ~ Holds(c, i, n)) => Get(c, n) = Unset
         /\ \A i \in 1..Len(c) :
              Holds(c, i, n) /\ (\A j \in 1..Len(c) : j > i => ~ Holds(c, j, n)) =>
                Get(c, n) = c[i].vals[n]
<1> DEFINE holders == {i \in DOMAIN c : n \in DOMAIN c[i].vals}
<1>1. holders = {i \in 1..Len(c) : Holds(c, i, n)} /\ Len(c) \in Nat
  BY ScopeTypes DEF Holds
<1>2. Get(c, n) = IF holders = {} THEN Unset ELSE Own(c, Max(holders), n)
  BY Zenon DEF Get
<1> HIDE DEF holders
<1>3. ASSUME NEW i \in 1..Len(c), Holds(c, i, n),
             \A j \in 1..Len(c) : j > i => ~ Holds(c, j, n)
      PROVE  Get(c, n) = c[i].vals[n]
  <2>1. i \in holders /\ holders \in SUBSET (1..Len(c))
    BY <1>1, <1>3
  <2>2. Max(holders) \in holders /\ i <= Max(holders)
    BY <1>1, <2>1, MaxIs
  <2>3. Max(holders) = i
    BY <1>1, <1>3, <2>1, <2>2
  <2> QED BY <1>2, <1>3, <2>1, <2>3, ScopeTypes
<1>4. (\A i \in 1..Len(c) : ~ Holds(c, i, n)) => holders = {}
  BY <1>1
<1> QED BY <1>2, <1>3, <1>4

\* Either no scope holds a name, or there is a last one that does.
LEMMA LastHolder ==
  ASSUME NEW c \in Chains, NEW n, NEW k \in 1..Len(c), Holds(c, k, n)
  PROVE  \E i \in 1..Len(c) :
           Holds(c, i, n) /\ \A j \in 1..Len(c) : j > i => ~ Holds(c, j, n)
<1> DEFINE S == {i \in 1..Len(c) : Holds(c, i, n)}
<1>1. Len(c) \in Nat /\ S \in SUBSET (1..Len(c)) /\ k \in S
  BY ScopeTypes
<1>2. Max(S) \in S /\ \A x \in S : x <= Max(S)
  BY <1>1, MaxIs
<1>3. PICK i \in S : \A x \in S : x <= i
  BY <1>2
<1>4. ASSUME NEW j \in 1..Len(c), j > i PROVE ~ Holds(c, j, n)
  BY <1>1, <1>3, <1>4
<1> QED BY <1>3, <1>4

\* Two chains that hold the same of a name show the same.
LEMMA SameGet ==
  ASSUME NEW c \in Chains, NEW d \in Chains, NEW n, Len(c) = Len(d),
         \A i \in 1..Len(c) : (Holds(c, i, n) <=> Holds(d, i, n)) /\ Own(c, i, n) = Own(d, i, n)
  PROVE  Get(c, n) = Get(d, n)
<1>1. CASE \A i \in 1..Len(c) : ~ Holds(c, i, n)
  BY <1>1, GetIs
<1>2. CASE \E k \in 1..Len(c) : Holds(c, k, n)
  <2>1. PICK i \in 1..Len(c) :
          Holds(c, i, n) /\ \A j \in 1..Len(c) : j > i => ~ Holds(c, j, n)
    BY <1>2, LastHolder
  <2>2. Get(c, n) = c[i].vals[n] /\ Get(d, n) = d[i].vals[n]
    BY <2>1, GetIs
  <2>3. Own(c, i, n) = c[i].vals[n] /\ Own(d, i, n) = d[i].vals[n]
    BY <2>1, ScopeTypes
  <2> QED BY <2>2, <2>3
<1> QED BY <1>1, <1>2

\* The scope that takes an assignment, and the ones above it.
Takes(c, i, n, v) == ~ c[i].func \/ v.local \/ Own(c, i, n).local

LEMMA LevelIs ==
  ASSUME NEW c \in Chains, NEW n, NEW v \in Vars,
         NEW i, i = SetLevel(c, n, v)
  PROVE  /\ i \in 1..Len(c) /\ Takes(c, i, n, v)
         /\ \A j \in 1..Len(c) : Takes(c, j, n, v) => j <= i
         /\ WellScoped(c) => \A j \in 1..Len(c) : j > i => ~ Holds(c, j, n)
<1> DEFINE S == {j \in 1..Len(c) : Takes(c, j, n, v)}
<1>1. i = Max(S)
  <2>1. DOMAIN c = 1..Len(c)
    BY ScopeTypes
  <2> QED BY <2>1, Zenon DEF SetLevel, Takes
<1>2. Len(c) \in Nat /\ S \in SUBSET (1..Len(c)) /\ 1 \in S
  BY ScopeTypes DEF Takes
<1>3. i \in S /\ \A j \in S : j <= i
  BY <1>1, <1>2, MaxIs
<1>4. ASSUME WellScoped(c), NEW j \in 1..Len(c), j > i
      PROVE  ~ Holds(c, j, n)
  <2>1. ~ Takes(c, j, n, v)
    BY <1>2, <1>3, <1>4
  <2>2. c[j].func /\ ~ Own(c, j, n).local
    BY <2>1, ScopeTypes DEF Takes
  <2> SUFFICES ASSUME Holds(c, j, n) PROVE FALSE
    OBVIOUS
  <2>3. Own(c, j, n) = c[j].vals[n] /\ c[j].vals[n].local
    BY <1>4, <2>2, ScopeTypes DEF WellScoped, Holds
  <2> QED BY <2>2, <2>3
<1> QED BY <1>3, <1>4

LEMMA GetIsVar ==
  ASSUME NEW c \in Chains, NEW n
  PROVE  Get(c, n) \in Vars
<1>1. Unset \in Vars
  <2>1. << >> \in Strings
    BY DEF Strings
  <2>2. [arr |-> 0, len |-> 0] \in [arr : Nat, len : Nat]
    OBVIOUS
  <2>3. "Unknown" \in Kinds
    BY DEF Kinds
  <2> DEFINE empty == << >>
             nil == [arr |-> 0, len |-> 0]
             Slice == [arr : Nat, len : Nat]
  <2> HIDE DEF empty, nil, Slice
  <2>4. empty \in Strings /\ nil \in Slice
    BY <2>1, <2>2 DEF empty, nil, Slice
  <2>5. Unset = [set |-> FALSE, local |-> FALSE, exported |-> FALSE, readonly |-> FALSE,
                 kind |-> "Unknown", str |-> empty, list |-> nil]
    BY DEF Unset, empty, nil
  <2>6. Vars = [set : BOOLEAN, local : BOOLEAN, exported : BOOLEAN, readonly : BOOLEAN,
                kind : Kinds, str : Strings, list : Slice]
    BY DEF Vars, Slice
  <2> QED BY <2>3, <2>4, <2>5, <2>6
<1>2. CASE \A i \in 1..Len(c) : ~ Holds(c, i, n)
  BY <1>1, <1>2, GetIs
<1>3. CASE \E k \in 1..Len(c) : Holds(c, k, n)
  <2>1. PICK i \in 1..Len(c) :
          Holds(c, i, n) /\ \A j \in 1..Len(c) : j > i => ~ Holds(c, j, n)
    BY <1>3, LastHolder
  <2>2. Get(c, n) = c[i].vals[n]
    BY <2>1, GetIs
  <2> QED BY <2>1, <2>2, ScopeTypes DEF Holds
<1> QED BY <1>2, <1>3

\* What no scope above the i-th holds is seen from there as from the top.
LEMMA PrefixShows ==
  ASSUME NEW c \in Chains, NEW i \in 1..Len(c), NEW n,
         NEW d, d = SubSeq(c, 1, i)
  PROVE  /\ d \in Chains /\ Len(d) = i /\ \A j \in 1..i : d[j] = c[j]
         /\ (\A j \in 1..Len(c) : j > i => ~ Holds(c, j, n)) => Get(d, n) = Get(c, n)
<1>1. c \in Seq(Scopes) /\ Len(c) \in Nat \ {0} /\ i \in Nat \ {0} /\ i <= Len(c)
  BY ScopeTypes DEF Chains
<1> HIDE DEF Scopes
<1>2. d \in Seq(Scopes) /\ Len(d) = i /\ \A j \in 1..i : d[j] = c[j]
  <2>1. \A j \in 1..i : c[j] \in Scopes
    BY <1>1
  <2>2. /\ SubSeq(c, 1, i) \in Seq(Scopes)
        /\ Len(SubSeq(c, 1, i)) = IF 1 <= i THEN i - 1 + 1 ELSE 0
        /\ \A j \in 1..i - 1 + 1 : SubSeq(c, 1, i)[j] = c[1 + j - 1]
    BY <1>1, <2>1, SubSeqProperties
  <2> QED BY <1>1, <2>2
<1>3. d \in Chains
  <2>1. 1 \in 1..i /\ ~ c[1].func
    BY <1>1, ScopeTypes
  <2>2. d[1] = c[1] /\ Len(d) > 0
    BY <1>1, <1>2, <2>1
  <2> QED BY <1>2, <2>1, <2>2 DEF Chains
<1>4. \A j \in 1..i : j \in 1..Len(c) /\ (Holds(d, j, n) <=> Holds(c, j, n))
  BY <1>1, <1>2 DEF Holds
<1>5. ASSUME \A j \in 1..Len(c) : j > i => ~ Holds(c, j, n)
      PROVE  Get(d, n) = Get(c, n)
  <2>1. CASE \A j \in 1..Len(c) : ~ Holds(c, j, n)
    <3>1. Get(c, n) = Unset
      BY <2>1, GetIs
    <3>2. Get(d, n) = Unset
      BY <1>2, <1>3, <1>4, <2>1, GetIs
    <3> QED BY <3>1, <3>2
  <2>2. CASE \E k \in 1..Len(c) : Holds(c, k, n)
    <3>1. PICK m \in 1..Len(c) :
            Holds(c, m, n) /\ \A j \in 1..Len(c) : j > m => ~ Holds(c, j, n)
      BY <2>2, LastHolder
    <3>2. m \in 1..i
      BY <1>1, <1>5, <3>1
    <3>3. Get(c, n) = c[m].vals[n]
      BY <3>1, GetIs
    <3>4. Holds(d, m, n) /\ \A j \in 1..Len(d) : j > m => ~ Holds(d, j, n)
      BY <1>2, <1>4, <3>1, <3>2
    <3>5. Get(d, n) = d[m].vals[n]
      BY <1>2, <1>3, <3>2, <3>4, GetIs
    <3> QED BY <1>2, <3>2, <3>3, <3>5
  <2> QED BY <2>1, <2>2
<1> QED BY <1>2, <1>3, <1>5

\* d is c with w for n in the i-th scope, and nothing else changed.
Stored(c, i, n, w, d) ==
  /\ d \in Chains /\ Len(d) = Len(c)
  /\ \A j \in 1..Len(c) : d[j].func = c[j].func /\ (j # i => d[j] = c[j])
  /\ Holds(d, i, n) /\ d[i].vals[n] = w
  /\ \A m : m # n =>
       /\ Holds(d, i, m) <=> Holds(c, i, m)
       /\ Holds(c, i, m) => d[i].vals[m] = c[i].vals[m]

LEMMA StoreIs ==
  ASSUME NEW c \in Chains, NEW i \in 1..Len(c), NEW n \in VarNames, NEW w \in Vars
  PROVE  Stored(c, i, n, w, Store(c, i, n, w))
<1> DEFINE vals == c[i].vals
           new == [m \in DOMAIN vals \union {n} |-> IF m = n THEN w ELSE vals[m]]
           scope == [c[i] EXCEPT !.vals = new]
           d == Store(c, i, n, w)
<1>1. /\ c[i] \in Scopes /\ vals \in Maps /\ DOMAIN vals \subseteq VarNames
      /\ \A m \in DOMAIN vals : vals[m] \in Vars
  BY ScopeTypes
<1>2. d = [c EXCEPT ![i] = scope]
  BY DEF Store
<1> HIDE DEF d
<1>3. DOMAIN new = DOMAIN vals \union {n} /\ new[n] = w
      /\ \A m \in DOMAIN vals : m # n => new[m] = vals[m]
  OBVIOUS
<1>4. new \in Maps
  <2> HIDE DEF Vars, vals
  <2>1. new \in [DOMAIN vals \union {n} -> Vars]
    BY <1>1
  <2>2. DOMAIN vals \union {n} \in SUBSET VarNames
    BY <1>1
  <2> HIDE DEF new
  <2> QED BY <2>1, <2>2 DEF Maps
<1> HIDE DEF new
<1>5. scope \in Scopes /\ scope.func = c[i].func /\ scope.vals = new
  <2> HIDE DEF Maps, vals
  <2> QED BY <1>1, <1>4 DEF Scopes
<1> HIDE DEF scope, vals, Scopes
<1>6. /\ d \in Seq(Scopes) /\ Len(d) = Len(c) /\ d[i] = scope
      /\ \A j \in 1..Len(c) : j # i => d[j] = c[j]
  BY <1>2, <1>5, ExceptSeq DEF Chains
<1>7. \A j \in 1..Len(c) : d[j].func = c[j].func /\ (j # i => d[j] = c[j])
  BY <1>5, <1>6
<1>8. d \in Chains
  BY <1>6, <1>7, ScopeTypes DEF Chains
<1>9. d[i].vals = new
  BY <1>5, <1>6
<1>10. Stored(c, i, n, w, d)
  BY <1>3, <1>6, <1>7, <1>8, <1>9 DEF Stored, Holds, vals
<1> QED BY <1>10 DEF d

\* new is c after v is assigned to n: refused, or with w in the i-th scope.
Assigned(c, n, v, i, prev, w, new) ==
  /\ i = SetLevel(c, n, v) /\ prev = Get(SubSeq(c, 1, i), n)
  /\ w.local = (v.local \/ prev.local) /\ w.readonly = v.readonly
  /\ IF v.kind = "KeepValue"
     THEN w.kind = prev.kind /\ w.str = prev.str /\ w.list = prev.list
     ELSE w.kind = v.kind /\ w.str = v.str /\ w.list = v.list
  /\ IF v.kind # "KeepValue" /\ prev.readonly
     THEN new = [ok |-> FALSE, chain |-> c]
     ELSE new.ok = TRUE /\ Stored(c, i, n, w, new.chain)

LEMMA SetIs ==
  ASSUME NEW c \in Chains, NEW n \in VarNames, NEW v \in Vars
  PROVE  \E i \in 1..Len(c), prev \in Vars, w \in Vars :
           Assigned(c, n, v, i, prev, w, Set(c, n, v))
<1> DEFINE i == SetLevel(c, n, v)
           prev == Get(SubSeq(c, 1, i), n)
           value == IF v.kind = "KeepValue"
                    THEN [v EXCEPT !.kind = prev.kind, !.str = prev.str, !.list = prev.list]
                    ELSE v
           w == [value EXCEPT !.local = prev.local \/ @]
<1>1. Set(c, n, v) =
        IF v.kind # "KeepValue" /\ prev.readonly
        THEN [ok |-> FALSE, chain |-> c]
        ELSE [ok |-> TRUE, chain |-> Store(c, i, n, w)]
  BY Zenon DEF Set
<1>2. i \in 1..Len(c)
  BY LevelIs
<1>3. prev \in Vars
  <2>1. SubSeq(c, 1, i) \in Chains
    BY <1>2, PrefixShows
  <2> QED BY <2>1, GetIsVar
<1> HIDE DEF i, prev
<1>4. value \in Vars /\ value.local = v.local /\ value.readonly = v.readonly
  BY <1>3 DEF Vars
<1>5. IF v.kind = "KeepValue"
      THEN value.kind = prev.kind /\ value.str = prev.str /\ value.list = prev.list
      ELSE value.kind = v.kind /\ value.str = v.str /\ value.list = v.list
  BY DEF Vars
<1> HIDE DEF value
<1>6. /\ w \in Vars /\ w.local = (v.local \/ prev.local) /\ w.readonly = v.readonly
      /\ w.kind = value.kind /\ w.str = value.str /\ w.list = value.list
  BY <1>3, <1>4 DEF Vars
<1> HIDE DEF w
<1>7. IF v.kind = "KeepValue"
      THEN w.kind = prev.kind /\ w.str = prev.str /\ w.list = prev.list
      ELSE w.kind = v.kind /\ w.str = v.str /\ w.list = v.list
  BY <1>5, <1>6
<1>9. Stored(c, i, n, w, Store(c, i, n, w))
  BY <1>2, <1>6, StoreIs
<1>8. IF v.kind # "KeepValue" /\ prev.readonly
      THEN Set(c, n, v) = [ok |-> FALSE, chain |-> c]
      ELSE Set(c, n, v).ok = TRUE /\ Stored(c, i, n, w, Set(c, n, v).chain)
  <2>1. CASE v.kind # "KeepValue" /\ prev.readonly
    BY <1>1, <2>1
  <2>2. CASE ~(v.kind # "KeepValue" /\ prev.readonly)
    <3>1. Set(c, n, v) = [ok |-> TRUE, chain |-> Store(c, i, n, w)]
      BY <1>1, <2>2
    <3>2. Set(c, n, v).ok = TRUE /\ Set(c, n, v).chain = Store(c, i, n, w)
      BY <3>1
    <3> QED BY <1>9, <2>2, <3>2
  <2> QED BY <2>1, <2>2
<1>10. i = SetLevel(c, n, v) /\ prev = Get(SubSeq(c, 1, i), n)
  BY DEF i, prev
<1>11. Assigned(c, n, v, i, prev, w, Set(c, n, v))
  BY <1>6, <1>7, <1>8, <1>9, <1>10 DEF Assigned
<1> QED BY <1>2, <1>3, <1>6, <1>11

(* An assignment goes no deeper than the last scope that takes it: it       *)
(* leaves the scopes below a subshell's own as they are, and those below a  *)
(* function's own when the variable is the function's local (vars.go,       *)
(* overlayEnviron.Set). So what runs in ( ... ) or $( ... ) cannot assign   *)
(* to the shell it came from.                                               *)
THEOREM AssignmentsStayInside ==
  ASSUME NEW c \in Chains, NEW n \in VarNames, NEW v \in Vars, NEW k \in 1..Len(c),
         ~ c[k].func \/ v.local \/ Own(c, k, n).local,
         NEW new, new = Set(c, n, v).chain
  PROVE  /\ new \in Chains /\ Len(new) = Len(c)
         /\ \A j \in 1..k - 1 : new[j] = c[j]
         /\ \A j \in 1..Len(c) : new[j].func = c[j].func
<1>1. PICK i \in 1..Len(c), prev \in Vars, w \in Vars :
        Assigned(c, n, v, i, prev, w, Set(c, n, v))
  BY SetIs
<1>2. k <= i
  <2>1. i = SetLevel(c, n, v)
    BY <1>1 DEF Assigned
  <2>2. \A j \in 1..Len(c) : Takes(c, j, n, v) => j <= i
    BY <2>1, LevelIs
  <2> QED BY <2>2 DEF Takes
<1>3. Len(c) \in Nat /\ \A j \in 1..k - 1 : j \in 1..Len(c) /\ j # i
  BY <1>2, ScopeTypes
<1>4. new = c \/ Stored(c, i, n, w, new)
  BY <1>1 DEF Assigned
<1> QED BY <1>3, <1>4 DEF Stored

\* With n stored in the i-th scope and in none above, Get shows it.
LEMMA StoredShows ==
  ASSUME NEW c \in Chains, NEW i \in 1..Len(c), NEW n \in VarNames, NEW w \in Vars,
         NEW d, Stored(c, i, n, w, d),
         \A j \in 1..Len(c) : j > i => ~ Holds(c, j, n)
  PROVE  Get(d, n) = w /\ \A m : m # n => Get(d, m) = Get(c, m)
<1>1. /\ d \in Chains /\ Len(d) = Len(c) /\ Len(c) \in Nat
      /\ \A j \in 1..Len(c) : j # i => d[j] = c[j]
      /\ Holds(d, i, n) /\ d[i].vals[n] = w
  BY ScopeTypes DEF Stored
<1>2. \A j \in 1..Len(c) : j > i => ~ Holds(d, j, n)
  BY <1>1 DEF Holds
<1>3. Get(d, n) = w
  BY <1>1, <1>2, GetIs
<1>4. ASSUME NEW m, m # n PROVE Get(d, m) = Get(c, m)
  <2>1. ASSUME NEW j \in 1..Len(c)
        PROVE  (Holds(c, j, m) <=> Holds(d, j, m)) /\ Own(c, j, m) = Own(d, j, m)
    <3>1. CASE j # i
      BY <1>1, <3>1 DEF Holds, Own
    <3>2. CASE j = i
      <4>1. (Holds(d, i, m) <=> Holds(c, i, m))
            /\ (Holds(c, i, m) => d[i].vals[m] = c[i].vals[m])
        BY <1>4 DEF Stored
      <4> QED BY <3>2, <4>1 DEF Holds, Own
    <3> QED BY <3>1, <3>2
  <2> QED BY <1>1, <2>1, SameGet
<1> QED BY <1>3, <1>4

\* Functions' scopes go on to hold only locals.
LEMMA StoredWellScoped ==
  ASSUME NEW c \in Chains, NEW i \in 1..Len(c), NEW n \in VarNames, NEW w \in Vars,
         NEW d, Stored(c, i, n, w, d), WellScoped(c), c[i].func => w.local
  PROVE  WellScoped(d)
<1> SUFFICES ASSUME NEW j \in 1..Len(d), d[j].func, NEW m \in DOMAIN d[j].vals
             PROVE  d[j].vals[m].local
  BY DEF WellScoped
<1>1. j \in 1..Len(c) /\ c[j].func
  BY DEF Stored
<1>2. CASE j # i
  <2>1. d[j] = c[j]
    BY <1>1, <1>2 DEF Stored
  <2> QED BY <1>1, <2>1 DEF WellScoped
<1>3. CASE j = i /\ m = n
  BY <1>1, <1>3 DEF Stored
<1>4. CASE j = i /\ m # n
  <2>1. Holds(d, i, m)
    BY <1>4 DEF Holds
  <2>2. Holds(c, i, m) /\ d[i].vals[m] = c[i].vals[m]
    BY <1>4, <2>1 DEF Stored
  <2> QED BY <1>1, <1>4, <2>2 DEF WellScoped, Holds
<1> QED BY <1>2, <1>3, <1>4

\* What is seen after v is assigned to n in the chain c, with the outcome new.
SeenAfter(c, n, v, new) ==
  LET was == Get(c, n)
      is  == Get(new.chain, n)
  IN  /\ new.chain \in Chains /\ WellScoped(new.chain)
      /\ \A m : m # n => Get(new.chain, m) = Get(c, m)
      /\ IF v.kind # "KeepValue" /\ was.readonly
         THEN new = [ok |-> FALSE, chain |-> c]
         ELSE /\ new.ok = TRUE
              /\ is.local = (v.local \/ was.local) /\ is.readonly = v.readonly
              /\ IF v.kind = "KeepValue"
                 THEN is.kind = was.kind /\ is.str = was.str /\ is.list = was.list
                 ELSE is.kind = v.kind /\ is.str = v.str /\ is.list = v.list

(* Wherever the chain stores a variable, its value is what is seen          *)
(* afterwards, of every other variable the same is seen, and functions'     *)
(* scopes go on to hold only locals. An assignment is refused just when     *)
(* what is seen is readonly and more than its attributes would change, and  *)
(* then changes nothing (vars.go, overlayEnviron.Set and Get).              *)
THEOREM AssignmentsAreSeen ==
  ASSUME NEW c \in Chains, WellScoped(c), NEW n \in VarNames, NEW v \in Vars
  PROVE  SeenAfter(c, n, v, Set(c, n, v))
<1> DEFINE new == Set(c, n, v)
           was == Get(c, n)
           is == Get(new.chain, n)
<1> HIDE DEF new, was, is
<1>1. PICK i \in 1..Len(c), prev \in Vars, w \in Vars :
        Assigned(c, n, v, i, prev, w, new)
  BY SetIs DEF new
<1>2. /\ i = SetLevel(c, n, v) /\ prev = Get(SubSeq(c, 1, i), n)
      /\ w.local = (v.local \/ prev.local) /\ w.readonly = v.readonly
  BY <1>1 DEF Assigned
<1>3. Takes(c, i, n, v) /\ \A j \in 1..Len(c) : j > i => ~ Holds(c, j, n)
  <2>1. \A k : k = SetLevel(c, n, v) =>
          Takes(c, k, n, v) /\ \A j \in 1..Len(c) : j > k => ~ Holds(c, j, n)
    BY LevelIs
  <2> QED BY <1>2, <2>1
<1>4. prev = was
  <2>1. \A d : d = SubSeq(c, 1, i) => Get(d, n) = Get(c, n)
    BY <1>3, PrefixShows
  <2> QED BY <1>2, <2>1 DEF was
<1> SUFFICES
      /\ new.chain \in Chains /\ WellScoped(new.chain)
      /\ \A m : m # n => Get(new.chain, m) = Get(c, m)
      /\ IF v.kind # "KeepValue" /\ was.readonly
         THEN new = [ok |-> FALSE, chain |-> c]
         ELSE /\ new.ok = TRUE
              /\ is.local = (v.local \/ was.local) /\ is.readonly = v.readonly
              /\ IF v.kind = "KeepValue"
                 THEN is.kind = was.kind /\ is.str = was.str /\ is.list = was.list
                 ELSE is.kind = v.kind /\ is.str = v.str /\ is.list = v.list
  BY Zenon DEF SeenAfter, new, was, is
<1>5. CASE v.kind # "KeepValue" /\ was.readonly
  <2>1. new = [ok |-> FALSE, chain |-> c]
    BY <1>1, <1>4, <1>5 DEF Assigned
  <2>2. new.chain = c
    BY <2>1
  <2> QED BY <1>5, <2>1, <2>2 DEF is, was
<1>6. CASE ~(v.kind # "KeepValue" /\ was.readonly)
  <2>1. new.ok = TRUE /\ Stored(c, i, n, w, new.chain)
    BY <1>1, <1>4, <1>6 DEF Assigned
  <2>2. is = w /\ \A m : m # n => Get(new.chain, m) = Get(c, m)
    <3>1. \A d : Stored(c, i, n, w, d) =>
            Get(d, n) = w /\ \A m : m # n => Get(d, m) = Get(c, m)
      BY <1>3, StoredShows
    <3> QED BY <2>1, <3>1 DEF is
  <2>3. c[i].func => w.local
    <3>1. CASE Own(c, i, n).local
      <4>1. Holds(c, i, n)
        BY <3>1, ScopeTypes DEF Unset
      <4>2. was = Own(c, i, n)
        BY <1>3, <4>1, GetIs, ScopeTypes DEF was
      <4> QED BY <1>2, <1>4, <3>1, <4>2
    <3> QED BY <1>2, <1>3, <3>1 DEF Takes
  <2>4. new.chain \in Chains /\ WellScoped(new.chain)
    <3>1. \A d : Stored(c, i, n, w, d) => WellScoped(d)
      BY <2>3, StoredWellScoped
    <3> QED BY <2>1, <3>1 DEF Stored
  <2>5. IF v.kind = "KeepValue"
        THEN w.kind = was.kind /\ w.str = was.str /\ w.list = was.list
        ELSE w.kind = v.kind /\ w.str = v.str /\ w.list = v.list
    BY <1>1, <1>4 DEF Assigned
  <2> QED BY <1>2, <1>4, <1>6, <2>1, <2>2, <2>4, <2>5
<1> QED BY <1>5, <1>6

(* The value of a readonly variable stays as it is through any assignment,  *)
(* to it or to another, from whatever scope (vars.go, overlayEnviron.Set).  *)
THEOREM ReadonlyKeepsItsValue ==
  ASSUME NEW c \in Chains, WellScoped(c), NEW n \in VarNames, NEW v \in Vars,
         NEW m, Get(c, m).readonly,
         NEW is, is = Get(Set(c, n, v).chain, m), NEW was, was = Get(c, m)
  PROVE  is.kind = was.kind /\ is.str = was.str /\ is.list = was.list
<1> DEFINE new == Set(c, n, v)
           shown == Get(c, n)
           shows == Get(new.chain, n)
<1>1. /\ \A x : x # n => Get(new.chain, x) = Get(c, x)
      /\ IF v.kind # "KeepValue" /\ shown.readonly
         THEN new = [ok |-> FALSE, chain |-> c]
         ELSE v.kind = "KeepValue" =>
                shows.kind = shown.kind /\ shows.str = shown.str /\ shows.list = shown.list
  <2>1. SeenAfter(c, n, v, new)
    BY AssignmentsAreSeen
  <2> HIDE DEF new
  <2>2. /\ \A x : x # n => Get(new.chain, x) = Get(c, x)
        /\ IF v.kind # "KeepValue" /\ shown.readonly
           THEN new = [ok |-> FALSE, chain |-> c]
           ELSE IF v.kind = "KeepValue"
                THEN shows.kind = shown.kind /\ shows.str = shown.str /\ shows.list = shown.list
                ELSE TRUE
    BY <2>1, Zenon DEF SeenAfter
  <2> QED BY <2>2
<1>2. CASE m # n
  BY <1>1, <1>2
<1>3. CASE m = n /\ v.kind # "KeepValue"
  <2>1. new = [ok |-> FALSE, chain |-> c]
    BY <1>1, <1>3
  <2>2. new.chain = c
    BY <2>1
  <2> QED BY <2>2
<1>4. CASE m = n /\ v.kind = "KeepValue"
  BY <1>1, <1>4
<1> QED BY <1>2, <1>3, <1>4

\* d is c with a new scope on top, of a function or not.
Pushed(c, func, d) ==
  /\ d \in Chains /\ Len(d) = Len(c) + 1 /\ \A i \in 1..Len(c) : d[i] = c[i]
  /\ d[Len(c) + 1].func = func /\ \A n : ~ Holds(d, Len(c) + 1, n)

LEMMA PushIs ==
  ASSUME NEW c \in Chains, NEW func \in BOOLEAN
  PROVE  Pushed(c, func, Append(c, Overlay(func)))
<1> DEFINE s == Overlay(func)
           d == Append(c, s)
<1>1. s.func = func /\ s.vals \in Maps /\ DOMAIN s.vals = {} /\ s \in Scopes
  <2>1. s = [func |-> func, vals |-> NoValues]
    BY DEF Overlay
  <2>2. DOMAIN NoValues = {} /\ NoValues \in [{} -> Vars]
    BY DEF NoValues
  <2>3. NoValues \in Maps
    BY <2>2 DEF Maps
  <2> HIDE DEF s, Maps
  <2> QED BY <2>1, <2>2, <2>3 DEF Scopes
<1>2. c \in Seq(Scopes) /\ Len(c) \in Nat \ {0} /\ 1 \in 1..Len(c) /\ ~ c[1].func
  BY ScopeTypes DEF Chains
<1> HIDE DEF s, Scopes
<1>3. /\ d \in Seq(Scopes) /\ Len(d) = Len(c) + 1 /\ d[Len(c) + 1] = s
      /\ \A i \in 1..Len(c) : d[i] = c[i]
  BY <1>1, <1>2, AppendProperties
<1> HIDE DEF d
<1>4. d \in Chains
  <2>1. d[1] = c[1] /\ Len(d) > 0
    BY <1>2, <1>3
  <2> QED BY <1>2, <1>3, <2>1 DEF Chains
<1>5. Pushed(c, func, d)
  BY <1>1, <1>3, <1>4 DEF Pushed, Holds
<1> QED BY <1>5 DEF d, s

(* A subshell, in the background or not, and a function start with a scope  *)
(* of their own and see what the shell they start from sees (vars.go,       *)
(* newOverlayEnviron; runner.go, call).                                     *)
THEOREM NewScopesShowTheSame ==
  ASSUME NEW c \in Chains, WellScoped(c), NEW background \in BOOLEAN,
         NEW d, d \in {NewOverlay(c, background), Append(c, Overlay(TRUE))}
  PROVE  d \in Chains /\ WellScoped(d) /\ \A n : Get(d, n) = Get(c, n)
<1>1. ASSUME NEW func \in BOOLEAN, d = Append(c, Overlay(func))
      PROVE  d \in Chains /\ WellScoped(d) /\ \A n : Get(d, n) = Get(c, n)
  <2>1. Pushed(c, func, d)
    BY <1>1, PushIs
  <2>2. Len(c) \in Nat \ {0}
    BY ScopeTypes
  <2>3. /\ Len(d) = Len(c) + 1 /\ \A i \in 1..Len(c) : d[i] = c[i]
        /\ \A n : ~ Holds(d, Len(c) + 1, n)
    BY <2>1 DEF Pushed
  <2>4. d \in Chains
    BY <2>1 DEF Pushed
  <2>5. \A i \in 1..Len(d) : i \in 1..Len(c) \/ i = Len(c) + 1
    BY <2>2, <2>3
  <2>6. WellScoped(d)
    <3> SUFFICES ASSUME NEW i \in 1..Len(d), d[i].func, NEW n \in DOMAIN d[i].vals
                 PROVE  d[i].vals[n].local
      BY DEF WellScoped
    <3>1. i \in 1..Len(c)
      BY <2>3, <2>5 DEF Holds
    <3> QED BY <2>3, <3>1 DEF WellScoped
  <2>7. ASSUME NEW n PROVE Get(d, n) = Get(c, n)
    <3>1. \A i \in 1..Len(c) : Holds(d, i, n) <=> Holds(c, i, n)
      BY <2>3 DEF Holds
    <3>2. ~ Holds(d, Len(c) + 1, n)
      BY <2>3
    <3>3. CASE \A i \in 1..Len(c) : ~ Holds(c, i, n)
      <4>1. Get(c, n) = Unset
        BY <3>3, GetIs
      <4>2. \A i \in 1..Len(d) : ~ Holds(d, i, n)
        BY <2>5, <3>1, <3>2, <3>3
      <4> QED BY <2>4, <4>1, <4>2, GetIs
    <3>4. CASE \E k \in 1..Len(c) : Holds(c, k, n)
      <4>1. PICK i \in 1..Len(c) :
              Holds(c, i, n) /\ \A j \in 1..Len(c) : j > i => ~ Holds(c, j, n)
        BY <3>4, LastHolder
      <4>2. Get(c, n) = c[i].vals[n]
        BY <4>1, GetIs
      <4>3. i \in 1..Len(d) /\ Holds(d, i, n)
            /\ \A j \in 1..Len(d) : j > i => ~ Holds(d, j, n)
        BY <2>2, <2>3, <2>5, <3>1, <3>2, <4>1
      <4>4. Get(d, n) = d[i].vals[n]
        BY <2>4, <4>3, GetIs
      <4> QED BY <2>3, <4>2, <4>4
    <3> QED BY <3>3, <3>4
  <2> QED BY <2>4, <2>6, <2>7
<1>2. ASSUME d = << [func |-> FALSE, vals |-> [n \in Visible(c) |-> Get(c, n)]] >>
      PROVE  d \in Chains /\ WellScoped(d) /\ \A n : Get(d, n) = Get(c, n)
  <2> DEFINE vals == [n \in Visible(c) |-> Get(c, n)]
             s == [func |-> FALSE, vals |-> vals]
  <2>1. \A n : n \in Visible(c) <=> \E i \in 1..Len(c) : Holds(c, i, n)
    <3>1. DOMAIN c = 1..Len(c)
      BY ScopeTypes
    <3> QED BY <3>1 DEF Visible, Holds
  <2>2. Visible(c) \in SUBSET VarNames
    BY <2>1, ScopeTypes DEF Holds
  <2>3. vals \in Maps
    <3>1. \A n \in Visible(c) : Get(c, n) \in Vars
      BY GetIsVar
    <3>2. vals \in [Visible(c) -> Vars]
      <4> HIDE DEF Vars
      <4> QED BY <3>1
    <3> HIDE DEF vals
    <3> QED BY <2>2, <3>2 DEF Maps
  <2>4. DOMAIN vals = Visible(c) /\ \A n \in Visible(c) : vals[n] = Get(c, n)
    OBVIOUS
  <2> HIDE DEF vals
  <2>5. s \in Scopes /\ ~ s.func /\ s.vals = vals
    <3> HIDE DEF Maps
    <3> QED BY <2>3 DEF Scopes
  <2> HIDE DEF s, Scopes
  <2>6. d \in Seq(Scopes) /\ Len(d) = 1 /\ d[1] = s
    BY <1>2, <2>5 DEF s, vals
  <2>7. d \in Chains
    BY <2>5, <2>6 DEF Chains
  <2>8. WellScoped(d)
    BY <2>5, <2>6 DEF WellScoped
  <2>9. ASSUME NEW n PROVE Get(d, n) = Get(c, n)
    <3>1. Holds(d, 1, n) <=> n \in Visible(c)
      BY <2>4, <2>5, <2>6 DEF Holds
    <3>2. CASE n \in Visible(c)
      <4>1. 1 \in 1..Len(d) /\ \A j \in 1..Len(d) : ~(j > 1)
        BY <2>6
      <4>2. Get(d, n) = d[1].vals[n]
        BY <2>7, <3>1, <3>2, <4>1, GetIs
      <4> QED BY <2>4, <2>5, <2>6, <3>2, <4>2
    <3>3. CASE n \notin Visible(c)
      <4>1. Get(d, n) = Unset
        BY <2>6, <2>7, <3>1, <3>3, GetIs
      <4>2. Get(c, n) = Unset
        BY <2>1, <3>3, GetIs
      <4> QED BY <4>1, <4>2
    <3> QED BY <3>2, <3>3
  <2> QED BY <2>7, <2>8, <2>9
<1>3. \/ d = Append(c, Overlay(FALSE)) \/ d = Append(c, Overlay(TRUE))
      \/ d = << [func |-> FALSE, vals |-> [n \in Visible(c) |-> Get(c, n)]] >>
  BY Zenon DEF NewOverlay
<1> QED BY <1>1, <1>2, <1>3

\* What the interpreter does with a chain of which the first k scopes stay:
\* an assignment, a new scope, the end of some.
ScopeStep(c, d, k) ==
  \/ \E n \in VarNames, v \in Vars : d = Set(c, n, v).chain
  \/ \E func \in BOOLEAN : d = Append(c, Overlay(func))
  \/ \E j \in k..Len(c) : d = SubSeq(c, 1, j)

LEMMA StepIsWellScoped ==
  ASSUME NEW c \in Chains, WellScoped(c), NEW d, ScopeStep(c, d, 1)
  PROVE  d \in Chains /\ WellScoped(d)
<1>1. ASSUME NEW n \in VarNames, NEW v \in Vars, d = Set(c, n, v).chain
      PROVE  d \in Chains /\ WellScoped(d)
  <2>1. SeenAfter(c, n, v, Set(c, n, v))
    BY AssignmentsAreSeen
  <2> QED BY <1>1, <2>1, Zenon DEF SeenAfter
<1>2. ASSUME NEW func \in BOOLEAN, d = Append(c, Overlay(func))
      PROVE  d \in Chains /\ WellScoped(d)
  <2>1. /\ d \in Chains /\ Len(d) = Len(c) + 1 /\ \A i \in 1..Len(c) : d[i] = c[i]
        /\ \A n : ~ Holds(d, Len(c) + 1, n)
    BY <1>2, PushIs DEF Pushed
  <2> SUFFICES ASSUME NEW i \in 1..Len(d), d[i].func, NEW n \in DOMAIN d[i].vals
               PROVE  d[i].vals[n].local
    BY <2>1 DEF WellScoped
  <2>2. i \in 1..Len(c) /\ Len(c) \in Nat
    BY <2>1, ScopeTypes DEF Holds
  <2> QED BY <2>1, <2>2 DEF WellScoped
<1>3. ASSUME NEW j \in 1..Len(c), d = SubSeq(c, 1, j)
      PROVE  d \in Chains /\ WellScoped(d)
  <2>1. d \in Chains /\ Len(d) = j /\ \A i \in 1..j : d[i] = c[i]
    BY <1>3, PrefixShows
  <2>2. \A i \in 1..j : i \in 1..Len(c)
    BY ScopeTypes
  <2> QED BY <2>1, <2>2 DEF WellScoped
<1> QED BY <1>1, <1>2, <1>3 DEF ScopeStep

\* What a step leaves of the scopes below the k-th, which is no function's.
LEMMA StepStaysInside ==
  ASSUME NEW c \in Chains, NEW k \in 1..Len(c), ~ c[k].func, NEW d, ScopeStep(c, d, k)
  PROVE  /\ d \in Chains /\ k \in 1..Len(d) /\ ~ d[k].func
         /\ \A i \in 1..k - 1 : d[i] = c[i]
<1>1. Len(c) \in Nat /\ k \in Nat \ {0} /\ k <= Len(c) /\ \A i \in 1..k : i \in 1..Len(c)
  BY ScopeTypes
<1>2. ASSUME NEW n \in VarNames, NEW v \in Vars, d = Set(c, n, v).chain
      PROVE  /\ d \in Chains /\ Len(d) = Len(c) /\ ~ d[k].func
             /\ \A i \in 1..k - 1 : d[i] = c[i]
  BY <1>2, AssignmentsStayInside
<1>3. ASSUME NEW func \in BOOLEAN, d = Append(c, Overlay(func))
      PROVE  /\ d \in Chains /\ Len(d) = Len(c) + 1 /\ \A i \in 1..Len(c) : d[i] = c[i]
  BY <1>3, PushIs DEF Pushed
<1>4. ASSUME NEW j \in k..Len(c), d = SubSeq(c, 1, j)
      PROVE  d \in Chains /\ Len(d) = j /\ \A i \in 1..j : d[i] = c[i]
  <2>1. j \in 1..Len(c)
    BY <1>1
  <2> QED BY <1>4, <2>1, PrefixShows
<1>5. CASE \E n \in VarNames, v \in Vars : d = Set(c, n, v).chain
  BY <1>2, <1>5
<1>6. CASE \E func \in BOOLEAN : d = Append(c, Overlay(func))
  BY <1>1, <1>3, <1>6
<1>7. CASE \E j \in k..Len(c) : d = SubSeq(c, 1, j)
  BY <1>1, <1>4, <1>7
<1> QED BY <1>5, <1>6, <1>7 DEF ScopeStep

(* However many assignments, functions and subshells of its own a subshell  *)
(* runs, the scopes of the shell it came from are as they were when it      *)
(* started (vars.go, newOverlayEnviron and overlayEnviron.Set).             *)
THEOREM SubshellsLeaveTheirParent ==
  ASSUME NEW c \in Chains, NEW N \in Nat, NEW run \in [0..N -> Chains],
         run[0] = NewOverlay(c, FALSE),
         \A i \in 0..N - 1 : ScopeStep(run[i], run[i + 1], Len(c) + 1)
  PROVE  SubSeq(run[N], 1, Len(c)) = c
<1> DEFINE k == Len(c) + 1
           S == {i \in 0..N : /\ k \in 1..Len(run[i]) /\ ~ run[i][k].func
                              /\ \A j \in 1..k - 1 : run[i][j] = c[j]}
<1>1. Len(c) \in Nat \ {0} /\ c \in Seq(Scopes)
  BY ScopeTypes DEF Chains
<1>2. 0 \in S
  <2>1. run[0] = Append(c, Overlay(FALSE))
    BY DEF NewOverlay
  <2>2. Pushed(c, FALSE, run[0])
    <3>1. Pushed(c, FALSE, Append(c, Overlay(FALSE)))
      BY PushIs
    <3> QED BY <2>1, <3>1
  <2>3. /\ Len(run[0]) = Len(c) + 1 /\ \A i \in 1..Len(c) : run[0][i] = c[i]
        /\ ~ run[0][Len(c) + 1].func
    BY <2>2, Zenon DEF Pushed
  <2>4. Len(c) + 1 \in 1..Len(run[0]) /\ k - 1 = Len(c) /\ 0 \in 0..N
    BY <1>1, <2>3
  <2> QED BY <2>3, <2>4
<1>3. ASSUME NEW i \in 0..N - 1, i \in S PROVE i + 1 \in S
  <2>1. /\ run[i] \in Chains /\ k \in 1..Len(run[i]) /\ ~ run[i][k].func
        /\ ScopeStep(run[i], run[i + 1], k)
    BY <1>3
  <2>2. /\ k \in 1..Len(run[i + 1]) /\ ~ run[i + 1][k].func
        /\ \A j \in 1..k - 1 : run[i + 1][j] = run[i][j]
    BY <2>1, StepStaysInside
  <2> QED BY <1>3, <2>2
<1>4. N \in S
  <2> HIDE DEF S
  <2>1. 0..N \subseteq S
    BY <1>2, <1>3, LoopInvariant
  <2> QED BY <2>1
<1>5. run[N] \in Chains /\ Len(c) \in 1..Len(run[N]) /\ \A j \in 1..Len(c) : run[N][j] = c[j]
  BY <1>1, <1>4, ScopeTypes
<1>6. \A d : d = SubSeq(run[N], 1, Len(c)) =>
        d \in Chains /\ Len(d) = Len(c) /\ \A j \in 1..Len(c) : d[j] = run[N][j]
  BY <1>5, PrefixShows
<1> HIDE DEF Scopes
<1> QED BY <1>1, <1>5, <1>6, SeqEqual DEF Chains

(* The chains of the interpreter are well scoped: it starts with one scope, *)
(* and none of its steps puts a global into a function's scope (api.go,     *)
(* Reset; vars.go, overlayEnviron.Set).                                     *)
THEOREM ChainsAreWellScoped ==
  ASSUME NEW N \in Nat, NEW run \in [0..N -> Chains], run[0] = <<Overlay(FALSE)>>,
         \A i \in 0..N - 1 : ScopeStep(run[i], run[i + 1], 1)
  PROVE  WellScoped(run[N])
<1> DEFINE S == {i \in 0..N : WellScoped(run[i])}
<1>1. 0 \in S
  BY DEF WellScoped, Overlay
<1>2. ASSUME NEW i \in 0..N - 1, i \in S PROVE i + 1 \in S
  BY <1>2, StepIsWellScoped
<1> HIDE DEF S
<1>3. 0..N \subseteq S
  BY <1>1, <1>2, LoopInvariant
<1> QED BY <1>3 DEF S

-----------------------------------------------------------------------------
(* What a statement puts back (Interp).                                     *)

(* The fields runner.go sets for the time of a command, the ones that tell  *)
(* whether it may leave one as it is, and the statements left to start.     *)
Flags == {"inLoop", "inFunc", "inSource", "noErrExit", "sourceSetParams",
          "handlingTrap", "unparsed", "keepRedirs", "stdin", "stdout", "stderr", "left"}

\* What Stop looks at beside them.
StopFields == {"exit", "opts", "hung", "panicked"}

IsList(s) == s \in Seq({s[i] : i \in DOMAIN s})

Whole(r) ==
    /\ Flags \union {"env"} \subseteq DOMAIN r
    /\ StopFields \subseteq DOMAIN r
    /\ r.left \in Nat
    /\ {r.inSource, r.sourceSetParams, r.keepRedirs, r.handlingTrap} \subseteq BOOLEAN
    /\ IsList(r.env)

(* What a command keeps, and a statement, which puts the streams back too.  *)
CommandKeeps(r, q) ==
    /\ Whole(q)
    /\ q.left <= r.left
    /\ q.inLoop = r.inLoop /\ q.inFunc = r.inFunc /\ q.inSource = r.inSource
    /\ q.noErrExit = r.noErrExit
    /\ r.inSource \/ q.sourceSetParams = r.sourceSetParams
    /\ q.unparsed = TRUE \/ q.handlingTrap = r.handlingTrap
    /\ r.unparsed = TRUE => q.unparsed = TRUE
    /\ r.keepRedirs => q.keepRedirs
    /\ Len(q.env) = Len(r.env)

SameStreams(r, q) == q.stdin = r.stdin /\ q.stdout = r.stdout /\ q.stderr = r.stderr

StatementKeeps(r, q) == CommandKeeps(r, q) /\ (q.keepRedirs \/ SameStreams(r, q))

(* What touches none of the flags, and no more of the scopes than variables *)
(* of theirs.                                                               *)
Untouched(r, q) ==
    /\ DOMAIN q = DOMAIN r
    /\ \A f \in Flags : q[f] = r[f]
    /\ IsList(q.env) /\ Len(q.env) = Len(r.env)

LEMMA UntouchedKeeps ==
  ASSUME NEW r, NEW q, Whole(r), Untouched(r, q)
  PROVE  StatementKeeps(r, q)
<1>1. /\ Flags \union {"env"} \subseteq DOMAIN q /\ StopFields \subseteq DOMAIN q
      /\ IsList(q.env) /\ Len(q.env) = Len(r.env)
  BY DEF Whole, Untouched
<1>2. /\ q.inLoop = r.inLoop /\ q.inFunc = r.inFunc /\ q.inSource = r.inSource
      /\ q.noErrExit = r.noErrExit /\ q.sourceSetParams = r.sourceSetParams
      /\ q.handlingTrap = r.handlingTrap /\ q.unparsed = r.unparsed
      /\ q.keepRedirs = r.keepRedirs /\ q.left = r.left
      /\ q.stdin = r.stdin /\ q.stdout = r.stdout /\ q.stderr = r.stderr
  BY DEF Untouched, Flags
<1> QED BY <1>1, <1>2 DEF StatementKeeps, CommandKeeps, Whole, SameStreams

LEMMA UntouchedTwice ==
  ASSUME NEW r, NEW q, NEW s, Untouched(r, q), Untouched(q, s)
  PROVE  Untouched(r, s)
BY DEF Untouched

LEMMA KeepsItself ==
  ASSUME NEW r, Whole(r)
  PROVE  StatementKeeps(r, r)
BY DEF StatementKeeps, CommandKeeps, Whole, SameStreams

LEMMA KeepsTwice ==
  ASSUME NEW r, NEW q, NEW s, Whole(r), CommandKeeps(r, q), CommandKeeps(q, s)
  PROVE  CommandKeeps(r, s)
BY DEF CommandKeeps, Whole

LEMMA StatementKeepsTwice ==
  ASSUME NEW r, NEW q, NEW s, Whole(r), StatementKeeps(r, q), StatementKeeps(q, s)
  PROVE  StatementKeeps(r, s)
<1>1. CommandKeeps(r, s)
  BY KeepsTwice DEF StatementKeeps
<1> QED BY <1>1 DEF StatementKeeps, CommandKeeps, SameStreams

LEMMA StoppedUntouched ==
  ASSUME NEW r, Whole(r)
  PROVE  Untouched(r, Stopped(r))
<1>1. IsList(r.env)
  BY DEF Whole
<1>2. Untouched(r, [r EXCEPT !.exit = Fatal(@)])
  BY <1>1 DEF Untouched, Flags
<1>3. Untouched(r, r)
  BY <1>1 DEF Untouched
<1> QED BY <1>2, <1>3, Zenon DEF Stopped

---------------------------------------------------------------------------
(* Variables. *)

LEMMA ListHasLength ==
  ASSUME NEW s, IsList(s)
  PROVE  Len(s) \in Nat /\ DOMAIN s = 1..Len(s)
BY LenProperties DEF IsList

LEMMA ListMade ==
  ASSUME NEW n \in Nat, NEW s, DOMAIN s = 1..n, s = [i \in DOMAIN s |-> s[i]]
  PROVE  IsList(s) /\ Len(s) = n
<1> DEFINE T == {s[i] : i \in DOMAIN s}
<1>1. s \in [1..n -> T]
  OBVIOUS
<1> HIDE DEF T
<1>2. s \in Seq(T)
  BY <1>1
<1>3. Len(s) = n
  BY <1>1
<1> QED BY <1>2, <1>3 DEF IsList, T

LEMMA StoreKeepsScopes ==
  ASSUME NEW chain, IsList(chain), NEW i, NEW n, NEW v
  PROVE  IsList(Store(chain, i, n, v)) /\ Len(Store(chain, i, n, v)) = Len(chain)
<1> DEFINE new == Store(chain, i, n, v)
<1>1. DOMAIN chain = 1..Len(chain) /\ Len(chain) \in Nat
  BY ListHasLength
<1>2. DOMAIN new = DOMAIN chain /\ new = [j \in DOMAIN new |-> new[j]]
  BY DEF Store
<1> HIDE DEF new
<1>3. IsList(new) /\ Len(new) = Len(chain)
  BY <1>1, <1>2, ListMade
<1> QED BY <1>3 DEF new

LEMMA SetKeepsScopes ==
  ASSUME NEW chain, IsList(chain), NEW n, NEW v
  PROVE  IsList(Set(chain, n, v).chain) /\ Len(Set(chain, n, v).chain) = Len(chain)
<1>1. \A i, w : LET c == [ok |-> TRUE, chain |-> Store(chain, i, n, w)].chain
                IN  IsList(c) /\ Len(c) = Len(chain)
  BY StoreKeepsScopes
<1>2. LET c == [ok |-> FALSE, chain |-> chain].chain
      IN  IsList(c) /\ Len(c) = Len(chain)
  OBVIOUS
<1> QED BY <1>1, <1>2, Zenon DEF Set

LEMMA SetVarUntouched ==
  ASSUME NEW r, Whole(r), NEW n, NEW v
  PROVE  Untouched(r, SetVar(r, n, v))
<1>1. IsList(r.env)
  BY DEF Whole
<1>2. \A w : Untouched(r, [r EXCEPT !.env = Set(r.env, n, w).chain])
  <2> TAKE w
  <2> DEFINE env == Set(r.env, n, w).chain
  <2>1. IsList(env) /\ Len(env) = Len(r.env)
    BY <1>1, SetKeepsScopes
  <2> HIDE DEF env
  <2>2. "env" \in DOMAIN r /\ Flags \subseteq DOMAIN r
    BY DEF Whole
  <2>3. [r EXCEPT !.env = env].env = env
    BY <2>2
  <2>4. \A f \in Flags : [r EXCEPT !.env = env][f] = r[f]
    BY <2>2 DEF Flags
  <2>5. DOMAIN [r EXCEPT !.env = env] = DOMAIN r
    OBVIOUS
  <2> QED BY <2>1, <2>3, <2>4, <2>5 DEF Untouched, env
<1>3. Untouched(r, [r EXCEPT !.exit.code = 1])
  BY <1>1 DEF Untouched, Flags
<1> QED BY <1>2, <1>3, Zenon DEF SetVar

LEMMA OtherFields ==
  ASSUME NEW r, Whole(r), NEW q, DOMAIN q = DOMAIN r,
         \A f \in DOMAIN r : f \in Flags \union {"env"} => q[f] = r[f]
  PROVE  Untouched(r, q)
<1>1. IsList(r.env) /\ Flags \union {"env"} \subseteq DOMAIN r
  BY DEF Whole
<1>2. q.env = r.env
  BY <1>1
<1> QED BY <1>1, <1>2 DEF Untouched

LEMMA ItselfUntouched ==
  ASSUME NEW r, Whole(r)
  PROVE  Untouched(r, r)
BY OtherFields

LEMMA SetVarStringUntouched ==
  ASSUME NEW r, Whole(r), NEW n, NEW s
  PROVE  Untouched(r, SetVarString(r, n, s))
BY SetVarUntouched DEF SetVarString

LEMMA DelVarUntouched ==
  ASSUME NEW r, Whole(r), NEW n
  PROVE  Untouched(r, DelVar(r, n))
<1> DEFINE scopes == Set(r.env, n, Unset).chain
<1>1. Untouched(r, [r EXCEPT !.env = scopes])
  <2>1. IsList(scopes) /\ Len(scopes) = Len(r.env)
    BY SetKeepsScopes DEF Whole
  <2> HIDE DEF scopes
  <2>2. "env" \in DOMAIN r /\ Flags \subseteq DOMAIN r
    BY DEF Whole
  <2>3. [r EXCEPT !.env = scopes].env = scopes
    BY <2>2
  <2>4. \A f \in Flags : [r EXCEPT !.env = scopes][f] = r[f]
    BY <2>2 DEF Flags
  <2>5. DOMAIN [r EXCEPT !.env = scopes] = DOMAIN r
    OBVIOUS
  <2> QED BY <2>1, <2>3, <2>4, <2>5 DEF Untouched
<1>2. Untouched(r, [r EXCEPT !.exit.code = 1])
  BY OtherFields DEF Flags
<1> QED BY <1>1, <1>2, Zenon DEF DelVar

LEMMA WriteUntouched ==
  ASSUME NEW r, Whole(r), NEW to, NEW words
  PROVE  Untouched(r, Write(r, to, words))
BY OtherFields DEF Flags, Write

LEMMA FilesUntouched ==
  ASSUME NEW r, Whole(r)
  PROVE  /\ \A ls : Untouched(r, NewFile(r, ls))
         /\ \A fs : Untouched(r, Close(r, fs))
<1>1. \A ls : Untouched(r, NewFile(r, ls))
  <2> TAKE ls
  <2> DEFINE q == NewFile(r, ls)
  <2>1. DOMAIN q = DOMAIN r
    BY DEF NewFile
  <2>2. \A f \in DOMAIN r : f \in Flags \union {"env"} => q[f] = r[f]
    BY DEF NewFile, Flags
  <2> HIDE DEF q
  <2> QED BY <2>1, <2>2, OtherFields DEF q
<1>2. \A fs : Untouched(r, Close(r, fs))
  BY OtherFields DEF Flags, Close
<1> QED BY <1>1, <1>2

LEMMA AfterUntouched ==
  ASSUME NEW r, Whole(r), NEW q, Untouched(r, q)
  PROVE  Whole(q)
BY UntouchedKeeps DEF StatementKeeps, CommandKeeps

LEMMA ThenSetVar ==
  ASSUME NEW r, Whole(r), NEW q, Untouched(r, q), NEW n, NEW v
  PROVE  Untouched(r, SetVar(q, n, v))
BY AfterUntouched, SetVarUntouched, UntouchedTwice

LEMMA SetVarWithIndexUntouched ==
  ASSUME NEW r, Whole(r), NEW prev, NEW n, NEW v
  PROVE  Untouched(r, SetVarWithIndex(r, prev, n, v))
<1>1. \A h : Untouched(r, [r EXCEPT !.heap = h])
  BY OtherFields DEF Flags
<1>2. \A h, w : Untouched(r, SetVar([r EXCEPT !.heap = h], n, w))
  BY <1>1, ThenSetVar
<1>3. \A w : Untouched(r, SetVar(r, n, w))
  BY SetVarUntouched
<1> QED BY <1>2, <1>3, Zenon DEF SetVarWithIndex

LEMMA ExpandErrUntouched ==
  ASSUME NEW r, Whole(r)
  PROVE  Untouched(r, ExpandErr(r))
<1> DEFINE q == ExpandErr(r)
<1>1. DOMAIN q = DOMAIN r
  BY DEF ExpandErr
<1>2. \A f \in DOMAIN r : f \in Flags \union {"env"} => q[f] = r[f]
  BY DEF ExpandErr, Flags
<1> HIDE DEF q
<1> QED BY <1>1, <1>2, OtherFields DEF q

LEMMA ExecUntouched ==
  ASSUME NEW r, Whole(r), NEW fields
  PROVE  Untouched(r, Exec(r, fields))
<1>1. Untouched(r, Write(r, r.stdout, fields)) /\ Untouched(r, r)
  BY WriteUntouched, ItselfUntouched
<1>2. \A q, e : Untouched(r, q) => Untouched(r, [q EXCEPT !.exit = e])
  <2> TAKE q, e
  <2> HAVE Untouched(r, q)
  <2>1. Whole(q)
    BY AfterUntouched
  <2>2. Untouched(q, [q EXCEPT !.exit = e])
    BY <2>1, OtherFields DEF Flags
  <2> QED BY <2>2, UntouchedTwice
<1> QED BY <1>1, <1>2, Zenon DEF Exec

---------------------------------------------------------------------------
(* Builtins that run nothing. *)

LEMMA ResultUntouched ==
  ASSUME NEW r, NEW q, Untouched(r, q)
  PROVE  \A e : Untouched(r, Result(q, e).r)
BY DEF Result

LEMMA StatusBuiltins ==
  ASSUME NEW r, Whole(r), NEW args
  PROVE  /\ Untouched(r, ExitCmd(r, args).r)
         /\ Untouched(r, ReturnCmd(r, args).r)
         /\ Untouched(r, WaitCmd(r, args).r)
<1>1. \A e : Untouched(r, Result(r, e).r)
  BY ItselfUntouched, ResultUntouched
<1>2. Untouched(r, ExitCmd(r, args).r)
  BY <1>1, Zenon DEF ExitCmd
<1>3. Untouched(r, ReturnCmd(r, args).r)
  BY <1>1, Zenon DEF ReturnCmd
<1>4. Untouched(r, WaitCmd(r, args).r)
  BY <1>1, Zenon DEF WaitCmd
<1> QED BY <1>2, <1>3, <1>4

LEMMA LoopBuiltins ==
  ASSUME NEW r, Whole(r), NEW args, NEW name
  PROVE  Untouched(r, LoopCmd(r, name, args).r) /\ Untouched(r, ShiftCmd(r, args).r)
<1>1. \A e : Untouched(r, Result(r, e).r)
  BY ItselfUntouched, ResultUntouched
<1>2. \A n : Untouched(r, [r EXCEPT !.brk = n]) /\ Untouched(r, [r EXCEPT !.cont = n])
  BY OtherFields DEF Flags
<1>3. \A n, e : /\ Untouched(r, Result([r EXCEPT !.brk = n], e).r)
                /\ Untouched(r, Result([r EXCEPT !.cont = n], e).r)
  BY <1>2, ResultUntouched
<1>4. Untouched(r, LoopCmd(r, name, args).r)
  BY <1>1, <1>3, Zenon DEF LoopCmd
<1>5. \A ps : Untouched(r, [r EXCEPT !.params = ps])
  BY OtherFields DEF Flags
<1>6. Untouched(r, [r EXCEPT !.panicked = TRUE])
  BY OtherFields DEF Flags
<1>7. \A ps, e : /\ Untouched(r, Result([r EXCEPT !.params = ps], e).r)
                 /\ Untouched(r, Result([r EXCEPT !.panicked = TRUE], e).r)
  BY <1>5, <1>6, ResultUntouched
<1>8. Untouched(r, ShiftCmd(r, args).r)
  BY <1>1, <1>7, Zenon DEF ShiftCmd
<1> QED BY <1>4, <1>8

LEMMA ChangeDirUntouched ==
  ASSUME NEW r, Whole(r), NEW path
  PROVE  Untouched(r, ChangeDir(r, path).r)
<1>1. \A e : Untouched(r, Result(r, e).r)
  BY ItselfUntouched, ResultUntouched
<1>2. \A old : Untouched(r, SetVarString(SetVarString(r, "OLDPWD", old), "PWD", <<path>>))
  BY SetVarStringUntouched, ThenSetVar DEF SetVarString
<1>3. \A q : Untouched(r, q) => Untouched(r, [q EXCEPT !.dir = path])
  <2> TAKE q
  <2> HAVE Untouched(r, q)
  <2>1. Whole(q)
    BY AfterUntouched
  <2>2. Untouched(q, [q EXCEPT !.dir = path])
    BY <2>1, OtherFields DEF Flags
  <2> QED BY <2>2, UntouchedTwice
<1>4. \A old, e :
         Untouched(r, Result([SetVarString(SetVarString(r, "OLDPWD", old), "PWD", <<path>>)
                              EXCEPT !.dir = path], e).r)
  BY <1>2, <1>3, ResultUntouched
<1> QED BY <1>1, <1>4, Zenon DEF ChangeDir

LEMMA DirBuiltins ==
  ASSUME NEW r, Whole(r), NEW args
  PROVE  /\ Untouched(r, CdCmd(r, args).r)
         /\ Untouched(r, DirsCmd(r))
         /\ Untouched(r, PushdCmd(r, args).r)
         /\ Untouched(r, PopdCmd(r, args).r)
<1>1. \A e : Untouched(r, Result(r, e).r)
  BY ItselfUntouched, ResultUntouched
<1>2. \A q : Untouched(r, q) => Whole(q)
  BY AfterUntouched
<1>3. \A q, path : Untouched(r, q) => Untouched(r, ChangeDir(q, path).r)
  BY <1>2, ChangeDirUntouched, UntouchedTwice
<1>4. \A q, stack : Untouched(r, q) => Untouched(r, [q EXCEPT !.dirStack = stack])
  <2> TAKE q, stack
  <2> HAVE Untouched(r, q)
  <2>1. Untouched(q, [q EXCEPT !.dirStack = stack])
    BY <1>2, OtherFields DEF Flags
  <2> QED BY <2>1, UntouchedTwice
<1>5. \A q : Untouched(r, q) => Untouched(r, DirsCmd(q))
  BY <1>2, WriteUntouched, UntouchedTwice DEF DirsCmd
<1>6. \A res : Untouched(r, res.r) => Untouched(r, Shown(res).r)
  BY <1>5 DEF Shown, Result
<1>7. \A res, stack : Untouched(r, res.r) /\ "r" \in DOMAIN res
                      => Untouched(r, [res EXCEPT !.r.dirStack = stack].r)
  BY <1>4
<1>8. \A q, path : "r" \in DOMAIN ChangeDir(q, path)
  BY DEF ChangeDir, Result
<1>9. Untouched(r, r)
  BY ItselfUntouched
<1>10. Untouched(r, CdCmd(r, args).r)
  BY <1>1, <1>3, <1>9, Zenon DEF CdCmd
<1>11. Untouched(r, DirsCmd(r))
  BY <1>5, <1>9
<1>12. \A stack : Untouched(r, [r EXCEPT !.dirStack = stack])
  BY <1>4, <1>9
<1>13. Untouched(r, PushdCmd(r, args).r)
  <2>1. \A stack, e : Untouched(r, Shown(Result([r EXCEPT !.dirStack = stack], e)).r)
    BY <1>6, <1>12, ResultUntouched
  <2>2. \A stack, path : Untouched(r, Shown(ChangeDir([r EXCEPT !.dirStack = stack], path)).r)
    BY <1>3, <1>6, <1>12
  <2>3. \A path, stack :
           /\ Untouched(r, Shown(ChangeDir(r, path)).r)
           /\ Untouched(r, Shown([ChangeDir(r, path) EXCEPT !.r.dirStack = stack]).r)
    BY <1>3, <1>6, <1>7, <1>8, <1>9
  <2> QED BY <1>1, <2>1, <2>2, <2>3, Zenon DEF PushdCmd
<1>14. Untouched(r, PopdCmd(r, args).r)
  <2>1. \A s, path : Untouched(r, Shown(ChangeDir([r EXCEPT !.dirStack = s], path)).r)
    BY <1>3, <1>6, <1>12
  <2>2. \A s, t, e : Untouched(r, Shown(Result([[r EXCEPT !.dirStack = s]
                                                EXCEPT !.dirStack = t], e)).r)
    BY <1>4, <1>6, <1>12, ResultUntouched
  <2> QED BY <1>1, <2>1, <2>2, Zenon DEF PopdCmd
<1> QED BY <1>10, <1>11, <1>13, <1>14

(* A result, or any record that carries a Runner along, beside the Runner.  *)
CarriesUntouched(r, acc) == "r" \in DOMAIN acc /\ Untouched(r, acc.r)

UnsetKept == INSTANCE Walk_proofs WITH Step <- UnsetName, Keeps <- Untouched
ReadKept == INSTANCE Walk_proofs WITH Step <- ReadInto, Keeps <- Untouched
SignalKept == INSTANCE Walk_proofs WITH Step <- TrapSignal, Keeps <- CarriesUntouched

LEMMA NameBuiltins ==
  ASSUME NEW r, Whole(r), NEW args
  PROVE  /\ Untouched(r, UnsetCmd(r, args).r)
         /\ Untouched(r, AliasCmd(r, args).r)
         /\ Untouched(r, UnaliasCmd(r, args).r)
         /\ Untouched(r, ShoptCmd(r, args).r)
<1>1. \A e : Untouched(r, Result(r, e).r)
  BY ItselfUntouched, ResultUntouched
<1>2. \A x, gone : Untouched(r, x) => Untouched(r, UnsetName(x, gone))
  <2> TAKE x, gone
  <2> HAVE Untouched(r, x)
  <2>1. Whole(x)
    BY AfterUntouched
  <2>2. \A n : Untouched(x, DelVar(x, n))
    BY <2>1, DelVarUntouched
  <2>3. \A fs : Untouched(x, [x EXCEPT !.funcs = fs])
    BY <2>1, OtherFields DEF Flags
  <2>4. Untouched(x, x)
    BY <2>1, ItselfUntouched
  <2>5. Untouched(x, UnsetName(x, gone))
    BY <2>2, <2>3, <2>4, Zenon DEF UnsetName
  <2> QED BY <2>5, UntouchedTwice
<1>3. \A items : Untouched(r, EachUnset!Through(r, items))
  <2> TAKE items
  <2>1. Untouched(r, UnsetKept!Through(r, items))
    BY <1>2, ItselfUntouched, UnsetKept!WalkKeeps
  <2> QED BY <2>1, Zenon DEF EachUnset!Through, UnsetKept!Through
<1>4. Untouched(r, UnsetCmd(r, args).r)
  <2>1. \A items, e : Untouched(r, Result(EachUnset!Through(r, items), e).r)
    BY <1>3, ResultUntouched
  <2> QED BY <2>1, Zenon DEF UnsetCmd
<1>5. \A as, e : Untouched(r, Result([r EXCEPT !.alias = as], e).r)
  <2>1. \A as : Untouched(r, [r EXCEPT !.alias = as])
    BY OtherFields DEF Flags
  <2> QED BY <2>1, ResultUntouched
<1>6. Untouched(r, AliasCmd(r, args).r) /\ Untouched(r, UnaliasCmd(r, args).r)
  BY <1>1, <1>5, Zenon DEF AliasCmd, UnaliasCmd
<1>7. \A os, e : Untouched(r, Result([r EXCEPT !.opts = os], e).r)
  <2>1. \A os : Untouched(r, [r EXCEPT !.opts = os])
    BY OtherFields DEF Flags
  <2> QED BY <2>1, ResultUntouched
<1>8. Untouched(r, ShoptCmd(r, args).r)
  BY <1>1, <1>7, Zenon DEF ShoptCmd
<1> QED BY <1>4, <1>6, <1>8

LEMMA ReadBuiltins ==
  ASSUME NEW r, Whole(r), NEW args
  PROVE  Untouched(r, ReadCmd(r, args).r) /\ Untouched(r, MapfileCmd(r).r)
<1>1. \A fs : Untouched(r, [r EXCEPT !.feeds = fs])
  BY OtherFields DEF Flags
<1>2. \A x, part : Untouched(r, x) => Untouched(r, ReadInto(x, part))
  BY AfterUntouched, SetVarStringUntouched, UntouchedTwice DEF ReadInto
<1>3. \A q, items : Untouched(r, q) => Untouched(r, EachRead!Through(q, items))
  <2> TAKE q, items
  <2> HAVE Untouched(r, q)
  <2>1. Untouched(r, ReadKept!Through(q, items))
    BY <1>2, ReadKept!WalkKeeps
  <2> QED BY <2>1, Zenon DEF EachRead!Through, ReadKept!Through
<1>4. \A fs, items, e :
         /\ Untouched(r, Result(EachRead!Through(r, items), e).r)
         /\ Untouched(r, Result(EachRead!Through([r EXCEPT !.feeds = fs], items), e).r)
  BY <1>1, <1>3, ItselfUntouched, ResultUntouched
<1>5. Untouched(r, ReadCmd(r, args).r)
  BY <1>4, Zenon DEF ReadCmd
<1>6. \A h, fs : Untouched(r, [[r EXCEPT !.heap = h] EXCEPT !.feeds = fs])
  <2>1. \A h : Untouched(r, [r EXCEPT !.heap = h])
    BY OtherFields DEF Flags
  <2>2. \A q, fs : Untouched(r, q) => Untouched(r, [q EXCEPT !.feeds = fs])
    <3> TAKE q, fs
    <3> HAVE Untouched(r, q)
    <3>1. Whole(q)
      BY AfterUntouched
    <3>2. Untouched(q, [q EXCEPT !.feeds = fs])
      BY <3>1, OtherFields DEF Flags
    <3> QED BY <3>2, UntouchedTwice
  <2> QED BY <2>1, <2>2
<1>7. \A h, fs, n, v, e :
         Untouched(r, Result(SetVar([[r EXCEPT !.heap = h] EXCEPT !.feeds = fs], n, v), e).r)
  BY <1>6, ThenSetVar, ResultUntouched
<1>8. Untouched(r, MapfileCmd(r).r)
  <2>1. \A e : Untouched(r, Result(r, e).r)
    BY ItselfUntouched, ResultUntouched
  <2> QED BY <1>7, <2>1, Zenon DEF MapfileCmd
<1> QED BY <1>5, <1>8

LEMMA TrapBuiltin ==
  ASSUME NEW r, Whole(r), NEW args
  PROVE  Untouched(r, TrapCmd(r, args).r)
<1>1. \A acc, set : CarriesUntouched(r, acc) => CarriesUntouched(r, TrapSignal(acc, set))
  <2> TAKE acc, set
  <2> HAVE CarriesUntouched(r, acc)
  <2>1. "r" \in DOMAIN acc /\ Untouched(r, acc.r) /\ Whole(acc.r)
    BY AfterUntouched DEF CarriesUntouched
  <2>2. \A t : Untouched(acc.r, [acc.r EXCEPT !.callbackErr = t])
    BY <2>1, OtherFields DEF Flags
  <2>3. \A t : Untouched(acc.r, [acc.r EXCEPT !.callbackExit = t])
    BY <2>1, OtherFields DEF Flags
  <2>4. \A t : CarriesUntouched(r, [acc EXCEPT !.r.callbackErr = t])
    BY <2>1, <2>2, UntouchedTwice DEF CarriesUntouched
  <2>5. \A t : CarriesUntouched(r, [acc EXCEPT !.r.callbackExit = t])
    BY <2>1, <2>3, UntouchedTwice DEF CarriesUntouched
  <2>6. CarriesUntouched(r, [acc EXCEPT !.bad = TRUE])
    BY <2>1 DEF CarriesUntouched
  <2>7. CarriesUntouched(r, acc)
    OBVIOUS
  <2> QED BY <2>4, <2>5, <2>6, <2>7, Zenon DEF TrapSignal
<1>2. \A items : Untouched(r, EachSignal!Through([r |-> r, bad |-> FALSE], items).r)
  <2> TAKE items
  <2>1. CarriesUntouched(r, [r |-> r, bad |-> FALSE])
    BY ItselfUntouched DEF CarriesUntouched
  <2>2. CarriesUntouched(r, SignalKept!Through([r |-> r, bad |-> FALSE], items))
    BY <1>1, <2>1, SignalKept!WalkKeeps
  <2>3. CarriesUntouched(r, EachSignal!Through([r |-> r, bad |-> FALSE], items))
    BY <2>2, Zenon DEF EachSignal!Through, SignalKept!Through
  <2> QED BY <2>3 DEF CarriesUntouched
<1>3. \A items, e :
         Untouched(r, Result(EachSignal!Through([r |-> r, bad |-> FALSE], items).r, e).r)
  BY <1>2, ResultUntouched
<1>4. \A e : Untouched(r, Result(r, e).r)
  BY ItselfUntouched, ResultUntouched
<1> QED BY <1>3, <1>4, Zenon DEF TrapCmd

LEMMA SetParamsKeeps ==
  ASSUME NEW r, Whole(r), NEW ps
  PROVE  StatementKeeps(r, SetParams(r, ps))
<1> DEFINE q == SetParams(r, ps)
<1>1. DOMAIN q = DOMAIN r /\ "sourceSetParams" \in DOMAIN r
  BY DEF SetParams, Whole, Flags
<1>2. \A f \in DOMAIN r : f \in (Flags \union {"env"}) \ {"sourceSetParams"} => q[f] = r[f]
  BY DEF SetParams, Flags
<1>3. /\ q.inLoop = r.inLoop /\ q.inFunc = r.inFunc /\ q.inSource = r.inSource
      /\ q.noErrExit = r.noErrExit
      /\ q.handlingTrap = r.handlingTrap /\ q.unparsed = r.unparsed
      /\ q.keepRedirs = r.keepRedirs /\ q.left = r.left
      /\ q.stdin = r.stdin /\ q.stdout = r.stdout /\ q.stderr = r.stderr
      /\ q.env = r.env
  BY <1>2 DEF Whole, Flags
<1>4. q.sourceSetParams \in BOOLEAN /\ (r.inSource \/ q.sourceSetParams = r.sourceSetParams)
  <2>1. q.sourceSetParams = (r.sourceSetParams \/ r.inSource)
    BY <1>1 DEF SetParams
  <2> HIDE DEF q
  <2>2. r.sourceSetParams \in BOOLEAN /\ r.inSource \in BOOLEAN
    BY DEF Whole
  <2> QED BY <2>1, <2>2
<1> HIDE DEF q
<1>5. Whole(q)
  BY <1>1, <1>3, <1>4 DEF Whole
<1>6. CommandKeeps(r, q)
  BY <1>3, <1>4, <1>5 DEF CommandKeeps, Whole
<1> QED BY <1>3, <1>6 DEF StatementKeeps, SameStreams, q

(* The same for what keeps, but does not leave alone, the flags.            *)
ResultKeeps(r, acc) == "res" \in DOMAIN acc /\ StatementKeeps(r, acc.res.r)

SetKept == INSTANCE Walk_proofs WITH Step <- SetArg, Keeps <- ResultKeeps

LEMMA AfterKeeps ==
  ASSUME NEW r, NEW q, StatementKeeps(r, q)
  PROVE  Whole(q)
BY DEF StatementKeeps, CommandKeeps

LEMMA ThenUntouched ==
  ASSUME NEW r, Whole(r), NEW q, StatementKeeps(r, q), NEW s, Untouched(q, s)
  PROVE  StatementKeeps(r, s)
BY AfterKeeps, UntouchedKeeps, StatementKeepsTwice

LEMMA SetBuiltin ==
  ASSUME NEW r, Whole(r), NEW args
  PROVE  StatementKeeps(r, SetCmd(r, args).r)
<1>1. \A acc, rest : ResultKeeps(r, acc) => ResultKeeps(r, SetArg(acc, rest))
  <2> TAKE acc, rest
  <2> HAVE ResultKeeps(r, acc)
  <2> DEFINE q == acc.res.r
  <2>1. StatementKeeps(r, q) /\ Whole(q)
    BY AfterKeeps DEF ResultKeeps
  <2>2. \A opt, on : StatementKeeps(r, SetOpt(q, opt, on))
    <3> TAKE opt, on
    <3> HIDE DEF q
    <3>1. Untouched(q, SetOpt(q, opt, on))
      BY <2>1, OtherFields DEF Flags, SetOpt
    <3> QED BY <2>1, <3>1, ThenUntouched
  <2>3. \A ps : StatementKeeps(r, SetParams(q, ps))
    <3> HIDE DEF q
    <3> QED BY <2>1, SetParamsKeeps, StatementKeepsTwice
  <2>4. \A s, e : StatementKeeps(r, s) => ResultKeeps(r, SetDone(Result(s, e)))
    BY DEF ResultKeeps, SetDone, Result
  <2>5. \A s, b : StatementKeeps(r, s) => ResultKeeps(r, SetMore(s, b))
    BY DEF ResultKeeps, SetMore, Result
  <2>6. ResultKeeps(r, acc) /\ ResultKeeps(r, [acc EXCEPT !.skip = FALSE])
    BY DEF ResultKeeps
  <2>7. \A ps, e : ResultKeeps(r, SetDone(Result(SetParams(q, ps), e)))
    <3> HIDE DEF q
    <3> QED BY <2>3, <2>4
  <2>8. \A opt, on, b : ResultKeeps(r, SetMore(SetOpt(q, opt, on), b))
    <3> HIDE DEF q
    <3> QED BY <2>2, <2>5
  <2>9. \A e : ResultKeeps(r, SetDone(Result(q, e)))
    <3> HIDE DEF q
    <3> QED BY <2>1, <2>4
  <2>10. \A ps, b, e : /\ ResultKeeps(r, SetDone(Result([q EXCEPT !.params = ps], e)))
                       /\ ResultKeeps(r, SetDone(Result([q EXCEPT !.panicked = b], e)))
    <3> TAKE ps, b, e
    <3> HIDE DEF q
    <3>1. Untouched(q, [q EXCEPT !.params = ps]) /\ Untouched(q, [q EXCEPT !.panicked = b])
      BY <2>1, OtherFields DEF Flags
    <3> QED BY <2>1, <2>4, <3>1, ThenUntouched
  <2> QED BY <2>6, <2>7, <2>8, <2>9, <2>10, Zenon DEF SetArg
<1>2. ResultKeeps(r, SetMore(r, FALSE))
  BY KeepsItself DEF ResultKeeps, SetMore, Result
<1>3. \A items : StatementKeeps(r, EachSetArg!Through(SetMore(r, FALSE), items).res.r)
  <2> TAKE items
  <2>1. ResultKeeps(r, SetKept!Through(SetMore(r, FALSE), items))
    BY <1>1, <1>2, SetKept!WalkKeeps
  <2>2. ResultKeeps(r, EachSetArg!Through(SetMore(r, FALSE), items))
    BY <2>1, Zenon DEF EachSetArg!Through, SetKept!Through
  <2> QED BY <2>2 DEF ResultKeeps
<1> QED BY <1>3, Zenon DEF SetCmd

---------------------------------------------------------------------------
(* Statements within statements: what is shown of a command whose own       *)
(* statements, all of which have fewer than n left to start, put back what  *)
(* they set.                                                                *)
StatementsKeep(n) ==
    \A r, st : Whole(r) /\ r.left < n => StatementKeeps(r, ExecStmt(r, st))

Below(n, r) == Whole(r) /\ r.left < n

LEMMA StaysBelow ==
  ASSUME NEW n \in Nat, NEW r, Below(n, r), NEW q, CommandKeeps(r, q)
  PROVE  Below(n, q)
BY DEF Below, CommandKeeps, Whole

StmtsKept == INSTANCE Walk_proofs WITH Step <- ExecStmt, Keeps <- StatementKeeps

LEMMA StmtsKeep ==
  ASSUME NEW n \in Nat, StatementsKeep(n), NEW r, Below(n, r), NEW body
  PROVE  StatementKeeps(r, Stmts(r, body))
<1>1. ASSUME NEW x, NEW st, StatementKeeps(r, x) PROVE StatementKeeps(r, ExecStmt(x, st))
  <2>1. Below(n, x)
    BY <1>1, StaysBelow DEF StatementKeeps
  <2>2. StatementKeeps(x, ExecStmt(x, st))
    BY <2>1 DEF StatementsKeep, Below
  <2> QED BY <1>1, <2>2, StatementKeepsTwice DEF Below
<1>2. StatementKeeps(r, r)
  BY KeepsItself DEF Below
<1>3. StatementKeeps(r, StmtsKept!Through(r, body))
  BY <1>1, <1>2, StmtsKept!WalkKeeps
<1>4. StatementKeeps(r, EachStmt!Through(r, body))
  BY <1>3, Zenon DEF EachStmt!Through, StmtsKept!Through
<1> QED BY <1>4 DEF Stmts

(* Shells of their own. *)
LEMMA ListGrows ==
  ASSUME NEW list, IsList(list), NEW x
  PROVE  IsList(Append(list, x)) /\ Len(Append(list, x)) = Len(list) + 1
<1> DEFINE T == {list[i] : i \in DOMAIN list} \union {x}
           longer == Append(list, x)
<1>1. list \in Seq(T)
  <2>1. list \in Seq({list[i] : i \in DOMAIN list})
    BY DEF IsList
  <2> QED BY <2>1
<1>2. longer \in Seq(T) /\ Len(longer) = Len(list) + 1
  BY <1>1
<1> HIDE DEF T, longer
<1>3. Len(longer) \in Nat /\ DOMAIN longer = 1..Len(longer)
      /\ longer = [i \in DOMAIN longer |-> longer[i]]
  BY <1>2, LenProperties
<1>4. IsList(longer)
  BY <1>3, ListMade
<1> QED BY <1>2, <1>4 DEF longer

LEMMA ListCut ==
  ASSUME NEW list, IsList(list), NEW n \in Nat, Len(list) = n + 1
  PROVE  IsList(SubSeq(list, 1, n)) /\ Len(SubSeq(list, 1, n)) = n
<1> DEFINE T == {list[i] : i \in DOMAIN list}
           cut == SubSeq(list, 1, n)
<1>1. list \in Seq(T)
  BY DEF IsList
<1> HIDE DEF T
<1>2. 1 \in 1..Len(list) + 1 /\ n \in 1 - 1..Len(list)
  OBVIOUS
<1>3. cut \in Seq(T) /\ Len(cut) = n
  <2>1. Len(cut) = (n - 1) + 1 /\ cut \in Seq(T)
    BY <1>1, <1>2, SubSeqProperties
  <2> QED BY <2>1
<1> HIDE DEF cut
<1>4. DOMAIN cut = 1..n /\ cut = [i \in DOMAIN cut |-> cut[i]]
  BY <1>3, LenProperties
<1>5. IsList(cut)
  BY <1>4, ListMade
<1> QED BY <1>3, <1>5 DEF cut

LEMMA OverlayIsList ==
  ASSUME NEW chain, IsList(chain), NEW bg
  PROVE  IsList(NewOverlay(chain, bg))
<1>1. \A x : IsList(<< x >>)
  <2> TAKE x
  <2>1. << x >> = [i \in DOMAIN << x >> |-> << x >>[i]] /\ DOMAIN << x >> = 1..1
    OBVIOUS
  <2> QED BY <2>1, ListMade
<1>2. \A x : IsList(Append(chain, x))
  BY ListGrows
<1> QED BY <1>1, <1>2, Zenon DEF NewOverlay

LEMMA SubshellIsWhole ==
  ASSUME NEW r, Whole(r), NEW bg
  PROVE  Whole(SubshellOf(r, bg)) /\ SubshellOf(r, bg).left = r.left
<1> DEFINE s == SubshellOf(r, bg)
<1>1. Flags \union {"env"} \subseteq DOMAIN s /\ StopFields \subseteq DOMAIN s
  <2>1. DOMAIN s = DOMAIN Runner(FALSE, <<>>, r.left)
    BY DEF SubshellOf
  <2>2. \A f \in Flags \union {"env"} \union StopFields : f \in DOMAIN Runner(FALSE, <<>>, r.left)
    BY DEF Runner, Flags, StopFields
  <2> QED BY <2>1, <2>2
<1>2. s.left = r.left /\ s.inSource = FALSE /\ s.sourceSetParams = FALSE
      /\ s.keepRedirs = FALSE /\ s.handlingTrap = FALSE
  BY DEF SubshellOf, Runner
<1>3. s.env = NewOverlay(r.env, bg)
  BY DEF SubshellOf, Runner
<1> HIDE DEF s
<1>4. IsList(s.env)
  BY <1>3, OverlayIsList DEF Whole
<1> QED BY <1>1, <1>2, <1>4 DEF Whole, s

LEMMA JoinKeeps ==
  ASSUME NEW r, Whole(r), NEW child, child.left \in Nat, child.left <= r.left
  PROVE  StatementKeeps(r, Join(r, child))
<1> DEFINE q == Join(r, child)
<1>1. DOMAIN q = DOMAIN r /\ Flags \union {"env"} \subseteq DOMAIN r
  BY DEF Join, Whole
<1>2. \A f \in DOMAIN r : f \in (Flags \union {"env"}) \ {"left"} => q[f] = r[f]
  BY DEF Join, Flags
<1>3. /\ q.inLoop = r.inLoop /\ q.inFunc = r.inFunc /\ q.inSource = r.inSource
      /\ q.noErrExit = r.noErrExit /\ q.sourceSetParams = r.sourceSetParams
      /\ q.handlingTrap = r.handlingTrap /\ q.unparsed = r.unparsed
      /\ q.keepRedirs = r.keepRedirs
      /\ q.stdin = r.stdin /\ q.stdout = r.stdout /\ q.stderr = r.stderr
      /\ q.env = r.env
  BY <1>1, <1>2 DEF Flags
<1>4. q.left = child.left
  BY <1>1 DEF Join, Flags
<1> HIDE DEF q
<1>5. Whole(q)
  BY <1>1, <1>3, <1>4 DEF Whole
<1>6. CommandKeeps(r, q)
  BY <1>3, <1>4, <1>5 DEF CommandKeeps
<1> QED BY <1>3, <1>6 DEF StatementKeeps, SameStreams, q

LEMMA StreamsKeep ==
  ASSUME NEW r, Whole(r), NEW f
  PROVE  /\ CommandKeeps(r, [r EXCEPT !.stdin = f])
         /\ CommandKeeps(r, [r EXCEPT !.stdout = f])
         /\ CommandKeeps(r, [r EXCEPT !.stderr = f])
<1> DEFINE Others(q) ==
             /\ DOMAIN q = DOMAIN r /\ q.env = r.env
             /\ \A g \in Flags \ {"stdin", "stdout", "stderr"} : q[g] = r[g]
<1>1. ASSUME NEW q, Others(q) PROVE CommandKeeps(r, q)
  <2>1. /\ q.inLoop = r.inLoop /\ q.inFunc = r.inFunc /\ q.inSource = r.inSource
        /\ q.noErrExit = r.noErrExit /\ q.sourceSetParams = r.sourceSetParams
        /\ q.handlingTrap = r.handlingTrap /\ q.unparsed = r.unparsed
        /\ q.keepRedirs = r.keepRedirs /\ q.left = r.left /\ q.env = r.env
    BY <1>1 DEF Flags
  <2>2. Flags \union {"env"} \subseteq DOMAIN q /\ StopFields \subseteq DOMAIN q
    BY <1>1 DEF Whole
  <2> HIDE DEF Others
  <2>3. Whole(q)
    BY <2>1, <2>2 DEF Whole
  <2> QED BY <2>1, <2>3 DEF CommandKeeps, Whole
<1>2. Flags \union {"env"} \subseteq DOMAIN r
  BY DEF Whole
<1>3. Others([r EXCEPT !.stdin = f])
  BY <1>2 DEF Flags
<1>4. Others([r EXCEPT !.stdout = f])
  BY <1>2 DEF Flags
<1>5. Others([r EXCEPT !.stderr = f])
  BY <1>2 DEF Flags
<1> HIDE DEF Others
<1> QED BY <1>1, <1>3, <1>4, <1>5

(* Expansions. *)
CarriesKeeps(r, acc) == "r" \in DOMAIN acc /\ StatementKeeps(r, acc.r)

LEMMA CarriedBelow ==
  ASSUME NEW n \in Nat, NEW r, Below(n, r), NEW q, StatementKeeps(r, q)
  PROVE  Below(n, q)
BY StaysBelow DEF StatementKeeps

LEMMA ChildJoins ==
  ASSUME NEW n \in Nat, StatementsKeep(n), NEW r, Below(n, r),
         NEW child, Whole(child), child.left = r.left, NEW body
  PROVE  StatementKeeps(r, Join(r, Stmts(child, body)))
<1>1. Below(n, child)
  BY DEF Below
<1>2. StatementKeeps(child, Stmts(child, body))
  BY <1>1, StmtsKeep
<1>3. Stmts(child, body).left \in Nat /\ Stmts(child, body).left <= r.left
  BY <1>2 DEF StatementKeeps, CommandKeeps, Whole
<1> QED BY <1>3, JoinKeeps DEF Below

LEMMA SubstituteKeeps ==
  ASSUME NEW n \in Nat, StatementsKeep(n), NEW r, Below(n, r), NEW body
  PROVE  CarriesKeeps(r, Substitute(r, body))
<1> DEFINE shell0 == SubshellOf(NewFile(r, <<>>), FALSE)
           child == [shell0 EXCEPT !.stdout = r.files]
<1>1. Whole(r) /\ Untouched(r, NewFile(r, <<>>)) /\ Whole(NewFile(r, <<>>))
  BY FilesUntouched, AfterUntouched DEF Below
<1>2. NewFile(r, <<>>).left = r.left
  BY <1>1 DEF Untouched, Flags
<1>3. Whole(shell0) /\ shell0.left = r.left
  BY <1>1, <1>2, SubshellIsWhole
<1>4. Whole(child) /\ child.left = r.left
  <2> HIDE DEF shell0
  <2>1. Whole(child)
    BY <1>3, StreamsKeep DEF CommandKeeps
  <2> QED BY <1>3, <2>1
<1> HIDE DEF child
<1>5. StatementKeeps(r, Join(r, Stmts(child, body)))
  BY <1>4, ChildJoins
<1>6. \A q, e : Whole(q) => Untouched(q, [q EXCEPT !.lastExpandExit = e])
  BY OtherFields DEF Flags
<1>7. \A e : StatementKeeps(r, [Join(r, Stmts(child, body)) EXCEPT !.lastExpandExit = e])
  BY <1>1, <1>5, <1>6, AfterKeeps, ThenUntouched
<1>8. CarriesKeeps(r, Captured(r, Stmts(child, body)))
  BY <1>7 DEF CarriesKeeps, Captured
<1> QED BY <1>8, Zenon DEF Substitute, child

LEMMA WordKeeps ==
  ASSUME NEW n \in Nat, StatementsKeep(n), NEW r, Below(n, r), NEW word
  PROVE  CarriesKeeps(r, ExpandWord(r, word))
<1>1. \A fs, ok : CarriesKeeps(r, [r |-> r, fs |-> fs, ok |-> ok])
  BY KeepsItself DEF CarriesKeeps, Below
<1>2. \A fs, ok : CarriesKeeps(r, [r |-> ExpandErr(r), fs |-> fs, ok |-> ok])
  BY ExpandErrUntouched, UntouchedKeeps DEF CarriesKeeps, Below
<1>3. \A body, fs : CarriesKeeps(r, [Substitute(r, body) EXCEPT !.fs = fs])
  <2> TAKE body, fs
  <2>1. CarriesKeeps(r, Substitute(r, body))
    BY SubstituteKeeps
  <2> QED BY <2>1 DEF CarriesKeeps
<1> QED BY <1>1, <1>2, <1>3, Zenon DEF ExpandWord

WordsKept == INSTANCE Walk_proofs WITH Step <- TakeWord, Keeps <- CarriesKeeps

LEMMA FieldsKeep ==
  ASSUME NEW n \in Nat, StatementsKeep(n), NEW r, Below(n, r), NEW words
  PROVE  CarriesKeeps(r, Fields(r, words))
<1>1. ASSUME NEW acc, NEW word, CarriesKeeps(r, acc)
      PROVE  CarriesKeeps(r, TakeWord(acc, word))
  <2>1. StatementKeeps(r, acc.r) /\ Below(n, acc.r)
    BY <1>1, CarriedBelow DEF CarriesKeeps
  <2>2. CarriesKeeps(acc.r, ExpandWord(acc.r, word))
    BY <2>1, WordKeeps
  <2>3. CarriesKeeps(r, ExpandWord(acc.r, word))
    BY <2>1, <2>2, StatementKeepsTwice DEF CarriesKeeps, Below
  <2>4. CarriesKeeps(r, AddFields(acc, ExpandWord(acc.r, word)))
    BY <2>3 DEF CarriesKeeps, AddFields
  <2> QED BY <1>1, <2>4, Zenon DEF TakeWord
<1> DEFINE none == [r |-> r, fs |-> <<>>, ok |-> TRUE]
<1>2. CarriesKeeps(r, none)
  BY KeepsItself DEF CarriesKeeps, Below
<1> HIDE DEF none
<1>3. CarriesKeeps(r, WordsKept!Through(none, words))
  BY <1>1, <1>2, WordsKept!WalkKeeps
<1>4. CarriesKeeps(r, EachWord!Through(none, words))
  BY <1>3, Zenon DEF EachWord!Through, WordsKept!Through
<1> QED BY <1>4 DEF Fields, none

LEMMA LiteralKeeps ==
  ASSUME NEW n \in Nat, StatementsKeep(n), NEW r, Below(n, r), NEW word
  PROVE  StatementKeeps(r, Literal(r, word).r)
<1>1. StatementKeeps(r, Fields(r, << word >>).r)
  BY FieldsKeep DEF CarriesKeeps
<1> QED BY <1>1 DEF Literal, Joined

LEMMA HeapKeeps ==
  ASSUME NEW r, Whole(r), NEW q, StatementKeeps(r, q), NEW h
  PROVE  StatementKeeps(r, [q EXCEPT !.heap = h])
<1>1. Untouched(q, [q EXCEPT !.heap = h])
  BY AfterKeeps, OtherFields DEF Flags
<1> QED BY <1>1, ThenUntouched

LEMMA ValueKeeps ==
  ASSUME NEW n \in Nat, StatementsKeep(n), NEW r, Below(n, r), NEW found, NEW as, NEW ref
  PROVE  StatementKeeps(r, AssignVal(r, found, as, ref).r)
<1>1. Whole(r) /\ StatementKeeps(r, r)
  BY KeepsItself DEF Below
<1>2. \A q, m, v : StatementKeeps(r, q) => StatementKeeps(r, Value(q, m, v).r)
  BY DEF Value
<1>3. \A q, h, m, v : StatementKeeps(r, q)
                      => StatementKeeps(r, Value([q EXCEPT !.heap = h], m, v).r)
  BY <1>1, <1>2, HeapKeeps
<1>4. ASSUME NEW one, NEW m, NEW prev, NEW app, StatementKeeps(r, one.r)
      PROVE  StatementKeeps(r, StrValue(one, m, prev, app, ref).r)
  BY <1>2, <1>3, <1>4, Zenon DEF StrValue
<1>5. ASSUME NEW many, NEW m, NEW prev, NEW app, StatementKeeps(r, many.r)
      PROVE  StatementKeeps(r, ListValue(many, m, prev, app).r)
  BY <1>3, <1>5, Zenon DEF ListValue
<1>6. StatementKeeps(r, [r |-> r, s |-> <<>>].r)
  BY <1>1
<1>7. \A word : StatementKeeps(r, Literal(r, word).r)
  BY LiteralKeeps
<1>8. \A words : StatementKeeps(r, Fields(r, words).r)
  BY FieldsKeep DEF CarriesKeeps
<1>9. \A words, m, prev, app : StatementKeeps(r, ListValue(Fields(r, words), m, prev, app).r)
  BY <1>5, <1>8
<1>10. \A word, m, prev, app :
          /\ StatementKeeps(r, StrValue(Literal(r, word), m, prev, app, ref).r)
          /\ StatementKeeps(r, StrValue([r |-> r, s |-> <<>>], m, prev, app, ref).r)
  BY <1>4, <1>6, <1>7
<1> QED BY <1>9, <1>10, Zenon DEF AssignVal

(* Assignments. *)
AssignsKept == INSTANCE Walk_proofs WITH Step <- AssignNext, Keeps <- StatementKeeps
AssignsForKept == INSTANCE Walk_proofs WITH Step <- AssignNextFor, Keeps <- CarriesKeeps
RestoresKept == INSTANCE Walk_proofs WITH Step <- Restore, Keeps <- StatementKeeps
DeclsKept == INSTANCE Walk_proofs WITH Step <- DeclareNext, Keeps <- StatementKeeps

LEMMA ThenAssigned ==
  ASSUME NEW r, Whole(r), NEW q, StatementKeeps(r, q), NEW n, NEW v
  PROVE  /\ StatementKeeps(r, SetVar(q, n, v))
         /\ \A prev : StatementKeeps(r, SetVarWithIndex(q, prev, n, v))
<1>1. Whole(q)
  BY AfterKeeps
<1>2. Untouched(q, SetVar(q, n, v)) /\ \A prev : Untouched(q, SetVarWithIndex(q, prev, n, v))
  BY <1>1, SetVarUntouched, SetVarWithIndexUntouched
<1> QED BY <1>2, ThenUntouched

LEMMA AssignAllKeeps ==
  ASSUME NEW n \in Nat, StatementsKeep(n), NEW r, Below(n, r), NEW as
  PROVE  StatementKeeps(r, AssignAll(r, as))
<1>1. ASSUME NEW x, NEW a, StatementKeeps(r, x) PROVE StatementKeeps(r, AssignNext(x, a))
  <2>1. Below(n, x) /\ Whole(r)
    BY <1>1, CarriedBelow DEF Below
  <2>2. \A prev : StatementKeeps(x, AssignVal(x, prev, a, FALSE).r)
    BY <2>1, ValueKeeps
  <2>3. \A prev : StatementKeeps(r, AssignVal(x, prev, a, FALSE).r)
    BY <1>1, <2>1, <2>2, StatementKeepsTwice
  <2>4. \A prev : StatementKeeps(r, AssignOne(x, prev, a))
    BY <2>1, <2>3, ThenAssigned DEF AssignOne, AssignedTo
  <2> QED BY <2>4 DEF AssignNext
<1>2. StatementKeeps(r, r)
  BY KeepsItself DEF Below
<1>3. StatementKeeps(r, AssignsKept!Through(r, as))
  BY <1>1, <1>2, AssignsKept!WalkKeeps
<1>4. StatementKeeps(r, EachAssign!Through(r, as))
  BY <1>3, Zenon DEF EachAssign!Through, AssignsKept!Through
<1> QED BY <1>4 DEF AssignAll

LEMMA AssignForKeeps ==
  ASSUME NEW n \in Nat, StatementsKeep(n), NEW r, Below(n, r), NEW as
  PROVE  StatementKeeps(r, AssignFor(r, as).r)
<1>1. ASSUME NEW acc, NEW a, CarriesKeeps(r, acc) PROVE CarriesKeeps(r, AssignNextFor(acc, a))
  <2>1. StatementKeeps(r, acc.r) /\ Below(n, acc.r) /\ Whole(r)
    BY <1>1, CarriedBelow DEF CarriesKeeps, Below
  <2>2. \A prev, b : StatementKeeps(acc.r, AssignVal(acc.r, prev, b, FALSE).r)
    BY <2>1, ValueKeeps
  <2>3. \A prev, b : StatementKeeps(r, AssignVal(acc.r, prev, b, FALSE).r)
    BY <2>1, <2>2, StatementKeepsTwice
  <2>4. \A was, end, val : StatementKeeps(r, val.r) => CarriesKeeps(r, ExportFor(was, end, val))
    BY <2>1, ThenAssigned DEF CarriesKeeps, ExportFor
  <2>5. \A end : CarriesKeeps(r, AssignOneFor(acc, end, a))
    BY <2>3, <2>4 DEF AssignOneFor
  <2> QED BY <2>5 DEF AssignNextFor
<1> DEFINE none == [r |-> r, prev |-> <<>>]
<1>2. CarriesKeeps(r, none)
  BY KeepsItself DEF CarriesKeeps, Below
<1> HIDE DEF none
<1>3. CarriesKeeps(r, AssignsForKept!Through(none, as))
  BY <1>1, <1>2, AssignsForKept!WalkKeeps
<1>4. CarriesKeeps(r, EachAssignFor!Through(none, as))
  BY <1>3, Zenon DEF EachAssignFor!Through, AssignsForKept!Through
<1> QED BY <1>4 DEF AssignFor, CarriesKeeps, none

LEMMA RestoreKeeps ==
  ASSUME NEW r, Whole(r), NEW q, StatementKeeps(r, q), NEW was
  PROVE  StatementKeeps(r, EachRestore!Through(q, was))
<1>1. \A x, w : StatementKeeps(r, x) => StatementKeeps(r, Restore(x, w))
  BY ThenAssigned DEF Restore
<1>2. StatementKeeps(r, RestoresKept!Through(q, was))
  BY <1>1, RestoresKept!WalkKeeps
<1> QED BY <1>2, Zenon DEF EachRestore!Through, RestoresKept!Through

LEMMA DeclKeeps ==
  ASSUME NEW n \in Nat, StatementsKeep(n), NEW r, Below(n, r), NEW cm
  PROVE  StatementKeeps(r, ExecDecl(r, cm))
<1>1. ASSUME NEW x, NEW decl, StatementKeeps(r, x) PROVE StatementKeeps(r, DeclareNext(x, decl))
  <2>1. Below(n, x) /\ Whole(r)
    BY <1>1, CarriedBelow DEF Below
  <2>2. \A prev, a, ref : StatementKeeps(x, AssignVal(x, prev, a, ref).r)
    BY <2>1, ValueKeeps
  <2>3. \A prev, a, ref : StatementKeeps(r, AssignVal(x, prev, a, ref).r)
    BY <1>1, <2>1, <2>2, StatementKeepsTwice
  <2>4. \A m, v : StatementKeeps(r, [r |-> x, n |-> m, v |-> v].r)
    BY <1>1
  <2>5. \A prev, a, ref : StatementKeeps(r, DeclVal(x, prev, a, ref).r)
    BY <2>3, <2>4, Zenon DEF DeclVal
  <2>6. \A val, c : StatementKeeps(r, val.r) => StatementKeeps(r, Declare(val, c))
    BY <2>1, ThenAssigned DEF Declare
  <2> QED BY <2>5, <2>6, Zenon DEF DeclareNext
<1>2. StatementKeeps(r, r) /\ Whole(r)
  BY KeepsItself DEF Below
<1>3. \A items : StatementKeeps(r, EachDecl!Through(r, items))
  <2> TAKE items
  <2>1. StatementKeeps(r, DeclsKept!Through(r, items))
    BY <1>1, <1>2, DeclsKept!WalkKeeps
  <2> QED BY <2>1, Zenon DEF EachDecl!Through, DeclsKept!Through
<1>4. StatementKeeps(r, [r EXCEPT !.exit.code = 1])
  <2>1. Untouched(r, [r EXCEPT !.exit.code = 1])
    BY <1>2, OtherFields DEF Flags
  <2> QED BY <1>2, <2>1, UntouchedKeeps
<1> QED BY <1>3, <1>4, Zenon DEF ExecDecl

---------------------------------------------------------------------------
(* Redirections, which a command may leave, and flags that are put back.    *)
CarriesCommand(r, acc) == "r" \in DOMAIN acc /\ CommandKeeps(r, acc.r)

RedirsKept == INSTANCE Walk_proofs WITH Step <- TakeRedir, Keeps <- CarriesCommand

LEMMA OneStreamKeeps ==
  ASSUME NEW r, Whole(r), NEW q, CommandKeeps(r, q), NEW f
  PROVE  /\ CommandKeeps(r, [q EXCEPT !.stdin = f])
         /\ CommandKeeps(r, [q EXCEPT !.stdout = f])
         /\ CommandKeeps(r, [q EXCEPT !.stderr = f])
<1>1. Whole(q)
  BY DEF CommandKeeps
<1>2. /\ CommandKeeps(q, [q EXCEPT !.stdin = f])
      /\ CommandKeeps(q, [q EXCEPT !.stdout = f])
      /\ CommandKeeps(q, [q EXCEPT !.stderr = f])
  BY <1>1, StreamsKeep
<1> QED BY <1>2, KeepsTwice

LEMMA RedirKeeps ==
  ASSUME NEW r, Whole(r), NEW rd
  PROVE  CarriesCommand(r, Redir(r, rd))
<1>1. \A q, fs, ok : CommandKeeps(r, q)
                     => CarriesCommand(r, [r |-> q, cls |-> fs, ok |-> ok])
  BY DEF CarriesCommand
<1> DEFINE made == NewFile(r, rd.lines)
           file == r.files
<1>2. CommandKeeps(r, r) /\ CommandKeeps(r, made)
  BY FilesUntouched, KeepsItself, UntouchedKeeps DEF StatementKeeps
<1>3. \A q, m, to : CommandKeeps(r, q) => CommandKeeps(r, SetOutput(q, m, to))
  BY OneStreamKeeps DEF SetOutput
<1>4. CommandKeeps(r, [made EXCEPT !.stdin = file])
      /\ CommandKeeps(r, [r EXCEPT !.stdin = Nil])
  BY <1>2, OneStreamKeeps
<1>5. CommandKeeps(r, [made EXCEPT !.stdout = file, !.stderr = file])
  <2>1. CommandKeeps(r, [made EXCEPT !.stdout = file])
    BY <1>2, OneStreamKeeps
  <2>2. \A q : CommandKeeps(r, q) => CommandKeeps(r, [q EXCEPT !.stderr = file])
    BY OneStreamKeeps
  <2>3. CommandKeeps(r, [[made EXCEPT !.stdout = file] EXCEPT !.stderr = file])
    BY <2>1, <2>2
  <2> QED BY <2>3
<1>6. CommandKeeps(r, [r EXCEPT !.exit.code = 1])
  <2>1. Untouched(r, [r EXCEPT !.exit.code = 1])
    BY OtherFields DEF Flags
  <2> QED BY <2>1, UntouchedKeeps DEF StatementKeeps
<1>7. \A m, to : CommandKeeps(r, SetOutput(made, m, to)) /\ CommandKeeps(r, SetOutput(r, m, to))
  BY <1>2, <1>3
<1> QED BY <1>1, <1>4, <1>5, <1>6, <1>7, Zenon DEF Redir

LEMMA RedirsKeep ==
  ASSUME NEW r, Whole(r), NEW rds
  PROVE  CommandKeeps(r, Redirs(r, rds).r)
<1>1. ASSUME NEW acc, NEW rd, CarriesCommand(r, acc)
      PROVE  CarriesCommand(r, TakeRedir(acc, rd))
  <2>1. Whole(acc.r) /\ CommandKeeps(r, acc.r)
    BY <1>1 DEF CarriesCommand, CommandKeeps
  <2>2. CarriesCommand(acc.r, Redir(acc.r, rd))
    BY <2>1, RedirKeeps
  <2>3. CarriesCommand(r, Redir(acc.r, rd))
    BY <2>1, <2>2, KeepsTwice DEF CarriesCommand
  <2>4. \A fs : CarriesCommand(r, [Redir(acc.r, rd) EXCEPT !.cls = fs])
    BY <2>3 DEF CarriesCommand
  <2> QED BY <1>1, <2>4, Zenon DEF TakeRedir
<1> DEFINE none == [r |-> r, cls |-> {}, ok |-> TRUE]
<1>2. CarriesCommand(r, none)
  BY KeepsItself DEF CarriesCommand, StatementKeeps
<1> HIDE DEF none
<1>3. CarriesCommand(r, RedirsKept!Through(none, rds))
  BY <1>1, <1>2, RedirsKept!WalkKeeps
<1>4. CarriesCommand(r, EachRedir!Through(none, rds))
  BY <1>3, Zenon DEF EachRedir!Through, RedirsKept!Through
<1> QED BY <1>4 DEF Redirs, CarriesCommand, none

(* The flags of F are set from r to a, something runs from a to q, and the  *)
(* flags are put back from q to s.                                          *)
Settable == {"inLoop", "inFunc", "noErrExit", "inSource", "sourceSetParams", "handlingTrap"}
Around(r, a, q, s, F) ==
    /\ F \subseteq Settable /\ ("inSource" \in F => "sourceSetParams" \in F)
    /\ \A f \in Flags \ F : a[f] = r[f] /\ s[f] = q[f]
    /\ \A f \in F : s[f] = r[f]
    /\ DOMAIN s = DOMAIN q
    /\ IsList(s.env) /\ Len(s.env) = Len(r.env)

LEMMA PutBack ==
  ASSUME NEW r, Whole(r), NEW a, NEW q, StatementKeeps(a, q), NEW s, NEW F, Around(r, a, q, s, F)
  PROVE  StatementKeeps(r, s)
<1> USE DEF Around
<1>1. /\ {"left", "keepRedirs", "unparsed", "stdin", "stdout", "stderr"} \subseteq Flags \ F
  BY DEF Flags, Settable
<1>2. /\ a.left = r.left /\ a.keepRedirs = r.keepRedirs /\ a.unparsed = r.unparsed
      /\ a.stdin = r.stdin /\ a.stdout = r.stdout /\ a.stderr = r.stderr
      /\ s.left = q.left /\ s.keepRedirs = q.keepRedirs /\ s.unparsed = q.unparsed
      /\ s.stdin = q.stdin /\ s.stdout = q.stdout /\ s.stderr = q.stderr
  BY <1>1
<1>3. \A f \in Flags : q[f] = a[f] => s[f] = r[f]
  OBVIOUS
<1>4. /\ q.inLoop = a.inLoop /\ q.inFunc = a.inFunc /\ q.inSource = a.inSource
      /\ q.noErrExit = a.noErrExit /\ Whole(q)
      /\ a.inSource \/ q.sourceSetParams = a.sourceSetParams
      /\ q.unparsed = TRUE \/ q.handlingTrap = a.handlingTrap
  BY DEF StatementKeeps, CommandKeeps
<1>5. /\ s.inLoop = r.inLoop /\ s.inFunc = r.inFunc /\ s.inSource = r.inSource
      /\ s.noErrExit = r.noErrExit
  BY <1>3, <1>4 DEF Flags
<1>6. r.inSource \/ s.sourceSetParams = r.sourceSetParams
  <2>1. CASE "inSource" \in F
    BY <2>1
  <2>2. CASE "inSource" \notin F
    <3>1. a.inSource = r.inSource
      BY <2>2 DEF Flags
    <3> QED BY <1>3, <1>4, <3>1 DEF Flags
  <2> QED BY <2>1, <2>2
<1>7. s.unparsed = TRUE \/ s.handlingTrap = r.handlingTrap
  BY <1>2, <1>3, <1>4 DEF Flags
<1>8. /\ s.sourceSetParams \in {q.sourceSetParams, r.sourceSetParams}
      /\ s.handlingTrap \in {q.handlingTrap, r.handlingTrap}
  BY DEF Flags
<1>9. Whole(s)
  <2>1. /\ Flags \union {"env"} \subseteq DOMAIN s /\ StopFields \subseteq DOMAIN s
        /\ s.left \in Nat
    BY <1>2, <1>4 DEF Whole
  <2>2. s.inSource \in BOOLEAN /\ s.sourceSetParams \in BOOLEAN /\ s.keepRedirs \in BOOLEAN
        /\ s.handlingTrap \in BOOLEAN
    BY <1>2, <1>4, <1>5, <1>8 DEF Whole
  <2> QED BY <2>1, <2>2 DEF Whole
<1> HIDE DEF Around
<1>10. Len(s.env) = Len(r.env)
  BY DEF Around
<1>11. /\ q.left <= a.left /\ (a.unparsed = TRUE => q.unparsed = TRUE)
       /\ (a.keepRedirs => q.keepRedirs)
       /\ q.keepRedirs \/ SameStreams(a, q)
  BY DEF StatementKeeps, CommandKeeps
<1>12. CommandKeeps(r, s)
  BY <1>2, <1>5, <1>6, <1>7, <1>9, <1>10, <1>11 DEF CommandKeeps
<1> QED BY <1>2, <1>11, <1>12 DEF StatementKeeps, SameStreams

SetFor(r, a, F) ==
    /\ F \subseteq Settable /\ DOMAIN a = DOMAIN r
    /\ \A f \in Flags \ F : a[f] = r[f]
    /\ \A f \in F : a[f] \in BOOLEAN
    /\ IsList(a.env)

LEMMA SetIsWhole ==
  ASSUME NEW r, Whole(r), NEW a, NEW F, SetFor(r, a, F)
  PROVE  Whole(a) /\ a.left = r.left
<1>1. {"left", "keepRedirs"} \subseteq Flags \ F
  BY DEF Flags, Settable, SetFor
<1>2. a.left = r.left /\ a.keepRedirs = r.keepRedirs
  BY <1>1 DEF SetFor
<1>3. a.inSource \in BOOLEAN /\ a.sourceSetParams \in BOOLEAN /\ a.handlingTrap \in BOOLEAN
  BY DEF Whole, Flags, SetFor
<1> QED BY <1>2, <1>3 DEF Whole, SetFor

(* A condition. *)
LEMMA ConditionKeeps ==
  ASSUME NEW n \in Nat, StatementsKeep(n), NEW r, Below(n, r), NEW body
  PROVE  StatementKeeps(r, Condition(r, body))
<1> DEFINE a == [r EXCEPT !.noErrExit = TRUE]
           q == Stmts(a, body)
           s == [q EXCEPT !.noErrExit = r.noErrExit]
<1>1. /\ Whole(r) /\ Flags \union {"env"} \subseteq DOMAIN r
      /\ IsList(r.env)
  BY DEF Below, Whole
<1>2. /\ DOMAIN a = DOMAIN r /\ a.env = r.env /\ a.noErrExit = TRUE
      /\ \A f \in Flags \ {"noErrExit"} : a[f] = r[f]
  BY <1>1 DEF Flags
<1> HIDE DEF a
<1>3. Whole(a) /\ a.left = r.left
  <2>1. SetFor(r, a, {"noErrExit"})
    BY <1>1, <1>2 DEF SetFor, Settable
  <2> QED BY <1>1, <2>1, SetIsWhole
<1>4. StatementKeeps(a, q)
  BY <1>3, StmtsKeep DEF Below
<1> HIDE DEF q
<1>5. Flags \union {"env"} \subseteq DOMAIN q /\ IsList(q.env) /\ Len(q.env) = Len(a.env)
  BY <1>4 DEF StatementKeeps, CommandKeeps, Whole
<1>6. /\ DOMAIN s = DOMAIN q /\ s.env = q.env /\ s.noErrExit = r.noErrExit
      /\ \A f \in Flags \ {"noErrExit"} : s[f] = q[f]
  BY <1>5 DEF Flags
<1> HIDE DEF s
<1>7. Around(r, a, q, s, {"noErrExit"})
  BY <1>2, <1>5, <1>6 DEF Around, Settable
<1>8. StatementKeeps(r, s)
  BY <1>1, <1>4, <1>7, PutBack
<1> QED BY <1>8 DEF Condition, a, q, s

(* Loops. *)
LoopStmtsKept == INSTANCE Walk_proofs WITH Step <- LoopStmt, Keeps <- CarriesKeeps
WhilesKept == INSTANCE Walk_proofs WITH Step <- WhileTurn, Keeps <- CarriesKeeps
ForsKept == INSTANCE Walk_proofs WITH Step <- ForTurn, Keeps <- CarriesKeeps
CStylesKept == INSTANCE Walk_proofs WITH Step <- CStyleTurn, Keeps <- CarriesKeeps

LEMMA CountedKeeps ==
  ASSUME NEW r, Whole(r), NEW q, StatementKeeps(r, q)
  PROVE  CarriesKeeps(r, Counted(q))
<1>1. Whole(q)
  BY AfterKeeps
<1>2. \A m : Untouched(q, [q EXCEPT !.cont = m]) /\ Untouched(q, [q EXCEPT !.brk = m])
  BY <1>1, OtherFields DEF Flags
<1>3. \A m : StatementKeeps(r, [q EXCEPT !.cont = m]) /\ StatementKeeps(r, [q EXCEPT !.brk = m])
  BY <1>2, ThenUntouched
<1>4. \A x, d, b : StatementKeeps(r, x) => CarriesKeeps(r, [r |-> x, done |-> d, broken |-> b])
  BY DEF CarriesKeeps
<1> QED BY <1>3, <1>4, Zenon DEF Counted

LEMMA LoopKeeps ==
  ASSUME NEW n \in Nat, StatementsKeep(n), NEW r, Below(n, r), NEW body
  PROVE  CarriesKeeps(r, LoopStmtsBroken(r, body))
<1> DEFINE a == [r EXCEPT !.inLoop = TRUE]
           base == [r |-> a, done |-> FALSE, broken |-> FALSE]
           acc == LoopStmts(r, body)
           q == acc.r
           s == [q EXCEPT !.inLoop = r.inLoop]
<1>1. /\ Whole(r) /\ Flags \union {"env"} \subseteq DOMAIN r
      /\ IsList(r.env)
  BY DEF Below, Whole
<1>2. /\ DOMAIN a = DOMAIN r /\ a.env = r.env /\ a.inLoop = TRUE
      /\ \A f \in Flags \ {"inLoop"} : a[f] = r[f]
  BY <1>1 DEF Flags
<1> HIDE DEF a
<1>3. Whole(a) /\ a.left = r.left
  <2>1. SetFor(r, a, {"inLoop"})
    BY <1>1, <1>2 DEF SetFor, Settable
  <2> QED BY <1>1, <2>1, SetIsWhole
<1>4. Below(n, a)
  BY <1>3 DEF Below
<1>5. ASSUME NEW x, NEW st, CarriesKeeps(a, x) PROVE CarriesKeeps(a, LoopStmt(x, st))
  <2>1. StatementKeeps(a, x.r) /\ Below(n, x.r)
    BY <1>4, <1>5, CarriedBelow DEF CarriesKeeps
  <2>2. StatementKeeps(x.r, ExecStmt(x.r, st))
    BY <2>1 DEF StatementsKeep, Below
  <2>3. CarriesKeeps(a, Counted(ExecStmt(x.r, st)))
    BY <1>3, <2>1, <2>2, StatementKeepsTwice, CountedKeeps
  <2> QED BY <1>5, <2>3, Zenon DEF LoopStmt
<1>6. CarriesKeeps(a, base)
  BY <1>3, KeepsItself DEF CarriesKeeps
<1> HIDE DEF base
<1>7. CarriesKeeps(a, LoopStmtsKept!Through(base, body))
  BY <1>5, <1>6, LoopStmtsKept!WalkKeeps
<1>8. CarriesKeeps(a, EachLoopStmt!Through(base, body))
  BY <1>7, Zenon DEF EachLoopStmt!Through, LoopStmtsKept!Through
<1>9. CarriesKeeps(a, acc)
  BY <1>8 DEF LoopStmts, base, a
<1> HIDE DEF acc
<1>10. StatementKeeps(a, q) /\ "r" \in DOMAIN acc
  BY <1>9 DEF CarriesKeeps
<1>11. LoopStmtsBroken(r, body) = [acc EXCEPT !.r.inLoop = r.inLoop]
  BY DEF LoopStmtsBroken, acc
<1>12. "r" \in DOMAIN [acc EXCEPT !.r.inLoop = r.inLoop]
       /\ [acc EXCEPT !.r.inLoop = r.inLoop].r = s
  BY <1>10
<1> HIDE DEF q
<1>13. Flags \union {"env"} \subseteq DOMAIN q /\ IsList(q.env) /\ Len(q.env) = Len(a.env)
  BY <1>10 DEF StatementKeeps, CommandKeeps, Whole
<1>14. /\ DOMAIN s = DOMAIN q /\ s.env = q.env /\ s.inLoop = r.inLoop
       /\ \A f \in Flags \ {"inLoop"} : s[f] = q[f]
  BY <1>13 DEF Flags
<1> HIDE DEF s
<1>15. Around(r, a, q, s, {"inLoop"})
  BY <1>2, <1>13, <1>14 DEF Around, Settable
<1>16. StatementKeeps(r, s)
  BY <1>1, <1>10, <1>15, PutBack
<1> QED BY <1>11, <1>12, <1>16 DEF CarriesKeeps

LEMMA ThenLoops ==
  ASSUME NEW n \in Nat, StatementsKeep(n), NEW r, Below(n, r), NEW q, StatementKeeps(r, q), NEW body
  PROVE  CarriesKeeps(r, LoopStmtsBroken(q, body))
<1>1. Below(n, q) /\ Whole(r)
  BY CarriedBelow DEF Below
<1>2. CarriesKeeps(q, LoopStmtsBroken(q, body))
  BY <1>1, LoopKeeps
<1> QED BY <1>1, <1>2, StatementKeepsTwice DEF CarriesKeeps

LEMMA EndKeeps ==
  ASSUME NEW r, Whole(r), NEW turning, CarriesKeeps(r, turning)
  PROVE  StatementKeeps(r, EndOf(turning))
<1>1. Whole(turning.r) /\ StatementKeeps(r, turning.r)
  BY AfterKeeps DEF CarriesKeeps
<1>2. Untouched(turning.r, [turning.r EXCEPT !.hung = TRUE])
  BY <1>1, OtherFields DEF Flags
<1> QED BY <1>1, <1>2, ThenUntouched, Zenon DEF EndOf

LEMMA TurningCarries ==
  ASSUME NEW r, NEW q, StatementKeeps(r, q)
  PROVE  \A over_ : CarriesKeeps(r, Turning(q, over_))
BY DEF CarriesKeeps, Turning

LEMMA WhileKeeps ==
  ASSUME NEW n \in Nat, StatementsKeep(n), NEW r, Below(n, r), NEW cm
  PROVE  StatementKeeps(r, ExecWhile(r, cm))
<1>1. Whole(r) /\ StatementKeeps(r, r)
  BY KeepsItself DEF Below
<1>2. ASSUME NEW x, NEW c, CarriesKeeps(r, x) PROVE CarriesKeeps(r, WhileTurn(x, c))
  <2>1. StatementKeeps(r, x.r) /\ Below(n, x.r) /\ Whole(x.r)
    BY <1>2, CarriedBelow DEF CarriesKeeps, Below
  <2>2. CarriesKeeps(r, Turning(Stopped(x.r), TRUE))
    BY <1>1, <2>1, StoppedUntouched, ThenUntouched, TurningCarries
  <2> DEFINE cond == Condition(x.r, c.cond)
             go == [cond EXCEPT !.exit = Clear(@)]
  <2>3. StatementKeeps(r, cond)
    BY <1>1, <2>1, ConditionKeeps, StatementKeepsTwice
  <2> HIDE DEF cond
  <2>4. Untouched(cond, go)
    BY <2>3, AfterKeeps, OtherFields DEF Flags
  <2>5. StatementKeeps(r, go)
    BY <1>1, <2>3, <2>4, ThenUntouched
  <2>6. CarriesKeeps(r, Turning(go, TRUE))
    BY <2>5, TurningCarries
  <2>7. CarriesKeeps(r, NextWhile(LoopStmtsBroken(go, c.body)))
    <3> HIDE DEF go
    <3>1. CarriesKeeps(r, LoopStmtsBroken(go, c.body))
      BY <2>5, ThenLoops
    <3> QED BY <3>1, TurningCarries DEF NextWhile, CarriesKeeps
  <2>8. CarriesKeeps(r, AfterCondition(cond, c))
    BY <2>6, <2>7, Zenon DEF AfterCondition
  <2> QED BY <1>2, <2>2, <2>8, Zenon DEF WhileTurn, cond
<1> DEFINE base == Turning(r, FALSE)
           items == [i \in 1..MaxTurns |-> cm]
<1>3. CarriesKeeps(r, base)
  BY <1>1, TurningCarries
<1> HIDE DEF base, items
<1>4. CarriesKeeps(r, WhilesKept!Through(base, items))
  BY <1>2, <1>3, WhilesKept!WalkKeeps
<1>5. CarriesKeeps(r, EachWhileTurn!Through(base, items))
  BY <1>4, Zenon DEF EachWhileTurn!Through, WhilesKept!Through
<1> QED BY <1>1, <1>5, EndKeeps DEF ExecWhile, base, items

LEMMA ForItemsKeep ==
  ASSUME NEW n \in Nat, StatementsKeep(n), NEW r, Below(n, r), NEW q, StatementKeeps(r, q),
         NEW m, NEW fs, NEW body
  PROVE  StatementKeeps(r, ForItems(q, m, fs, body))
<1>1. ASSUME NEW x, NEW turn, CarriesKeeps(r, x) PROVE CarriesKeeps(r, ForTurn(x, turn))
  <2>1. StatementKeeps(r, x.r) /\ Whole(r)
    BY <1>1 DEF CarriesKeeps, Below
  <2>2. StatementKeeps(r, SetVarString(x.r, turn.n, turn.item))
    BY <2>1, ThenAssigned DEF SetVarString
  <2>3. CarriesKeeps(r, LoopStmtsBroken(SetVarString(x.r, turn.n, turn.item), turn.body))
    BY <2>2, ThenLoops
  <2> QED BY <1>1, <2>3, Zenon DEF ForTurn
<1> DEFINE base == [r |-> q, broken |-> FALSE]
           items == [i \in DOMAIN fs |-> [n |-> m, item |-> fs[i], body |-> body]]
<1>2. CarriesKeeps(r, base)
  BY DEF CarriesKeeps
<1> HIDE DEF base, items
<1>3. CarriesKeeps(r, ForsKept!Through(base, items))
  BY <1>1, <1>2, ForsKept!WalkKeeps
<1>4. CarriesKeeps(r, EachForTurn!Through(base, items))
  BY <1>3, Zenon DEF EachForTurn!Through, ForsKept!Through
<1> QED BY <1>4 DEF ForItems, CarriesKeeps, base, items

LEMMA ForKeeps ==
  ASSUME NEW n \in Nat, StatementsKeep(n), NEW r, Below(n, r), NEW cm
  PROVE  StatementKeeps(r, ExecFor(r, cm))
<1>1. StatementKeeps(r, Fields(r, cm.items).r)
  BY FieldsKeep DEF CarriesKeeps
<1>2. StatementKeeps(r, [r |-> r, fs |-> r.params].r)
  BY KeepsItself DEF Below
<1>3. \A items : StatementKeeps(r, items.r) => StatementKeeps(r, ForOver(items, cm))
  BY ForItemsKeep DEF ForOver
<1> QED BY <1>1, <1>2, <1>3, Zenon DEF ExecFor

LEMMA CStyleKeeps ==
  ASSUME NEW n \in Nat, StatementsKeep(n), NEW r, Below(n, r), NEW cm
  PROVE  StatementKeeps(r, ExecCStyle(r, cm))
<1>1. Whole(r) /\ StatementKeeps(r, r)
  BY KeepsItself DEF Below
<1>2. \A q, m, v : StatementKeeps(r, q) => StatementKeeps(r, SetVarString(q, m, v))
  BY <1>1, ThenAssigned DEF SetVarString
<1>3. \A q, m : StatementKeeps(r, q) => StatementKeeps(r, CStyleStep(q, m))
  BY <1>2 DEF CStyleStep
<1>4. ASSUME NEW x, NEW c, CarriesKeeps(r, x) PROVE CarriesKeeps(r, CStyleTurn(x, c))
  <2>1. StatementKeeps(r, x.r)
    BY <1>4 DEF CarriesKeeps
  <2>2. CarriesKeeps(r, Turning(x.r, TRUE))
    BY <2>1, TurningCarries
  <2>3. StatementKeeps(r, LoopStmtsBroken(x.r, c.body).r)
    BY <2>1, ThenLoops DEF CarriesKeeps
  <2>4. \A t, m : StatementKeeps(r, t.r) => CarriesKeeps(r, NextCStyle(t, m))
    BY <1>3, TurningCarries DEF NextCStyle
  <2>5. CarriesKeeps(r, NextCStyle(LoopStmtsBroken(x.r, c.body), c.n))
    BY <2>3, <2>4
  <2> QED BY <1>4, <2>2, <2>5, Zenon DEF CStyleTurn
<1>5. \A q, items : StatementKeeps(r, q)
                    => StatementKeeps(r, EndOf(EachCStyleTurn!Through(Turning(q, FALSE), items)))
  <2> TAKE q, items
  <2> HAVE StatementKeeps(r, q)
  <2>1. CarriesKeeps(r, Turning(q, FALSE))
    BY TurningCarries
  <2>2. CarriesKeeps(r, CStylesKept!Through(Turning(q, FALSE), items))
    BY <1>4, <2>1, CStylesKept!WalkKeeps
  <2>3. CarriesKeeps(r, EachCStyleTurn!Through(Turning(q, FALSE), items))
    BY <2>2, Zenon DEF EachCStyleTurn!Through, CStylesKept!Through
  <2> QED BY <1>1, <2>3, EndKeeps
<1>6. StatementKeeps(r, IF cm.n = "" THEN r ELSE SetVarString(r, cm.n, <<>>))
  BY <1>1, <1>2
<1> QED BY <1>5, <1>6, Zenon DEF ExecCStyle

LEMMA SelectKeeps ==
  ASSUME NEW n \in Nat, StatementsKeep(n), NEW r, Below(n, r), NEW cm
  PROVE  StatementKeeps(r, ExecSelect(r, cm))
<1> DEFINE items == Fields(r, cm.items)
<1>1. Whole(r) /\ StatementKeeps(r, items.r)
  BY FieldsKeep DEF CarriesKeeps, Below
<1> HIDE DEF items
<1>2. \A q, fs : StatementKeeps(r, q) => StatementKeeps(r, [q EXCEPT !.feeds = fs])
  <2> TAKE q, fs
  <2> HAVE StatementKeeps(r, q)
  <2>1. Untouched(q, [q EXCEPT !.feeds = fs])
    BY AfterKeeps, OtherFields DEF Flags
  <2> QED BY <1>1, <2>1, ThenUntouched
<1>3. \A q, m, v : StatementKeeps(r, q) => StatementKeeps(r, SetVarString(q, m, v))
  BY <1>1, ThenAssigned DEF SetVarString
<1>4. StatementKeeps(r, [items.r EXCEPT !.hung = TRUE])
  <2>1. Untouched(items.r, [items.r EXCEPT !.hung = TRUE])
    BY <1>1, AfterKeeps, OtherFields DEF Flags
  <2> QED BY <1>1, <2>1, ThenUntouched
<1>5. \A q : StatementKeeps(r, q)
             => StatementKeeps(r, SelectRest(LoopStmtsBroken(q, cm.body), items.fs, cm))
  <2> TAKE q
  <2> HAVE StatementKeeps(r, q)
  <2>1. StatementKeeps(r, LoopStmtsBroken(q, cm.body).r)
    BY ThenLoops DEF CarriesKeeps
  <2>2. \A t : StatementKeeps(r, t.r) => StatementKeeps(r, SelectRest(t, items.fs, cm))
    BY ForItemsKeep DEF SelectRest
  <2> QED BY <2>1, <2>2
<1>6. \A fs, m, v, w :
         LET named == SetVarString([items.r EXCEPT !.feeds = fs], "REPLY", v)
         IN  /\ StatementKeeps(r, named)
             /\ StatementKeeps(r, SetVarString(named, m, w))
  BY <1>1, <1>2, <1>3
<1>7. \A fs, m, v, w :
         LET named == SetVarString([items.r EXCEPT !.feeds = fs], "REPLY", v)
         IN  /\ StatementKeeps(r, SelectRest(LoopStmtsBroken(named, cm.body), items.fs, cm))
             /\ StatementKeeps(r, SelectRest(LoopStmtsBroken(SetVarString(named, m, w), cm.body),
                                             items.fs, cm))
  BY <1>5, <1>6
<1>8. StatementKeeps(r, SelectFrom(items, cm))
  BY <1>4, <1>7, Zenon DEF SelectFrom
<1> QED BY <1>8 DEF ExecSelect, items

(* Traps. *)
LEMMA TrapKeeps ==
  ASSUME NEW n \in Nat, StatementsKeep(n), NEW r, Below(n, r), NEW callback
  PROVE  StatementKeeps(r, TrapCallback(r, callback))
<1> DEFINE a == [r EXCEPT !.handlingTrap = TRUE]
           q == TrapRun(r, callback)
           s == [q EXCEPT !.exit = r.exit, !.handlingTrap = FALSE]
           u == [r EXCEPT !.handlingTrap = TRUE, !.unparsed = TRUE]
<1>1. /\ Whole(r) /\ Flags \union {"env"} \subseteq DOMAIN r
      /\ IsList(r.env) /\ r.handlingTrap \in BOOLEAN
  BY DEF Below, Whole
<1>2. StatementKeeps(r, r)
  BY <1>1, KeepsItself
<1>3. StatementKeeps(r, u)
  <2>1. /\ DOMAIN u = DOMAIN r /\ u.env = r.env /\ u.unparsed = TRUE /\ u.handlingTrap = TRUE
        /\ u.inLoop = r.inLoop /\ u.inFunc = r.inFunc /\ u.inSource = r.inSource
        /\ u.noErrExit = r.noErrExit /\ u.sourceSetParams = r.sourceSetParams
        /\ u.keepRedirs = r.keepRedirs /\ u.left = r.left
        /\ u.stdin = r.stdin /\ u.stdout = r.stdout /\ u.stderr = r.stderr
    BY <1>1 DEF Flags
  <2> HIDE DEF u
  <2>2. Whole(u)
    BY <1>1, <2>1 DEF Whole
  <2>3. u.left <= r.left
    BY <2>1, <1>1 DEF Whole
  <2> QED BY <2>1, <2>2, <2>3 DEF StatementKeeps, CommandKeeps, SameStreams
<1>4. CASE r.handlingTrap
  BY <1>2, <1>4, Zenon DEF TrapCallback
<1>5. CASE ~ r.handlingTrap
  <2>0. r.handlingTrap = FALSE
    BY <1>1, <1>5
  <2>1. /\ DOMAIN a = DOMAIN r /\ a.env = r.env /\ a.handlingTrap = TRUE
        /\ \A f \in Flags \ {"handlingTrap"} : a[f] = r[f]
    BY <1>1 DEF Flags
  <2>2. q = Stmts(a, Scripts[callback].body)
    BY DEF TrapRun
  <2> HIDE DEF a
  <2>3. Whole(a) /\ a.left = r.left
    <3>1. SetFor(r, a, {"handlingTrap"})
      BY <1>1, <2>1 DEF SetFor, Settable
    <3> QED BY <1>1, <3>1, SetIsWhole
  <2>4. StatementKeeps(a, q)
    BY <2>2, <2>3, StmtsKeep DEF Below
  <2> HIDE DEF q
  <2>5. Flags \union {"env"} \subseteq DOMAIN q /\ IsList(q.env) /\ Len(q.env) = Len(a.env)
    BY <2>4 DEF StatementKeeps, CommandKeeps, Whole
  <2>6. /\ DOMAIN s = DOMAIN q /\ s.env = q.env /\ s.handlingTrap = FALSE
        /\ \A f \in Flags \ {"handlingTrap"} : s[f] = q[f]
    BY <2>5 DEF Flags
  <2> HIDE DEF s
  <2>7. Around(r, a, q, s, {"handlingTrap"})
    BY <2>0, <2>1, <2>5, <2>6 DEF Around, Settable
  <2>8. StatementKeeps(r, s)
    BY <1>1, <2>4, <2>7, PutBack
  <2> HIDE DEF u
  <2> QED BY <1>2, <1>3, <2>8, Zenon DEF TrapCallback, q, s, u
<1> QED BY <1>4, <1>5

(* Functions. *)
LEMMA FuncKeeps ==
  ASSUME NEW n \in Nat, StatementsKeep(n), NEW r, Below(n, r), NEW name, NEW args
  PROVE  StatementKeeps(r, CallFunc(r, name, args))
<1> DEFINE a == [r EXCEPT !.params = args, !.inFunc = TRUE, !.env = Append(@, Overlay(TRUE))]
           q == ExecStmt(a, r.funcs[name])
           s == [q EXCEPT !.params = r.params, !.inFunc = r.inFunc,
                          !.env = SubSeq(@, 1, Len(r.env)), !.exit.returning = FALSE]
<1>1. /\ Whole(r) /\ Flags \union {"env"} \subseteq DOMAIN r
      /\ IsList(r.env) /\ Len(r.env) \in Nat
  BY ListHasLength DEF Below, Whole
<1>2. /\ DOMAIN a = DOMAIN r /\ a.env = Append(r.env, Overlay(TRUE)) /\ a.inFunc = TRUE
      /\ \A f \in Flags \ {"inFunc"} : a[f] = r[f]
  BY <1>1 DEF Flags
<1> HIDE DEF a
<1>3. IsList(a.env) /\ Len(a.env) = Len(r.env) + 1
  BY <1>1, <1>2, ListGrows
<1>4. Whole(a) /\ a.left = r.left
  <2>1. SetFor(r, a, {"inFunc"})
    BY <1>1, <1>2, <1>3 DEF SetFor, Settable
  <2> QED BY <1>1, <2>1, SetIsWhole
<1>5. StatementKeeps(a, q)
  BY <1>4 DEF StatementsKeep, Below
<1> HIDE DEF q
<1>6. Flags \union {"env"} \subseteq DOMAIN q /\ IsList(q.env) /\ Len(q.env) = Len(r.env) + 1
  BY <1>3, <1>5 DEF StatementKeeps, CommandKeeps, Whole
<1>7. /\ DOMAIN s = DOMAIN q /\ s.env = SubSeq(q.env, 1, Len(r.env)) /\ s.inFunc = r.inFunc
      /\ \A f \in Flags \ {"inFunc"} : s[f] = q[f]
  BY <1>6 DEF Flags
<1> HIDE DEF s
<1>8. IsList(s.env) /\ Len(s.env) = Len(r.env)
  BY <1>1, <1>6, <1>7, ListCut
<1>9. Around(r, a, q, s, {"inFunc"})
  BY <1>2, <1>7, <1>8 DEF Around, Settable
<1>10. StatementKeeps(r, s)
  BY <1>1, <1>5, <1>9, PutBack
<1> QED BY <1>10 DEF CallFunc, a, q, s

(* Builtins that run something.                                             *)
LEMMA EvalKeeps ==
  ASSUME NEW n \in Nat, StatementsKeep(n), NEW r, Below(n, r), NEW args
  PROVE  StatementKeeps(r, EvalCmd(r, args).r)
<1>1. StatementKeeps(r, r) /\ \A body : StatementKeeps(r, Stmts(r, body))
  BY KeepsItself, StmtsKeep DEF Below
<1>2. \A q : StatementKeeps(r, q)
             => StatementKeeps(r, OwnStatus(q).r) /\ \A e : StatementKeeps(r, Result(q, e).r)
  BY DEF OwnStatus, Result
<1>3. \A body : StatementKeeps(r, OwnStatus(Stmts(r, body)).r)
  BY <1>1, <1>2
<1>4. StatementKeeps(r, OwnStatus(r).r) /\ \A e : StatementKeeps(r, Result(r, e).r)
  BY <1>1, <1>2
<1> QED BY <1>3, <1>4, Zenon DEF EvalCmd

LEMMA SourceKeeps ==
  ASSUME NEW n \in Nat, StatementsKeep(n), NEW r, Below(n, r), NEW args
  PROVE  StatementKeeps(r, SourceCmd(r, args).r)
<1> DEFINE F == {"inSource", "sourceSetParams"}
           In(ps) == [r EXCEPT !.params = ps, !.sourceSetParams = FALSE, !.inSource = TRUE]
           Out(q, ps) == [q EXCEPT !.params = ps, !.sourceSetParams = r.sourceSetParams,
                                   !.inSource = r.inSource, !.exit.returning = FALSE]
<1>1. /\ Whole(r) /\ Flags \union {"env"} \subseteq DOMAIN r /\ IsList(r.env)
      /\ r.inSource \in BOOLEAN /\ r.sourceSetParams \in BOOLEAN
  BY DEF Below, Whole
<1>2. ASSUME NEW ps, NEW body, NEW pq
      PROVE  StatementKeeps(r, Out(Stmts(In(ps), body), pq))
  <2> DEFINE a == In(ps)
             q == Stmts(a, body)
             s == Out(q, pq)
  <2>1. /\ DOMAIN a = DOMAIN r /\ a.env = r.env
        /\ a.inSource = TRUE /\ a.sourceSetParams = FALSE
        /\ \A f \in Flags \ F : a[f] = r[f]
    BY <1>1 DEF Flags
  <2> HIDE DEF a
  <2>2. Whole(a) /\ a.left = r.left
    <3>1. SetFor(r, a, F)
      BY <1>1, <2>1 DEF SetFor, Settable
    <3> HIDE DEF F
    <3> QED BY <1>1, <3>1, SetIsWhole
  <2>3. StatementKeeps(a, q)
    BY <2>2, StmtsKeep DEF Below
  <2> HIDE DEF q
  <2>4. Flags \union {"env"} \subseteq DOMAIN q /\ IsList(q.env) /\ Len(q.env) = Len(a.env)
    BY <2>3 DEF StatementKeeps, CommandKeeps, Whole
  <2>5. /\ DOMAIN s = DOMAIN q /\ s.env = q.env
        /\ s.inSource = r.inSource /\ s.sourceSetParams = r.sourceSetParams
        /\ \A f \in Flags \ F : s[f] = q[f]
    BY <2>4 DEF Flags
  <2> HIDE DEF s
  <2>6. Around(r, a, q, s, F)
    BY <2>1, <2>4, <2>5 DEF Around, Settable
  <2> HIDE DEF F
  <2>7. StatementKeeps(r, s)
    BY <1>1, <2>3, <2>6, PutBack
  <2> QED BY <2>7 DEF s, q, a
<1>3. \A q : StatementKeeps(r, q)
             => StatementKeeps(r, OwnStatus(q).r) /\ \A e : StatementKeeps(r, Result(q, e).r)
  BY DEF OwnStatus, Result
<1>4. \A ps, body, pq : StatementKeeps(r, OwnStatus(Out(Stmts(In(ps), body), pq)).r)
  <2> HIDE DEF In, Out
  <2> QED BY <1>2, <1>3
<1>5. \A e : StatementKeeps(r, Result(r, e).r)
  BY <1>1, <1>3, KeepsItself
<1> QED BY <1>4, <1>5, Zenon DEF SourceCmd

LEMMA ExecBuiltinKeeps ==
  ASSUME NEW r, Whole(r), NEW args
  PROVE  StatementKeeps(r, ExecCmdBuiltin(r, args).r)
<1> DEFINE kept == [r EXCEPT !.keepRedirs = TRUE]
           ends == [r EXCEPT !.exit.exiting = TRUE]
<1>1. StatementKeeps(r, kept)
  <2>1. /\ DOMAIN kept = DOMAIN r /\ kept.env = r.env /\ kept.keepRedirs = TRUE
        /\ \A f \in Flags \ {"keepRedirs"} : kept[f] = r[f]
    BY DEF Whole, Flags
  <2> HIDE DEF kept
  <2>2. /\ kept.inLoop = r.inLoop /\ kept.inFunc = r.inFunc /\ kept.inSource = r.inSource
        /\ kept.noErrExit = r.noErrExit /\ kept.sourceSetParams = r.sourceSetParams
        /\ kept.handlingTrap = r.handlingTrap /\ kept.unparsed = r.unparsed
        /\ kept.left = r.left
    BY <2>1 DEF Flags
  <2>3. Whole(kept)
    BY <2>1, <2>2 DEF Whole
  <2> QED BY <2>1, <2>2, <2>3 DEF StatementKeeps, CommandKeeps, Whole
<1>2. Untouched(r, ends) /\ Whole(ends)
  <2>1. Untouched(r, ends)
    BY OtherFields DEF Flags
  <2> QED BY <2>1, AfterUntouched
<1>3. StatementKeeps(r, Exec(ends, args))
  <2> HIDE DEF ends
  <2> QED BY <1>2, ExecUntouched, UntouchedTwice, UntouchedKeeps
<1> HIDE DEF kept, ends
<1>4. StatementKeeps(r, Result(kept, NoExit).r) /\ StatementKeeps(r, OwnStatus(Exec(ends, args)).r)
  BY <1>1, <1>3 DEF OwnStatus, Result
<1> QED BY <1>4, Zenon DEF ExecCmdBuiltin, kept, ends

LEMMA BuiltinKeeps ==
  ASSUME NEW n \in Nat, StatementsKeep(n), NEW r, Below(n, r), NEW name, NEW args
  PROVE  StatementKeeps(r, Builtin(r, name, args).r)
<1>1. Whole(r) /\ StatementKeeps(r, r)
  BY KeepsItself DEF Below
<1>2. \A q : Untouched(r, q) => StatementKeeps(r, q)
  BY <1>1, UntouchedKeeps
<1>3. \A q, e : StatementKeeps(r, q) => StatementKeeps(r, Result(q, e).r)
  BY DEF Result
<1>4. /\ \A e : StatementKeeps(r, Result(r, e).r)
      /\ \A e : StatementKeeps(r, Result(Write(r, r.stdout, args), e).r)
      /\ \A e : StatementKeeps(r, Result(DirsCmd(r), e).r)
  BY <1>1, <1>2, <1>3, WriteUntouched, DirBuiltins
<1>5. /\ StatementKeeps(r, ExitCmd(r, args).r) /\ StatementKeeps(r, ReturnCmd(r, args).r)
      /\ StatementKeeps(r, WaitCmd(r, args).r)
      /\ StatementKeeps(r, LoopCmd(r, name, args).r) /\ StatementKeeps(r, ShiftCmd(r, args).r)
  BY <1>1, <1>2, StatusBuiltins, LoopBuiltins
<1>6. /\ StatementKeeps(r, CdCmd(r, args).r) /\ StatementKeeps(r, PushdCmd(r, args).r)
      /\ StatementKeeps(r, PopdCmd(r, args).r)
      /\ StatementKeeps(r, UnsetCmd(r, args).r) /\ StatementKeeps(r, AliasCmd(r, args).r)
      /\ StatementKeeps(r, UnaliasCmd(r, args).r) /\ StatementKeeps(r, ShoptCmd(r, args).r)
  BY <1>1, <1>2, DirBuiltins, NameBuiltins
<1>7. /\ StatementKeeps(r, ReadCmd(r, args).r) /\ StatementKeeps(r, MapfileCmd(r).r)
      /\ StatementKeeps(r, TrapCmd(r, args).r) /\ StatementKeeps(r, SetCmd(r, args).r)
  BY <1>1, <1>2, ReadBuiltins, TrapBuiltin, SetBuiltin
<1>8. /\ StatementKeeps(r, EvalCmd(r, args).r) /\ StatementKeeps(r, SourceCmd(r, args).r)
      /\ StatementKeeps(r, ExecCmdBuiltin(r, args).r)
  BY <1>1, EvalKeeps, SourceKeeps, ExecBuiltinKeeps
<1> QED BY <1>4, <1>5, <1>6, <1>7, <1>8, Zenon DEF Builtin

LEMMA BuiltinCmdKeeps ==
  ASSUME NEW n \in Nat, StatementsKeep(n), NEW r, Below(n, r), NEW name, NEW args
  PROVE  StatementKeeps(r, BuiltinCmd(r, name, args))
<1>1. Whole(r) /\ StatementKeeps(r, r)
  BY KeepsItself DEF Below
<1>2. \A nm, as : StatementKeeps(r, Builtin(r, nm, as).r)
  BY BuiltinKeeps
<1>3. \A fields, e : StatementKeeps(r, OwnStatus(Exec(r, fields)).r)
                     /\ StatementKeeps(r, Result(r, e).r)
  BY <1>1, ExecUntouched, UntouchedKeeps DEF OwnStatus, Result
<1>4. StatementKeeps(r, CommandCmd(r, name, args).r)
  BY <1>2, <1>3, Zenon DEF CommandCmd
<1>5. \A q, e : StatementKeeps(r, q) => StatementKeeps(r, [q EXCEPT !.exit = e])
  <2> TAKE q, e
  <2> HAVE StatementKeeps(r, q)
  <2>1. Untouched(q, [q EXCEPT !.exit = e])
    BY AfterKeeps, OtherFields DEF Flags
  <2> QED BY <1>1, <2>1, ThenUntouched
<1>6. \A res : StatementKeeps(r, res.r) => StatementKeeps(r, [res.r EXCEPT !.exit = res.e])
  BY <1>5
<1> QED BY <1>2, <1>4, <1>6, Zenon DEF BuiltinCmd

(* Calls. *)
LEMMA CallKeeps ==
  ASSUME NEW n \in Nat, StatementsKeep(n), NEW r, Below(n, r), NEW fields
  PROVE  StatementKeeps(r, Call(r, fields))
<1>1. Whole(r)
  BY DEF Below
<1>2. StatementKeeps(r, Stopped(r)) /\ StatementKeeps(r, Exec(r, fields))
  BY <1>1, StoppedUntouched, ExecUntouched, UntouchedKeeps
<1>3. \A name, args : /\ StatementKeeps(r, CallFunc(r, name, args))
                      /\ StatementKeeps(r, BuiltinCmd(r, name, args))
  BY FuncKeeps, BuiltinCmdKeeps
<1> QED BY <1>2, <1>3, Zenon DEF Call

LEMMA ExecCallKeeps ==
  ASSUME NEW n \in Nat, StatementsKeep(n), NEW r, Below(n, r), NEW cm
  PROVE  StatementKeeps(r, ExecCall(r, cm))
<1> DEFINE a == [r EXCEPT !.lastExpandExit = NoExit]
<1>1. Whole(r) /\ StatementKeeps(r, a)
  <2>1. Untouched(r, a) /\ Whole(r)
    BY OtherFields DEF Flags, Below
  <2> HIDE DEF a
  <2> QED BY <2>1, UntouchedKeeps
<1> HIDE DEF a
<1>2. Below(n, a)
  BY <1>1, CarriedBelow
<1>3. \A words : StatementKeeps(r, Fields(a, words).r)
  BY <1>1, <1>2, FieldsKeep, StatementKeepsTwice DEF CarriesKeeps
<1>4. ASSUME NEW exp, StatementKeeps(r, exp.r)
      PROVE  StatementKeeps(r, CallFields(exp, cm.as))
  <2>1. Below(n, exp.r)
    BY <1>4, CarriedBelow
  <2> DEFINE q == AssignAll(exp.r, cm.as)
             tmp == AssignFor(exp.r, cm.as)
  <2>2. StatementKeeps(r, q) /\ StatementKeeps(r, tmp.r)
    BY <1>1, <1>4, <2>1, AssignAllKeeps, AssignForKeeps, StatementKeepsTwice
  <2> HIDE DEF q, tmp
  <2>3. StatementKeeps(r, OnlyAssigned(q))
    <3>1. Untouched(q, [q EXCEPT !.exit = q.lastExpandExit])
      BY <2>2, AfterKeeps, OtherFields DEF Flags
    <3>2. StatementKeeps(r, [q EXCEPT !.exit = q.lastExpandExit])
      BY <1>1, <2>2, <3>1, ThenUntouched
    <3> QED BY <2>2, <3>2, Zenon DEF OnlyAssigned
  <2>4. StatementKeeps(r, CallWith(tmp, exp.fs))
    <3>1. Below(n, tmp.r)
      BY <2>2, CarriedBelow
    <3>2. StatementKeeps(r, Call(tmp.r, exp.fs))
      BY <1>1, <2>2, <3>1, CallKeeps, StatementKeepsTwice
    <3> QED BY <1>1, <3>2, RestoreKeeps DEF CallWith
  <2> QED BY <2>3, <2>4, Zenon DEF CallFields, q, tmp
<1> QED BY <1>3, <1>4, Zenon DEF ExecCall, a

---------------------------------------------------------------------------
(* Compound commands. *)
LEMMA SubshellKeeps ==
  ASSUME NEW n \in Nat, StatementsKeep(n), NEW r, Below(n, r), NEW cm
  PROVE  StatementKeeps(r, ExecSubshell(r, cm))
<1> DEFINE child == Stmts(SubshellOf(r, FALSE), cm.body)
<1>1. Whole(r)
  BY DEF Below
<1>2. StatementKeeps(r, Join(r, child))
  BY <1>1, SubshellIsWhole, ChildJoins
<1> HIDE DEF child
<1>3. \A q, e : StatementKeeps(r, q) => StatementKeeps(r, [q EXCEPT !.exit = e])
  <2> TAKE q, e
  <2> HAVE StatementKeeps(r, q)
  <2>1. Untouched(q, [q EXCEPT !.exit = e])
    BY AfterKeeps, OtherFields DEF Flags
  <2> QED BY <1>1, <2>1, ThenUntouched
<1>4. StatementKeeps(r, SubshellDone(r, child))
  BY <1>2, <1>3 DEF SubshellDone
<1>5. \A c : StatementKeeps(r, [r EXCEPT !.exit.code = c])
  <2> TAKE c
  <2>1. Untouched(r, [r EXCEPT !.exit.code = c])
    BY <1>1, OtherFields DEF Flags
  <2> QED BY <1>1, <2>1, UntouchedKeeps
<1> QED BY <1>4, <1>5, Zenon DEF ExecSubshell, child

LEMMA ListKeeps ==
  ASSUME NEW n \in Nat, StatementsKeep(n), NEW r, Below(n, r), NEW cm
  PROVE  StatementKeeps(r, ExecList(r, cm))
<1> DEFINE a == [r EXCEPT !.noErrExit = TRUE]
           q == ExecStmt(a, cm.x)
           s == [q EXCEPT !.noErrExit = r.noErrExit]
<1>1. /\ Whole(r) /\ Flags \union {"env"} \subseteq DOMAIN r
      /\ IsList(r.env)
  BY DEF Below, Whole
<1>2. /\ DOMAIN a = DOMAIN r /\ a.env = r.env /\ a.noErrExit = TRUE
      /\ \A f \in Flags \ {"noErrExit"} : a[f] = r[f]
  BY <1>1 DEF Flags
<1> HIDE DEF a
<1>3. Whole(a) /\ a.left = r.left
  <2>1. SetFor(r, a, {"noErrExit"})
    BY <1>1, <1>2 DEF SetFor, Settable
  <2> QED BY <1>1, <2>1, SetIsWhole
<1>4. StatementKeeps(a, q)
  BY <1>3 DEF StatementsKeep, Below
<1> HIDE DEF q
<1>5. Flags \union {"env"} \subseteq DOMAIN q /\ IsList(q.env) /\ Len(q.env) = Len(a.env)
  BY <1>4 DEF StatementKeeps, CommandKeeps, Whole
<1>6. /\ DOMAIN s = DOMAIN q /\ s.env = q.env /\ s.noErrExit = r.noErrExit
      /\ \A f \in Flags \ {"noErrExit"} : s[f] = q[f]
  BY <1>5 DEF Flags
<1> HIDE DEF s
<1>7. Around(r, a, q, s, {"noErrExit"})
  BY <1>2, <1>5, <1>6 DEF Around, Settable
<1>8. StatementKeeps(r, s)
  BY <1>1, <1>4, <1>7, PutBack
<1>9. StatementKeeps(r, ExecStmt(s, cm.y))
  <2>1. Below(n, s)
    BY <1>8, CarriedBelow
  <2>2. StatementKeeps(s, ExecStmt(s, cm.y))
    BY <2>1 DEF StatementsKeep, Below
  <2> QED BY <1>1, <1>8, <2>2, StatementKeepsTwice
<1>10. StatementKeeps(r, RestOfList(s, cm))
  BY <1>8, <1>9, Zenon DEF RestOfList
<1> QED BY <1>10 DEF ExecList, a, q, s

(* A pipe leaves its own stdin to the statement around it. *)
LEMMA PipeKeeps ==
  ASSUME NEW n \in Nat, StatementsKeep(n), NEW r, Below(n, r), NEW cm
  PROVE  CommandKeeps(r, ExecPipe(r, cm))
<1> DEFINE made == NewFile(r, <<>>)
           child0 == SubshellOf(made, TRUE)
           child(f) == [child0 EXCEPT !.stdout = r.files, !.stderr = f]
<1>1. Whole(r) /\ Untouched(r, made) /\ Whole(made)
  BY FilesUntouched, AfterUntouched DEF Below
<1>2. made.left = r.left
  BY <1>1 DEF Untouched, Flags
<1> HIDE DEF made
<1>3. Whole(child0) /\ child0.left = r.left
  BY <1>1, <1>2, SubshellIsWhole
<1> HIDE DEF child0
<1>4. \A f : Whole(child(f)) /\ child(f).left = r.left
  <2> TAKE f
  <2>1. CommandKeeps(child0, [child0 EXCEPT !.stdout = r.files])
    BY <1>3, StreamsKeep
  <2>2. CommandKeeps(child0, [[child0 EXCEPT !.stdout = r.files] EXCEPT !.stderr = f])
    BY <1>3, <2>1, OneStreamKeeps
  <2>3. child(f) = [[child0 EXCEPT !.stdout = r.files] EXCEPT !.stderr = f]
    OBVIOUS
  <2>4. Whole(child(f))
    BY <2>2, <2>3 DEF CommandKeeps
  <2>5. child(f).left = child0.left
    OBVIOUS
  <2> QED BY <1>3, <2>4, <2>5
<1> HIDE DEF child
<1>5. ASSUME NEW f PROVE CommandKeeps(r, PipeRight(r, ExecStmt(child(f), cm.x), cm.y))
  <2> DEFINE x == ExecStmt(child(f), cm.x)
  <2>1. x.left \in Nat /\ x.left <= r.left
    <3>1. Below(n, child(f))
      BY <1>4 DEF Below
    <3>2. StatementKeeps(child(f), x)
      BY <3>1 DEF StatementsKeep, Below
    <3> QED BY <1>4, <3>2 DEF StatementKeeps, CommandKeeps, Whole
  <2> HIDE DEF x
  <2> DEFINE joined == Join(made, x)
             right(feeds) == [joined EXCEPT !.stdin = r.files, !.feeds = feeds]
  <2>2. StatementKeeps(made, joined)
    BY <1>1, <1>2, <2>1, JoinKeeps
  <2>3. CommandKeeps(r, joined)
    BY <1>1, <2>2, UntouchedKeeps, KeepsTwice DEF StatementKeeps
  <2> HIDE DEF joined
  <2>4. \A q, fs : CommandKeeps(r, q) => CommandKeeps(r, [q EXCEPT !.feeds = fs])
    <3> TAKE q, fs
    <3> HAVE CommandKeeps(r, q)
    <3>1. Whole(q)
      BY DEF CommandKeeps
    <3>2. Untouched(q, [q EXCEPT !.feeds = fs])
      BY <3>1, OtherFields DEF Flags
    <3> QED BY <1>1, <3>1, <3>2, UntouchedKeeps, KeepsTwice DEF StatementKeeps
  <2>5. \A q, e : CommandKeeps(r, q) => CommandKeeps(r, [q EXCEPT !.exit = e])
    <3> TAKE q, e
    <3> HAVE CommandKeeps(r, q)
    <3>1. Whole(q)
      BY DEF CommandKeeps
    <3>2. Untouched(q, [q EXCEPT !.exit = e])
      BY <3>1, OtherFields DEF Flags
    <3> QED BY <1>1, <3>1, <3>2, UntouchedKeeps, KeepsTwice DEF StatementKeeps
  <2>6. \A feeds : CommandKeeps(r, right(feeds))
    <3> TAKE feeds
    <3>1. CommandKeeps(r, [joined EXCEPT !.stdin = r.files])
      BY <1>1, <2>3, OneStreamKeeps
    <3>2. CommandKeeps(r, [[joined EXCEPT !.stdin = r.files] EXCEPT !.feeds = feeds])
      BY <2>4, <3>1
    <3> QED BY <3>2
  <2> HIDE DEF right
  <2>7. \A feeds : CommandKeeps(r, ExecStmt(right(feeds), cm.y))
    <3> TAKE feeds
    <3>1. Below(n, right(feeds))
      BY <2>6, StaysBelow
    <3>2. CommandKeeps(right(feeds), ExecStmt(right(feeds), cm.y))
      BY <3>1 DEF StatementsKeep, Below, StatementKeeps
    <3> QED BY <1>1, <2>6, <3>2, KeepsTwice
  <2>8. \A w, y : CommandKeeps(r, y) => CommandKeeps(r, PipeDone(w, x, y))
    <3> TAKE w, y
    <3> HAVE CommandKeeps(r, y)
    <3>1. \A fs, e : CommandKeeps(r, [[y EXCEPT !.feeds = fs] EXCEPT !.exit = e])
      BY <2>4, <2>5
    <3>2. \A fs, e : CommandKeeps(r, [y EXCEPT !.feeds = fs, !.exit = e])
      BY <3>1
    <3> QED BY <3>2 DEF PipeDone
  <2> DEFINE lines_ == Written(x, Len(r.log), r.files)
             feeds == [joined.feeds EXCEPT ![r.files] =
                         [i \in DOMAIN lines_ |-> lines_[i].words]]
  <2>9. PipeRight(r, x, cm.y) = PipeDone(r.files, x, ExecStmt(right(feeds), cm.y))
    BY DEF PipeRight, right, joined, made
  <2> QED BY <2>7, <2>8, <2>9 DEF x
<1>6. ExecPipe(r, cm) = PipeRight(r, ExecStmt(child(IF cm.all THEN r.files ELSE child0.stderr), cm.x), cm.y)
  BY DEF ExecPipe, child, child0, made
<1> QED BY <1>5, <1>6

LEMMA IfKeeps ==
  ASSUME NEW n \in Nat, StatementsKeep(n), NEW r, Below(n, r), NEW cm
  PROVE  StatementKeeps(r, ExecIf(r, cm))
<1> DEFINE cond == Condition(r, cm.cond)
           cleared == [cond EXCEPT !.exit = Clear(@)]
<1>1. Whole(r) /\ StatementKeeps(r, cond)
  BY ConditionKeeps DEF Below
<1> HIDE DEF cond
<1>2. StatementKeeps(r, cleared)
  <2>1. Untouched(cond, cleared)
    BY <1>1, AfterKeeps, OtherFields DEF Flags
  <2> HIDE DEF cleared
  <2> QED BY <1>1, <2>1, ThenUntouched
<1> HIDE DEF cleared
<1>3. \A q, body : StatementKeeps(r, q) => StatementKeeps(r, Stmts(q, body))
  BY <1>1, CarriedBelow, StmtsKeep, StatementKeepsTwice
<1>4. StatementKeeps(r, Branch(cond, cm))
  BY <1>1, <1>2, <1>3, Zenon DEF Branch, cleared
<1> QED BY <1>4 DEF ExecIf, cond

LEMMA CaseKeeps ==
  ASSUME NEW n \in Nat, StatementsKeep(n), NEW r, Below(n, r), NEW cm
  PROVE  StatementKeeps(r, ExecCase(r, cm))
<1> DEFINE str == Literal(r, cm.word)
<1>1. Whole(r) /\ StatementKeeps(r, str.r)
  BY LiteralKeeps DEF Below
<1> HIDE DEF str
<1>2. \A body : StatementKeeps(r, Stmts(str.r, body))
  BY <1>1, CarriedBelow, StmtsKeep, StatementKeepsTwice
<1>3. StatementKeeps(r, CaseOf(str, cm.cases))
  BY <1>1, <1>2, Zenon DEF CaseOf
<1> QED BY <1>3 DEF ExecCase, str

LEMMA CommandIsKept ==
  ASSUME NEW n \in Nat, StatementsKeep(n), NEW r, Below(n, r), NEW cm
  PROVE  CommandKeeps(r, ExecCmd(r, cm))
<1>1. Whole(r)
  BY DEF Below
<1>2. \A q : StatementKeeps(r, q) => CommandKeeps(r, q)
  BY DEF StatementKeeps
<1>3. \A q : Untouched(r, q) => CommandKeeps(r, q)
  BY <1>1, <1>2, UntouchedKeeps
<1>4. /\ CommandKeeps(r, Stopped(r)) /\ CommandKeeps(r, ExecCall(r, cm))
      /\ CommandKeeps(r, Stmts(r, cm.body)) /\ CommandKeeps(r, ExecSubshell(r, cm))
      /\ CommandKeeps(r, ExecList(r, cm)) /\ CommandKeeps(r, ExecPipe(r, cm))
  BY <1>1, <1>2, <1>3, StoppedUntouched, ExecCallKeeps, StmtsKeep, SubshellKeeps, ListKeeps,
     PipeKeeps
<1>5. /\ CommandKeeps(r, ExecIf(r, cm)) /\ CommandKeeps(r, ExecWhile(r, cm))
      /\ CommandKeeps(r, ExecFor(r, cm)) /\ CommandKeeps(r, ExecSelect(r, cm))
      /\ CommandKeeps(r, ExecCStyle(r, cm)) /\ CommandKeeps(r, ExecCase(r, cm))
      /\ CommandKeeps(r, ExecDecl(r, cm))
  BY <1>2, IfKeeps, WhileKeeps, ForKeeps, SelectKeeps, CStyleKeeps, CaseKeeps, DeclKeeps
<1>6. \A fs : CommandKeeps(r, [r EXCEPT !.funcs = fs])
  BY <1>1, <1>3, OtherFields DEF Flags
<1>7. \A c : CommandKeeps(r, [r EXCEPT !.exit.code = c])
  BY <1>1, <1>3, OtherFields DEF Flags
<1>8. CommandKeeps(r, [r EXCEPT !.panicked = TRUE])
  BY <1>1, <1>3, OtherFields DEF Flags
<1> QED BY <1>4, <1>5, <1>6, <1>7, <1>8, Zenon DEF ExecCmd

---------------------------------------------------------------------------
(* A statement: its command, the ERR trap, its redirections.                *)
LEMMA AfterCmdKeeps ==
  ASSUME NEW n \in Nat, StatementsKeep(n), NEW r, Below(n, r), NEW st
  PROVE  StatementKeeps(r, AfterCmd(r, st))
<1>1. Whole(r) /\ StatementKeeps(r, r)
  BY KeepsItself DEF Below
<1>2. \A q, e : StatementKeeps(r, q) => StatementKeeps(r, [q EXCEPT !.exit = e])
  <2> TAKE q, e
  <2> HAVE StatementKeeps(r, q)
  <2>1. Untouched(q, [q EXCEPT !.exit = e])
    BY AfterKeeps, OtherFields DEF Flags
  <2> QED BY <1>1, <2>1, ThenUntouched
<1>3. \A e : StatementKeeps(r, [r EXCEPT !.exit = e])
  BY <1>1, <1>2
<1>4. \A callback : StatementKeeps(r, TrapCallback(r, callback))
  BY TrapKeeps
<1>5. \A q : StatementKeeps(r, q) => StatementKeeps(r, Errexit(q))
  <2> TAKE q
  <2> HAVE StatementKeeps(r, q)
  <2>1. Untouched(q, [q EXCEPT !.exit.exiting = TRUE])
    BY AfterKeeps, OtherFields DEF Flags
  <2>2. StatementKeeps(r, [q EXCEPT !.exit.exiting = TRUE])
    BY <1>1, <2>1, ThenUntouched
  <2> QED BY <2>2, Zenon DEF Errexit
<1>6. \A callback : StatementKeeps(r, Errexit(TrapCallback(r, callback)))
  BY <1>4, <1>5
<1> QED BY <1>1, <1>3, <1>6, Zenon DEF AfterCmd

LEMMA BackKeeps ==
  ASSUME NEW r, Whole(r), NEW q, CommandKeeps(r, q)
  PROVE  StatementKeeps(r, BackFrom(q, r))
<1> DEFINE s == [q EXCEPT !.stdin = r.stdin, !.stdout = r.stdout, !.stderr = r.stderr]
<1>1. Whole(q) /\ q.keepRedirs \in BOOLEAN
  BY DEF CommandKeeps, Whole
<1>2. CommandKeeps(r, s)
  <2>1. CommandKeeps(r, [q EXCEPT !.stdin = r.stdin])
    BY OneStreamKeeps
  <2>2. CommandKeeps(r, [[q EXCEPT !.stdin = r.stdin] EXCEPT !.stdout = r.stdout])
    BY <2>1, OneStreamKeeps
  <2>3. CommandKeeps(r, [[[q EXCEPT !.stdin = r.stdin] EXCEPT !.stdout = r.stdout]
                         EXCEPT !.stderr = r.stderr])
    BY <2>2, OneStreamKeeps
  <2> QED BY <2>3
<1>3. SameStreams(r, s)
  BY <1>1 DEF SameStreams, Whole, Flags
<1> HIDE DEF s
<1>4. StatementKeeps(r, s)
  BY <1>2, <1>3 DEF StatementKeeps
<1>5. q.keepRedirs => StatementKeeps(r, q)
  BY DEF StatementKeeps
<1> QED BY <1>4, <1>5, Zenon DEF BackFrom, s

LEMMA SyncKeeps ==
  ASSUME NEW n \in Nat, StatementsKeep(n), NEW r, Below(n, r), NEW st
  PROVE  StatementKeeps(r, StmtSync(r, st))
<1> DEFINE redir == Redirs(r, st.redirs)
<1>1. Whole(r) /\ CommandKeeps(r, redir.r)
  BY RedirsKeep DEF Below
<1> HIDE DEF redir
<1>2. CommandKeeps(r, ExecCmd(redir.r, st.cmd))
  BY <1>1, StaysBelow, CommandIsKept, KeepsTwice
<1>3. \A q : CommandKeeps(r, q) => CommandKeeps(r, AfterCmd(q, st))
  <2> TAKE q
  <2> HAVE CommandKeeps(r, q)
  <2>1. Below(n, q)
    BY StaysBelow
  <2>2. CommandKeeps(q, AfterCmd(q, st))
    BY <2>1, AfterCmdKeeps DEF StatementKeeps
  <2> QED BY <1>1, <2>2, KeepsTwice
<1>4. \A q, fs : CommandKeeps(r, q) => StatementKeeps(r, Close(BackFrom(AfterCmd(q, st), r), fs))
  <2> TAKE q, fs
  <2> HAVE CommandKeeps(r, q)
  <2>1. StatementKeeps(r, BackFrom(AfterCmd(q, st), r))
    BY <1>1, <1>3, BackKeeps
  <2> QED BY <1>1, <2>1, AfterKeeps, FilesUntouched, ThenUntouched
<1>5. CommandKeeps(r, IF Ok(redir.r.exit) THEN ExecCmd(redir.r, st.cmd) ELSE redir.r)
  BY <1>1, <1>2
<1>6. StatementKeeps(r, Under(redir, st, r))
  BY <1>4, <1>5 DEF Under
<1> QED BY <1>6 DEF StmtSync, redir

LEMMA RunKeeps ==
  ASSUME NEW n \in Nat, StatementsKeep(n), NEW r, Below(n, r), NEW body
  PROVE  StatementKeeps(r, Run(r, body))
<1> DEFINE a == [r EXCEPT !.exit = NoExit]
<1>1. Whole(r) /\ StatementKeeps(r, a)
  <2>1. Whole(r) /\ Untouched(r, a)
    BY OtherFields DEF Flags, Below
  <2> HIDE DEF a
  <2> QED BY <2>1, UntouchedKeeps
<1> HIDE DEF a
<1>2. StatementKeeps(r, Stmts(a, body))
  BY <1>1, CarriedBelow, StmtsKeep, StatementKeepsTwice
<1>3. StatementKeeps(r, ExitTrap(Stmts(a, body)))
  BY <1>1, <1>2, CarriedBelow, TrapKeeps, StatementKeepsTwice DEF ExitTrap
<1> QED BY <1>3 DEF Run, a

LEMMA BackgroundKeeps ==
  ASSUME NEW n \in Nat, StatementsKeep(n), NEW r, Below(n, r), NEW st
  PROVE  StatementKeeps(r, StartBackground(r, st))
<1> DEFINE child == SubshellOf(r, TRUE)
           body == <<[st EXCEPT !.bg = FALSE]>>
           ran == Run(child, body)
<1>1. Whole(r) /\ Whole(child) /\ child.left = r.left
  BY SubshellIsWhole DEF Below
<1> HIDE DEF child, body
<1>2. StatementKeeps(child, ran)
  BY <1>1, RunKeeps DEF Below
<1>3. ran.left \in Nat /\ ran.left <= r.left
  BY <1>1, <1>2 DEF StatementKeeps, CommandKeeps, Whole
<1> HIDE DEF ran
<1>4. StatementKeeps(r, Join(r, ran))
  BY <1>1, <1>3, JoinKeeps
<1>5. \A q, ps : StatementKeeps(r, q) => StatementKeeps(r, [q EXCEPT !.bgProcs = ps])
  <2> TAKE q, ps
  <2> HAVE StatementKeeps(r, q)
  <2>1. Untouched(q, [q EXCEPT !.bgProcs = ps])
    BY AfterKeeps, OtherFields DEF Flags
  <2> QED BY <1>1, <2>1, ThenUntouched
<1>6. StatementKeeps(r, NoteEnd(r, ran))
  BY <1>4, <1>5 DEF NoteEnd
<1> QED BY <1>6 DEF StartBackground, child, body, ran

LEMMA RunStmtKeeps ==
  ASSUME NEW n \in Nat, StatementsKeep(n), NEW r, Below(n + 1, r), NEW st
  PROVE  /\ StatementKeeps(r, RunStmt(r, st))
         /\ ~ Stop(r) => RunStmt(r, st).left < r.left
<1>1. Whole(r) /\ r.left \in Nat
  BY DEF Below, Whole
<1>2. StatementKeeps(r, Stopped(r))
  BY <1>1, StoppedUntouched, UntouchedKeeps
<1>3. CASE Stop(r)
  BY <1>2, <1>3 DEF RunStmt
<1>4. CASE ~ Stop(r)
  <2> DEFINE a == [r EXCEPT !.exit = NoExit, !.left = @ - 1]
  <2>1. r.left # 0
    BY <1>4 DEF Stop
  <2>2. /\ a.left = r.left - 1 /\ DOMAIN a = DOMAIN r /\ a.env = r.env
        /\ \A f \in Flags \ {"left"} : a[f] = r[f]
    BY <1>1 DEF Flags, Whole
  <2> HIDE DEF a
  <2>3. /\ a.inLoop = r.inLoop /\ a.inFunc = r.inFunc /\ a.inSource = r.inSource
        /\ a.noErrExit = r.noErrExit /\ a.sourceSetParams = r.sourceSetParams
        /\ a.handlingTrap = r.handlingTrap /\ a.unparsed = r.unparsed
        /\ a.keepRedirs = r.keepRedirs
        /\ a.stdin = r.stdin /\ a.stdout = r.stdout /\ a.stderr = r.stderr
    BY <2>2 DEF Flags
  <2>4. Whole(a)
    BY <1>1, <2>1, <2>2, <2>3 DEF Whole
  <2>5. StatementKeeps(r, a) /\ Below(n, a)
    <3>1. a.left <= r.left /\ a.left < n
      BY <1>1, <2>1, <2>2 DEF Below
    <3> QED BY <2>2, <2>3, <2>4, <3>1 DEF StatementKeeps, CommandKeeps, SameStreams, Below
  <2>6. StatementKeeps(a, StartStmt(a, st))
    BY <2>5, SyncKeeps, BackgroundKeeps, Zenon DEF StartStmt
  <2> DEFINE q == StartStmt(a, st)
  <2>7. StatementKeeps(r, q)
    BY <1>1, <2>5, <2>6, StatementKeepsTwice
  <2> HIDE DEF q
  <2>8. Untouched(q, Noted(q))
    BY <2>7, AfterKeeps, OtherFields DEF Flags, Noted
  <2>9. StatementKeeps(r, Noted(q))
    BY <1>1, <2>7, <2>8, ThenUntouched
  <2>10. Noted(q).left < r.left
    <3>1. q.left <= a.left /\ q.left \in Nat /\ Noted(q).left = q.left
      BY <2>6, <2>8 DEF q, StatementKeeps, CommandKeeps, Whole, Untouched, Flags
    <3> QED BY <1>1, <2>2, <3>1
  <2> QED BY <1>4, <2>9, <2>10 DEF RunStmt, q, a
<1> QED BY <1>3, <1>4

(* ExecStmt is what RunStmt says of it: the configurations give it that     *)
(* meaning, and as a statement within another has fewer left to start there *)
(* is such an operator, and only one.                                       *)
Tied == \A r, st : Whole(r) => ExecStmt(r, st) = RunStmt(r, st)

(* Whatever a statement is, runner.go puts back what it sets for its time:  *)
(* by induction over the statements left to start, each ExecStmt that a     *)
(* whole Runner runs keeps inLoop, inFunc, inSource and noErrExit, the      *)
(* number of scopes, handlingTrap but for a trap that does not parse, the   *)
(* streams but for an exec, and outside of source sourceSetParams.          *)
THEOREM StatementsPutBack ==
  ASSUME Tied
  PROVE  \A r, st : Whole(r) => StatementKeeps(r, ExecStmt(r, st))
<1> DEFINE S == {n \in Nat : StatementsKeep(n)}
<1>1. 0 \in S
  <2>1. StatementsKeep(0)
    BY DEF StatementsKeep, Whole
  <2> QED BY <2>1
<1>2. ASSUME NEW n \in S PROVE n + 1 \in S
  <2>1. n \in Nat /\ StatementsKeep(n)
    OBVIOUS
  <2>2. ASSUME NEW r, NEW st, Whole(r), r.left < n + 1
        PROVE  StatementKeeps(r, ExecStmt(r, st))
    <3>1. Below(n + 1, r)
      BY <2>2 DEF Below
    <3>2. StatementKeeps(r, RunStmt(r, st))
      BY <2>1, <3>1, RunStmtKeeps
    <3> QED BY <2>2, <3>2 DEF Tied
  <2>3. StatementsKeep(n + 1)
    BY <2>2 DEF StatementsKeep
  <2> QED BY <2>1, <2>3
<1> HIDE DEF S
<1>3. S = Nat
  <2>1. S \in SUBSET Nat
    BY DEF S
  <2> QED BY <1>1, <1>2, <2>1, SetInduction
<1>4. ASSUME NEW r, NEW st, Whole(r) PROVE StatementKeeps(r, ExecStmt(r, st))
  <2>1. r.left + 1 \in Nat /\ r.left < r.left + 1
    BY <1>4 DEF Whole
  <2>2. StatementsKeep(r.left + 1)
    BY <1>3, <2>1 DEF S
  <2> QED BY <1>4, <2>1, <2>2 DEF StatementsKeep
<1> QED BY <1>4

---------------------------------------------------------------------------
(* The end of a while loop. Each of its turns starts a statement, the first *)
(* of its condition, as long as nothing stops the shell.                    *)

LEMMA AllStatementsKeep ==
  ASSUME Tied
  PROVE  \A n \in Nat : StatementsKeep(n)
BY StatementsPutBack DEF StatementsKeep

LEMMA StatementsCount ==
  ASSUME Tied, NEW r, Whole(r), ~ Stop(r), NEW body, Len(body) \in Nat \ {0}
  PROVE  Whole(Stmts(r, body)) /\ Stmts(r, body).left < r.left
<1> DEFINE N == Len(body)
<1>1. PICK after : /\ after[0] = r
                   /\ \A i \in 1..N : after[i] = ExecStmt(after[i - 1], body[i])
                   /\ StmtsKept!Through(r, body) = after[N]
  BY StmtsKept!WalkExists
<1> DEFINE S == {i \in 0..N : i # 0 => Whole(after[i]) /\ after[i].left < r.left}
<1>2. 0 \in S
  OBVIOUS
<1>3. ASSUME NEW i \in 0..N - 1, i \in S PROVE i + 1 \in S
  <2>1. i + 1 \in 1..N /\ i + 1 \in 0..N /\ (i + 1) - 1 = i
    OBVIOUS
  <2>2. after[i + 1] = ExecStmt(after[i], body[i + 1])
    BY <1>1, <2>1
  <2> DEFINE x == after[i]
             y == ExecStmt(x, body[i + 1])
  <2>3. Whole(x) /\ (i = 0 \/ x.left < r.left) /\ (i = 0 => x = r)
    BY <1>1, <1>3
  <2> HIDE DEF x
  <2>4. StatementKeeps(x, y)
    BY <2>3, StatementsPutBack
  <2>5. y.left \in Nat /\ y.left <= x.left /\ x.left \in Nat /\ r.left \in Nat /\ Whole(y)
    BY <2>3, <2>4 DEF StatementKeeps, CommandKeeps, Whole
  <2>6. i = 0 => y.left < r.left
    <3> SUFFICES ASSUME i = 0 PROVE y.left < r.left
      OBVIOUS
    <3>1. x = r /\ y = RunStmt(x, body[i + 1])
      BY <2>3 DEF Tied
    <3>2. x.left + 1 \in Nat /\ Below((x.left + 1) + 1, x) /\ StatementsKeep(x.left + 1)
      BY <2>3, <2>5, AllStatementsKeep DEF Below
    <3>3. ~ Stop(x) => RunStmt(x, body[i + 1]).left < x.left
      BY <3>2, RunStmtKeeps
    <3> QED BY <3>1, <3>3
  <2> HIDE DEF y
  <2>7. y.left < r.left
    BY <2>3, <2>5, <2>6
  <2> QED BY <2>1, <2>2, <2>5, <2>7 DEF x, y
<1>4. N \in S
  <2> HIDE DEF S
  <2>1. 0..N \subseteq S
    BY <1>2, <1>3, LoopInvariant
  <2> QED BY <2>1
<1>5. Whole(after[N]) /\ after[N].left < r.left
  BY <1>4
<1>6. EachStmt!Through(r, body) = after[N]
  BY <1>1, Zenon DEF EachStmt!Through, StmtsKept!Through
<1> QED BY <1>5, <1>6 DEF Stmts

LEMMA ConditionCounts ==
  ASSUME Tied, NEW r, Whole(r), ~ Stop(r), NEW body, Len(body) \in Nat \ {0}
  PROVE  Whole(Condition(r, body)) /\ Condition(r, body).left < r.left
<1> DEFINE a == [r EXCEPT !.noErrExit = TRUE]
           q == Stmts(a, body)
<1>1. Flags \union {"env"} \subseteq DOMAIN r /\ StopFields \subseteq DOMAIN r /\ IsList(r.env)
  BY DEF Whole
<1>2. /\ DOMAIN a = DOMAIN r /\ a.env = r.env /\ a.noErrExit = TRUE
      /\ \A f \in Flags \ {"noErrExit"} : a[f] = r[f]
      /\ a.exit = r.exit /\ a.opts = r.opts /\ a.hung = r.hung /\ a.panicked = r.panicked
  BY <1>1 DEF Flags, StopFields
<1> HIDE DEF a
<1>3. Whole(a) /\ a.left = r.left
  <2>1. SetFor(r, a, {"noErrExit"})
    BY <1>1, <1>2 DEF SetFor, Settable
  <2> QED BY <1>1, <2>1, SetIsWhole
<1>4. ~ Stop(a)
  BY <1>2, <1>3 DEF Stop, Flags
<1>5. q.left < r.left /\ Whole(q)
  BY <1>3, <1>4, StatementsCount
<1> HIDE DEF q
<1>6. Condition(r, body) = [q EXCEPT !.noErrExit = r.noErrExit]
  BY DEF Condition, a, q
<1>7. [q EXCEPT !.noErrExit = r.noErrExit].left = q.left
  BY <1>5 DEF Whole, Flags
<1>8. Whole(Condition(r, body))
  <2>1. r.left + 1 \in Nat /\ Below(r.left + 1, r) /\ StatementsKeep(r.left + 1)
    BY AllStatementsKeep DEF Below, Whole
  <2> QED BY <2>1, ConditionKeeps, AfterKeeps DEF Below
<1> QED BY <1>5, <1>6, <1>7, <1>8

LEMMA TurnCounts ==
  ASSUME Tied, NEW x, Whole(x.r), ~ x.over, NEW cm, Len(cm.cond) \in Nat \ {0}
  PROVE  LET y == WhileTurn(x, cm)
         IN  y.over \/ (Whole(y.r) /\ y.r.left < x.r.left)
<1> DEFINE y == WhileTurn(x, cm)
<1>1. CASE Stop(x.r)
  BY <1>1 DEF WhileTurn, Turning
<1>2. CASE ~ Stop(x.r)
  <2> DEFINE cond == Condition(x.r, cm.cond)
             go == [cond EXCEPT !.exit = Clear(@)]
             turn == LoopStmtsBroken(go, cm.body)
  <2>1. y = AfterCondition(cond, cm)
    BY <1>2 DEF WhileTurn
  <2>2. Whole(cond) /\ cond.left < x.r.left
    BY <1>2, ConditionCounts
  <2> HIDE DEF cond
  <2>3. Untouched(cond, go)
    BY <2>2, OtherFields DEF Flags
  <2>4. Whole(go) /\ go.left = cond.left
    BY <2>2, <2>3, AfterUntouched DEF Untouched, Flags
  <2> HIDE DEF go
  <2>5. CarriesKeeps(go, turn)
    <3>1. go.left + 1 \in Nat /\ Below(go.left + 1, go) /\ StatementsKeep(go.left + 1)
      BY <2>4, AllStatementsKeep DEF Below, Whole
    <3> QED BY <3>1, LoopKeeps
  <2>6. Whole(turn.r) /\ turn.r.left < x.r.left
    <3>1. Whole(turn.r) /\ turn.r.left <= go.left
      BY <2>5 DEF CarriesKeeps, StatementKeeps, CommandKeeps
    <3> QED BY <2>2, <2>4, <3>1 DEF Whole
  <2> HIDE DEF turn
  <2>7. y \in {Turning(go, TRUE), NextWhile(turn)}
    BY <2>1 DEF AfterCondition, go, turn
  <2>8. Turning(go, TRUE).over /\ NextWhile(turn).r = turn.r
    BY DEF Turning, NextWhile
  <2> QED BY <2>6, <2>7, <2>8
<1> QED BY <1>1, <1>2

(* A while or until loop whose condition has a statement ends with its      *)
(* shell (cmd of runner.go, WhileClause). Whatever the condition and the    *)
(* body do, with one turn more than statements may still start the loop is  *)
(* over, by its condition, by break, or because an exit, a return, errexit  *)
(* or the end of the context stops the shell: it is not cut off by the      *)
(* bound on its turns, and so hangs only if a statement in it does.         *)
THEOREM WhileLoopsEnd ==
  ASSUME Tied, NEW r, Whole(r), MaxTurns \in Nat, r.left < MaxTurns,
         NEW cm, Len(cm.cond) \in Nat \ {0}
  PROVE  LET last == EachWhileTurn!Through(Turning(r, FALSE), [i \in 1..MaxTurns |-> cm])
         IN  last.over /\ ExecWhile(r, cm) = last.r
<1> DEFINE base == Turning(r, FALSE)
           items == [i \in 1..MaxTurns |-> cm]
<1>1. Len(items) = MaxTurns /\ Len(items) \in Nat /\ \A i \in 1..MaxTurns : items[i] = cm
  <2>1. DOMAIN items = 1..MaxTurns /\ items = [i \in DOMAIN items |-> items[i]]
    OBVIOUS
  <2> HIDE DEF items
  <2>2. Len(items) = MaxTurns
    BY <2>1, ListMade
  <2> QED BY <2>2 DEF items
<1>2. Whole(base.r) /\ base.r = r
  BY DEF Turning
<1> HIDE DEF base, items
<1>3. PICK after : /\ after[0] = base
                   /\ \A i \in 1..MaxTurns : after[i] = WhileTurn(after[i - 1], items[i])
                   /\ WhilesKept!Through(base, items) = after[MaxTurns]
  <2>1. \E after : /\ after[0] = base
                   /\ \A i \in 1..Len(items) : after[i] = WhileTurn(after[i - 1], items[i])
                   /\ WhilesKept!Through(base, items) = after[Len(items)]
    <3>1. Len(items) \in Nat
      BY <1>1
    <3> HIDE <1>1
    <3> QED BY <3>1, WhilesKept!WalkExists
  <2>2. Len(items) = MaxTurns
    BY <1>1
  <2> QED BY <2>1, <2>2, Zenon
<1> DEFINE Near(i) == after[i].over \/ (Whole(after[i].r) /\ after[i].r.left + i <= r.left)
           S == {i \in 0..MaxTurns : Near(i)}
<1>4. 0 \in S
  BY <1>2, <1>3 DEF Whole
<1>5. ASSUME NEW i \in 0..MaxTurns - 1, i \in S PROVE i + 1 \in S
  <2>1. i + 1 \in 1..MaxTurns /\ i + 1 \in 0..MaxTurns /\ (i + 1) - 1 = i
    OBVIOUS
  <2>2. after[i + 1] = WhileTurn(after[i], cm)
    BY <1>1, <1>3, <2>1
  <2> DEFINE x == after[i]
             y == WhileTurn(x, cm)
  <2>3. x.over \/ (Whole(x.r) /\ x.r.left + i <= r.left)
    BY <1>5
  <2> HIDE DEF x
  <2>4. CASE x.over
    <3>1. y.over
      BY <2>4 DEF WhileTurn
    <3> QED BY <2>1, <2>2, <3>1 DEF x
  <2>5. CASE ~ x.over
    <3>1. y.over \/ (Whole(y.r) /\ y.r.left < x.r.left)
      BY <2>3, <2>5, TurnCounts
    <3> HIDE DEF y
    <3>2. Whole(y.r) => y.r.left \in Nat
      BY DEF Whole
    <3>3. x.r.left \in Nat /\ x.r.left + i <= r.left /\ r.left \in Nat
      BY <2>3, <2>5 DEF Whole
    <3>4. ASSUME ~ y.over PROVE Whole(y.r) /\ y.r.left + (i + 1) <= r.left
      <4>1. Whole(y.r) /\ y.r.left < x.r.left /\ y.r.left \in Nat
        BY <3>1, <3>2, <3>4, Zenon
      <4>2. \A m, k, j \in Nat : j < m /\ m + i <= k => j + (i + 1) <= k
        OBVIOUS
      <4>3. y.r.left + (i + 1) <= r.left
        BY <3>3, <4>1, <4>2, Zenon
      <4> QED BY <4>1, <4>3, Zenon
    <3> QED BY <2>1, <2>2, <3>4 DEF x, y
  <2> QED BY <2>4, <2>5
<1>6. MaxTurns \in S
  <2> HIDE DEF S
  <2>1. 0..MaxTurns \subseteq S
    BY <1>4, <1>5, LoopInvariant
  <2> QED BY <2>1
<1>7. after[MaxTurns].over
  <2>1. Near(MaxTurns)
    BY <1>6
  <2> QED BY <2>1 DEF Whole
<1>8. EachWhileTurn!Through(base, items) = after[MaxTurns]
  BY <1>3, Zenon DEF EachWhileTurn!Through, WhilesKept!Through
<1>9. ExecWhile(r, cm) = EndOf(EachWhileTurn!Through(base, items))
  BY DEF ExecWhile, base, items
<1> QED BY <1>7, <1>8, <1>9 DEF EndOf, base, items

---------------------------------------------------------------------------
(* The stack of directories.                                                *)

\* The shell stands where the top of its stack says, and can go back to all
\* the rest.
FollowsStack(r) ==
  /\ {"dir", "dirStack"} \subseteq DOMAIN r
  /\ r.dirStack \in Seq(Dirs) /\ Len(r.dirStack) > 0
  /\ Last(r.dirStack) = r.dir

SameDirs(r, q) == DOMAIN q = DOMAIN r /\ q.dir = r.dir /\ q.dirStack = r.dirStack

\* What a builtin that moves the shell may leave: the two go together, and
\* neither moved if it failed.
MovesTogether(r, res) ==
  /\ "r" \in DOMAIN res /\ FollowsStack(res.r)
  /\ Ok(res.e) \/ SameDirs(r, res.r)

LEMMA SetVarKeepsDirs ==
  ASSUME NEW r, {"dir", "dirStack"} \subseteq DOMAIN r, NEW n, NEW v
  PROVE  SameDirs(r, SetVar(r, n, v))
<1>1. \A chain : SameDirs(r, [r EXCEPT !.env = chain])
  BY DEF SameDirs
<1>2. SameDirs(r, [r EXCEPT !.exit.code = 1])
  BY DEF SameDirs
<1> QED BY <1>1, <1>2, Zenon DEF SetVar

LEMMA SameDirsTwice ==
  ASSUME NEW r, NEW q, NEW s, SameDirs(r, q), SameDirs(q, s)
  PROVE  SameDirs(r, s)
BY DEF SameDirs

LEMMA ChangeDirMoves ==
  ASSUME NEW r, {"dir", "dirStack"} \subseteq DOMAIN r, NEW path
  PROVE  LET res == ChangeDir(r, path)
         IN  /\ "r" \in DOMAIN res /\ DOMAIN res.r = DOMAIN r
             /\ res.r.dirStack = r.dirStack
             /\ path \in Dirs => Ok(res.e) /\ res.r.dir = path
             /\ path \notin Dirs => ~ Ok(res.e) /\ res.r = r
<1> DEFINE old == Get(r.env, "PWD").str
           one == SetVarString(r, "OLDPWD", old)
           two == SetVarString(one, "PWD", <<path>>)
           res == ChangeDir(r, path)
<1>1. SameDirs(r, one)
  BY SetVarKeepsDirs DEF SetVarString
<1>2. SameDirs(r, two)
  <2> HIDE DEF one
  <2>1. {"dir", "dirStack"} \subseteq DOMAIN one
    BY <1>1 DEF SameDirs
  <2>2. SameDirs(one, two)
    BY <2>1, SetVarKeepsDirs DEF SetVarString
  <2> QED BY <1>1, <2>2, SameDirsTwice
<1>3. CASE path \in Dirs
  <2>1. res = Result([two EXCEPT !.dir = path], NoExit)
    BY <1>3, Zenon DEF ChangeDir
  <2> HIDE DEF two, res
  <2>2. /\ DOMAIN [two EXCEPT !.dir = path] = DOMAIN r
        /\ [two EXCEPT !.dir = path].dirStack = r.dirStack
        /\ [two EXCEPT !.dir = path].dir = path
    BY <1>2 DEF SameDirs
  <2>3. Ok(NoExit)
    BY DEF Ok, NoExit
  <2> QED BY <1>3, <2>1, <2>2, <2>3 DEF Result, res
<1>4. CASE path \notin Dirs
  <2>1. res = Result(r, Code(1))
    BY <1>4, Zenon DEF ChangeDir
  <2>2. ~ Ok(Code(1))
    BY DEF Ok, Code, NoExit
  <2> HIDE DEF res
  <2> QED BY <1>4, <2>1, <2>2 DEF Result, res
<1> QED BY <1>3, <1>4

LEMMA DirsMoveNothing ==
  ASSUME NEW r, {"dir", "dirStack"} \subseteq DOMAIN r
  PROVE  SameDirs(r, DirsCmd(r))
<1>1. \A to, words : SameDirs(r, Write(r, to, words))
  BY DEF Write, SameDirs
<1> QED BY <1>1 DEF DirsCmd

LEMMA ShownMoves ==
  ASSUME NEW r, NEW res, MovesTogether(r, res)
  PROVE  MovesTogether(r, Shown(res))
<1>1. CASE Ok(res.e)
  <2>1. Shown(res) = Result(DirsCmd(res.r), NoExit)
    BY <1>1 DEF Shown
  <2>2. SameDirs(res.r, DirsCmd(res.r))
    BY DirsMoveNothing DEF MovesTogether, FollowsStack
  <2>3. FollowsStack(DirsCmd(res.r))
    BY <2>2 DEF MovesTogether, FollowsStack, SameDirs
  <2>4. Ok(NoExit)
    BY DEF Ok, NoExit
  <2> QED BY <2>1, <2>3, <2>4 DEF MovesTogether, Result
<1>2. CASE ~ Ok(res.e)
  BY <1>2 DEF Shown
<1> QED BY <1>1, <1>2

LEMMA SwapIs ==
  ASSUME NEW T, NEW stack \in Seq(T), Len(stack) >= 2
  PROVE  /\ Swap(stack) \in Seq(T) /\ Len(Swap(stack)) = Len(stack)
         /\ Last(Swap(stack)) = stack[Len(stack) - 1]
BY DEF Swap, Last

LEMMA ThenMoves ==
  ASSUME NEW r, FollowsStack(r), NEW stack \in Seq(Dirs), NEW path \in Dirs,
         Len(stack) > 0, Last(stack) = path
  PROVE  MovesTogether(r, ChangeDir([r EXCEPT !.dirStack = stack], path))
<1> DEFINE q == [r EXCEPT !.dirStack = stack]
           res == ChangeDir(q, path)
<1>1. {"dir", "dirStack"} \subseteq DOMAIN q /\ q.dirStack = stack
  BY DEF FollowsStack
<1> HIDE DEF q
<1>2. "r" \in DOMAIN res /\ DOMAIN res.r = DOMAIN q /\ res.r.dirStack = stack
      /\ Ok(res.e) /\ res.r.dir = path
  BY <1>1, ChangeDirMoves
<1> HIDE DEF res
<1>3. MovesTogether(r, res)
  BY <1>1, <1>2 DEF MovesTogether, FollowsStack
<1> QED BY <1>3 DEF res, q

LEMMA ResultMoves ==
  ASSUME NEW r, FollowsStack(r), NEW e
  PROVE  MovesTogether(r, Result(r, e))
BY DEF MovesTogether, Result, SameDirs

LEMMA PushdMoves ==
  ASSUME NEW r, FollowsStack(r), NEW args, IsList(args),
         Len(args) = 2 /\ args[1] = <<"-n">> => args[2][1] \in Dirs
  PROVE  MovesTogether(r, PushdCmd(r, args))
<1> DEFINE n == Len(r.dirStack)
           change == args = <<>> \/ args[1] # <<"-n">>
           rest == IF change THEN args ELSE Tail(args)
           swapped == [r EXCEPT !.dirStack = Swap(@)]
           WithSecond(path) == [r EXCEPT !.dirStack = Swap(Append(@, path))]
           WithTop(there) == IF Ok(there.e)
                             THEN [there EXCEPT !.r.dirStack = Append(@, there.r.dir)]
                             ELSE there
<1>1. /\ {"dir", "dirStack"} \subseteq DOMAIN r /\ r.dirStack \in Seq(Dirs)
      /\ n \in Nat /\ n > 0 /\ Last(r.dirStack) = r.dir
  BY DEF FollowsStack
<1>2. \A e : MovesTogether(r, Result(r, e))
  BY ResultMoves
<1>3. ASSUME Len(r.dirStack) > 1
      PROVE  MovesTogether(r, Shown(ChangeDir(swapped, Last(swapped.dirStack))))
  <2>1. /\ Swap(r.dirStack) \in Seq(Dirs) /\ Len(Swap(r.dirStack)) = n
        /\ Last(Swap(r.dirStack)) = r.dirStack[n - 1] /\ r.dirStack[n - 1] \in Dirs
    BY <1>1, <1>3, SwapIs
  <2>2. swapped.dirStack = Swap(r.dirStack) /\ swapped = [r EXCEPT !.dirStack = Swap(r.dirStack)]
    BY <1>1
  <2> HIDE DEF swapped
  <2>3. MovesTogether(r, ChangeDir(swapped, Last(swapped.dirStack)))
    BY <1>1, <2>1, <2>2, ThenMoves
  <2> QED BY <2>3, ShownMoves
<1>4. ASSUME NEW path PROVE MovesTogether(r, Shown(WithTop(ChangeDir(r, path))))
  <2> DEFINE there == ChangeDir(r, path)
  <2>1. /\ "r" \in DOMAIN there /\ DOMAIN there.r = DOMAIN r
        /\ there.r.dirStack = r.dirStack
        /\ path \in Dirs => Ok(there.e) /\ there.r.dir = path
        /\ path \notin Dirs => ~ Ok(there.e) /\ there.r = r
    BY <1>1, ChangeDirMoves
  <2> HIDE DEF there
  <2>2. CASE path \in Dirs
    <3> DEFINE end == [there EXCEPT !.r.dirStack = Append(@, there.r.dir)]
    <3>1. Append(r.dirStack, path) \in Seq(Dirs) /\ Len(Append(r.dirStack, path)) = n + 1
          /\ Append(r.dirStack, path)[n + 1] = path
      BY <1>1, <2>2
    <3>2. /\ "r" \in DOMAIN end /\ DOMAIN end.r = DOMAIN r /\ end.r.dir = path
          /\ end.r.dirStack = Append(r.dirStack, path) /\ end.e = there.e
      BY <1>1, <2>1, <2>2
    <3> HIDE DEF end
    <3>3. MovesTogether(r, end)
      BY <1>1, <2>1, <2>2, <3>1, <3>2 DEF MovesTogether, FollowsStack, Last
    <3>4. WithTop(there) = end
      BY <2>1, <2>2 DEF end
    <3> QED BY <3>3, <3>4, ShownMoves DEF there
  <2>3. CASE path \notin Dirs
    <3>1. WithTop(there) = there
      BY <2>1, <2>3
    <3>2. MovesTogether(r, there)
      BY <2>1, <2>3 DEF MovesTogether, SameDirs
    <3> QED BY <3>1, <3>2, ShownMoves DEF there
  <2> QED BY <2>2, <2>3
<1>5. ASSUME NEW path \in Dirs PROVE MovesTogether(r, Shown(Result(WithSecond(path), NoExit)))
  <2> DEFINE stack == Append(r.dirStack, path)
             q == WithSecond(path)
  <2>1. stack \in Seq(Dirs) /\ Len(stack) = n + 1 /\ stack[n] = r.dirStack[n]
    BY <1>1
  <2>2. Swap(stack) \in Seq(Dirs) /\ Len(Swap(stack)) = n + 1 /\ Last(Swap(stack)) = stack[n]
    <3> HIDE DEF stack
    <3> QED BY <1>1, <2>1, SwapIs
  <2>3. DOMAIN q = DOMAIN r /\ q.dirStack = Swap(stack) /\ q.dir = r.dir
    BY <1>1
  <2> HIDE DEF q, stack
  <2>4. FollowsStack(q)
    BY <1>1, <2>1, <2>2, <2>3 DEF FollowsStack, Last
  <2>5. MovesTogether(r, Result(q, NoExit))
    BY <2>4 DEF MovesTogether, Result, Ok, NoExit
  <2> QED BY <2>5, ShownMoves DEF q
<1>6. ~ change /\ rest # <<>> /\ ~ Len(rest) > 1 => rest[1][1] \in Dirs
  <2> SUFFICES ASSUME ~ change, rest # <<>>, ~ Len(rest) > 1 PROVE rest[1][1] \in Dirs
    OBVIOUS
  <2>1. args # <<>> /\ args[1] = <<"-n">> /\ rest = Tail(args)
    OBVIOUS
  <2> DEFINE T == {args[i] : i \in DOMAIN args}
  <2>2. args \in Seq(T)
    BY DEF IsList
  <2> HIDE DEF T
  <2>3. /\ Tail(args) \in Seq(T) /\ Len(Tail(args)) = Len(args) - 1 /\ Len(args) \in Nat
        /\ \A i \in 1..Len(Tail(args)) : Tail(args)[i] = args[i + 1]
    BY <2>1, <2>2
  <2>4. Len(Tail(args)) = 1
    BY <2>1, <2>3, EmptySeq
  <2> QED BY <2>1, <2>3, <2>4
<1> QED BY <1>1, <1>2, <1>3, <1>4, <1>5, <1>6, Zenon DEF PushdCmd

LEMMA PopdMoves ==
  ASSUME NEW r, FollowsStack(r), NEW args
  PROVE  MovesTogether(r, PopdCmd(r, args))
<1> DEFINE n == Len(r.dirStack)
           front == Front(r.dirStack)
           popped == [r EXCEPT !.dirStack = Front(@)]
           kept == [popped EXCEPT !.dirStack[Len(popped.dirStack)] = Last(r.dirStack)]
<1>1. /\ {"dir", "dirStack"} \subseteq DOMAIN r /\ r.dirStack \in Seq(Dirs)
      /\ n \in Nat /\ n > 0 /\ Last(r.dirStack) = r.dir
  BY DEF FollowsStack
<1>2. \A e : MovesTogether(r, Result(r, e))
  BY ResultMoves
<1>3. ASSUME Len(r.dirStack) > 1
      PROVE  /\ MovesTogether(r, Shown(ChangeDir(popped, Last(popped.dirStack))))
             /\ MovesTogether(r, Shown(Result(kept, NoExit)))
  <2>1. front \in Seq(Dirs) /\ Len(front) = n - 1
    <3>1. \A i \in 1..n - 1 : r.dirStack[i] \in Dirs
      BY <1>1
    <3> QED BY <1>1, <1>3, <3>1, SubSeqProperties DEF Front
  <2> HIDE DEF front
  <2>2. Last(front) \in Dirs /\ n - 1 > 0
    BY <1>3, <2>1 DEF Last
  <2>3. popped = [r EXCEPT !.dirStack = front] /\ popped.dirStack = front /\ DOMAIN popped = DOMAIN r
        /\ popped.dir = r.dir
    BY <1>1 DEF front
  <2> HIDE DEF popped
  <2>4. MovesTogether(r, ChangeDir(popped, Last(popped.dirStack)))
    BY <2>1, <2>2, <2>3, ThenMoves
  <2>5. FollowsStack(kept)
    <3> DEFINE stack == [front EXCEPT ![n - 1] = r.dir]
    <3>1. r.dir \in Dirs
      BY <1>1 DEF Last
    <3>2. stack \in Seq(Dirs) /\ Len(stack) = n - 1 /\ stack[n - 1] = r.dir
      BY <2>1, <2>2, <3>1
    <3> HIDE DEF stack
    <3>3. DOMAIN kept = DOMAIN r /\ kept.dirStack = stack /\ kept.dir = r.dir
      BY <1>1, <2>1, <2>3 DEF stack
    <3> HIDE DEF kept
    <3> QED BY <1>1, <2>2, <3>2, <3>3 DEF FollowsStack, Last
  <2> HIDE DEF kept
  <2>6. MovesTogether(r, Result(kept, NoExit))
    BY <2>5 DEF MovesTogether, Result, Ok, NoExit
  <2> QED BY <2>4, <2>6, ShownMoves
<1>4. n < 2 \/ n > 1
  BY <1>1
<1> QED BY <1>2, <1>3, <1>4, Zenon DEF PopdCmd

(* pushd and popd move the shell and its stack together, whatever their     *)
(* arguments are, as long as what pushd -n leaves below the top is a        *)
(* directory; one that fails moves neither, although pushd swaps and popd   *)
(* pops before the directory is changed.                                    *)
THEOREM DirsMoveTogether ==
  ASSUME NEW r, FollowsStack(r), NEW args, IsList(args),
         Len(args) = 2 /\ args[1] = <<"-n">> => args[2][1] \in Dirs,
         NEW name \in {"pushd", "popd"}
  PROVE  MovesTogether(r, Builtin(r, name, args))
<1>1. name = "pushd" => Builtin(r, name, args) = PushdCmd(r, args)
  BY DEF Builtin
<1>2. name = "popd" => Builtin(r, name, args) = PopdCmd(r, args)
  BY DEF Builtin
<1> QED BY <1>1, <1>2, PushdMoves, PopdMoves

---------------------------------------------------------------------------
(* The session. Between two lines nothing of a command is left.             *)
AtEase(r) ==
    /\ Whole(r)
    /\ ~ r.inLoop /\ ~ r.inFunc /\ ~ r.inSource /\ ~ r.noErrExit
    /\ ~ r.sourceSetParams
    /\ Len(r.env) = 1
    /\ r.keepRedirs \/ << r.stdin, r.stdout, r.stderr >> = << Keyboard, Tty, Stderr >>
    /\ r.handlingTrap => r.unparsed = TRUE

LinesKept == INSTANCE Walk_proofs WITH Step <- LineStmt, Keeps <- CarriesKeeps

LEMMA LineKeeps ==
  ASSUME Tied, NEW r, Whole(r), NEW body
  PROVE  StatementKeeps(r, RunLine(r, body).r)
<1>1. ASSUME NEW acc, NEW st, CarriesKeeps(r, acc) PROVE CarriesKeeps(r, LineStmt(acc, st))
  <2>1. StatementKeeps(r, acc.r) /\ Whole(acc.r) /\ acc.r.left \in Nat
    BY <1>1, AfterKeeps DEF CarriesKeeps, Whole
  <2>2. acc.r.left + 1 \in Nat /\ Below(acc.r.left + 1, acc.r)
    BY <2>1 DEF Below
  <2>3. StatementsKeep(acc.r.left + 1)
    BY StatementsPutBack DEF StatementsKeep
  <2>4. StatementKeeps(acc.r, Run(acc.r, << st >>))
    BY <2>2, <2>3, RunKeeps
  <2>5. StatementKeeps(r, Run(acc.r, << st >>))
    BY <2>1, <2>4, StatementKeepsTwice
  <2>6. CarriesKeeps(r, Checked(Run(acc.r, << st >>)))
    BY <2>5 DEF CarriesKeeps, Checked
  <2> QED BY <1>1, <2>6, Zenon DEF LineStmt
<1> DEFINE base == [r |-> r, over |-> FALSE]
<1>2. CarriesKeeps(r, base)
  BY KeepsItself DEF CarriesKeeps
<1> HIDE DEF base
<1>3. CarriesKeeps(r, LinesKept!Through(base, body))
  BY <1>1, <1>2, LinesKept!WalkKeeps
<1>4. CarriesKeeps(r, EachLineStmt!Through(base, body))
  BY <1>3, Zenon DEF EachLineStmt!Through, LinesKept!Through
<1> QED BY <1>4 DEF RunLine, CarriesKeeps, base

LEMMA StartsAtEase ==
  ASSUME NEW left \in Nat
  PROVE  AtEase(Reset(Runner(TRUE, KeyboardLines, left)))
<1> DEFINE new == Runner(TRUE, KeyboardLines, left)
           r == Reset(new)
<1>1. /\ DOMAIN r = DOMAIN Runner(FALSE, new.feeds[Keyboard], new.left)
      /\ r.left = left /\ r.env = << [Overlay(FALSE) EXCEPT !.vals = Given("home")] >>
      /\ r.inLoop = FALSE /\ r.inFunc = FALSE /\ r.inSource = FALSE /\ r.noErrExit = FALSE
      /\ r.sourceSetParams = FALSE /\ r.keepRedirs = FALSE /\ r.handlingTrap = FALSE
      /\ r.stdin = Keyboard /\ r.stdout = Tty /\ r.stderr = Stderr
  BY DEF Reset, Runner
<1>2. Flags \union {"env"} \subseteq DOMAIN r /\ StopFields \subseteq DOMAIN r
  <2>1. \A f \in Flags \union {"env"} \union StopFields :
           f \in DOMAIN Runner(FALSE, new.feeds[Keyboard], new.left)
    BY DEF Runner, Flags, StopFields
  <2> QED BY <1>1, <2>1
<1> HIDE DEF r
<1>3. IsList(r.env) /\ Len(r.env) = 1
  <2>1. \A x : IsList(<< x >>) /\ Len(<< x >>) = 1
    <3> TAKE x
    <3>1. << x >> = [i \in DOMAIN << x >> |-> << x >>[i]] /\ DOMAIN << x >> = 1..1
      OBVIOUS
    <3> QED BY <3>1, ListMade
  <2> QED BY <1>1, <2>1
<1>4. Whole(r)
  BY <1>1, <1>2, <1>3 DEF Whole
<1> QED BY <1>1, <1>3, <1>4 DEF AtEase, r

LEMMA StaysAtEase ==
  ASSUME NEW r, AtEase(r), NEW q, StatementKeeps(r, q)
  PROVE  AtEase(q)
<1>1. Whole(q) /\ Whole(r)
  BY AfterKeeps DEF AtEase
<1>2. r.keepRedirs \in BOOLEAN /\ q.keepRedirs \in BOOLEAN
      /\ r.handlingTrap \in BOOLEAN /\ q.handlingTrap \in BOOLEAN
  BY <1>1 DEF Whole
<1>3. /\ q.inLoop = r.inLoop /\ q.inFunc = r.inFunc /\ q.inSource = r.inSource
      /\ q.noErrExit = r.noErrExit /\ Len(q.env) = 1
      /\ q.sourceSetParams = r.sourceSetParams
  BY DEF AtEase, StatementKeeps, CommandKeeps
<1>4. q.keepRedirs \/ << q.stdin, q.stdout, q.stderr >> = << Keyboard, Tty, Stderr >>
  BY <1>2 DEF AtEase, StatementKeeps, CommandKeeps, SameStreams
<1>5. q.handlingTrap => q.unparsed = TRUE
  BY <1>2 DEF AtEase, StatementKeeps, CommandKeeps
<1> QED BY <1>1, <1>3, <1>4, <1>5 DEF AtEase

(* However a line ends, what runner.go sets for the time of a command is    *)
(* put back when the prompt is there again.                                 *)
THEOREM LinesPutBack ==
  ASSUME Tied, Budgets \subseteq Nat
  PROVE  Spec => []NothingLeftBehind
<1>1. Init => AtEase(shell)
  BY StartsAtEase DEF Init
<1>2. AtEase(shell) /\ [Next]_vars => AtEase(shell)'
  <2> SUFFICES ASSUME AtEase(shell), [Next]_vars PROVE AtEase(shell')
    OBVIOUS
  <2>1. CASE Next
    <3>1. PICK l \in Lines[line.kind] : Enter(l)
      BY <2>1 DEF Next
    <3>2. shell' = RunLine(shell, l.body).r
      BY <3>1 DEF Enter
    <3>3. StatementKeeps(shell, RunLine(shell, l.body).r)
      BY LineKeeps DEF AtEase
    <3> QED BY <3>2, <3>3, StaysAtEase
  <2>2. CASE UNCHANGED vars
    BY <2>2 DEF vars
  <2> QED BY <2>1, <2>2
<1>3. AtEase(shell) => NothingLeftBehind
  BY DEF AtEase, NothingLeftBehind
<1> QED BY <1>1, <1>2, <1>3, PTL DEF Spec
=============================================================================
