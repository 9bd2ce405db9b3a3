---------------------------- MODULE Walk_proofs -----------------------------
(* What every step of a walk keeps, the walk keeps. This is an induction    *)
(* over the items of one list, for a relation that may be chosen freely.    *)
EXTENDS Walk, Recursion_proofs

CONSTANT Keeps(_, _)   \* what is kept of a state for what lies around it

\* The loop's states one by one: there is such a list, and the loop ends with
\* its last entry.
LEMMA WalkExists ==
  ASSUME NEW base, NEW items, Len(items) \in Nat
  PROVE  \E after : /\ after[0] = base
                    /\ \A i \in 1..Len(items) : after[i] = Step(after[i - 1], items[i])
                    /\ Through(base, items) = after[Len(items)]
<1> DEFINE N == Len(items)
           Value(f, i) == IF i = 0 THEN base ELSE Step(f[i - 1], items[i])
           Runs(m, f) == \A i \in 0..m : f[i] = Value(f, i)
           S == {m \in 0..N : \E f : Runs(m, f)}
<1>1. 0 \in S
  <2>1. Runs(0, [i \in 0..0 |-> base])
    OBVIOUS
  <2>2. 0 \in 0..N
    OBVIOUS
  <2> HIDE DEF Runs
  <2> QED BY <2>1, <2>2
<1>2. ASSUME NEW m \in 0..N - 1, m \in S
      PROVE  m + 1 \in S
  <2>1. PICK f : Runs(m, f)
    BY <1>2
  <2> DEFINE g == [i \in 0..m + 1 |-> IF i = m + 1 THEN Step(f[m], items[m + 1]) ELSE f[i]]
  <2>2. ASSUME NEW i \in 0..m + 1
        PROVE  g[i] = Value(g, i)
    <3>1. CASE i = m + 1
      <4>1. i # 0 /\ i - 1 = m /\ m \in 0..m + 1 /\ m # m + 1
        BY <3>1
      <4>2. g[m] = f[m] /\ g[i] = Step(f[m], items[m + 1])
        BY <3>1, <4>1
      <4> HIDE DEF g
      <4> QED BY <3>1, <4>1, <4>2
    <3>2. CASE i = 0
      <4>1. g[0] = f[0] /\ f[0] = base
        BY <2>1
      <4> HIDE DEF g
      <4> QED BY <3>2, <4>1
    <3>3. CASE i # m + 1 /\ i # 0
      <4>1. i \in 0..m /\ i - 1 \in 0..m + 1 /\ i - 1 # m + 1
        BY <3>3
      <4>2. g[i] = f[i] /\ g[i - 1] = f[i - 1]
        BY <3>3, <4>1
      <4> HIDE DEF g
      <4>3. f[i] = Step(f[i - 1], items[i])
        BY <2>1, <3>3, <4>1
      <4> QED BY <3>3, <4>2, <4>3
    <3> QED BY <3>1, <3>2, <3>3
  <2>3. m + 1 \in 0..N
    OBVIOUS
  <2> HIDE DEF g
  <2>4. Runs(m + 1, g)
    BY <2>2
  <2> HIDE DEF Runs
  <2> QED BY <2>3, <2>4
<1>3. PICK f : Runs(N, f)
  <2> HIDE DEF S
  <2>1. 0..N \subseteq S
    BY <1>1, <1>2, LoopInvariant
  <2>2. N \in S
    BY <2>1
  <2> QED BY <2>2 DEF S
<1> DEFINE g == [i \in 0..N |-> f[i]]
           Whole(h) == h = [i \in 0..N |-> Value(h, i)]
<1>4. Whole(g)
  <2>1. ASSUME NEW i \in 0..N PROVE f[i] = Value(g, i)
    <3>1. i # 0 => i - 1 \in 0..N
      OBVIOUS
    <3>2. i # 0 => g[i - 1] = f[i - 1]
      BY <3>1
    <3> HIDE DEF g
    <3> QED BY <1>3, <3>2
  <2> HIDE DEF Value
  <2> QED BY <2>1
<1> DEFINE after == CHOOSE h : Whole(h)
<1>5. Whole(after)
  <2> HIDE DEF Whole, g
  <2> QED BY <1>4
<1>6. Through(base, items) = after[N]
  BY Zenon DEF Through
<1>7. \A i \in 0..N : after[i] = Value(after, i)
  <2> HIDE DEF after, Value
  <2> QED BY <1>5
<1> HIDE DEF after
<1>8. after[0] = base
  BY <1>7
<1>9. \A i \in 1..N : after[i] = Step(after[i - 1], items[i])
  BY <1>7
<1> QED BY <1>6, <1>8, <1>9

\* What holds before a walk and is kept by each of its steps holds after it.
THEOREM WalkKeeps ==
  ASSUME NEW ctx, NEW base, NEW items, Keeps(ctx, base),
         \A x, item : Keeps(ctx, x) => Keeps(ctx, Step(x, item))
  PROVE  Keeps(ctx, Through(base, items))
<1>1. CASE Len(items) \notin Nat
  BY <1>1, Zenon DEF Through
<1>2. CASE Len(items) \in Nat
  <2>1. PICK after : /\ after[0] = base
                     /\ \A i \in 1..Len(items) : after[i] = Step(after[i - 1], items[i])
                     /\ Through(base, items) = after[Len(items)]
    BY <1>2, WalkExists
  <2> DEFINE N == Len(items)
             S == {i \in 0..N : Keeps(ctx, after[i])}
  <2>2. 0 \in S
    BY <1>2, <2>1
  <2>3. ASSUME NEW i \in 0..N - 1, i \in S PROVE i + 1 \in S
    <3>1. i + 1 \in 1..N /\ i + 1 \in 0..N /\ (i + 1) - 1 = i
      BY <1>2
    <3>2. after[i + 1] = Step(after[i], items[i + 1])
      BY <2>1, <3>1
    <3>3. Keeps(ctx, after[i])
      BY <2>3
    <3> QED BY <3>1, <3>2, <3>3
  <2>4. N \in S
    <3> HIDE DEF S
    <3>1. 0..N \subseteq S
      BY <1>2, <2>2, <2>3, LoopInvariant
    <3> QED BY <1>2, <3>1
  <2> QED BY <2>1, <2>4
<1> QED BY <1>1, <1>2
=============================================================================
