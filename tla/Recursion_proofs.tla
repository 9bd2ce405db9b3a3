-------------------------- MODULE Recursion_proofs --------------------------
(* Induction and recursion in the form the other proofs use them: over a    *)
(* set of numbers, and over the steps 0..N of a loop that walks through a   *)
(* sequence. The loop's body is given as a function.                        *)
EXTENDS Naturals, WellFoundedInduction, TLAPS

LEMMA LeastExists ==
  ASSUME NEW S \in SUBSET Nat, S # {}
  PROVE  \E m \in S : \A n \in S : m <= n
<1> DEFINE R == OpToRel(<, Nat)
<1>1. IsWellFoundedOn(R, Nat)
  BY NatLessThanWellFounded, Zenon
<1>2. \A x, y \in Nat : x < y => <<x, y>> \in R
  BY DEF OpToRel
<1> HIDE DEF R
<1>3. PICK m \in S : \A n \in S : ~ (<<n, m>> \in R)
  BY <1>1, WFMin
<1>4. ASSUME NEW n \in S PROVE m <= n
  <2>1. ~ (n < m)
    BY <1>2, <1>3
  <2> QED BY <2>1
<1> QED BY <1>4

LEMMA GreatestExists ==
  ASSUME NEW N \in Nat, NEW S \in SUBSET (0..N), S # {}
  PROVE  \E m \in S : \A n \in S : n <= m
<1> DEFINE D == {N - n : n \in S}
<1>1. D \in SUBSET Nat /\ D # {}
  <2>1. \A n \in S : N - n \in Nat
    OBVIOUS
  <2> QED BY <2>1
<1>2. PICK d \in D : \A e \in D : d <= e
  <2> HIDE DEF D
  <2> QED BY <1>1, LeastExists
<1>3. PICK m \in S : d = N - m
  OBVIOUS
<1>4. ASSUME NEW n \in S PROVE n <= m
  <2>1. d <= N - n
    BY <1>2
  <2> QED BY <1>3, <2>1
<1> QED BY <1>4

LEMMA SetInduction ==
  ASSUME NEW S \in SUBSET Nat, 0 \in S, \A n \in S : n + 1 \in S
  PROVE  S = Nat
<1> SUFFICES ASSUME Nat \ S # {} PROVE FALSE
  OBVIOUS
<1>1. PICK m \in Nat \ S : \A n \in Nat \ S : m <= n
  <2>1. Nat \ S \in SUBSET Nat
    OBVIOUS
  <2> QED BY <2>1, LeastExists
<1>2. m # 0 /\ m - 1 \in Nat /\ (m - 1) + 1 = m /\ ~(m <= m - 1)
  BY m \in Nat
<1>3. m - 1 \in S
  BY <1>1, <1>2
<1> QED BY <1>2, <1>3

\* What holds before a loop and is kept by each of its steps holds at its end.
LEMMA LoopInvariant ==
  ASSUME NEW N \in Nat, NEW S, 0 \in S, \A n \in 0..N - 1 : n \in S => n + 1 \in S
  PROVE  0..N \subseteq S
<1> DEFINE P == {n \in Nat : n <= N => n \in S}
<1>1. 0 \in P
  OBVIOUS
<1>2. ASSUME NEW n \in P PROVE n + 1 \in P
  OBVIOUS
<1>3. P = Nat
  <2> HIDE DEF P
  <2>1. P \subseteq Nat
    BY DEF P
  <2> QED BY <1>1, <1>2, <2>1, SetInduction
<1> QED BY <1>3

(* A loop of N steps on states of T: its body, as a function of the state   *)
(* and the number of the step, and its run from a state on.                 *)
Bodies(T, N) == [T -> [1..N -> T]]
IsRun(f, T, N, base, step) ==
  /\ f \in [0..N -> T]
  /\ f[0] = base
  /\ \A n \in 1..N : f[n - 1] \in T /\ f[n] = step[f[n - 1]][n]

LEMMA LoopExists ==
  ASSUME NEW T, NEW N \in Nat, NEW base \in T, NEW step \in Bodies(T, N)
  PROVE  \E f : IsRun(f, T, N, base, step)
<1> USE DEF Bodies
<1> DEFINE Runs(m, f) == f[0] = base /\ \A n \in 1..m : f[n] = step[f[n - 1]][n]
           S == {m \in 0..N : \E f \in [0..m -> T] : Runs(m, f)}
<1>1. 0 \in S
  <2>1. [i \in 0..0 |-> base] \in [0..0 -> T] /\ Runs(0, [i \in 0..0 |-> base])
    OBVIOUS
  <2>2. 0 \in 0..N
    OBVIOUS
  <2> HIDE DEF Runs
  <2> QED BY <2>1, <2>2
<1>2. ASSUME NEW m \in 0..N - 1, m \in S
      PROVE  m + 1 \in S
  <2>1. PICK f \in [0..m -> T] : Runs(m, f)
    BY <1>2
  <2> DEFINE g == [i \in 0..m + 1 |-> IF i = m + 1 THEN step[f[m]][m + 1] ELSE f[i]]
  <2>2. step[f[m]][m + 1] \in T
    OBVIOUS
  <2>3. g \in [0..m + 1 -> T]
    BY <2>2
  <2>4. g[0] = base
    BY <2>1
  <2>5. ASSUME NEW n \in 1..m + 1
        PROVE  g[n] = step[g[n - 1]][n]
    <3>1. g[n - 1] = f[n - 1] /\ n - 1 \in 0..m
      OBVIOUS
    <3>2. CASE n = m + 1
      <4>1. g[n] = step[f[m]][m + 1] /\ n - 1 = m
        BY <3>2
      <4> HIDE DEF g
      <4> QED BY <3>1, <3>2, <4>1
    <3>3. CASE n # m + 1
      <4>1. n \in 1..m /\ g[n] = f[n]
        BY <3>3
      <4> QED BY <2>1, <3>1, <4>1
    <3> QED BY <3>2, <3>3
  <2>6. m + 1 \in 0..N
    OBVIOUS
  <2> HIDE DEF g
  <2>7. Runs(m + 1, g)
    BY <2>4, <2>5
  <2> HIDE DEF Runs
  <2> QED BY <2>3, <2>6, <2>7
<1>3. N \in S
  <2> HIDE DEF S
  <2>1. 0..N \subseteq S
    BY <1>1, <1>2, LoopInvariant
  <2> QED BY <2>1
<1> QED BY <1>3 DEF IsRun
=============================================================================
