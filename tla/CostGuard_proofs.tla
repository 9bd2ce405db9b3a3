-------------------------- MODULE CostGuard_proofs --------------------------
(***************************************************************************)
(* Proofs about CostGuard: for every set of callers, every budget, every   *)
(* price and any number of faults.                                         *)
(***************************************************************************)
EXTENDS CostGuard, FiniteSetTheorems, TLAPS

-----------------------------------------------------------------------------
(* The limits of a guard are integers, whatever budget.json sets.          *)

\* A layer of limits over another one has the keys of both, and their values.
LEMMA LayerOverBase ==
  ASSUME NEW top, NEW base, NEW k \in DOMAIN base,
         base[k] \in Int,
         k \in DOMAIN top => top[k] \in Int
  PROVE  /\ k \in DOMAIN Layer(top, base)
         /\ Layer(top, base)[k] \in Int
  BY DEF Layer

LEMMA ConfigLimitsAreIntegers ==
  ASSUME NEW m \in Meters
  PROVE  m \in DOMAIN ConfigLimits /\ ConfigLimits[m] \in Int
<1> DEFINE cost   == IF CfgCostLimit > 0 THEN [usdMonth |-> CfgCostLimit] ELSE <<>>
           tokens == IF CfgMaxTokens > 0 THEN RunTokenLimits(CfgMaxTokens) ELSE <<>>
<1>1. m \in DOMAIN defaultCostLimits /\ defaultCostLimits[m] \in Int
  BY DEF defaultCostLimits, Meters
<1>2. m \in DOMAIN cost => cost[m] \in Int
  BY ConfigAssumption DEF Meters
<1>3. m \in DOMAIN Layer(cost, defaultCostLimits) /\ Layer(cost, defaultCostLimits)[m] \in Int
  BY <1>1, <1>2, LayerOverBase
<1>4. m \in DOMAIN tokens => tokens[m] \in Int
  <2>1. m \notin DOMAIN tokens
    BY DEF Meters, RunTokenLimits
  <2> QED BY <2>1
<1> QED BY <1>3, <1>4, LayerOverBase DEF ConfigLimits

LEMMA LimitsAreIntegers ==
  ASSUME NEW f \in Contents
  PROVE  MeterLimits(f.ov) \in [Meters -> Int]
<1>1. IsOverrides(f.ov)
  BY ContentsAssumption DEF IsBudgetFile
<1>2. ASSUME NEW m \in Meters
      PROVE  effectiveLimits(f.ov)[m] \in Int
  <2>1. m \in DOMAIN f.ov.lim => f.ov.lim[m] \in Int
    BY <1>1 DEF IsOverrides
  <2> QED BY <2>1, ConfigLimitsAreIntegers, LayerOverBase DEF effectiveLimits
<1> QED BY <1>2 DEF MeterLimits

-----------------------------------------------------------------------------
(* What a call adds to a meter.                                            *)

LEMMA MultiplyMonotone ==
  ASSUME NEW p \in Nat, NEW s \in Nat, NEW t \in Nat, s <= t
  PROVE  p * s \in Nat /\ p * s <= p * t
<1>1. p * t = p * s + p * (t - s) /\ p * s \in Nat /\ p * (t - s) \in Nat
  OBVIOUS
<1> QED BY <1>1

LEMMA ChargeBounds ==
  ASSUME NEW m \in Meters
  PROVE  /\ MaxCharge(m) \in Nat \ {0}
         /\ \A t \in 0..MaxTokens : Charge(t)[m] \in 0..MaxCharge(m)
<1>1. MaxCharge(m) \in Nat \ {0}
  <2>1. Price # 0 => Price * MaxTokens \in Nat \ {0}
    BY AmountsAssumption
  <2> QED BY <2>1, AmountsAssumption DEF MaxCharge, CostForTokens
<1>2. ASSUME NEW t \in 0..MaxTokens
      PROVE  Charge(t)[m] \in 0..MaxCharge(m)
  <2>1. Price * t \in Nat /\ Price * t <= Price * MaxTokens /\ (Price = 0 => Price * t = 0)
    BY MultiplyMonotone, AmountsAssumption
  <2>2. Price * MaxTokens \in Nat
    BY AmountsAssumption
  <2> QED BY <2>1, <2>2, AmountsAssumption DEF Charge, MaxCharge, CostForTokens
<1> QED BY <1>1, <1>2

------------------------------------------------------------------

\* A charge is linear in its tokens, so n attempts cost at most n times the most.
LEMMA ChargeIsLinear ==
  ASSUME NEW m \in Meters
  PROVE  /\ \A s \in Nat : Charge(s)[m] \in Nat
         /\ \A s, t \in Nat : Charge(s + t)[m] = Charge(s)[m] + Charge(t)[m]
         /\ \A s, n \in Nat : s <= n * MaxTokens => Charge(s)[m] <= n * MaxCharge(m)
         /\ Charge(0)[m] = 0
<1>1. MaxTokens \in Nat \ {0} /\ Price \in Nat
  BY AmountsAssumption
<1>2. \A s \in Nat : Charge(s)[m] = IF m = "tokensDay" THEN s ELSE Price * s
  BY DEF Charge, CostForTokens
<1>3. \A s, t \in Nat : Price * s \in Nat /\ Price * (s + t) = Price * s + Price * t /\ Price * 0 = 0
  BY <1>1
<1>4. \A s \in Nat : Charge(s)[m] \in Nat
  BY <1>2, <1>3
<1>5. \A s, t \in Nat : Charge(s + t)[m] = Charge(s)[m] + Charge(t)[m]
  <2> SUFFICES ASSUME NEW s \in Nat, NEW t \in Nat
               PROVE  Charge(s + t)[m] = Charge(s)[m] + Charge(t)[m]
    OBVIOUS
  <2>1. s + t \in Nat
    OBVIOUS
  <2>2. /\ Charge(s)[m] = IF m = "tokensDay" THEN s ELSE Price * s
        /\ Charge(t)[m] = IF m = "tokensDay" THEN t ELSE Price * t
        /\ Charge(s + t)[m] = IF m = "tokensDay" THEN s + t ELSE Price * (s + t)
    BY <1>2, <2>1
  <2> QED BY <1>3, <2>2
<1>6. ASSUME NEW s \in Nat, NEW n \in Nat, s <= n * MaxTokens
      PROVE  Charge(s)[m] <= n * MaxCharge(m)
  <2>1. n * MaxTokens \in Nat
    BY <1>1
  <2>2. Price * s <= Price * (n * MaxTokens)
    BY <1>1, <1>6, <2>1, MultiplyMonotone
  <2>3. Price * (n * MaxTokens) = n * (Price * MaxTokens)
    BY <1>1
  <2>4. CASE m = "tokensDay"
    BY <1>2, <1>6, <2>4 DEF MaxCharge
  <2>5. CASE m # "tokensDay" /\ Price = 0
    BY <1>2, <2>1, <2>5 DEF MaxCharge
  <2>6. CASE m # "tokensDay" /\ Price # 0
    BY <1>2, <2>2, <2>3, <2>6 DEF MaxCharge, CostForTokens
  <2> QED BY <2>4, <2>5, <2>6
<1>7. Charge(0)[m] = 0
  BY <1>2, <1>3
<1> QED BY <1>4, <1>5, <1>6, <1>7

-----------------------------------------------------------------------------
(* The tokens that are not logged yet: a call that ends adds its own, the  *)
(* end of "book" takes them away again.                                    *)

LEMMA ProductOfFinite ==
  ASSUME NEW S, NEW T, IsFiniteSet(S), IsFiniteSet(T)
  PROVE  /\ IsFiniteSet(S \X T)
         /\ Cardinality(S \X T) = Cardinality(S) * Cardinality(T)
BY FS_Product

LEMMA TokensAreFinite ==
  ASSUME NEW S \in SUBSET (Callers \X (1..MaxTokens))
  PROVE  IsFiniteSet(S) /\ Cardinality(S) \in Nat
<1> DEFINE I == 1..MaxTokens
<1>1. IsFiniteSet(I)
  BY AmountsAssumption, FS_Interval
<1> HIDE DEF I
<1>2. IsFiniteSet(Callers \X I)
  BY <1>1, CallersAssumption, ProductOfFinite
<1>3. S \in SUBSET (Callers \X I)
  BY DEF I
<1> QED BY <1>2, <1>3, FS_Subset, FS_CardinalityType

\* A set of pairs without any of c's grows by t when c's first t are added.
LEMMA AddTokens ==
  ASSUME NEW c, NEW t \in Nat, NEW S, NEW whole, IsFiniteSet(S), S \cap ({c} \X (1..t)) = {},
         whole = S \cup ({c} \X (1..t))
  PROVE  Cardinality(whole) = Cardinality(S) + t
<1> DEFINE C == {c}
           I == 1..t
           T == C \X I
<1>1. IsFiniteSet(C) /\ Cardinality(C) = 1
  BY FS_Singleton
<1>2. IsFiniteSet(I) /\ Cardinality(I) = t
  BY FS_Interval
<1>3. IsFiniteSet(T) /\ Cardinality(T) = t
  <2> HIDE DEF C, I
  <2>1. IsFiniteSet(T) /\ Cardinality(T) = 1 * t
    BY <1>1, <1>2, ProductOfFinite
  <2> QED BY <2>1
<1>4. S \cap T = {} /\ whole = S \cup T
  OBVIOUS
<1> HIDE DEF T
<1>5. Cardinality(S \cup T) = Cardinality(S) + Cardinality(T) - Cardinality(S \cap T)
  BY <1>3, FS_Union
<1>6. Cardinality(S \cap T) = 0
  BY <1>4, FS_EmptySet
<1>7. Cardinality(S) \in Nat
  BY FS_CardinalityType
<1> QED BY <1>3, <1>4, <1>5, <1>6, <1>7

LEMMA CallEnds ==
  ASSUME TypeOK, TypeOK', NEW c \in Callers, pc[c] # "book", pc'[c] = "book",
         \A d \in Callers \ {c} : pc'[d] = pc[d] /\ used'[d] = used[d]
  PROVE  Cardinality(Unlogged)' = Cardinality(Unlogged) + used'[c]
<1>1. used'[c] \in Nat /\ used'[c] <= MaxTokens /\ MaxTokens \in Nat
  BY AmountsAssumption DEF TypeOK
<1>2. Unlogged' = Unlogged \cup ({c} \X (1..used'[c]))
  <2>1. ASSUME NEW d \in Callers, NEW i \in 1..MaxTokens
        PROVE  (pc'[d] = "book" /\ i <= used'[d])
                 <=> \/ pc[d] = "book" /\ i <= used[d]
                     \/ d = c /\ i \in 1..used'[c]
    BY <1>1
  <2>2. 1..used'[c] \subseteq 1..MaxTokens
    BY <1>1
  <2>3. \A d, i : <<d, i>> \in Unlogged <=> d \in Callers /\ i \in 1..MaxTokens /\ pc[d] = "book" /\ i <= used[d]
    BY DEF Unlogged
  <2>4. \A d, i : <<d, i>> \in Unlogged' <=> d \in Callers /\ i \in 1..MaxTokens /\ pc'[d] = "book" /\ i <= used'[d]
    BY DEF Unlogged
  <2>5. \A d, i : <<d, i>> \in Unlogged' <=> <<d, i>> \in Unlogged \/ (d = c /\ i \in 1..used'[c])
    BY <2>1, <2>2, <2>3, <2>4
  <2>6. Unlogged' \subseteq Callers \X (1..MaxTokens) /\ Unlogged \subseteq Callers \X (1..MaxTokens)
    BY DEF Unlogged
  <2> QED BY <2>5, <2>6
<1>3. Unlogged \cap ({c} \X (1..used'[c])) = {}
  BY DEF Unlogged
<1>4. IsFiniteSet(Unlogged)
  BY TokensAreFinite DEF Unlogged
<1> DEFINE before == Unlogged
           after == Unlogged'
           t == used'[c]
<1> HIDE DEF before, after, t
<1>5. Cardinality(after) = Cardinality(before) + t
  <2>1. t \in Nat /\ IsFiniteSet(before) /\ before \cap ({c} \X (1..t)) = {}
        /\ after = before \cup ({c} \X (1..t))
    BY <1>1, <1>2, <1>3, <1>4 DEF before, after, t
  <2> QED BY <2>1, AddTokens
<1> QED BY <1>5 DEF before, after, t

LEMMA BookEnds ==
  ASSUME TypeOK, TypeOK', NEW c \in Callers, pc[c] = "book", pc'[c] # "book",
         \A d \in Callers \ {c} : pc'[d] = pc[d] /\ used'[d] = used[d]
  PROVE  Cardinality(Unlogged) = Cardinality(Unlogged)' + used[c]
<1>1. used[c] \in Nat /\ used[c] <= MaxTokens /\ MaxTokens \in Nat
  BY AmountsAssumption DEF TypeOK
<1>2. Unlogged = Unlogged' \cup ({c} \X (1..used[c]))
  <2>1. ASSUME NEW d \in Callers, NEW i \in 1..MaxTokens
        PROVE  (pc[d] = "book" /\ i <= used[d])
                 <=> \/ pc'[d] = "book" /\ i <= used'[d]
                     \/ d = c /\ i \in 1..used[c]
    BY <1>1
  <2>2. 1..used[c] \subseteq 1..MaxTokens
    BY <1>1
  <2>3. \A d, i : <<d, i>> \in Unlogged <=> d \in Callers /\ i \in 1..MaxTokens /\ pc[d] = "book" /\ i <= used[d]
    BY DEF Unlogged
  <2>4. \A d, i : <<d, i>> \in Unlogged' <=> d \in Callers /\ i \in 1..MaxTokens /\ pc'[d] = "book" /\ i <= used'[d]
    BY DEF Unlogged
  <2>5. \A d, i : <<d, i>> \in Unlogged <=> <<d, i>> \in Unlogged' \/ (d = c /\ i \in 1..used[c])
    BY <2>1, <2>2, <2>3, <2>4
  <2>6. Unlogged' \subseteq Callers \X (1..MaxTokens) /\ Unlogged \subseteq Callers \X (1..MaxTokens)
    BY DEF Unlogged
  <2> QED BY <2>5, <2>6
<1>3. Unlogged' \cap ({c} \X (1..used[c])) = {}
  BY DEF Unlogged
<1>4. IsFiniteSet(Unlogged')
  BY TokensAreFinite DEF Unlogged
<1> DEFINE before == Unlogged
           after == Unlogged'
           t == used[c]
<1> HIDE DEF before, after, t
<1>5. Cardinality(before) = Cardinality(after) + t
  <2>1. t \in Nat /\ IsFiniteSet(after) /\ after \cap ({c} \X (1..t)) = {}
        /\ before = after \cup ({c} \X (1..t))
    BY <1>1, <1>2, <1>3, <1>4 DEF before, after, t
  <2> QED BY <2>1, AddTokens
<1> QED BY <1>5 DEF before, after, t

LEMMA UnloggedKept ==
  ASSUME \A d \in Callers : /\ pc'[d] = "book" <=> pc[d] = "book"
                            /\ pc[d] = "book" => used'[d] = used[d]
  PROVE  Unlogged' = Unlogged
<1>1. ASSUME NEW token \in Callers \X (1..MaxTokens)
      PROVE  (pc'[token[1]] = "book" /\ token[2] <= used'[token[1]])
               <=> (pc[token[1]] = "book" /\ token[2] <= used[token[1]])
  <2>1. token[1] \in Callers
    OBVIOUS
  <2> QED BY <2>1, Zenon
<1> QED BY <1>1 DEF Unlogged

-----------------------------------------------------------------------------
(* The type invariant.  Only a call that ended has tokens to log.          *)

UsedAfterCall == \A c \in Callers : pc[c] \notin {"book", "record"} => used[c] = 0

TypeInv == TypeOK /\ UsedAfterCall

(* How a call may end: t tokens are reported, n attempts were lost, each   *)
(* of them a fault, and the provider charged for all of them.              *)
CallOutcome(c) ==
  \E t \in 0..MaxTokens, n \in Nat :
    /\ pc[c] = "call" /\ pc' = [pc EXCEPT ![c] = "book"]
    /\ used' = [used EXCEPT ![c] = t]
    /\ faults' \in 0..MaxFaults /\ faults' = faults - n
    /\ spent' \in [Meters -> Nat]
    /\ \A m \in Meters : /\ spent[m] + Charge(t)[m] <= spent'[m]
                         /\ spent'[m] <= spent[m] + Charge(t)[m] + n * MaxCharge(m)
    /\ UNCHANGED <<file, dbOpen, engine, booked, guard, snap, ceiling, late>>

LEMMA ChargedFacts ==
  ASSUME TypeOK, NEW t \in 0..MaxTokens, NEW n \in Nat, Charged(t, n)
  PROVE  /\ faults' \in 0..MaxFaults /\ faults' = faults - n
         /\ spent' \in [Meters -> Nat]
         /\ \A m \in Meters : /\ spent[m] + Charge(t)[m] <= spent'[m]
                              /\ spent'[m] <= spent[m] + Charge(t)[m] + n * MaxCharge(m)
<1>1. MaxTokens \in Nat /\ t \in Nat /\ n * MaxTokens \in Nat
  BY AmountsAssumption
<1>2. PICK lost \in n..(n * MaxTokens) :
        spent' = [m \in Meters |-> spent[m] + Charge(t + lost)[m]]
  BY DEF Charged
<1>3. lost \in Nat /\ lost <= n * MaxTokens
  BY <1>1
<1>4. ASSUME NEW m \in Meters
      PROVE  /\ spent'[m] \in Nat
             /\ spent[m] + Charge(t)[m] <= spent'[m]
             /\ spent'[m] <= spent[m] + Charge(t)[m] + n * MaxCharge(m)
  <2>1. spent'[m] = spent[m] + Charge(t + lost)[m]
    BY <1>2
  <2>2. Charge(t + lost)[m] = Charge(t)[m] + Charge(lost)[m]
    BY <1>1, <1>3, ChargeIsLinear
  <2>3. /\ Charge(t)[m] \in Nat /\ Charge(lost)[m] \in Nat
        /\ Charge(lost)[m] <= n * MaxCharge(m)
    BY <1>1, <1>3, ChargeIsLinear
  <2>4. spent[m] \in Nat /\ n * MaxCharge(m) \in Nat
    BY ChargeBounds DEF TypeOK
  <2> QED BY <2>1, <2>2, <2>3, <2>4
<1>5. faults' \in 0..MaxFaults /\ faults' = faults - n
  BY FaultsAssumption DEF Charged, TypeOK
<1> QED BY <1>2, <1>4, <1>5

LEMMA CallHasOutcome ==
  ASSUME TypeInv, NEW c \in Callers, CallOk(c) \/ CallFails(c) \/ CutShort(c)
  PROVE  CallOutcome(c)
<1> USE DEF TypeInv
<1>0. MaxTokens \in Nat \ {0} /\ MaxRetries \in Nat
  BY AmountsAssumption
<1>1. CASE CallOk(c)
  <2>1. PICK t \in 1..MaxTokens, n \in 0..MaxRetries :
          Charged(t, n) /\ used' = [used EXCEPT ![c] = t]
    BY <1>1 DEF CallOk
  <2>2. t \in 0..MaxTokens /\ n \in Nat
    BY <1>0
  <2> QED BY <1>1, <2>1, <2>2, ChargedFacts DEF CallOutcome, CallOk, Goto, store
<1>2. ASSUME used' = used, used[c] = 0
      PROVE  used' = [used EXCEPT ![c] = 0]
  BY <1>2 DEF TypeOK
<1>3. CASE CutShort(c)
  <2>1. PICK n \in 1..(MaxRetries + 1) : Charged(0, n)
    BY <1>3 DEF CutShort
  <2>2. 0 \in 0..MaxTokens /\ n \in Nat
    BY <1>0
  <2>3. used' = used /\ used[c] = 0
    BY <1>3 DEF CutShort, locals, UsedAfterCall
  <2> QED BY <1>2, <1>3, <2>1, <2>2, <2>3, ChargedFacts DEF CallOutcome, CutShort, Goto, store, locals
<1>4. CASE CallFails(c)
  <2>1. used' = used /\ used[c] = 0
    BY <1>4 DEF CallFails, locals, UsedAfterCall
  <2>2. 0 \in 0..MaxTokens /\ 0 \in Nat
    BY <1>0
  <2>3. ASSUME NEW m \in Meters
        PROVE  /\ spent[m] + Charge(0)[m] <= spent'[m]
               /\ spent'[m] <= spent[m] + Charge(0)[m] + 0 * MaxCharge(m)
    <3>1. spent'[m] = spent[m] /\ spent[m] \in Nat /\ Charge(0)[m] = 0 /\ 0 * MaxCharge(m) = 0
      BY <1>4, ChargeIsLinear, ChargeBounds DEF CallFails, history, TypeOK
    <3> QED BY <3>1
  <2>4. /\ faults' = faults - 0 /\ faults' \in 0..MaxFaults /\ spent' \in [Meters -> Nat]
        /\ pc[c] = "call" /\ pc' = [pc EXCEPT ![c] = "book"]
        /\ UNCHANGED <<file, dbOpen, engine, booked, guard, snap, ceiling, late>>
    BY <1>4, FaultsAssumption DEF CallFails, Goto, store, locals, history, TypeOK
  <2> QED BY <1>2, <2>1, <2>2, <2>3, <2>4 DEF CallOutcome
<1> QED BY <1>1, <1>3, <1>4

LEMMA TypeInvInit == Init => TypeInv
BY AmountsAssumption, FaultsAssumption DEF Init, TypeInv, TypeOK, UsedAfterCall, NoUsage, Stages

LEMMA LeaveKeepsTypes ==
  ASSUME TypeInv, NEW c \in Callers, Leave(c)
  PROVE  /\ pc' \in [Callers -> Stages]
         /\ guard' \in [Callers -> [Meters -> Int]]
         /\ snap' \in [Callers -> [Meters -> Nat]]
         /\ used' \in [Callers -> 0..MaxTokens]
         /\ \A d \in Callers : /\ pc'[d] = IF d = c THEN "idle" ELSE pc[d]
                               /\ used'[d] = IF d = c THEN 0 ELSE used[d]
BY AmountsAssumption DEF TypeInv, TypeOK, Leave, Goto, Stages, NoUsage

LEMMA RefuseKeepsTypes ==
  ASSUME TypeInv, NEW c \in Callers, Refuse(c)
  PROVE  TypeInv'
BY LeaveKeepsTypes DEF TypeInv, TypeOK, UsedAfterCall, Refuse, store, history

LEMMA ReadKeepsTypes ==
  ASSUME TypeInv, NEW c \in Callers,
         NEW stage \in Stages \ {"book", "record"}, NEW m \in Meters,
         NEW next \in Stages \ {"book", "record"},
         ReadMeter(c, stage, m, next)
  PROVE  TypeInv'
<1>1. snap' \in [Callers -> [Meters -> Nat]] /\ faults' \in 0..MaxFaults
  <2> USE DEF TypeInv, TypeOK
  <2>1. snap' \in [Callers -> [Meters -> Nat]]
    <3>1. booked[m] \in Nat /\ 0 \in Nat
      OBVIOUS
    <3>2. \A v \in Nat : [snap EXCEPT ![c][m] = v] \in [Callers -> [Meters -> Nat]]
      OBVIOUS
    <3>3. \E v \in Nat : snap' = [snap EXCEPT ![c][m] = v]
      BY <3>1 DEF ReadMeter
    <3> QED BY <3>2, <3>3
  <2>2. faults' \in 0..MaxFaults
    BY FaultsAssumption DEF ReadMeter, Fault
  <2> QED BY <2>1, <2>2
<1>2. pc' = [pc EXCEPT ![c] = next] /\ pc[c] = stage
  BY DEF ReadMeter, Goto
<1> QED BY <1>1, <1>2 DEF TypeInv, TypeOK, UsedAfterCall, ReadMeter, store, history

LEMMA TypeInvNext == TypeInv /\ [Next]_vars => TypeInv'
<1> SUFFICES ASSUME TypeInv, [Next]_vars PROVE TypeInv'
  OBVIOUS
<1> USE DEF TypeInv, TypeOK, UsedAfterCall
<1>1. ASSUME NEW c \in Callers, LoadFails(c) \/ BlockKilled(c) \/ ReadFails(c) \/ Block(c)
      PROVE  TypeInv'
  BY <1>1, RefuseKeepsTypes DEF LoadFails, BlockKilled, ReadFails, Block
<1>2. ASSUME NEW c \in Callers, BuildGuard(c)
      PROVE  TypeInv'
  <2>1. MeterLimits(file.ov) \in [Meters -> Int]
    BY LimitsAreIntegers
  <2>2. guard' \in [Callers -> [Meters -> Int]] /\ ceiling' \in [Meters -> Nat]
    BY <1>2, <2>1 DEF BuildGuard, Larger
  <2>3. pc' = [pc EXCEPT ![c] = "usd"] /\ pc[c] = "idle"
    BY <1>2 DEF BuildGuard, Goto
  <2> QED BY <1>2, <2>2, <2>3 DEF BuildGuard, store, Stages
<1>3. ASSUME NEW c \in Callers, ReadTodayUsd(c) \/ ReadTodayTokens(c) \/ ReadMonthUsd(c)
      PROVE  TypeInv'
  BY <1>3, ReadKeepsTypes DEF ReadTodayUsd, ReadTodayTokens, ReadMonthUsd, Stages, Meters
<1>4. ASSUME NEW c \in Callers, Approve(c)
      PROVE  TypeInv'
  BY <1>4 DEF Approve, OneMore, Goto, store, locals, Stages
<1>5. ASSUME NEW c \in Callers, CallOk(c) \/ CallFails(c) \/ CutShort(c)
      PROVE  TypeInv'
  <2>1. CallOutcome(c)
    BY <1>5, CallHasOutcome
  <2>2. /\ used' \in [Callers -> 0..MaxTokens] /\ faults' \in 0..MaxFaults
        /\ spent' \in [Meters -> Nat]
        /\ pc' \in [Callers -> Stages]
        /\ \A d \in Callers : /\ pc'[d] = IF d = c THEN "book" ELSE pc[d]
                              /\ d # c => used'[d] = used[d]
    BY <2>1 DEF CallOutcome, Stages
  <2>3. result' \in [Callers -> {"none", "refused", "ok", "error"}]
    BY <1>5 DEF CallOk, CallFails, CutShort
  <2> QED BY <2>1, <2>2, <2>3 DEF CallOutcome
<1>6. ASSUME NEW c \in Callers, LogUsage(c)
      PROVE  TypeInv'
  <2>1. booked' \in [Meters -> Nat]
    <3>1. \A m \in Meters : Charge(used[c])[m] \in Nat
      BY ChargeBounds
    <3>2. CASE booked' = [m \in Meters |-> booked[m] + Charge(used[c])[m]]
      BY <3>1, <3>2
    <3>3. CASE booked' = booked
      BY <3>3
    <3> QED BY <1>6, <3>2, <3>3 DEF LogUsage
  <2>2. pc' = [pc EXCEPT ![c] = "record"] /\ pc[c] = "book" /\ faults' \in 0..MaxFaults
    BY <1>6, FaultsAssumption DEF LogUsage, Goto, Fault
  <2> QED BY <1>6, <2>1, <2>2 DEF LogUsage, locals, history, Stages
<1>7. ASSUME NEW c \in Callers, RecordUsage(c)
      PROVE  TypeInv'
  BY <1>7, LeaveKeepsTypes DEF RecordUsage, store, history
<1>8. ASSUME NEW c \in Callers, Crash(c)
       PROVE  TypeInv'
  BY <1>8, LeaveKeepsTypes, FaultsAssumption DEF Crash, Fault, store, history
<1>9. CASE ChangeBudget
  BY <1>9 DEF ChangeBudget, locals
<1>10. CASE Midnight
  <2>1. Cardinality(Unlogged) \in Nat
    BY TokensAreFinite DEF Unlogged
  <2>2. \A m \in Meters : Charge(Cardinality(Unlogged))[m] \in Nat
    BY <2>1, ChargeIsLinear
  <2>3. booked' \in [Meters -> Nat] /\ spent' \in [Meters -> Nat]
    BY <1>10, <2>2 DEF Midnight
  <2> QED BY <1>10, <2>3 DEF Midnight, locals
<1>11. CASE ensureKIEngine
  BY <1>11 DEF ensureKIEngine, locals, history
<1>12. CASE UNCHANGED vars
  BY <1>12 DEF vars, store, locals, history
<1> QED
  BY <1>1, <1>2, <1>3, <1>4, <1>5, <1>6, <1>7, <1>8, <1>9, <1>10, <1>11, <1>12
  DEF Next, Step

(* Every variable keeps its type: no arithmetic of the guard leaves the    *)
(* integers it is meant for, a booked or spent sum never gets negative.    *)
THEOREM TypeCorrect == Spec => []TypeOK
<1>1. Init => TypeInv
  BY TypeInvInit
<1>2. TypeInv /\ [Next]_vars => TypeInv'
  BY TypeInvNext
<1>3. TypeInv => TypeOK
  BY DEF TypeInv
<1> QED BY <1>1, <1>2, <1>3, PTL DEF Spec

-----------------------------------------------------------------------------
(* The books against the provider's.                                       *)

Known(m) == booked[m] + Charge(Cardinality(Unlogged))[m]

BookOn(m) == Known(m) <= spent[m] /\ spent[m] <= Known(m) + Occurred * MaxCharge(m)

LEMMA BooksAsBookOn == BooksFollowSpending <=> \A m \in Meters : BookOn(m)
BY DEF BooksFollowSpending, BookOn, Known

LEMMA OccurredType ==
  ASSUME TypeOK
  PROVE  Occurred \in Nat /\ \A m \in Meters : Occurred * MaxCharge(m) \in Nat
<1>1. Occurred \in Nat
  BY FaultsAssumption DEF Occurred, TypeOK
<1> QED BY <1>1, ChargeBounds

LEMMA KnownType ==
  ASSUME TypeOK, NEW m \in Meters
  PROVE  /\ Cardinality(Unlogged) \in Nat /\ Charge(Cardinality(Unlogged))[m] \in Nat
         /\ Known(m) \in Nat /\ booked[m] \in Nat /\ spent[m] \in Nat
<1>1. Cardinality(Unlogged) \in Nat
  BY TokensAreFinite DEF Unlogged
<1>2. Charge(Cardinality(Unlogged))[m] \in Nat
  BY <1>1, ChargeIsLinear
<1> QED BY <1>1, <1>2 DEF Known, TypeOK

\* What is known changes by "known", what is spent by "more", "n" faults occur.
LEMMA BookKept ==
  ASSUME TypeOK, TypeOK', NEW m \in Meters, BookOn(m),
         NEW known \in Int, NEW more \in Nat, NEW n \in Nat,
         Known(m)' = Known(m) + known, spent'[m] = spent[m] + more, faults' = faults - n,
         known <= more, more <= known + n * MaxCharge(m)
  PROVE  BookOn(m)'
<1> DEFINE k == MaxCharge(m)
<1>1. Occurred' = Occurred + n
  BY FaultsAssumption DEF Occurred, TypeOK
<1>2. Occurred \in Nat /\ k \in Nat
  BY OccurredType, ChargeBounds
<1>3. (Occurred + n) * k = Occurred * k + n * k /\ Occurred * k \in Nat /\ n * k \in Nat
  BY <1>2
<1>4. Known(m) \in Nat /\ spent[m] \in Nat
  BY KnownType
<1>5. Known(m) <= spent[m] /\ spent[m] <= Known(m) + Occurred * k
  BY DEF BookOn
<1>6. Occurred' * k = Occurred * k + n * k
  BY <1>1, <1>3
<1> HIDE DEF k
<1>7. Known(m)' <= spent'[m] /\ spent'[m] <= Known(m)' + Occurred' * k
  BY <1>3, <1>4, <1>5, <1>6 DEF k
<1> QED BY <1>7 DEF BookOn, k

LEMMA QuietStepKeepsBooks ==
  ASSUME TypeOK, TypeOK', BooksFollowSpending, booked' = booked, spent' = spent,
         NEW n \in Nat, faults' = faults - n,
         \A d \in Callers : /\ pc'[d] = "book" <=> pc[d] = "book"
                            /\ pc[d] = "book" => used'[d] = used[d]
  PROVE  BooksFollowSpending'
<1> SUFFICES ASSUME NEW m \in Meters PROVE BookOn(m)'
  BY DEF BooksFollowSpending, BookOn, Known
<1>1. Unlogged' = Unlogged
  BY UnloggedKept
<1>2. Known(m)' = Known(m) + 0 /\ spent'[m] = spent[m] + 0
  BY <1>1, KnownType DEF Known
<1>3. 0 \in Int /\ 0 \in Nat /\ 0 <= 0 /\ 0 <= 0 + n * MaxCharge(m)
  <2>1. n * MaxCharge(m) \in Nat
    BY ChargeBounds
  <2> QED BY <2>1
<1>4. BookOn(m)
  BY BooksAsBookOn
<1> QED BY <1>2, <1>3, <1>4, BookKept

LEMMA CallKeepsBooks ==
  ASSUME TypeOK, TypeOK', BooksFollowSpending, NEW c \in Callers, CallOutcome(c)
  PROVE  BooksFollowSpending'
<1> SUFFICES ASSUME NEW m \in Meters PROVE BookOn(m)'
  BY DEF BooksFollowSpending, BookOn, Known
<1>1. PICK t \in 0..MaxTokens, n \in Nat :
        /\ pc[c] = "call" /\ pc' = [pc EXCEPT ![c] = "book"]
        /\ used' = [used EXCEPT ![c] = t]
        /\ faults' = faults - n
        /\ spent[m] + Charge(t)[m] <= spent'[m]
        /\ spent'[m] <= spent[m] + Charge(t)[m] + n * MaxCharge(m)
        /\ booked' = booked
  BY DEF CallOutcome
<1>2. t \in Nat
  BY AmountsAssumption
<1>3. Cardinality(Unlogged)' = Cardinality(Unlogged) + t
  <2>1. used'[c] = t /\ pc'[c] = "book" /\ \A d \in Callers \ {c} : pc'[d] = pc[d] /\ used'[d] = used[d]
    BY <1>1 DEF TypeOK
  <2> QED BY <1>1, <2>1, CallEnds
<1>4. Charge(Cardinality(Unlogged)')[m] = Charge(Cardinality(Unlogged))[m] + Charge(t)[m]
  BY <1>2, <1>3, KnownType, ChargeIsLinear
<1>5. Known(m)' = Known(m) + Charge(t)[m] /\ Charge(t)[m] \in Nat
  <2>1. Charge(t)[m] \in Nat /\ Charge(Cardinality(Unlogged))[m] \in Nat /\ booked[m] \in Nat
    BY <1>2, KnownType, ChargeIsLinear
  <2>2. Known(m)' = booked[m] + Charge(Cardinality(Unlogged)')[m]
    BY <1>1 DEF Known
  <2> QED BY <1>4, <2>1, <2>2 DEF Known
<1>6. spent'[m] \in Nat /\ spent[m] \in Nat
  BY DEF TypeOK
<1>7. n * MaxCharge(m) \in Nat
  BY ChargeBounds
<1>8. /\ spent'[m] - spent[m] \in Nat /\ spent'[m] = spent[m] + (spent'[m] - spent[m])
      /\ Charge(t)[m] <= spent'[m] - spent[m]
      /\ spent'[m] - spent[m] <= Charge(t)[m] + n * MaxCharge(m)
  BY <1>1, <1>5, <1>6, <1>7
<1> QED BY <1>1, <1>5, <1>8, BooksAsBookOn, BookKept

\* The end of "book": with the row, or without it by a fault.
LEMMA BookingKeepsBooks ==
  ASSUME TypeOK, TypeOK', BooksFollowSpending, NEW c \in Callers,
         pc[c] = "book", pc'[c] # "book",
         \A d \in Callers \ {c} : pc'[d] = pc[d] /\ used'[d] = used[d],
         spent' = spent,
         \/ booked' = [m \in Meters |-> booked[m] + Charge(used[c])[m]] /\ faults' = faults
         \/ booked' = booked /\ faults' = faults - 1
  PROVE  BooksFollowSpending'
<1> SUFFICES ASSUME NEW m \in Meters PROVE BookOn(m)'
  BY DEF BooksFollowSpending, BookOn, Known
<1> DEFINE u == Charge(used[c])[m]
           k == MaxCharge(m)
<1>1. used[c] \in Nat /\ u \in Nat /\ u <= k /\ k \in Nat
  <2>1. used[c] \in 0..MaxTokens
    BY DEF TypeOK
  <2> QED BY <2>1, ChargeBounds, AmountsAssumption
<1>2. Cardinality(Unlogged) = Cardinality(Unlogged)' + used[c]
  BY BookEnds
<1>3. Cardinality(Unlogged)' \in Nat /\ Charge(Cardinality(Unlogged)')[m] \in Nat
  <2>1. Cardinality(Unlogged') \in Nat
    BY TokensAreFinite DEF Unlogged
  <2> QED BY <2>1, ChargeIsLinear
<1>4. Charge(Cardinality(Unlogged))[m] = Charge(Cardinality(Unlogged)')[m] + u
  BY <1>1, <1>2, <1>3, ChargeIsLinear
<1>5. spent'[m] = spent[m] + 0 /\ booked[m] \in Nat
  BY DEF TypeOK
<1>6. CASE booked' = [x \in Meters |-> booked[x] + Charge(used[c])[x]] /\ faults' = faults
  <2>1. booked'[m] = booked[m] + u
    BY <1>6
  <2>2. Known(m)' = Known(m) + 0
    <3> HIDE DEF u
    <3> QED BY <1>1, <1>3, <1>4, <1>5, <2>1 DEF Known
  <2>3. faults' = faults - 0 /\ 0 <= 0 + 0 * k /\ 0 \in Int /\ 0 \in Nat /\ 0 <= 0
    BY <1>1, <1>6 DEF TypeOK
  <2>4. BookOn(m)
    BY BooksAsBookOn
  <2> QED BY <1>5, <2>2, <2>3, <2>4, BookKept
<1>7. CASE booked' = booked /\ faults' = faults - 1
  <2>1. Known(m)' = Known(m) + (-u)
    <3> HIDE DEF u
    <3> QED BY <1>1, <1>3, <1>4, <1>5, <1>7 DEF Known
  <2>2. -u <= 0 /\ 0 <= -u + 1 * k /\ -u \in Int
    BY <1>1
  <2> HIDE DEF u
  <2> QED BY <1>5, <1>7, <2>1, <2>2, BooksAsBookOn, BookKept
<1> QED BY <1>6, <1>7

LEMMA LeavingKeepsBooks ==
  ASSUME TypeOK, TypeOK', BooksFollowSpending, NEW c \in Callers, Leave(c),
         booked' = booked, spent' = spent,
         \/ pc[c] # "book" /\ faults' = faults
         \/ faults' = faults - 1
  PROVE  BooksFollowSpending'
<1>1. /\ pc'[c] = "idle"
      /\ \A d \in Callers \ {c} : pc'[d] = pc[d] /\ used'[d] = used[d]
  BY DEF Leave, Goto, TypeOK
<1>2. CASE pc[c] = "book"
  BY <1>1, <1>2, BookingKeepsBooks
<1>3. CASE pc[c] # "book"
  <2>1. PICK n \in Nat : faults' = faults - n
    <3>1. faults' = faults - 0 \/ faults' = faults - 1
      BY DEF TypeOK
    <3> QED BY <3>1
  <2> QED BY <1>1, <1>3, <2>1, QuietStepKeepsBooks
<1> QED BY <1>2, <1>3

LEMMA BooksNext == TypeInv /\ BooksFollowSpending /\ [Next]_vars => BooksFollowSpending'
<1> SUFFICES ASSUME TypeInv, BooksFollowSpending, [Next]_vars PROVE BooksFollowSpending'
  OBVIOUS
<1>0. TypeOK /\ TypeOK'
  BY TypeInvNext DEF TypeInv
<1>1. ASSUME NEW c \in Callers, LoadFails(c) \/ BlockKilled(c) \/ ReadFails(c) \/ Block(c)
      PROVE  BooksFollowSpending'
  BY <1>0, <1>1, LeavingKeepsBooks
     DEF LoadFails, BlockKilled, ReadFails, Block, Refuse, store, history
<1>2. ASSUME NEW c \in Callers,
             BuildGuard(c) \/ ReadTodayUsd(c) \/ ReadTodayTokens(c) \/ ReadMonthUsd(c) \/ Approve(c)
      PROVE  BooksFollowSpending'
  <2>1. PICK stage \in Stages \ {"book"} : pc' = [pc EXCEPT ![c] = stage]
    BY <1>2 DEF BuildGuard, ReadTodayUsd, ReadTodayTokens, ReadMonthUsd, ReadMeter, Approve, Goto, Stages
  <2>2. pc[c] # "book" /\ booked' = booked /\ spent' = spent /\ used' = used
    BY <1>2 DEF BuildGuard, ReadTodayUsd, ReadTodayTokens, ReadMonthUsd, ReadMeter, Approve,
                store, locals, history
  <2>3. PICK n \in Nat : faults' = faults - n
    <3>1. faults' = faults - 0 \/ faults' = faults - 1
      BY <1>0, <1>2 DEF BuildGuard, ReadTodayUsd, ReadTodayTokens, ReadMonthUsd, ReadMeter, Approve,
                        Fault, TypeOK
    <3> QED BY <3>1
  <2>4. \A d \in Callers : pc'[d] = "book" <=> pc[d] = "book"
    BY <1>0, <2>1, <2>2 DEF TypeOK
  <2> QED BY <1>0, <2>2, <2>3, <2>4, QuietStepKeepsBooks
<1>3. ASSUME NEW c \in Callers, CallOk(c) \/ CallFails(c) \/ CutShort(c)
      PROVE  BooksFollowSpending'
  BY <1>0, <1>3, CallHasOutcome, CallKeepsBooks
<1>4. ASSUME NEW c \in Callers, LogUsage(c)
      PROVE  BooksFollowSpending'
  <2>1. /\ pc[c] = "book" /\ pc'[c] = "record" /\ spent' = spent
        /\ \A d \in Callers \ {c} : pc'[d] = pc[d] /\ used'[d] = used[d]
    BY <1>0, <1>4 DEF LogUsage, Goto, locals, history, TypeOK
  <2>2. \/ booked' = [m \in Meters |-> booked[m] + Charge(used[c])[m]] /\ faults' = faults
        \/ booked' = booked /\ faults' = faults - 1
    BY <1>4 DEF LogUsage, Fault
  <2> QED BY <1>0, <2>1, <2>2, BookingKeepsBooks
<1>5. ASSUME NEW c \in Callers, RecordUsage(c) \/ Crash(c)
      PROVE  BooksFollowSpending'
  BY <1>0, <1>5, LeavingKeepsBooks DEF RecordUsage, Crash, Fault, store, history
<1>6. CASE Midnight
  <2> SUFFICES ASSUME NEW m \in Meters PROVE BookOn(m)'
    BY DEF BooksFollowSpending, BookOn, Known
  <2>1. Unlogged' = Unlogged /\ Occurred' = Occurred
    BY <1>6 DEF Midnight, locals, Unlogged, Occurred
  <2>2. BookOn(m)
    BY BooksAsBookOn
  <2>3. CASE m = "usdMonth"
    <3>1. booked'[m] = booked[m] /\ spent'[m] = spent[m]
      BY <1>6, <2>3 DEF Midnight
    <3> QED BY <2>1, <2>2, <3>1 DEF BookOn, Known
  <2>4. CASE m # "usdMonth"
    <3>1. booked'[m] = 0 /\ spent'[m] = Charge(Cardinality(Unlogged))[m]
      BY <1>6, <2>4 DEF Midnight
    <3>2. Charge(Cardinality(Unlogged))[m] \in Nat /\ Occurred * MaxCharge(m) \in Nat
      BY <1>0, KnownType, OccurredType
    <3>3. Known(m)' = spent'[m]
      BY <2>1, <3>1, <3>2 DEF Known
    <3> QED BY <2>1, <3>1, <3>2, <3>3 DEF BookOn
  <2> QED BY <2>3, <2>4
<1>7. CASE ChangeBudget \/ ensureKIEngine \/ UNCHANGED vars
  <2>1. booked' = booked /\ spent' = spent /\ pc' = pc /\ used' = used /\ faults' = faults - 0
    BY <1>0, <1>7 DEF ChangeBudget, ensureKIEngine, vars, store, locals, history, TypeOK
  <2> QED BY <1>0, <2>1, QuietStepKeepsBooks
<1> QED
  BY <1>1, <1>2, <1>3, <1>4, <1>5, <1>6, <1>7 DEF Next, Step

LEMMA BooksInit == Init => BooksFollowSpending
<1> SUFFICES ASSUME Init, NEW m \in Meters PROVE BookOn(m)
  BY DEF BooksFollowSpending, BookOn, Known
<1>1. Unlogged = {}
  BY DEF Init, Unlogged
<1>2. Cardinality(Unlogged) = 0
  BY <1>1, FS_EmptySet
<1>3. Charge(Cardinality(Unlogged))[m] = 0 /\ 0 * MaxCharge(m) = 0
  BY <1>2, ChargeIsLinear, ChargeBounds
<1>4. booked[m] = 0 /\ spent[m] = 0 /\ Occurred = 0
  BY FaultsAssumption DEF Init, NoUsage, Occurred
<1> QED BY <1>3, <1>4 DEF BookOn, Known

(* Whatever is retried, cut short, lost or killed: nothing is booked that  *)
(* the provider did not charge, and every charge is booked or about to be, *)
(* but for at most one attempt per fault.                                  *)
THEOREM BooksAreSound == Spec => []BooksFollowSpending
<1>1. Init => TypeInv /\ BooksFollowSpending
  BY TypeInvInit, BooksInit
<1>2. TypeInv /\ BooksFollowSpending /\ [Next]_vars => (TypeInv /\ BooksFollowSpending)'
  BY TypeInvNext, BooksNext
<1> QED BY <1>1, <1>2, PTL DEF Spec

-----------------------------------------------------------------------------
(* KillswitchDrains: a call that was started since the killswitch was      *)
(* thrown is the only one of its caller, which cannot get a guard again.   *)

LateIsLast ==
  KillOn(file) =>
    \A c \in Callers :
      late[c] # 0 => late[c] = 1 /\ pc[c] \in {"idle", "call", "book", "record"}

LEMMA LateIsLastNext == TypeInv /\ LateIsLast /\ [Next]_vars => LateIsLast'
<1> SUFFICES ASSUME TypeInv, LateIsLast, [Next]_vars, KillOn(file'),
                    NEW d \in Callers, late'[d] # 0
             PROVE  late'[d] = 1 /\ pc'[d] \in {"idle", "call", "book", "record"}
  BY DEF LateIsLast, KillOn
<1> USE DEF TypeInv, TypeOK, LateIsLast
<1>1. ASSUME NEW c \in Callers, LoadFails(c) \/ BlockKilled(c) \/ ReadFails(c) \/ Block(c)
      PROVE  late'[d] = 1 /\ pc'[d] \in {"idle", "call", "book", "record"}
  BY <1>1, LeaveKeepsTypes
     DEF LoadFails, BlockKilled, ReadFails, Block, Refuse, store, history
<1>2. ASSUME NEW c \in Callers, BuildGuard(c)
      PROVE  FALSE
  BY <1>2 DEF BuildGuard, store
<1>3. ASSUME NEW c \in Callers, ReadTodayUsd(c) \/ ReadTodayTokens(c) \/ ReadMonthUsd(c)
      PROVE  late'[d] = 1 /\ pc'[d] \in {"idle", "call", "book", "record"}
  BY <1>3 DEF ReadTodayUsd, ReadTodayTokens, ReadMonthUsd, ReadMeter, Goto, store, history
<1>4. ASSUME NEW c \in Callers, Approve(c)
      PROVE  late'[d] = 1 /\ pc'[d] \in {"idle", "call", "book", "record"}
  BY <1>4 DEF Approve, OneMore, Goto, store
<1>5. ASSUME NEW c \in Callers, CallOk(c) \/ CallFails(c) \/ CutShort(c) \/ LogUsage(c)
      PROVE  late'[d] = 1 /\ pc'[d] \in {"idle", "call", "book", "record"}
  BY <1>5 DEF CallOk, CallFails, CutShort, LogUsage, Goto, store, history
<1>6. ASSUME NEW c \in Callers, RecordUsage(c) \/ Crash(c)
      PROVE  late'[d] = 1 /\ pc'[d] \in {"idle", "call", "book", "record"}
  BY <1>6, LeaveKeepsTypes DEF RecordUsage, Crash, store, history
<1>7. CASE ChangeBudget
  BY <1>7 DEF ChangeBudget
<1>8. CASE Midnight \/ ensureKIEngine \/ UNCHANGED vars
  BY <1>8 DEF Midnight, ensureKIEngine, vars, store, history
<1> QED
  BY <1>1, <1>2, <1>3, <1>4, <1>5, <1>6, <1>7, <1>8 DEF Next, Step

(* Throwing the killswitch drains the calls: each caller starts at most    *)
(* one more, the one it was being approved for.                            *)
THEOREM KillswitchLetsOneThrough == Spec => []KillswitchDrains
<1>1. Init => TypeInv /\ LateIsLast
  BY TypeInvInit DEF Init, LateIsLast
<1>2. TypeInv /\ LateIsLast /\ [Next]_vars => (TypeInv /\ LateIsLast)'
  BY TypeInvNext, LateIsLastNext
<1>3. TypeInv /\ LateIsLast => KillswitchDrains
  BY DEF TypeInv, TypeOK, LateIsLast, KillswitchDrains
<1> QED BY <1>1, <1>2, <1>3, PTL DEF Spec

-----------------------------------------------------------------------------
(* BoundedOvershoot.  A caller is in flight on a meter while it holds a    *)
(* reading below its limit that it may still make a call on.  As long as   *)
(* one is, an attempt of each of them must fit under the bound.  A correct *)
(* reading tells how much was spent, but for the faults that occurred and  *)
(* for the callers whose call is not logged yet: those are in flight no    *)
(* more, so there is an attempt of each caller at the most to come.        *)

AfterRead(m) == {"decide", "call"}
  \cup (IF m \in {"usdDay", "tokensDay"} THEN {"month"} ELSE {})
  \cup (IF m = "usdDay" THEN {"tokens"} ELSE {})

InFlight(m) == {c \in Callers : pc[c] \in AfterRead(m) /\ snap[c][m] < guard[c][m]}

AtBook == {c \in Callers : pc[c] = "book"}

HeadroomOn(m) ==
  spent[m] + Cardinality(InFlight(m)) * MaxCharge(m)
    < ceiling[m] + (Cardinality(Callers) + Occurred) * MaxCharge(m)

Headroom == \A m \in Meters : HeadroomOn(m)

GuardsUnderCeiling == \A c \in Callers, m \in Meters : guard[c][m] <= ceiling[m]

ApprovedOnEveryMeter ==
  \A c \in Callers, m \in Meters :
    pc[c] \in {"call", "book", "record"} => snap[c][m] < guard[c][m]

OvershootInv ==
  /\ TypeInv /\ BooksFollowSpending
  /\ GuardsUnderCeiling /\ ApprovedOnEveryMeter /\ Headroom

LEMMA SubsetOfCallers ==
  ASSUME NEW F \in SUBSET Callers
  PROVE  /\ IsFiniteSet(F) /\ Cardinality(F) \in Nat
         /\ Cardinality(Callers) \in Nat /\ Cardinality(F) <= Cardinality(Callers)
BY CallersAssumption, FS_Subset, FS_CardinalityType

\* The callers that are not at "book", and what the others have to log.
LEMMA RoomForAll ==
  ASSUME TypeOK, NEW m \in Meters, NEW F \in SUBSET Callers, F \cap AtBook = {}
  PROVE  Charge(Cardinality(Unlogged))[m] + Cardinality(F) * MaxCharge(m)
           <= Cardinality(Callers) * MaxCharge(m)
<1> DEFINE B == AtBook
           n == Cardinality(F)
           b == Cardinality(B)
           k == MaxCharge(m)
           N == Cardinality(Callers)
           u == Cardinality(Unlogged)
<1>1. IsFiniteSet(F) /\ IsFiniteSet(B) /\ n \in Nat /\ b \in Nat /\ N \in Nat
  <2>1. B \in SUBSET Callers
    BY DEF AtBook
  <2> QED BY <2>1, SubsetOfCallers
<1>2. n + b <= N
  <2>1. F \cup B \in SUBSET Callers
    BY DEF AtBook
  <2>2. Cardinality(F \cup B) <= N
    BY <2>1, SubsetOfCallers
  <2>3. Cardinality(F \cup B) = n + b - Cardinality(F \cap B)
    BY <1>1, FS_Union
  <2>4. Cardinality(F \cap B) = 0
    BY FS_EmptySet
  <2> QED BY <1>1, <2>2, <2>3, <2>4
<1>3. u \in Nat /\ u <= b * MaxTokens
  <2> DEFINE I == 1..MaxTokens
  <2>1. IsFiniteSet(I) /\ Cardinality(I) = MaxTokens
    BY AmountsAssumption, FS_Interval
  <2>2. Unlogged \in SUBSET (B \X I)
    BY DEF Unlogged, AtBook
  <2> HIDE DEF I, B
  <2>3. IsFiniteSet(B \X I) /\ Cardinality(B \X I) = Cardinality(B) * MaxTokens
    BY <1>1, <2>1, ProductOfFinite
  <2>4. Cardinality(Unlogged) <= Cardinality(B \X I) /\ Cardinality(Unlogged) \in Nat
    BY <2>2, <2>3, FS_Subset, FS_CardinalityType
  <2> QED BY <2>3, <2>4
<1>4. Charge(u)[m] \in Nat /\ Charge(u)[m] <= b * k
  BY <1>1, <1>3, ChargeIsLinear
<1>5. k \in Nat
  BY ChargeBounds
<1>6. (n + b) * k <= N * k /\ (n + b) * k = n * k + b * k
  <2>1. n + b \in Nat
    BY <1>1
  <2> QED BY <1>1, <1>2, <1>5, <2>1, MultiplyMonotone
<1>7. n * k \in Nat /\ b * k \in Nat /\ N * k \in Nat
  BY <1>1, <1>5
<1> HIDE DEF n, b, k, N, u
<1>8. Charge(u)[m] + n * k <= N * k
  BY <1>4, <1>6, <1>7
<1> QED BY <1>8 DEF n, k, N, u

LEMMA HeadroomTypes ==
  ASSUME TypeOK, NEW m \in Meters
  PROVE  /\ spent[m] \in Nat /\ booked[m] \in Nat /\ ceiling[m] \in Nat
         /\ Occurred \in Nat /\ MaxCharge(m) \in Nat \ {0}
         /\ Cardinality(InFlight(m)) \in Nat /\ Cardinality(Callers) \in Nat
         /\ InFlight(m) \in SUBSET Callers
<1>1. InFlight(m) \in SUBSET Callers
  BY DEF InFlight
<1> QED BY <1>1, SubsetOfCallers, OccurredType, ChargeBounds DEF TypeOK

\* A step that lets nobody else in flight and spends nothing.
LEMMA HeadroomKept ==
  ASSUME TypeOK, TypeOK', NEW m \in Meters, HeadroomOn(m),
         InFlight(m)' \subseteq InFlight(m),
         spent'[m] = spent[m], ceiling[m] <= ceiling'[m], faults' <= faults
  PROVE  HeadroomOn(m)'
<1> DEFINE n == Cardinality(InFlight(m))
           n2 == Cardinality(InFlight(m)')
           k == MaxCharge(m)
           N == Cardinality(Callers)
           o == Occurred
           o2 == Occurred'
<1>1. n \in Nat /\ n2 \in Nat /\ N \in Nat /\ n2 <= n
  <2>1. InFlight(m) \in SUBSET Callers /\ InFlight(m)' \in SUBSET Callers
    BY DEF InFlight
  <2>2. IsFiniteSet(InFlight(m)) /\ n \in Nat /\ n2 \in Nat /\ N \in Nat
    BY <2>1, SubsetOfCallers
  <2> QED BY <2>2, FS_Subset
<1>2. k \in Nat /\ o \in Nat /\ o2 \in Nat /\ o <= o2
  <2>1. /\ faults \in 0..MaxFaults /\ faults' \in 0..MaxFaults
        /\ MaxFaults \in Nat /\ faults' <= faults
    BY FaultsAssumption DEF TypeOK
  <2>2. o = MaxFaults - faults /\ o2 = MaxFaults - faults'
    BY DEF Occurred
  <2>3. k \in Nat
    BY ChargeBounds
  <2>4. /\ MaxFaults - faults \in Nat /\ MaxFaults - faults' \in Nat
        /\ MaxFaults - faults <= MaxFaults - faults'
    <3>1. \A a, b, M \in Nat : a <= b /\ b <= M => M - b \in Nat /\ M - a \in Nat /\ M - b <= M - a
      OBVIOUS
    <3>2. /\ faults \in Nat /\ faults' \in Nat /\ faults <= MaxFaults /\ MaxFaults \in Nat
          /\ faults' <= faults
      BY <2>1
    <3> QED BY <3>1, <3>2
  <2> QED BY <2>2, <2>3, <2>4
<1>3. n2 * k <= n * k /\ n2 * k \in Nat /\ n * k \in Nat
  BY <1>1, <1>2, MultiplyMonotone
<1>4. (N + o) * k <= (N + o2) * k /\ (N + o) * k \in Nat /\ (N + o2) * k \in Nat
  <2>1. N + o \in Nat /\ N + o2 \in Nat /\ N + o <= N + o2
    BY <1>1, <1>2
  <2> QED BY <1>2, <2>1, MultiplyMonotone
<1>5. spent[m] + n * k < ceiling[m] + (N + o) * k
  BY DEF HeadroomOn
<1>6. spent[m] \in Nat /\ ceiling[m] \in Nat /\ ceiling'[m] \in Nat
  BY DEF TypeOK
<1> HIDE DEF n, n2, k, N, o, o2
<1>7. spent'[m] + n2 * k < ceiling'[m] + (N + o2) * k
  BY <1>3, <1>4, <1>5, <1>6
<1> QED BY <1>7 DEF HeadroomOn, n2, k, N, o2

LEMMA QuietStepKeepsHeadroom ==
  ASSUME TypeOK, TypeOK', Headroom, spent' = spent, faults' <= faults,
         \A m \in Meters : InFlight(m)' \subseteq InFlight(m) /\ ceiling[m] <= ceiling'[m]
  PROVE  Headroom'
<1> SUFFICES ASSUME NEW m \in Meters PROVE HeadroomOn(m)'
  BY DEF Headroom
<1>1. HeadroomOn(m)
  BY DEF Headroom
<1> QED BY <1>1, HeadroomKept

\* A correct reading below the limit leaves room for an attempt of every caller;
\* a failed one lets one more in, and is a fault.
LEMMA ReadKeepsHeadroom ==
  ASSUME TypeOK, TypeOK', BooksFollowSpending, GuardsUnderCeiling, Headroom,
         NEW c \in Callers, NEW m \in Meters, NEW stage \in {"usd", "tokens", "month"},
         NEW next \in {"tokens", "month", "decide"},
         ReadMeter(c, stage, m, next),
         stage \notin AfterRead(m),
         \A x \in Meters \ {m} : stage \in AfterRead(x) <=> next \in AfterRead(x)
  PROVE  Headroom'
<1> DEFINE n == Cardinality(InFlight(m))
           n2 == Cardinality(InFlight(m)')
           k == MaxCharge(m)
           N == Cardinality(Callers)
           o == Occurred
           o2 == Occurred'
<1>1. /\ pc' = [pc EXCEPT ![c] = next] /\ pc[c] = stage
      /\ guard' = guard /\ booked' = booked /\ spent' = spent /\ ceiling' = ceiling
      /\ used' = used
  BY DEF ReadMeter, Goto, store, history
<1>2. \E v \in Nat : snap' = [snap EXCEPT ![c][m] = v]
  <2>1. booked[m] \in Nat /\ 0 \in Nat
    BY DEF TypeOK
  <2> QED BY <2>1 DEF ReadMeter
<1>3. \A x \in Meters, d \in Callers : d # c \/ x # m => snap'[d][x] = snap[d][x]
  BY <1>2 DEF TypeOK
<1>4. /\ o \in Nat /\ o2 \in Nat /\ faults' <= faults
      /\ \/ snap'[c][m] = booked[m] /\ o2 = o
         \/ o2 = o + 1
  <2>1. faults \in 0..MaxFaults /\ faults' \in 0..MaxFaults /\ MaxFaults \in Nat
    BY FaultsAssumption DEF TypeOK
  <2>2. o = MaxFaults - faults /\ o2 = MaxFaults - faults'
    BY DEF Occurred
  <2>3. (snap'[c][m] = booked[m] /\ faults' = faults) \/ faults' = faults - 1
    BY DEF ReadMeter, Fault, TypeOK
  <2> QED BY <2>1, <2>2, <2>3
<1>5. ASSUME NEW x \in Meters \ {m}
      PROVE  HeadroomOn(x)'
  <2>1. InFlight(x)' \subseteq InFlight(x)
    BY <1>1, <1>3 DEF InFlight, TypeOK
  <2>2. HeadroomOn(x) /\ ceiling[x] <= ceiling'[x] /\ spent'[x] = spent[x]
    BY <1>1 DEF Headroom, TypeOK
  <2> QED BY <1>4, <2>1, <2>2, HeadroomKept
<1>6. InFlight(m)' \subseteq InFlight(m) \cup {c}
  BY <1>1, <1>3 DEF InFlight, TypeOK
<1>7. CASE ~(snap'[c][m] < guard[c][m])
  <2>1. InFlight(m)' \subseteq InFlight(m)
    BY <1>1, <1>6, <1>7 DEF InFlight
  <2>2. HeadroomOn(m) /\ ceiling[m] <= ceiling'[m] /\ spent'[m] = spent[m]
    BY <1>1 DEF Headroom, TypeOK
  <2>3. HeadroomOn(m)'
    BY <1>4, <2>1, <2>2, HeadroomKept
  <2> QED BY <1>5, <2>3 DEF Headroom
<1>8. n \in Nat /\ n2 \in Nat /\ n2 <= n + 1 /\ N \in Nat /\ k \in Nat
  <2>1. InFlight(m) \in SUBSET Callers /\ InFlight(m)' \in SUBSET Callers
    BY DEF InFlight
  <2>2. n \in Nat /\ n2 \in Nat /\ N \in Nat /\ IsFiniteSet(InFlight(m))
    BY <2>1, SubsetOfCallers
  <2>3. IsFiniteSet(InFlight(m) \cup {c}) /\ Cardinality(InFlight(m) \cup {c}) \in {n, n + 1}
    BY <2>2, FS_AddElement
  <2>4. n2 <= Cardinality(InFlight(m) \cup {c})
    BY <1>6, <2>3, FS_Subset
  <2> QED BY <2>2, <2>3, <2>4, ChargeBounds
<1>9. CASE snap'[c][m] < guard[c][m] /\ snap'[c][m] = booked[m] /\ o2 = o
  <2>1. booked[m] < ceiling[m] /\ booked[m] \in Nat /\ ceiling[m] \in Nat /\ spent[m] \in Nat
    BY <1>9 DEF GuardsUnderCeiling, TypeOK
  <2>2. Charge(Cardinality(Unlogged))[m] + n2 * k <= N * k
    <3>1. InFlight(m)' \in SUBSET Callers /\ InFlight(m)' \cap AtBook = {}
      <4>1. \A d \in InFlight(m)' : d \in Callers /\ pc'[d] # "book"
        BY DEF InFlight, AfterRead
      <4>2. pc[c] # "book"
        BY <1>1
      <4>3. \A d \in Callers : pc'[d] # "book" => pc[d] # "book"
        BY <1>1, <4>2 DEF TypeOK
      <4> QED BY <4>1, <4>3 DEF AtBook
    <3> QED BY <3>1, RoomForAll
  <2>3. spent[m] <= booked[m] + Charge(Cardinality(Unlogged))[m] + o * k
    BY BooksAsBookOn DEF BookOn, Known
  <2>4. (N + o) * k = N * k + o * k
    BY <1>4, <1>8
  <2>5. /\ Charge(Cardinality(Unlogged))[m] \in Nat
        /\ n2 * k \in Nat /\ N * k \in Nat /\ o * k \in Nat
    BY <1>4, <1>8, KnownType
  <2>6. spent[m] + n2 * k < ceiling[m] + (N + o) * k
    <3> HIDE DEF n2, k, N, o
    <3> QED BY <2>1, <2>2, <2>3, <2>4, <2>5
  <2>7. HeadroomOn(m)'
    BY <1>1, <1>9, <2>6 DEF HeadroomOn
  <2> QED BY <1>5, <2>7 DEF Headroom
<1>10. CASE o2 = o + 1
  <2>1. spent[m] + n * k < ceiling[m] + (N + o) * k /\ spent[m] \in Nat /\ ceiling[m] \in Nat
    BY DEF Headroom, HeadroomOn, TypeOK
  <2>2. n2 * k <= n * k + k
    <3>1. n2 * k <= (n + 1) * k
      BY <1>8, MultiplyMonotone
    <3> QED BY <1>8, <3>1
  <2>3. (N + o2) * k = (N + o) * k + k
    BY <1>4, <1>8, <1>10
  <2>4. n2 * k \in Nat /\ n * k \in Nat /\ (N + o) * k \in Nat
    BY <1>4, <1>8
  <2>5. spent[m] + n2 * k < ceiling[m] + (N + o2) * k
    <3> HIDE DEF n, n2, N, o, o2, k
    <3> QED BY <1>8, <2>1, <2>2, <2>3, <2>4
  <2>6. HeadroomOn(m)'
    BY <1>1, <2>5 DEF HeadroomOn
  <2> QED BY <1>5, <2>6 DEF Headroom
<1> QED BY <1>4, <1>7, <1>9, <1>10

\* What a call is charged is the room its caller had, and that of its faults.
LEMMA CallKeepsHeadroom ==
  ASSUME TypeOK, TypeOK', ApprovedOnEveryMeter, Headroom, NEW c \in Callers, CallOutcome(c)
  PROVE  Headroom'
<1> SUFFICES ASSUME NEW m \in Meters PROVE HeadroomOn(m)'
  BY DEF Headroom
<1> DEFINE n == Cardinality(InFlight(m))
           n2 == Cardinality(InFlight(m)')
           k == MaxCharge(m)
           N == Cardinality(Callers)
           o == Occurred
           o2 == Occurred'
<1>1. PICK t \in 0..MaxTokens, lost \in Nat :
        /\ pc[c] = "call" /\ pc' = [pc EXCEPT ![c] = "book"]
        /\ faults' = faults - lost
        /\ spent'[m] <= spent[m] + Charge(t)[m] + lost * k
        /\ guard' = guard /\ snap' = snap /\ ceiling' = ceiling
  BY DEF CallOutcome
<1>2. c \in InFlight(m) /\ InFlight(m)' = InFlight(m) \ {c}
  BY <1>1 DEF ApprovedOnEveryMeter, InFlight, AfterRead, TypeOK
<1>3. n \in Nat /\ n2 = n - 1 /\ n2 \in Nat /\ k \in Nat /\ N \in Nat
  <2>1. InFlight(m) \in SUBSET Callers
    BY DEF InFlight
  <2>2. IsFiniteSet(InFlight(m)) /\ n \in Nat /\ N \in Nat
    BY <2>1, SubsetOfCallers
  <2>3. n2 = n - 1 /\ n2 \in Nat
    BY <1>2, <2>2, FS_RemoveElement, FS_CardinalityType
  <2> QED BY <2>2, <2>3, ChargeBounds
<1>4. o \in Nat /\ o2 = o + lost
  <2>1. faults \in 0..MaxFaults /\ MaxFaults \in Nat
    BY FaultsAssumption DEF TypeOK
  <2>2. o = MaxFaults - faults /\ o2 = MaxFaults - faults'
    BY DEF Occurred
  <2> QED BY <1>1, <2>1, <2>2
<1>5. Charge(t)[m] \in Nat /\ Charge(t)[m] <= k
  BY ChargeBounds
<1>6. spent[m] + n * k < ceiling[m] + (N + o) * k /\ spent[m] \in Nat /\ ceiling[m] \in Nat
      /\ spent'[m] \in Nat
  BY DEF Headroom, HeadroomOn, TypeOK
<1>7. /\ n2 * k = n * k - k /\ n * k \in Nat /\ n2 * k \in Nat
      /\ (N + o2) * k = (N + o) * k + lost * k /\ (N + o) * k \in Nat /\ lost * k \in Nat
  <2>1. N + o \in Nat /\ N + o2 = (N + o) + lost
    BY <1>3, <1>4
  <2> QED BY <1>3, <2>1
<1>8. spent'[m] + n2 * k < ceiling[m] + (N + o2) * k
  <2>1. spent'[m] <= spent[m] + Charge(t)[m] + lost * k
    BY <1>1
  <2> HIDE DEF n, n2, k, N, o, o2
  <2> QED BY <1>3, <1>5, <1>6, <1>7, <2>1
<1> QED BY <1>1, <1>8 DEF HeadroomOn

\* A new day starts with the calls that are not logged yet.
LEMMA MidnightKeepsHeadroom ==
  ASSUME TypeOK, TypeOK', GuardsUnderCeiling, ApprovedOnEveryMeter, Headroom, Midnight
  PROVE  Headroom'
<1> SUFFICES ASSUME NEW m \in Meters PROVE HeadroomOn(m)'
  BY DEF Headroom
<1> DEFINE n == Cardinality(InFlight(m))
           k == MaxCharge(m)
           N == Cardinality(Callers)
           o == Occurred
           u == Charge(Cardinality(Unlogged))[m]
<1>1. /\ InFlight(m)' = InFlight(m) /\ Occurred' = o /\ ceiling' = ceiling
      /\ m = "usdMonth" => spent'[m] = spent[m]
      /\ m # "usdMonth" => spent'[m] = u
  BY DEF Midnight, locals, InFlight, Occurred
<1>2. CASE m = "usdMonth"
  BY <1>1, <1>2 DEF Headroom, HeadroomOn
<1>3. InFlight(m) \in SUBSET Callers /\ InFlight(m) \cap AtBook = {}
  BY DEF InFlight, AfterRead, AtBook
<1>4. u + n * k <= N * k
  BY <1>3, RoomForAll
<1>5. /\ u \in Nat /\ n \in Nat /\ N \in Nat \ {0} /\ k \in Nat \ {0} /\ o \in Nat
      /\ ceiling[m] \in Nat
  <2>1. N # 0
    BY CallersAssumption, FS_EmptySet
  <2> QED BY <1>3, <2>1, SubsetOfCallers, KnownType, ChargeBounds, OccurredType DEF TypeOK
<1>6. (N + o) * k = N * k + o * k /\ N * k \in Nat \ {0} /\ o * k \in Nat /\ n * k \in Nat
  BY <1>5
<1>7. CASE ceiling[m] > 0
  <2>1. u + n * k < ceiling[m] + (N + o) * k
    <3> HIDE DEF u, n, k, N, o
    <3> QED BY <1>4, <1>5, <1>6, <1>7
  <2> QED BY <1>1, <1>2, <2>1 DEF HeadroomOn
<1>8. CASE ~(ceiling[m] > 0)
  <2>1. \A d \in Callers : ~(snap[d][m] < guard[d][m])
    <3> SUFFICES ASSUME NEW d \in Callers PROVE ~(snap[d][m] < guard[d][m])
      OBVIOUS
    <3>1. snap[d][m] \in Nat /\ guard[d][m] \in Int /\ guard[d][m] <= ceiling[m]
      BY DEF GuardsUnderCeiling, TypeOK
    <3> QED BY <1>5, <1>8, <3>1
  <2>2. InFlight(m) = {} /\ Unlogged = {}
    <3>1. \A d \in Callers : pc[d] # "book"
      BY <2>1 DEF ApprovedOnEveryMeter
    <3>2. InFlight(m) = {}
      BY <2>1 DEF InFlight
    <3>3. Unlogged = {}
      BY <3>1 DEF Unlogged
    <3> QED BY <3>2, <3>3
  <2>3. n = 0 /\ u = 0
    BY <2>2, FS_EmptySet, ChargeIsLinear
  <2>4. u + n * k < ceiling[m] + (N + o) * k
    <3>1. n * k = 0
      BY <1>5, <2>3
    <3> HIDE DEF u, n, k, N, o
    <3> QED BY <1>5, <1>6, <2>3, <3>1
  <2> QED BY <1>1, <1>2, <2>4 DEF HeadroomOn
<1> QED BY <1>7, <1>8

LEMMA LeaveKeepsOvershoot ==
  ASSUME OvershootInv, TypeOK', NEW c \in Callers, Leave(c),
         spent' = spent, ceiling' = ceiling, faults' <= faults
  PROVE  GuardsUnderCeiling' /\ ApprovedOnEveryMeter' /\ Headroom'
<1> USE DEF OvershootInv, TypeInv
<1>1. \A d \in Callers :
        /\ d # c => pc'[d] = pc[d] /\ guard'[d] = guard[d] /\ snap'[d] = snap[d]
        /\ d = c => pc'[d] = "idle" /\ guard'[d] = NoUsage
  BY DEF Leave, Goto, TypeOK
<1>2. GuardsUnderCeiling'
  <2> SUFFICES ASSUME NEW d \in Callers, NEW m \in Meters PROVE guard'[d][m] <= ceiling'[m]
    BY DEF GuardsUnderCeiling
  <2>1. CASE d = c
    <3>1. guard'[d][m] = 0
      BY <1>1, <2>1 DEF NoUsage
    <3> QED BY <3>1 DEF TypeOK
  <2>2. CASE d # c
    BY <1>1, <2>2 DEF GuardsUnderCeiling
  <2> QED BY <2>1, <2>2
<1>3. ApprovedOnEveryMeter'
  BY <1>1 DEF ApprovedOnEveryMeter
<1>4. Headroom'
  <2>1. \A m \in Meters : InFlight(m)' \subseteq InFlight(m)
    BY <1>1 DEF InFlight, AfterRead
  <2>2. \A m \in Meters : ceiling[m] \in Nat
    BY DEF TypeOK
  <2> QED BY <2>1, <2>2, QuietStepKeepsHeadroom
<1> QED BY <1>2, <1>3, <1>4

LEMMA ReadKeepsOvershoot ==
  ASSUME OvershootInv, TypeOK', NEW c \in Callers, NEW m \in Meters,
         NEW stage \in {"usd", "tokens", "month"},
         NEW next \in {"tokens", "month", "decide"},
         ReadMeter(c, stage, m, next),
         stage \notin AfterRead(m),
         \A x \in Meters \ {m} : stage \in AfterRead(x) <=> next \in AfterRead(x)
  PROVE  GuardsUnderCeiling' /\ ApprovedOnEveryMeter' /\ Headroom'
<1> USE DEF OvershootInv, TypeInv
<1>1. /\ pc' = [pc EXCEPT ![c] = next] /\ guard' = guard /\ ceiling' = ceiling
      /\ \A d \in Callers \ {c} : snap'[d] = snap[d]
  BY DEF ReadMeter, Goto, TypeOK, history
<1>2. GuardsUnderCeiling'
  BY <1>1 DEF GuardsUnderCeiling
<1>3. ApprovedOnEveryMeter'
  BY <1>1 DEF ApprovedOnEveryMeter, TypeOK
<1> QED BY <1>2, <1>3, ReadKeepsHeadroom

LEMMA OvershootInvNext == OvershootInv /\ [Next]_vars => OvershootInv'
<1> SUFFICES ASSUME OvershootInv, [Next]_vars
             PROVE  GuardsUnderCeiling' /\ ApprovedOnEveryMeter' /\ Headroom'
  BY TypeInvNext, BooksNext DEF OvershootInv
<1> DEFINE Goal == GuardsUnderCeiling' /\ ApprovedOnEveryMeter' /\ Headroom'
<1>0. TypeInv /\ TypeOK /\ TypeOK'
  BY TypeInvNext DEF OvershootInv, TypeInv
<1>1. ASSUME NEW c \in Callers, LoadFails(c) \/ BlockKilled(c) \/ ReadFails(c) \/ Block(c)
      PROVE  Goal
  <2>1. Leave(c) /\ spent' = spent /\ ceiling' = ceiling /\ faults' = faults
    BY <1>1 DEF LoadFails, BlockKilled, ReadFails, Block, Refuse, history
  <2>2. faults' <= faults
    BY <1>0, <2>1 DEF TypeOK
  <2> QED BY <1>0, <2>1, <2>2, LeaveKeepsOvershoot
<1>2. ASSUME NEW c \in Callers, BuildGuard(c)
      PROVE  Goal
  <2>1. MeterLimits(file.ov) \in [Meters -> Int] /\ file \in Contents
    BY <1>0, LimitsAreIntegers DEF TypeOK
  <2>2. /\ \A d \in Callers : /\ pc'[d] = IF d = c THEN "usd" ELSE pc[d]
                              /\ guard'[d] = IF d = c THEN MeterLimits(file.ov) ELSE guard[d]
        /\ \A m \in Meters : ceiling'[m] = Larger(ceiling[m], MeterLimits(file.ov)[m])
        /\ snap' = snap /\ spent' = spent /\ faults' = faults
    BY <1>0, <1>2 DEF BuildGuard, Goto, TypeOK
  <2>3. ASSUME NEW m \in Meters
        PROVE  ceiling[m] <= ceiling'[m] /\ MeterLimits(file.ov)[m] <= ceiling'[m]
    <3>1. ceiling[m] \in Int /\ MeterLimits(file.ov)[m] \in Int
      BY <1>0, <2>1 DEF TypeOK
    <3> QED BY <2>2, <3>1 DEF Larger
  <2>4. GuardsUnderCeiling'
    <3> SUFFICES ASSUME NEW d \in Callers, NEW m \in Meters PROVE guard'[d][m] <= ceiling'[m]
      BY DEF GuardsUnderCeiling
    <3>1. guard[d][m] <= ceiling[m]
      BY DEF OvershootInv, GuardsUnderCeiling
    <3>2. guard[d][m] \in Int /\ ceiling[m] \in Int /\ ceiling'[m] \in Int
      BY <1>0 DEF TypeOK
    <3> QED BY <2>2, <2>3, <3>1, <3>2
  <2>5. ApprovedOnEveryMeter'
    BY <2>2 DEF OvershootInv, ApprovedOnEveryMeter
  <2>6. Headroom'
    <3>1. \A m \in Meters : InFlight(m)' \subseteq InFlight(m)
      BY <2>2 DEF InFlight, AfterRead
    <3>2. faults' <= faults
      BY <1>0, <2>2 DEF TypeOK
    <3> QED BY <1>0, <2>2, <2>3, <3>1, <3>2, QuietStepKeepsHeadroom DEF OvershootInv
  <2> QED BY <2>4, <2>5, <2>6
<1>3. ASSUME NEW c \in Callers, ReadTodayUsd(c) \/ ReadTodayTokens(c) \/ ReadMonthUsd(c)
      PROVE  Goal
  <2> USE <1>0 DEF Meters, AfterRead
  <2>1. CASE ReadTodayUsd(c)
    BY <2>1, ReadKeepsOvershoot DEF ReadTodayUsd
  <2>2. CASE ReadTodayTokens(c)
    BY <2>2, ReadKeepsOvershoot DEF ReadTodayTokens
  <2>3. CASE ReadMonthUsd(c)
    BY <2>3, ReadKeepsOvershoot DEF ReadMonthUsd
  <2> QED BY <1>3, <2>1, <2>2, <2>3
<1>4. ASSUME NEW c \in Callers, Approve(c) \/ LogUsage(c)
      PROVE  Goal
  <2>1. \A m \in Meters : snap[c][m] < guard[c][m]
    <3>1. CASE Approve(c)
      BY <1>0, <3>1 DEF Approve, OverLimit, TypeOK
    <3>2. CASE LogUsage(c)
      BY <3>2 DEF LogUsage, OvershootInv, ApprovedOnEveryMeter
    <3> QED BY <1>4, <3>1, <3>2
  <2>2. /\ guard' = guard /\ snap' = snap /\ ceiling' = ceiling /\ spent' = spent
        /\ faults' = faults \/ faults' = faults - 1
    BY <1>4 DEF Approve, LogUsage, Fault, locals, history
  <2>3. \A d \in Callers : \/ pc'[d] = pc[d]
                           \/ d = c /\ pc[d] = "decide" /\ pc'[d] = "call"
                           \/ d = c /\ pc[d] = "book" /\ pc'[d] = "record"
    BY <1>0, <1>4 DEF Approve, LogUsage, Goto, TypeOK
  <2>4. GuardsUnderCeiling'
    BY <2>2 DEF OvershootInv, GuardsUnderCeiling
  <2>5. ApprovedOnEveryMeter'
    BY <2>1, <2>2, <2>3 DEF OvershootInv, ApprovedOnEveryMeter
  <2>6. Headroom'
    <3>1. \A m \in Meters : InFlight(m)' \subseteq InFlight(m) /\ ceiling[m] <= ceiling'[m]
      BY <1>0, <2>2, <2>3 DEF InFlight, AfterRead, TypeOK
    <3>2. faults' <= faults
      BY <1>0, <2>2 DEF TypeOK
    <3> QED BY <1>0, <2>2, <3>1, <3>2, QuietStepKeepsHeadroom DEF OvershootInv
  <2> QED BY <2>4, <2>5, <2>6
<1>5. ASSUME NEW c \in Callers, CallOk(c) \/ CallFails(c) \/ CutShort(c)
      PROVE  Goal
  <2>1. CallOutcome(c)
    BY <1>0, <1>5, CallHasOutcome
  <2>2. pc' = [pc EXCEPT ![c] = "book"] /\ pc[c] = "call" /\ UNCHANGED <<guard, snap, ceiling>>
    BY <2>1 DEF CallOutcome
  <2>3. GuardsUnderCeiling'
    BY <2>2 DEF OvershootInv, GuardsUnderCeiling
  <2>4. ApprovedOnEveryMeter'
    BY <1>0, <2>2 DEF OvershootInv, ApprovedOnEveryMeter, TypeOK
  <2>5. Headroom'
    BY <1>0, <2>1, CallKeepsHeadroom DEF OvershootInv
  <2> QED BY <2>3, <2>4, <2>5
<1>6. ASSUME NEW c \in Callers, RecordUsage(c) \/ Crash(c)
      PROVE  Goal
  <2>1. /\ Leave(c) /\ spent' = spent /\ ceiling' = ceiling
        /\ faults' = faults \/ faults' = faults - 1
    BY <1>6 DEF RecordUsage, Crash, Fault, history
  <2>2. faults' <= faults
    BY <1>0, <2>1 DEF TypeOK
  <2> QED BY <1>0, <2>1, <2>2, LeaveKeepsOvershoot
<1>7. CASE Midnight
  <2>1. UNCHANGED <<pc, guard, snap, ceiling>>
    BY <1>7 DEF Midnight, locals
  <2>2. GuardsUnderCeiling' /\ ApprovedOnEveryMeter'
    BY <2>1 DEF OvershootInv, GuardsUnderCeiling, ApprovedOnEveryMeter
  <2>3. Headroom'
    BY <1>0, <1>7, MidnightKeepsHeadroom DEF OvershootInv
  <2> QED BY <2>2, <2>3
<1>8. CASE ChangeBudget \/ ensureKIEngine \/ UNCHANGED vars
  <2>1. UNCHANGED <<spent, pc, guard, snap, ceiling, faults>>
    BY <1>8 DEF ChangeBudget, ensureKIEngine, vars, store, locals, history
  <2>2. GuardsUnderCeiling' /\ ApprovedOnEveryMeter'
    BY <2>1 DEF OvershootInv, GuardsUnderCeiling, ApprovedOnEveryMeter
  <2>3. \A m \in Meters : InFlight(m)' = InFlight(m) /\ Occurred' = Occurred
    BY <2>1 DEF InFlight, Occurred
  <2>4. Headroom'
    BY <2>1, <2>3 DEF OvershootInv, Headroom, HeadroomOn
  <2> QED BY <2>2, <2>4
<1> QED
  BY <1>1, <1>2, <1>3, <1>4, <1>5, <1>6, <1>7, <1>8 DEF Next, Step

(* Whatever the number of callers, the budgets, the price and the order of *)
(* their steps, what the provider charges never gets further beyond the    *)
(* highest limit a meter was checked against than by one attempt of each   *)
(* caller and one for each fault that occurred.                            *)
THEOREM OvershootIsBounded == Spec => []BoundedOvershoot
<1>1. Init => OvershootInv
  <2> SUFFICES ASSUME Init PROVE OvershootInv
    OBVIOUS
  <2>1. TypeInv /\ BooksFollowSpending
    BY TypeInvInit, BooksInit
  <2>2. GuardsUnderCeiling /\ ApprovedOnEveryMeter
    BY DEF Init, GuardsUnderCeiling, ApprovedOnEveryMeter, NoUsage
  <2>3. ASSUME NEW m \in Meters
        PROVE  HeadroomOn(m)
    <3>1. Cardinality(InFlight(m)) = 0
      <4>1. InFlight(m) = {}
        BY DEF Init, InFlight, AfterRead
      <4> QED BY <4>1, FS_EmptySet
    <3>2. Cardinality(Callers) \in Nat \ {0}
      BY CallersAssumption, FS_EmptySet, FS_CardinalityType
    <3>3. Cardinality(Callers) * MaxCharge(m) \in Nat \ {0} /\ 0 * MaxCharge(m) = 0
      BY <3>2, ChargeBounds
    <3>4. spent[m] = 0 /\ ceiling[m] = 0 /\ Occurred = 0
      BY FaultsAssumption DEF Init, NoUsage, Occurred
    <3>5. Cardinality(Callers) + Occurred = Cardinality(Callers)
      BY <3>2, <3>4
    <3> QED BY <3>1, <3>3, <3>4, <3>5 DEF HeadroomOn
  <2> QED BY <2>1, <2>2, <2>3 DEF OvershootInv, Headroom
<1>2. OvershootInv /\ [Next]_vars => OvershootInv'
  BY OvershootInvNext
<1>3. OvershootInv => BoundedOvershoot
  <2> SUFFICES ASSUME OvershootInv, NEW m \in Meters
               PROVE  spent[m] < ceiling[m] + (Cardinality(Callers) + Occurred) * MaxCharge(m)
    BY DEF BoundedOvershoot
  <2> DEFINE n == Cardinality(InFlight(m))
             k == MaxCharge(m)
             N == Cardinality(Callers)
             o == Occurred
  <2>1. n * k \in Nat /\ spent[m] \in Nat /\ ceiling[m] \in Nat /\ (N + o) * k \in Nat
    BY HeadroomTypes DEF OvershootInv, TypeInv
  <2>2. spent[m] + n * k < ceiling[m] + (N + o) * k
    BY DEF OvershootInv, Headroom, HeadroomOn
  <2>3. spent[m] < ceiling[m] + (N + o) * k
    <3> HIDE DEF n, k, N, o
    <3> QED BY <2>1, <2>2
  <2> QED BY <2>3
<1> QED BY <1>1, <1>2, <1>3, PTL DEF Spec

-----------------------------------------------------------------------------
(* The prompt: two sets of comparisons, one on the level shown and one on  *)
(* the next query.  They agree for any integer limits and any usage.       *)

LEMMA LevelsAgree ==
  ASSUME NEW f \in Contents, NEW shown \in [Meters -> Nat],
         NEW limits, limits = effectiveLimits(f.ov),
         \A m \in Meters : limits[m] \in Int
  PROVE  /\ budgetStatus("provider", f, shown) = "block" => Refuses(f, shown)
         /\ (\A m \in Meters : limits[m] > 0) /\ budgetStatus("provider", f, shown) = "ok"
              => ~Refuses(f, shown)
<1>1. "usdDay" \in Meters /\ "tokensDay" \in Meters /\ "usdMonth" \in Meters
  BY DEF Meters
<1>2. ASSUME budgetStatus("provider", f, shown) = "block"
      PROVE  ~Loads(f) \/ KillOn(f) \/ \E m \in Meters : Reached(limits, shown, m)
  BY <1>1, <1>2 DEF budgetStatus
<1>3. ASSUME NEW m \in Meters, Reached(limits, shown, m)
      PROVE  OverLimit(limits, shown)
  BY <1>3 DEF Reached, OverLimit
<1>4. ASSUME \A m \in Meters : limits[m] > 0, budgetStatus("provider", f, shown) = "ok"
      PROVE  ~Refuses(f, shown)
  <2>1. /\ Loads(f) /\ ~KillOn(f)
        /\ ~Reached(limits, shown, "usdDay")
        /\ ~Reached(limits, shown, "tokensDay")
        /\ ~Reached(limits, shown, "usdMonth")
    BY <1>4 DEF budgetStatus
  <2>2. \A m \in Meters : ~(shown[m] >= limits[m])
    BY <1>4, <2>1 DEF Reached, Meters
  <2> QED BY <2>1, <2>2 DEF Refuses, OverLimit
<1> QED BY <1>2, <1>3, <1>4 DEF Refuses

(* The prompt against the guard, on whatever file and usage they find: a   *)
(* query that "block" announces as refused is refused, and "ok" lets it    *)
(* through once the engine is there, for every limit an override,          *)
(* config.yaml or a default sets.                                          *)
THEOREM PromptAgreesWithGuard == Spec => []PromptIsTruthful
<1>1. TypeOK => PromptIsTruthful
  <2> SUFFICES ASSUME TypeOK PROVE PromptIsTruthful
    OBVIOUS
  <2> DEFINE shown == IF dbOpen THEN booked ELSE NoUsage
  <2>1. file \in Contents /\ booked \in [Meters -> Nat] /\ NoUsage \in [Meters -> Nat]
        /\ engine \in {"stub", "provider"}
    BY DEF TypeOK, NoUsage
  <2>2. MeterLimits(file.ov) \in [Meters -> Int]
    BY <2>1, LimitsAreIntegers
  <2>3. \A m \in Meters : effectiveLimits(file.ov)[m] \in Int
    <3>1. \A m \in Meters : MeterLimits(file.ov)[m] = effectiveLimits(file.ov)[m]
      BY DEF MeterLimits
    <3> QED BY <2>2, <3>1
  <2>4. shown \in [Meters -> Nat]
    BY <2>1
  <2>5. /\ budgetStatus("provider", file, shown) = "block" => Refuses(file, shown)
        /\ PositiveLimits(file) /\ budgetStatus("provider", file, shown) = "ok"
             => ~Refuses(file, shown)
    BY <2>1, <2>3, <2>4, LevelsAgree DEF PositiveLimits
  <2>6. engine = "stub" /\ PromptLevel = "block" => Refuses(file, booked)
    BY DEF PromptLevel, budgetStatus, Refuses
  <2>7. Refuses(file, NoUsage) => Refuses(file, booked)
    <3>1. ASSUME NEW m \in Meters, NoUsage[m] >= effectiveLimits(file.ov)[m]
          PROVE  booked[m] >= effectiveLimits(file.ov)[m]
      <4>1. NoUsage[m] = 0 /\ booked[m] \in Nat
        BY <2>1 DEF NoUsage
      <4> QED BY <2>3, <3>1, <4>1
    <3> QED BY <3>1 DEF Refuses, OverLimit
  <2>8. engine = "provider" /\ PromptLevel = "block" => Refuses(file, booked)
    BY <2>5, <2>7 DEF PromptLevel
  <2>9. engine = "provider" /\ dbOpen /\ PositiveLimits(file) /\ PromptLevel = "ok"
          => ~Refuses(file, booked)
    BY <2>5 DEF PromptLevel
  <2> QED BY <2>1, <2>6, <2>8, <2>9 DEF PromptIsTruthful
<1> QED BY <1>1, TypeCorrect, PTL
=============================================================================
