-------------------------- MODULE KIRequest_proofs --------------------------
(***************************************************************************)
(* What a request to the model keeps, for all commands, verdicts, replies  *)
(* and bounds.  Every invariant is proved action by action; those that are *)
(* not inductive are strengthened by what holds at each place of the       *)
(* request.                                                                *)
(***************************************************************************)
EXTENDS KIRequest, FiniteSetTheorems, Recursion_proofs, TLAPS

(* The limiter keeps its promise for every window, every limit and every   *)
(* sequence of calls.  GrantsPerWindow is not inductive: the code counts   *)
(* the slice, which forgets.  Remembers says that the slice still holds    *)
(* whatever a window ending now can contain.                               *)

Remembers == \A g \in granted : g.at > now - Hour => g \in timestamps

LimiterInv == LimiterTypeOK /\ Remembers /\ GrantsPerWindow

\* A part of a finite set is finite and no larger.
LEMMA PartIsSmaller ==
  ASSUME NEW S, IsFiniteSet(S), NEW T, T \subseteq S
  PROVE  /\ IsFiniteSet(T) /\ Cardinality(T) \in Nat /\ Cardinality(S) \in Nat
         /\ Cardinality(T) <= Cardinality(S)
BY FS_Subset, FS_CardinalityType

\* The limiter starts with nothing granted.
LEMMA InitHolds == LimiterInit => LimiterInv
<1> SUFFICES ASSUME LimiterInit PROVE LimiterInv
  OBVIOUS
<1> USE DEF LimiterInit
<1>1. LimiterTypeOK
  BY FS_EmptySet DEF LimiterTypeOK
<1>2. Remembers
  BY DEF Remembers
<1>3. GrantsPerWindow
  <2>1. ASSUME NEW length, NEW end PROVE Cardinality(Within(length, end)) = 0
    <3>1. Within(length, end) = {}
      BY DEF Within
    <3> QED BY <3>1, FS_EmptySet
  <2> QED BY <2>1, LimiterAssumption DEF GrantsPerWindow
<1> QED BY <1>1, <1>2, <1>3 DEF LimiterInv

\* What the code counts in a window that ends now is all that was granted in it.
LEMMA CountsAll ==
  ASSUME LimiterInv, NEW length \in Nat, length <= Hour
  PROVE  Within(length, now) \subseteq After(cleanup(timestamps), now - length)
BY LimiterAssumption DEF LimiterInv, LimiterTypeOK, Remembers, Within, After, cleanup, Grants

\* A call that passes.
LEMMA GrantKeeps == LimiterInv /\ Grant => LimiterInv'
<1> SUFFICES ASSUME LimiterInv, Grant PROVE LimiterInv'
  OBVIOUS
<1> DEFINE kept == cleanup(timestamps)
           new  == [nr |-> Cardinality(granted) + 1, at |-> now]
<1>1. /\ now' = now /\ timestamps' = kept \cup {new} /\ granted' = granted \cup {new}
      /\ MayPass(kept)
  BY DEF Grant
<1>2. /\ now \in Nat /\ granted \subseteq Grants /\ IsFiniteSet(granted)
      /\ timestamps \subseteq granted
      /\ \A g \in granted : g.nr <= Cardinality(granted) /\ g.at <= now
  BY DEF LimiterInv, LimiterTypeOK
<1>3. Cardinality(granted) \in Nat
  BY <1>2, FS_CardinalityType
<1>4. kept \subseteq timestamps
  BY DEF cleanup, After
<1>5. new \in Grants /\ new \notin granted /\ new.at = now /\ new.nr = Cardinality(granted) + 1
  BY <1>2, <1>3 DEF Grants
<1>6. IsFiniteSet(granted') /\ Cardinality(granted') = Cardinality(granted) + 1
  BY <1>1, <1>2, <1>5, FS_AddElement
<1>7. LimiterTypeOK'
  <2>1. \A g \in granted' : g.nr <= Cardinality(granted') /\ g.at <= now'
    <3> SUFFICES ASSUME NEW g \in granted'
                 PROVE  g.nr <= Cardinality(granted') /\ g.at <= now'
      OBVIOUS
    <3>1. CASE g = new
      BY <3>1, <1>1, <1>2, <1>3, <1>5, <1>6
    <3>2. CASE g \in granted
      <4>1. g.nr \in Nat /\ g.nr <= Cardinality(granted) /\ g.at <= now
        BY <3>2, <1>2 DEF Grants
      <4> QED BY <4>1, <1>1, <1>3, <1>6
    <3> QED BY <3>1, <3>2, <1>1
  <2> QED BY <2>1, <1>1, <1>2, <1>4, <1>5, <1>6 DEF LimiterTypeOK
<1>8. Remembers'
  BY <1>1 DEF LimiterInv, Remembers, cleanup, After
<1>9. GrantsPerWindow'
  <2>1. ASSUME NEW length \in Nat, length > 0, length <= Hour, NEW max \in Nat,
               Cardinality(After(kept, now - length)) < max,
               \A e \in 0..now : Cardinality(Within(length, e)) <= max,
               NEW end \in 0..now
        PROVE  Cardinality(Within(length, end)') <= max
    <3>1. CASE end < now
      <4>1. Within(length, end)' = Within(length, end)
        BY <3>1, <1>1, <1>2, <1>5 DEF Within
      <4> QED BY <4>1, <2>1
    <3>2. CASE end = now
      <4> DEFINE old == Within(length, now)
                 counted == After(kept, now - length)
      <4>1. Within(length, end)' = old \cup {new}
        BY <3>2, <1>1, <1>2, <1>5, <2>1 DEF Within
      <4>2. old \subseteq granted /\ IsFiniteSet(old) /\ new \notin old
        <5>1. old \subseteq granted
          BY DEF Within
        <5> QED BY <5>1, <1>2, <1>5, PartIsSmaller
      <4>3. Cardinality(old \cup {new}) = Cardinality(old) + 1
        BY <4>2, FS_AddElement
      <4>4. old \subseteq counted
        BY CountsAll, <2>1
      <4>5. IsFiniteSet(counted)
        <5>1. counted \subseteq granted
          BY <1>2, <1>4 DEF After
        <5> QED BY <5>1, <1>2, PartIsSmaller
      <4>6. /\ Cardinality(old) \in Nat /\ Cardinality(counted) \in Nat
            /\ Cardinality(old) <= Cardinality(counted)
        BY <4>4, <4>5, PartIsSmaller
      <4> HIDE DEF old, counted, kept, new
      <4>7. Cardinality(counted) < max
        BY <2>1 DEF counted
      <4> QED BY <4>1, <4>3, <4>6, <4>7, <2>1
    <3> QED BY <3>1, <3>2, <1>2
  <2>2. \A end \in 0..now : Cardinality(Within(Minute, end)') <= MaxPerMinute
    <3>1. /\ Cardinality(After(kept, now - Minute)) < MaxPerMinute
          /\ \A e \in 0..now : Cardinality(Within(Minute, e)) <= MaxPerMinute
      BY <1>1 DEF MayPass, LimiterInv, GrantsPerWindow
    <3> QED BY <3>1, <2>1, LimiterAssumption
  <2>3. \A end \in 0..now : Cardinality(Within(Hour, end)') <= MaxPerHour
    <3>1. /\ Cardinality(After(kept, now - Hour)) < MaxPerHour
          /\ \A e \in 0..now : Cardinality(Within(Hour, e)) <= MaxPerHour
      BY <1>1 DEF MayPass, LimiterInv, GrantsPerWindow
    <3> QED BY <3>1, <2>1, LimiterAssumption
  <2> QED BY <2>2, <2>3, <1>1 DEF GrantsPerWindow
<1> QED BY <1>7, <1>8, <1>9 DEF LimiterInv

\* A call that is refused.
LEMMA DenyKeeps == LimiterInv /\ Deny => LimiterInv'
<1> SUFFICES ASSUME LimiterInv, Deny PROVE LimiterInv'
  OBVIOUS
<1> USE DEF LimiterInv, Deny
<1>1. LimiterTypeOK'
  BY DEF LimiterTypeOK, cleanup, After
<1>2. Remembers'
  BY DEF Remembers, cleanup, After
<1>3. GrantsPerWindow'
  BY DEF GrantsPerWindow, Within
<1> QED BY <1>1, <1>2, <1>3

\* Time passes: the window that ends later holds nothing new.
LEMMA TickKeeps == LimiterInv /\ Tick => LimiterInv'
<1> SUFFICES ASSUME LimiterInv, Tick PROVE LimiterInv'
  OBVIOUS
<1>1. now \in Nat /\ now' = now + 1 /\ UNCHANGED <<timestamps, granted>>
  BY DEF LimiterInv, LimiterTypeOK, Tick
<1>2. /\ granted \subseteq Grants /\ IsFiniteSet(granted)
      /\ \A g \in granted : g.nr <= Cardinality(granted) /\ g.at <= now
  BY DEF LimiterInv, LimiterTypeOK
<1>3. LimiterTypeOK'
  <2>1. \A g \in granted : g.at <= now + 1
    BY <1>1, <1>2 DEF Grants
  <2> QED BY <2>1, <1>1, <1>2 DEF LimiterInv, LimiterTypeOK
<1>4. Remembers'
  BY <1>1, <1>2, LimiterAssumption DEF LimiterInv, Remembers, Grants
<1>5. GrantsPerWindow'
  <2>1. ASSUME NEW length \in Nat, NEW max \in Nat,
               \A e \in 0..now : Cardinality(Within(length, e)) <= max,
               NEW end \in 0..(now + 1)
        PROVE  Cardinality(Within(length, end)') <= max
    <3>1. CASE end \in 0..now
      <4>1. Within(length, end)' = Within(length, end)
        BY <1>1 DEF Within
      <4> QED BY <4>1, <3>1, <2>1
    <3>2. CASE end = now + 1
      <4>1. Within(length, end)' \subseteq Within(length, now)
        BY <3>2, <1>1, <1>2 DEF Within, Grants
      <4>2. Within(length, now) \subseteq granted
        BY DEF Within
      <4>3. IsFiniteSet(Within(length, now))
        BY <4>2, <1>2, PartIsSmaller
      <4>4. /\ Cardinality(Within(length, end)') \in Nat
            /\ Cardinality(Within(length, now)) \in Nat
            /\ Cardinality(Within(length, end)') <= Cardinality(Within(length, now))
        BY <4>1, <4>3, PartIsSmaller
      <4>5. Cardinality(Within(length, now)) <= max
        BY <1>1, <2>1
      <4> QED BY <4>4, <4>5
    <3> QED BY <3>1, <3>2, <1>1
  <2>2. \A end \in 0..(now + 1) : Cardinality(Within(Minute, end)') <= MaxPerMinute
    BY <2>1, LimiterAssumption DEF LimiterInv, GrantsPerWindow
  <2>3. \A end \in 0..(now + 1) : Cardinality(Within(Hour, end)') <= MaxPerHour
    BY <2>1, LimiterAssumption DEF LimiterInv, GrantsPerWindow
  <2> QED BY <2>2, <2>3, <1>1 DEF GrantsPerWindow
<1> QED BY <1>3, <1>4, <1>5 DEF LimiterInv

\* Every state of the limiter is of its type and remembers what it must.
LEMMA LimiterKept == LimiterSpec => []LimiterInv
<1>1. LimiterInit => LimiterInv
  BY InitHolds
<1>2. LimiterInv /\ [Grant \/ Deny \/ Tick]_limiter => LimiterInv'
  <2> SUFFICES ASSUME LimiterInv, [Grant \/ Deny \/ Tick]_limiter PROVE LimiterInv'
    OBVIOUS
  <2>1. CASE UNCHANGED limiter
    BY <2>1 DEF limiter, LimiterInv, LimiterTypeOK, Remembers, GrantsPerWindow, Within
  <2> QED BY <2>1, GrantKeeps, DenyKeeps, TickKeeps
<1> QED BY <1>1, <1>2, PTL DEF LimiterSpec

(* In no minute and in no hour more calls pass than the limits allow,      *)
(* whatever the limits and the windows are: Allow of security_ratelimit.go *)
(* forgets nothing that a later call must still count.                     *)
THEOREM LimitsHold == LimiterSpec => []GrantsPerWindow
<1>1. LimiterInv => GrantsPerWindow
  BY DEF LimiterInv
<1> QED BY <1>1, LimiterKept, PTL

-----------------------------------------------------------------------------
(* The request. *)

Places == {"idle", "skill", "plan", "think", "send", "head", "ready", "query", "act"}

Typed ==
  /\ pc \in Places
  /\ step \in 0..MaxAgentSteps
  /\ queries \in Nat /\ late \in Nat
  /\ pc \in {"ready", "query", "act"} /\ AgentMode => step < MaxAgentSteps
  /\ pc \in {"head", "ready"} => AgentMode

\* How many queries a request has sent when it is somewhere.
QueriesSoFar ==
  /\ pc \in {"skill", "plan"} => queries = 0
  /\ pc \in {"think", "send"} => queries <= IF AgentMode THEN 1 ELSE 0
  /\ pc \in {"head", "ready"} => queries <= step + 1
  /\ pc \in {"query", "act"} => queries <= IF AgentMode THEN step + 2 ELSE 1
  /\ QueriesAreBounded

\* How many of them it can have sent after SIGINT.
LateSoFar ==
  /\ ~cancelled \/ pc \in {"skill", "plan", "ready"} => late = 0
  /\ pc \in {"think", "send"} => late <= IF AgentMode THEN 1 ELSE 0
  /\ late <= 1

NoNewRun == ran' \subseteq ran

-----------------------------------------------------------------------------
(* The request and the limiter.                                            *)

LEMMA StepsOfTheLimiter == [Next]_vars => [Grant \/ Deny \/ Tick]_limiter
<1> SUFFICES ASSUME [Next]_vars PROVE [Grant \/ Deny \/ Tick]_limiter
  OBVIOUS
<1>1. CASE UNCHANGED vars
  BY <1>1 DEF vars
<1>2. CASE Ask
  BY <1>2 DEF Ask
<1>3. CASE AnswerSkill
  BY <1>3 DEF AnswerSkill
<1>4. CASE SkipThinking
  BY <1>4 DEF SkipThinking
<1>5. CASE Think
  BY <1>5 DEF Think
<1>6. CASE ThinkEnds
  BY <1>6 DEF ThinkEnds
<1>7. CASE Refuse
  BY <1>7 DEF Refuse
<1>8. CASE StartLoop
  BY <1>8 DEF StartLoop
<1>9. CASE StartQuery
  BY <1>9 DEF StartQuery
<1>10. CASE StopLoop
  BY <1>10 DEF StopLoop
<1>11. CASE NextStep
  BY <1>11 DEF NextStep
<1>12. CASE SendStep
  BY <1>12 DEF SendStep
<1>13. CASE QueryEnds
  BY <1>13 DEF QueryEnds
<1>14. CASE Suggest
  BY <1>14 DEF Suggest
<1>15. CASE Block
  BY <1>15 DEF Block, Done
<1>16. CASE RunFreely
  BY <1>16 DEF RunFreely, Done
<1>17. CASE Agree
  BY <1>17 DEF Agree, Done
<1>18. CASE Decline
  BY <1>18 DEF Decline, Done
<1>19. CASE Edit
  BY <1>19 DEF Edit
<1>20. CASE EndOfActions
  BY <1>20 DEF EndOfActions
<1>21. CASE Cancel
  BY <1>21 DEF Cancel
<1>22. CASE OtherQuery
  BY <1>22 DEF OtherQuery
<1>23. CASE Clock
  BY <1>23 DEF Clock
<1>30. CASE Learn
  BY <1>30 DEF Learn
<1> QED BY <1>1, <1>2, <1>3, <1>4, <1>5, <1>6, <1>7, <1>8, <1>9, <1>10, <1>11, <1>12, <1>13, <1>14, <1>15, <1>16, <1>17, <1>18, <1>19, <1>20, <1>21, <1>22, <1>23, <1>30 DEF Next

(* Every behaviour of the requests is one of the limiter: only handleKI    *)
(* calls Allow, and nothing else touches what it remembers.                *)
THEOREM UsesTheLimiter == Spec => LimiterSpec
<1>1. Init => LimiterInit
  BY DEF Init
<1> QED BY <1>1, StepsOfTheLimiter, PTL DEF Spec, LimiterSpec

(* So the requests handleKI lets pass keep to the limits in every window.  *)
THEOREM GrantsKeepToLimits == Spec => []GrantsPerWindow
BY UsesTheLimiter, LimitsHold, PTL

-----------------------------------------------------------------------------
(* How many queries a request sends.                                       *)

LEMMA TypedKept == Typed /\ [Next]_vars => Typed'
<1> SUFFICES ASSUME Typed, [Next]_vars PROVE Typed'
  OBVIOUS
<1> USE DEF Typed, Places
<1>1. MaxAgentSteps \in Nat /\ 0 \in 0..MaxAgentSteps
  BY RequestAssumption
<1>2. CASE UNCHANGED vars
  BY <1>1, <1>2 DEF vars, request, modes, records
<1>3. CASE Ask
  BY <1>1, <1>3 DEF Ask, modes, records, Goto
<1>4. CASE AnswerSkill
  BY <1>1, <1>4 DEF AnswerSkill, modes, records, Return, Goto
<1>5. CASE SkipThinking
  BY <1>1, <1>5 DEF SkipThinking, modes, records, Goto
<1>6. CASE Think
  BY <1>1, <1>6 DEF Think, modes, records, SendQuery
<1>7. CASE ThinkEnds
  BY <1>1, <1>7 DEF ThinkEnds, modes, records
<1>8. CASE Refuse
  BY <1>1, <1>8 DEF Refuse, modes, records, Return
<1>9. CASE StartLoop
  BY <1>1, <1>9 DEF StartLoop, modes, records
<1>10. CASE StartQuery
  BY <1>1, <1>10 DEF StartQuery, modes, records, Goto, SendQuery
<1>11. CASE StopLoop
  BY <1>1, <1>11 DEF StopLoop, modes, records, Return
<1>12. CASE NextStep
  BY <1>1, <1>12 DEF NextStep, modes, records, Goto
<1>13. CASE SendStep
  BY <1>1, <1>13 DEF SendStep, modes, records, Goto, SendQuery
<1>14. CASE QueryEnds
  BY <1>1, <1>14 DEF QueryEnds, modes, records, Return
<1>15. CASE Suggest
  BY <1>1, <1>15 DEF Suggest, modes, records
<1>16. CASE Block
  BY <1>1, <1>16 DEF Block, modes, records, Done
<1>17. CASE RunFreely
  BY <1>1, <1>17 DEF RunFreely, modes, records, Done
<1>18. CASE Agree
  BY <1>1, <1>18 DEF Agree, modes, records, Done
<1>19. CASE Decline
  BY <1>1, <1>19 DEF Decline, modes, records, Done
<1>20. CASE Edit
  BY <1>1, <1>20 DEF Edit, modes, records
<1>21. CASE EndOfActions
  <2>1. CASE AgentMode
    <3>1. step' = step + 1 /\ pc' = "head" /\ AgentMode' /\ UNCHANGED <<queries, late>>
      BY <1>21, <2>1 DEF EndOfActions, modes
    <3>2. step < MaxAgentSteps
      BY <1>21, <2>1 DEF EndOfActions
    <3> QED BY <3>1, <3>2, <1>1
  <2>2. CASE ~AgentMode
    BY <1>21, <2>2, <1>1 DEF EndOfActions, modes, Return
  <2> QED BY <2>1, <2>2
<1>22. CASE Cancel
  BY <1>1, <1>22 DEF Cancel, modes, records
<1>23. CASE OtherQuery
  BY <1>1, <1>23 DEF OtherQuery, modes, records
<1>24. CASE Clock
  BY <1>1, <1>24 DEF Clock, modes, records
<1>30. CASE Learn
  BY <1>1, <1>30 DEF Learn, modes, records
<1> QED
  BY <1>2, <1>3, <1>4, <1>5, <1>6, <1>7, <1>8, <1>9, <1>10, <1>11, <1>12, <1>13,
     <1>14, <1>15, <1>16, <1>17, <1>18, <1>19, <1>20, <1>21, <1>22, <1>23, <1>24, <1>30 DEF Next

\* Counted at every place, the bound is inductive.
LEMMA QueriesKept == Typed /\ QueriesSoFar /\ [Next]_vars => QueriesSoFar'
<1> SUFFICES ASSUME Typed, QueriesSoFar, [Next]_vars PROVE QueriesSoFar'
  OBVIOUS
<1> USE DEF Typed, Places, QueriesSoFar, QueriesAreBounded
<1>1. MaxAgentSteps \in Nat
  BY RequestAssumption
<1>2. CASE UNCHANGED vars
  BY <1>1, <1>2 DEF vars, request, modes, records
<1>3. CASE Ask
  BY <1>1, <1>3 DEF Ask, modes, records, Goto
<1>4. CASE AnswerSkill
  BY <1>1, <1>4 DEF AnswerSkill, modes, records, Return, Goto
<1>5. CASE SkipThinking
  BY <1>1, <1>5 DEF SkipThinking, modes, records, Goto
<1>6. CASE Think
  BY <1>1, <1>6 DEF Think, modes, records, SendQuery
<1>7. CASE ThinkEnds
  BY <1>1, <1>7 DEF ThinkEnds, modes, records
<1>8. CASE Refuse
  BY <1>1, <1>8 DEF Refuse, modes, records, Return
<1>9. CASE StartLoop
  BY <1>1, <1>9 DEF StartLoop, modes, records
<1>10. CASE StartQuery
  BY <1>1, <1>10 DEF StartQuery, modes, records, Goto, SendQuery
<1>11. CASE StopLoop
  BY <1>1, <1>11 DEF StopLoop, modes, records, Return
<1>12. CASE NextStep
  BY <1>1, <1>12 DEF NextStep, modes, records, Goto
<1>13. CASE SendStep
  <2>1. queries' = queries + 1 /\ pc' = "query" /\ UNCHANGED <<step, AgentMode>>
    BY <1>13 DEF SendStep, modes, Goto, SendQuery
  <2>2. CASE AgentMode
    <3>1. queries <= step + 1 /\ step < MaxAgentSteps
      BY <1>13, <2>2 DEF SendStep
    <3> QED BY <3>1, <2>1, <2>2, <1>1
  <2>3. CASE ~AgentMode
    <3> QED BY <1>13, <2>3 DEF SendStep
  <2> QED BY <2>2, <2>3
<1>14. CASE QueryEnds
  BY <1>1, <1>14 DEF QueryEnds, modes, records, Return
<1>15. CASE Suggest
  BY <1>1, <1>15 DEF Suggest, modes, records
<1>16. CASE Block
  BY <1>1, <1>16 DEF Block, modes, records, Done
<1>17. CASE RunFreely
  BY <1>1, <1>17 DEF RunFreely, modes, records, Done
<1>18. CASE Agree
  BY <1>1, <1>18 DEF Agree, modes, records, Done
<1>19. CASE Decline
  BY <1>1, <1>19 DEF Decline, modes, records, Done
<1>20. CASE Edit
  BY <1>1, <1>20 DEF Edit, modes, records
<1>21. CASE EndOfActions
  <2>1. CASE AgentMode
    <3>1. step' = step + 1 /\ pc' = "head" /\ AgentMode' /\ queries' = queries
      BY <1>21, <2>1 DEF EndOfActions, modes
    <3>2. queries <= step + 2 /\ queries <= MaxAgentSteps + 1
      BY <1>21, <2>1 DEF EndOfActions
    <3> QED BY <3>1, <3>2, <1>1
  <2>2. CASE ~AgentMode
    BY <1>21, <2>2, <1>1 DEF EndOfActions, modes, Return
  <2> QED BY <2>1, <2>2
<1>22. CASE Cancel
  BY <1>1, <1>22 DEF Cancel, modes, records
<1>23. CASE OtherQuery
  BY <1>1, <1>23 DEF OtherQuery, modes, records
<1>24. CASE Clock
  BY <1>1, <1>24 DEF Clock, modes, records
<1>30. CASE Learn
  BY <1>1, <1>30 DEF Learn, modes, records
<1> QED
  BY <1>2, <1>3, <1>4, <1>5, <1>6, <1>7, <1>8, <1>9, <1>10, <1>11, <1>12, <1>13,
     <1>14, <1>15, <1>16, <1>17, <1>18, <1>19, <1>20, <1>21, <1>22, <1>23, <1>24, <1>30 DEF Next

\* A loop that goes on has seen no SIGINT, so nothing was sent after it.
LEMMA LateKept == Typed /\ LateSoFar /\ [Next]_vars => LateSoFar'
<1> SUFFICES ASSUME Typed, LateSoFar, [Next]_vars PROVE LateSoFar'
  OBVIOUS
<1> USE DEF Typed, Places, LateSoFar
<1>1. CASE UNCHANGED vars
  BY <1>1 DEF vars, request, modes, records
<1>2. CASE Ask
  BY <1>2 DEF Ask, modes, records, Goto
<1>3. CASE AnswerSkill
  BY <1>3 DEF AnswerSkill, modes, records, Return, Goto
<1>4. CASE SkipThinking
  BY <1>4 DEF SkipThinking, modes, records, Goto
<1>5. CASE Think
  BY <1>5 DEF Think, modes, records, SendQuery
<1>6. CASE ThinkEnds
  BY <1>6 DEF ThinkEnds, modes, records
<1>7. CASE Refuse
  BY <1>7 DEF Refuse, modes, records, Return
<1>8. CASE StartLoop
  BY <1>8 DEF StartLoop, modes, records
<1>9. CASE StartQuery
  BY <1>9 DEF StartQuery, modes, records, Goto, SendQuery
<1>10. CASE StopLoop
  BY <1>10 DEF StopLoop, modes, records, Return
<1>11. CASE NextStep
  BY <1>11 DEF NextStep, modes, records, Goto
<1>12. CASE SendStep
  BY <1>12 DEF SendStep, modes, records, Goto, SendQuery
<1>13. CASE QueryEnds
  BY <1>13 DEF QueryEnds, modes, records, Return
<1>14. CASE Suggest
  BY <1>14 DEF Suggest, modes, records
<1>15. CASE Block
  BY <1>15 DEF Block, modes, records, Done
<1>16. CASE RunFreely
  BY <1>16 DEF RunFreely, modes, records, Done
<1>17. CASE Agree
  BY <1>17 DEF Agree, modes, records, Done
<1>18. CASE Decline
  BY <1>18 DEF Decline, modes, records, Done
<1>19. CASE Edit
  BY <1>19 DEF Edit, modes, records
<1>20. CASE EndOfActions
  BY <1>20 DEF EndOfActions, modes, records, Return
<1>21. CASE Cancel
  BY <1>21 DEF Cancel, modes, records
<1>22. CASE OtherQuery
  BY <1>22 DEF OtherQuery, modes, records
<1>23. CASE Clock
  BY <1>23 DEF Clock, modes, records
<1>30. CASE Learn
  BY <1>30 DEF Learn, modes, records
<1> QED
  BY <1>1, <1>2, <1>3, <1>4, <1>5, <1>6, <1>7, <1>8, <1>9, <1>10, <1>11, <1>12,
     <1>13, <1>14, <1>15, <1>16, <1>17, <1>18, <1>19, <1>20, <1>21, <1>22, <1>23, <1>30 DEF Next

\* The override by the places of the request: inductive as it stands.
LEMMA PromptKept == Typed /\ PromptFollowsRequest /\ [Next]_vars => PromptFollowsRequest'
<1> SUFFICES ASSUME Typed, PromptFollowsRequest, [Next]_vars PROVE PromptFollowsRequest'
  OBVIOUS
<1> USE DEF Typed, Places, PromptFollowsRequest, InLoop
<1>1. CASE UNCHANGED vars
  BY <1>1 DEF vars, request, modes, records
<1>2. CASE Ask
  BY <1>2 DEF Ask, modes, records, Goto
<1>3. CASE AnswerSkill
  BY <1>3 DEF AnswerSkill, modes, records, Return, Goto
<1>4. CASE SkipThinking
  BY <1>4 DEF SkipThinking, modes, records, Goto
<1>5. CASE Think
  BY <1>5 DEF Think, modes, records, SendQuery
<1>6. CASE ThinkEnds
  BY <1>6 DEF ThinkEnds, modes, records
<1>7. CASE Refuse
  BY <1>7 DEF Refuse, modes, records, Return
<1>8. CASE StartLoop
  BY <1>8 DEF StartLoop, modes, records
<1>9. CASE StartQuery
  BY <1>9 DEF StartQuery, modes, records, Goto, SendQuery
<1>10. CASE StopLoop
  BY <1>10 DEF StopLoop, modes, records, Return
<1>11. CASE NextStep
  BY <1>11 DEF NextStep, modes, records, Goto
<1>12. CASE SendStep
  BY <1>12 DEF SendStep, modes, records, Goto, SendQuery
<1>13. CASE QueryEnds
  BY <1>13 DEF QueryEnds, modes, records, Return
<1>14. CASE Suggest
  BY <1>14 DEF Suggest, modes, records
<1>15. CASE Block
  BY <1>15 DEF Block, modes, records, Done
<1>16. CASE RunFreely
  BY <1>16 DEF RunFreely, modes, records, Done
<1>17. CASE Agree
  BY <1>17 DEF Agree, modes, records, Done
<1>18. CASE Decline
  BY <1>18 DEF Decline, modes, records, Done
<1>19. CASE Edit
  BY <1>19 DEF Edit, modes, records
<1>20. CASE EndOfActions
  BY <1>20 DEF EndOfActions, modes, records, Return
<1>21. CASE Cancel
  BY <1>21 DEF Cancel, modes, records
<1>22. CASE OtherQuery
  BY <1>22 DEF OtherQuery, modes, records
<1>23. CASE Clock
  BY <1>23 DEF Clock, modes, records
<1>30. CASE Learn
  BY <1>30 DEF Learn, modes, records
<1> QED
  BY <1>1, <1>2, <1>3, <1>4, <1>5, <1>6, <1>7, <1>8, <1>9, <1>10, <1>11, <1>12,
     <1>13, <1>14, <1>15, <1>16, <1>17, <1>18, <1>19, <1>20, <1>21, <1>22, <1>23, <1>30 DEF Next

\* What the name of a skill stands for is the script it has now.
LEMMA ExpandType ==
  ASSUME skills \in SkillSets, NEW c \in Commands, NEW t \in Expand(c)
  PROVE  t = c \/ (c \in Skills /\ c \in DOMAIN skills /\ t = skills[c] /\ t \in Scripts)
<1>1. CASE c \notin Skills
  BY <1>1 DEF Expand
<1>2. CASE c \in Skills
  <2>1. PICK S \in SUBSET Skills : skills \in [S -> Scripts]
    BY DEF SkillSets
  <2>2. c \in DOMAIN skills /\ t = skills[c]
    BY <1>2 DEF Expand
  <2> QED BY <1>2, <2>1, <2>2
<1> QED BY <1>1, <1>2

\* What RunFreely and Agree start.
Judged(c) == NeedsNobody(c) \/ (NeedsConfirm(c) /\ c \in confirmed)
Meant(r)  ==
  r[2] # r[1] => /\ AgentMode /\ r[1] \in Skills /\ r[2] \in Scripts
                 /\ pc # "idle" => r[1] \in DOMAIN skills /\ r[2] = skills[r[1]]

LEMMA StartedIsMeant ==
  ASSUME skills \in SkillSets, NEW c \in Commands,
         IF AgentMode THEN ExecuteAction(c) ELSE Start(c, {c})
  PROVE  \A r \in ran' : r \in ran \/ (r[1] = c /\ Meant(r))
<1>1. CASE AgentMode
  <2>1. ran' \subseteq ran \cup ({c} \X Expand(c))
    BY <1>1 DEF ExecuteAction, Start
  <2> QED BY <1>1, <2>1, ExpandType DEF Meant
<1>2. CASE ~AgentMode
  <2>1. ran' = ran \cup ({c} \X {c})
    BY <1>2 DEF Start
  <2> QED BY <2>1 DEF Meant
<1> QED BY <1>1, <1>2

\* Nothing runs but by RunFreely and Agree, and no skill changes while a request runs.
LEMMA ConsentKept ==
  skills \in SkillSets /\ actions \in Seq(Commands) /\ OnlyConsentedRuns /\ [Next]_vars
    => OnlyConsentedRuns'
<1> SUFFICES ASSUME skills \in SkillSets, actions \in Seq(Commands), OnlyConsentedRuns, [Next]_vars
             PROVE  OnlyConsentedRuns'
  OBVIOUS
<1>0. OnlyConsentedRuns = \A r \in ran : Judged(r[1]) /\ Meant(r)
  BY DEF OnlyConsentedRuns, Judged, Meant
<1>a. OnlyConsentedRuns' = \A r \in ran' : Judged(r[1])' /\ Meant(r)'
  BY DEF OnlyConsentedRuns, Judged, Meant
<1>1. ASSUME UNCHANGED <<AgentMode, confirmed, skills, ran>>, pc # "idle" \/ pc' = "idle"
      PROVE  OnlyConsentedRuns'
  <2>1. ASSUME NEW r \in ran PROVE Judged(r[1])' /\ Meant(r)'
    <3>1. Judged(r[1]) /\ Meant(r)
      BY <1>0, <2>1
    <3>2. Judged(r[1])'
      BY <1>1, <3>1 DEF Judged, NeedsNobody, NeedsConfirm
    <3>3. Meant(r)'
      BY <1>1, <3>1 DEF Meant
    <3> QED BY <3>2, <3>3
  <2> QED BY <1>1, <1>a, <2>1
<1>2. CASE UNCHANGED vars
  BY <1>2, <1>1 DEF vars, request, modes, records
<1>3. CASE Learn
  <2>1. /\ pc' = "idle" /\ pc = "idle"
        /\ UNCHANGED <<AgentMode, confirmed, ran>>
    BY <1>3 DEF Learn, modes, records
  <2>2. ASSUME NEW r \in ran PROVE Judged(r[1])' /\ Meant(r)'
    <3>1. Judged(r[1]) /\ Meant(r)
      BY <1>0, <2>2
    <3>2. Judged(r[1])'
      BY <2>1, <3>1 DEF Judged, NeedsNobody, NeedsConfirm
    <3>3. Meant(r)'
      BY <2>1, <3>1 DEF Meant
    <3> QED BY <3>2, <3>3
  <2> QED BY <1>a, <2>1, <2>2
<1>4. CASE Ask
  <2>1. ran' = {}
    BY <1>4 DEF Ask
  <2> QED BY <2>1, <1>a
<1>5. CASE AnswerSkill \/ SkipThinking \/ Refuse
  BY <1>5, <1>1 DEF AnswerSkill, SkipThinking, Refuse, modes, records, Return, Goto
<1>6. CASE Think \/ ThinkEnds \/ StartLoop \/ StartQuery \/ SendStep
  BY <1>6, <1>1 DEF Think, ThinkEnds, StartLoop, StartQuery, SendStep, modes, records
<1>7. CASE StopLoop \/ NextStep \/ QueryEnds
  BY <1>7, <1>1 DEF StopLoop, NextStep, QueryEnds, modes, records, Return, Goto
<1>8. CASE Suggest \/ Edit \/ EndOfActions
  BY <1>8, <1>1 DEF Suggest, Edit, EndOfActions, modes, records, Return
<1>9. CASE Cancel \/ OtherQuery \/ Clock
  BY <1>9, <1>1 DEF Cancel, OtherQuery, Clock, modes, records
<1>10. CASE Block \/ Decline
  BY <1>10, <1>1 DEF Block, Decline, modes, Done
<1>11. CASE RunFreely \/ Agree
  <2>0. PICK c \in Commands : c = Head(actions)
    BY <1>11 DEF RunFreely, Agree
  <2>1. /\ pc = "act" /\ pc' = "act"
        /\ UNCHANGED <<AgentMode, skills>> /\ confirmed \subseteq confirmed'
        /\ Judged(c)'
        /\ IF AgentMode THEN ExecuteAction(c) ELSE Start(c, {c})
    <3>1. CASE RunFreely
      <4>1. NeedsNobody(c) /\ AgentMode' = AgentMode
        BY <2>0, <3>1 DEF RunFreely, Done, modes
      <4>2. Judged(c)'
        BY <4>1 DEF Judged, NeedsNobody
      <4>3. IF AgentMode THEN ExecuteAction(c) ELSE Start(c, {c})
        BY <2>0, <3>1 DEF RunFreely
      <4>4. pc = "act" /\ UNCHANGED <<pc, skills, confirmed>>
        BY <3>1 DEF RunFreely, Done
      <4> QED BY <4>1, <4>2, <4>3, <4>4
    <3>2. CASE Agree
      <4>1. NeedsConfirm(c) /\ confirmed' = confirmed \cup {c} /\ AgentMode' = AgentMode
        BY <2>0, <3>2 DEF Agree, Done, modes
      <4>2. Judged(c)'
        BY <4>1 DEF Judged, NeedsConfirm
      <4>3. IF AgentMode THEN ExecuteAction(c) ELSE Start(c, {c})
        BY <2>0, <3>2 DEF Agree
      <4>4. pc = "act" /\ UNCHANGED <<pc, skills>>
        BY <3>2 DEF Agree, Done
      <4> QED BY <4>1, <4>2, <4>3, <4>4
    <3> QED BY <1>11, <3>1, <3>2
  <2>2. ASSUME NEW r \in ran' PROVE Judged(r[1])' /\ Meant(r)'
    <3>1. r \in ran \/ (r[1] = c /\ Meant(r))
      BY <2>1, <2>2, StartedIsMeant
    <3>2. (r \in ran => Judged(r[1])) /\ Meant(r)
      BY <1>0, <3>1
    <3>3. Judged(r[1]) => Judged(r[1])'
      BY <2>1 DEF Judged, NeedsNobody, NeedsConfirm
    <3>4. Judged(r[1])'
      BY <2>1, <3>1, <3>2, <3>3
    <3>5. Meant(r)'
      BY <2>1, <3>2 DEF Meant
    <3> QED BY <3>4, <3>5
  <2> QED BY <1>a, <2>2
<1> QED
  BY <1>2, <1>3, <1>4, <1>5, <1>6, <1>7, <1>8, <1>9, <1>10, <1>11 DEF Next

\* With the context cancelled ExecuteAction starts nothing, and the loop runs commands by it only.
LEMMA NothingStarts == AgentMode /\ cancelled /\ [Next]_vars => NoNewRun
<1> SUFFICES ASSUME AgentMode, cancelled, [Next]_vars PROVE NoNewRun
  OBVIOUS
<1> USE DEF NoNewRun
<1>1. CASE UNCHANGED vars
  BY <1>1 DEF vars, request, modes, records
<1>2. CASE Ask
  BY <1>2 DEF Ask, modes, records, Goto
<1>3. CASE AnswerSkill
  BY <1>3 DEF AnswerSkill, modes, records, Return, Goto
<1>4. CASE SkipThinking
  BY <1>4 DEF SkipThinking, modes, records, Goto
<1>5. CASE Think
  BY <1>5 DEF Think, modes, records, SendQuery
<1>6. CASE ThinkEnds
  BY <1>6 DEF ThinkEnds, modes, records
<1>7. CASE Refuse
  BY <1>7 DEF Refuse, modes, records, Return
<1>8. CASE StartLoop
  BY <1>8 DEF StartLoop, modes, records
<1>9. CASE StartQuery
  BY <1>9 DEF StartQuery, modes, records, Goto, SendQuery
<1>10. CASE StopLoop
  BY <1>10 DEF StopLoop, modes, records, Return
<1>11. CASE NextStep
  BY <1>11 DEF NextStep, modes, records, Goto
<1>12. CASE SendStep
  BY <1>12 DEF SendStep, modes, records, Goto, SendQuery
<1>13. CASE QueryEnds
  BY <1>13 DEF QueryEnds, modes, records, Return
<1>14. CASE Suggest
  BY <1>14 DEF Suggest, modes, records
<1>15. CASE Block
  BY <1>15 DEF Block, modes, records, Done
<1>16. CASE RunFreely
  BY <1>16 DEF RunFreely, modes, records, Done, ExecuteAction, Start
<1>17. CASE Agree
  BY <1>17 DEF Agree, modes, records, Done, ExecuteAction, Start
<1>18. CASE Decline
  BY <1>18 DEF Decline, modes, records, Done
<1>19. CASE Edit
  BY <1>19 DEF Edit, modes, records
<1>20. CASE EndOfActions
  BY <1>20 DEF EndOfActions, modes, records, Return
<1>21. CASE Cancel
  BY <1>21 DEF Cancel, modes, records
<1>22. CASE OtherQuery
  BY <1>22 DEF OtherQuery, modes, records
<1>23. CASE Clock
  BY <1>23 DEF Clock, modes, records
<1>30. CASE Learn
  BY <1>30 DEF Learn, modes, records
<1> QED
  BY <1>1, <1>2, <1>3, <1>4, <1>5, <1>6, <1>7, <1>8, <1>9, <1>10, <1>11, <1>12,
     <1>13, <1>14, <1>15, <1>16, <1>17, <1>18, <1>19, <1>20, <1>21, <1>22, <1>23, <1>30 DEF Next

-----------------------------------------------------------------------------
LEMMA InitKeeps ==
  Init => Typed /\ QueriesSoFar /\ LateSoFar /\ PromptFollowsRequest /\ OnlyConsentedRuns
<1> SUFFICES ASSUME Init
             PROVE  Typed /\ QueriesSoFar /\ LateSoFar /\ PromptFollowsRequest /\ OnlyConsentedRuns
  OBVIOUS
<1>a. pc = "idle" /\ step = 0 /\ queries = 0 /\ late = 0
  BY DEF Init
<1>b. MaxAgentSteps \in Nat /\ 0 \in 0..MaxAgentSteps
  BY RequestAssumption
<1>1. Typed
  BY <1>a, <1>b DEF Typed, Places
<1>2. QueriesSoFar
  <2>1. QueriesAreBounded
    BY <1>a, <1>b DEF QueriesAreBounded
  <2> QED BY <1>a, <1>b, <2>1 DEF QueriesSoFar
<1>3. LateSoFar
  BY <1>a, <1>b DEF LateSoFar
<1>4. PromptFollowsRequest
  BY DEF Init, PromptFollowsRequest, InLoop
<1>5. OnlyConsentedRuns
  BY DEF Init, OnlyConsentedRuns
<1> QED BY <1>1, <1>2, <1>3, <1>4, <1>5

(* RunAgentLoop and preThink: a request sends at most MaxAgentSteps + 1    *)
(* queries, whatever the model replies.                                    *)
THEOREM RequestsAreBounded == Spec => []QueriesAreBounded
<1>1. QueriesSoFar => QueriesAreBounded
  BY DEF QueriesSoFar
<1> QED BY <1>1, InitKeeps, TypedKept, QueriesKept, PTL DEF Spec

(* After SIGINT at most one more query goes out for the request, although  *)
(* Query passes its context to nobody.                                     *)
THEOREM CancelledSendsOne == Spec => []CancelLetsOneThrough
<1>1. LateSoFar => CancelLetsOneThrough
  BY DEF LateSoFar, CancelLetsOneThrough
<1> QED BY <1>1, InitKeeps, TypedKept, LateKept, PTL DEF Spec

(* The engine's system prompt is always the one the place of the request   *)
(* needs, and the default again when it is over.                           *)
THEOREM PromptIsReset == Spec => []PromptFollowsRequest
BY InitKeeps, TypedKept, PromptKept, PTL DEF Spec

(* After SIGINT the loop starts no command any more.                       *)
THEOREM CancelledStartsNothing == Spec => CancelStopsCommands
<1>1. [Next]_vars => [AgentMode /\ cancelled => NoNewRun]_vars
  BY NothingStarts
<1> QED BY <1>1, PTL DEF Spec, CancelStopsCommands, NoNewRun

-----------------------------------------------------------------------------
(* The types of all variables.  The limiter's are its own; the rest of the *)
(* request's depend on what is still to be handled, actions.               *)

Reset == Learn \/ Ask \/ AnswerSkill \/ SkipThinking \/ Refuse \/ StopLoop \/ NextStep \/ QueryEnds
Sends == Think \/ ThinkEnds \/ StartLoop \/ StartQuery \/ SendStep
Aside == Cancel \/ OtherQuery \/ Clock
Handles == Block \/ RunFreely \/ Agree \/ Decline

RecordsTyped ==
  /\ confirmed \subseteq Commands
  /\ audit \subseteq Commands \X (Decisions \cup {"pending"})
  /\ decided \subseteq Commands \X Decisions
  /\ skills \in SkillSets
  /\ ran \subseteq Commands \X (Commands \cup Scripts)

CountsTyped ==
  /\ queries \in Nat /\ late \in 0..queries /\ sent \in 0..MaxSent

FlagsTyped ==
  /\ AgentMode \in BOOLEAN /\ RequireConfirmation \in BOOLEAN /\ cancelled \in BOOLEAN
  /\ override \in {"", "think", "agent"}

\* Dropping repetitions makes no command that was not suggested.
LEMMA UniqueType == ASSUME NEW s \in Seq(Commands) PROVE Unique(s) \in Seq(Commands)
<1> DEFINE Step(u, c) == IF Contains(u, c) THEN u ELSE Append(u, c)
           N == Len(s)
           T == Seq(Commands)
           walk == [u \in T |-> [i \in 1..N |-> Step(u, s[i])]]
           Body(f) == [i \in 0..N |-> IF i = 0 THEN <<>> ELSE Step(f[i - 1], s[i])]
           seen == CHOOSE f : f = Body(f)
<1>1. N \in Nat /\ walk \in Bodies(T, N) /\ <<>> \in T
  BY DEF Bodies
<1>2. PICK f : IsRun(f, T, N, <<>>, walk)
  <2> HIDE DEF walk, N, T
  <2> QED BY <1>1, LoopExists
<1>3. f = Body(f)
  <2>1. ASSUME NEW i \in 1..N
        PROVE  f[i] = Step(f[i - 1], s[i])
    <3>1. f[i - 1] \in T /\ f[i] = walk[f[i - 1]][i]
      BY <1>2 DEF IsRun
    <3> HIDE DEF Step, T, N
    <3> QED BY <3>1
  <2> HIDE DEF Step
  <2> QED BY <1>1, <1>2, <2>1 DEF IsRun
<1>4. seen = Body(seen)
  <2> HIDE DEF Body
  <2> QED BY <1>3
<1>5. Unique(s) = seen[N]
  BY Zenon DEF Unique
<1> HIDE DEF seen
<1>6. seen[0] \in T
  BY <1>1, <1>4
<1>7. ASSUME NEW n \in 0..N - 1, seen[n] \in T
      PROVE  seen[n + 1] \in T
  <2>1. seen[n + 1] = Step(seen[n], s[n + 1])
    <3>1. n + 1 \in 0..N /\ n + 1 # 0 /\ (n + 1) - 1 = n
      OBVIOUS
    <3>2. seen[n + 1] = Body(seen)[n + 1]
      BY <1>4, Zenon
    <3> HIDE DEF Step, N
    <3> QED BY <3>1, <3>2
  <2>2. s[n + 1] \in Commands
    OBVIOUS
  <2> QED BY <2>1, <2>2, <1>7
<1>8. seen[N] \in T
  <2> DEFINE S == {n \in 0..N : seen[n] \in T}
  <2>1. 0 \in S
    BY <1>1, <1>6
  <2>2. \A n \in 0..N - 1 : n \in S => n + 1 \in S
    <3> HIDE DEF T, N
    <3> QED BY <1>1, <1>7
  <2>3. 0..N \subseteq S
    <3> HIDE DEF S, N
    <3> QED BY <1>1, <2>1, <2>2, LoopInvariant
  <2> QED BY <1>1, <2>3
<1> QED BY <1>5, <1>8

\* What the loop still has to handle are commands of the reply.
LEMMA ActionsKept == actions \in Seq(Commands) /\ [Next]_vars => actions' \in Seq(Commands)
<1> SUFFICES ASSUME actions \in Seq(Commands), [Next]_vars PROVE actions' \in Seq(Commands)
  OBVIOUS
<1>0. <<>> \in Seq(Commands)
  OBVIOUS
<1>1. CASE UNCHANGED vars
  BY <1>1 DEF vars, request
<1>2. CASE Reset
  BY <1>0, <1>2 DEF Reset, Learn, Ask, AnswerSkill, SkipThinking, Refuse, StopLoop, NextStep, QueryEnds, Return, Goto
<1>3. CASE Sends
  BY <1>3 DEF Sends, Think, ThinkEnds, StartLoop, StartQuery, SendStep, Goto
<1>4. CASE Aside
  BY <1>4 DEF Aside, Cancel, OtherQuery, Clock
<1>5. CASE Handles
  <2>1. actions # <<>> /\ actions' = Tail(actions)
    BY <1>5 DEF Handles, Block, RunFreely, Agree, Decline, Done
  <2> QED BY <2>1
<1>6. CASE Suggest
  <2>1. PICK r \in Replies \ {<<>>} : actions' = IF AgentMode THEN Unique(r) ELSE <<Head(r)>>
    BY <1>6 DEF Suggest
  <2>2. r \in Seq(Commands) /\ r # <<>>
    BY <2>1, RequestAssumption
  <2>3. <<Head(r)>> \in Seq(Commands)
    BY <2>2
  <2> QED BY <2>1, <2>2, <2>3, UniqueType
<1>7. CASE Edit
  <2>1. actions' = <<>> \/ \E c \in Commands : actions' = <<c>>
    BY <1>7 DEF Edit
  <2>2. \A c \in Commands : <<c>> \in Seq(Commands)
    OBVIOUS
  <2> QED BY <1>0, <2>1, <2>2
<1>8. CASE EndOfActions
  BY <1>0, <1>8 DEF EndOfActions, Return
<1> QED BY <1>1, <1>2, <1>3, <1>4, <1>5, <1>6, <1>7, <1>8 DEF Next, Reset, Sends, Aside, Handles

\* Only the handling of a command writes to the records.
LEMMA RecordsKept ==
  RecordsTyped /\ actions \in Seq(Commands) /\ [Next]_vars => RecordsTyped'
<1> SUFFICES ASSUME RecordsTyped, actions \in Seq(Commands), [Next]_vars PROVE RecordsTyped'
  OBVIOUS
<1> USE DEF RecordsTyped, Decisions
<1>1. CASE UNCHANGED vars
  BY <1>1 DEF vars, request
<1>2. CASE Reset
  BY <1>2 DEF Reset, Learn, Ask, AnswerSkill, SkipThinking, Refuse, StopLoop, NextStep, QueryEnds, records
<1>3. CASE Sends
  BY <1>3 DEF Sends, Think, ThinkEnds, StartLoop, StartQuery, SendStep, records
<1>4. CASE Aside
  BY <1>4 DEF Aside, Cancel, OtherQuery, Clock, records
<1>5. CASE Suggest \/ Edit \/ EndOfActions
  BY <1>5 DEF Suggest, Edit, EndOfActions, records
<1>6. CASE Handles
  <2> DEFINE c == Head(actions)
  <2>1. c \in Commands
    BY <1>6 DEF Handles, Block, RunFreely, Agree, Decline
  <2>a. Expand(c) \subseteq Commands \cup Scripts /\ {c} \subseteq Commands
    BY <2>1, ExpandType
  <2>b. UNCHANGED skills
    BY <1>6 DEF Handles, Block, RunFreely, Agree, Decline, Done
  <2> HIDE DEF c
  <2>2. CASE Block
    BY <2>1, <2>b, <2>2 DEF Block, Log, Decide, c
  <2>3. CASE RunFreely
    BY <2>1, <2>a, <2>b, <2>3 DEF RunFreely, Log, Decide, ExecuteAction, Start, c
  <2>4. CASE Agree
    BY <2>1, <2>a, <2>b, <2>4 DEF Agree, Log, Decide, ExecuteAction, Start, c
  <2>5. CASE Decline
    BY <2>1, <2>b, <2>5 DEF Decline, Log, Decide, c
  <2> QED BY <1>6, <2>2, <2>3, <2>4, <2>5 DEF Handles
<1> QED BY <1>1, <1>2, <1>3, <1>4, <1>5, <1>6 DEF Next, Reset, Sends, Aside, Handles

\* No more queries were sent late than were sent.
LEMMA CountsKept == CountsTyped /\ [Next]_vars => CountsTyped'
<1> SUFFICES ASSUME CountsTyped, [Next]_vars PROVE CountsTyped'
  OBVIOUS
<1> USE DEF CountsTyped
<1>0. MaxSent \in Nat
  BY RequestAssumption
<1>1. CASE UNCHANGED vars
  BY <1>1 DEF vars, request
<1>2. CASE Reset
  BY <1>2 DEF Reset, Learn, Ask, AnswerSkill, SkipThinking, Refuse, StopLoop, NextStep, QueryEnds
<1>3. CASE SendQuery
  BY <1>0, <1>3 DEF SendQuery, Sent
<1>4. CASE Sends
  BY <1>3, <1>4 DEF Sends, Think, ThinkEnds, StartLoop, StartQuery, SendStep
<1>5. CASE Aside
  BY <1>0, <1>5 DEF Aside, Cancel, OtherQuery, Clock, Sent
<1>6. CASE Suggest \/ Edit \/ EndOfActions
  BY <1>6 DEF Suggest, Edit, EndOfActions
<1>7. CASE Handles
  BY <1>7 DEF Handles, Block, RunFreely, Agree, Decline, Done
<1> QED BY <1>1, <1>2, <1>4, <1>5, <1>6, <1>7 DEF Next, Reset, Sends, Aside, Handles

\* The permissions do not change, and the override is one of three.
LEMMA FlagsKept == FlagsTyped /\ [Next]_vars => FlagsTyped'
<1> SUFFICES ASSUME FlagsTyped, [Next]_vars PROVE FlagsTyped'
  OBVIOUS
<1> USE DEF FlagsTyped, modes
<1>1. CASE UNCHANGED vars
  BY <1>1 DEF vars, request
<1>2. CASE Reset
  BY <1>2 DEF Reset, Learn, Ask, AnswerSkill, SkipThinking, Refuse, StopLoop, NextStep, QueryEnds, Return, Goto
<1>3. CASE Sends
  BY <1>3 DEF Sends, Think, ThinkEnds, StartLoop, StartQuery, SendStep, Goto
<1>4. CASE Aside
  BY <1>4 DEF Aside, Cancel, OtherQuery, Clock
<1>5. CASE Suggest \/ Edit \/ EndOfActions
  BY <1>5 DEF Suggest, Edit, EndOfActions, Return
<1>6. CASE Handles
  BY <1>6 DEF Handles, Block, RunFreely, Agree, Decline, Done
<1> QED BY <1>1, <1>2, <1>3, <1>4, <1>5, <1>6 DEF Next, Reset, Sends, Aside, Handles

(* No command runs without the consent its verdict asks for, neither in    *)
(* the loop nor by executeWithPermissions, and nothing runs for it but its *)
(* own text or, in the loop, the script of the skill it names.             *)
THEOREM ConsentIsAsked == Spec => []OnlyConsentedRuns
<1> DEFINE Rest == actions \in Seq(Commands) /\ RecordsTyped
<1>1. Init => Rest
  <2> SUFFICES ASSUME Init PROVE Rest
    OBVIOUS
  <2>1. actions = <<>>
    BY DEF Init
  <2>2. RecordsTyped
    BY DEF Init, RecordsTyped
  <2> QED BY <2>1, <2>2
<1>2. Rest /\ [Next]_vars => Rest'
  BY ActionsKept, RecordsKept
<1>3. Rest /\ OnlyConsentedRuns /\ [Next]_vars => OnlyConsentedRuns'
  BY ConsentKept DEF RecordsTyped
<1> HIDE DEF Rest
<1> QED BY <1>1, <1>2, <1>3, InitKeeps, PTL DEF Spec

(* Every variable of a request keeps its type: the loop's step stays within *)
(* MaxAgentSteps, it handles only commands of the reply, the records name   *)
(* only commands, and what was sent late was sent.                          *)
THEOREM RequestTypes == Spec => []TypeOK
<1> DEFINE Rest == actions \in Seq(Commands) /\ RecordsTyped /\ CountsTyped /\ FlagsTyped
<1>1. Init => Rest
  <2> SUFFICES ASSUME Init PROVE Rest
    OBVIOUS
  <2>1. actions \in Seq(Commands)
    <3>1. actions = <<>>
      BY DEF Init
    <3> QED BY <3>1
  <2>2. RecordsTyped
    BY DEF Init, RecordsTyped
  <2>3. CountsTyped
    <3>1. queries = 0 /\ late = 0 /\ sent = 0
      BY DEF Init
    <3> QED BY <3>1, RequestAssumption DEF CountsTyped
  <2>4. FlagsTyped
    BY DEF Init, FlagsTyped
  <2> QED BY <2>1, <2>2, <2>3, <2>4
<1>2. Rest /\ [Next]_vars => Rest'
  BY ActionsKept, RecordsKept, CountsKept, FlagsKept
<1>3. LimiterInv => LimiterTypeOK
  BY DEF LimiterInv
<1>4. LimiterTypeOK /\ Typed /\ Rest => TypeOK
  <2> SUFFICES ASSUME LimiterTypeOK, Typed, Rest PROVE TypeOK
    OBVIOUS
  <2>1. modes \in BOOLEAN \X BOOLEAN
    BY DEF FlagsTyped, modes
  <2> QED BY <2>1 DEF TypeOK, Typed, Places, RecordsTyped, CountsTyped, FlagsTyped
<1> HIDE DEF Rest
<1> QED BY <1>1, <1>2, <1>3, <1>4, InitKeeps, TypedKept, UsesTheLimiter, LimiterKept, PTL DEF Spec
=============================================================================
