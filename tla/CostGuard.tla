----------------------------- MODULE CostGuard ------------------------------
(***************************************************************************)
(* ProviderEngine.Query (ki_provider.go) and the cost guard it builds for  *)
(* every call (cost_guard.go), run by several callers at once: the REPL    *)
(* and its agent loop, a pipeline stage, one goroutine per web request,    *)
(* and other aish processes that share ~/.aish.                            *)
(*                                                                         *)
(* Nothing is locked between the check and the booking, so every read the  *)
(* guard takes is a step of its own: budget.json, the three usage queries, *)
(* the call itself (up to 120 s per attempt) and the booking.  budget.json *)
(* is changed by others at any moment; BudgetStore says how.               *)
(***************************************************************************)
EXTENDS Budget, FiniteSets

CONSTANTS Callers,     \* whoever may be inside Query at the same time
          Contents,    \* the budgets that budget.json may come to hold
          MaxTokens,   \* the most tokens one attempt of a call can use
          MaxRetries,  \* how often a call is attempted again
          Price,       \* cents per token of the model; 0 if it has no price
          Faults,      \* the faults that may occur, a subset of FaultKinds
          MaxFaults    \* bound: how many of them occur in one behaviour

FaultKinds == {"dbRead", "dbWrite", "cutShort", "crash"}

ASSUME CallersAssumption == IsFiniteSet(Callers) /\ Callers # {}
ASSUME ContentsAssumption == \A f \in Contents : IsBudgetFile(f)
ASSUME AmountsAssumption == MaxTokens \in Nat \ {0} /\ MaxRetries \in Nat /\ Price \in Nat
ASSUME FaultsAssumption == Faults \subseteq FaultKinds /\ MaxFaults \in Nat

VARIABLES
  file,       \* budget.json
  dbOpen,     \* FALSE: NewDB failed and the engine's db is nil
  engine,     \* kiEngine of the shell whose prompt is shown
  booked,     \* what the queries on usage_log return, per meter
  pc,         \* where each caller is in Query
  guard,      \* the limits of the caller's CostGuard
  snap,       \* the usage the caller has read so far, per meter
  used,       \* the tokens reported to the caller for its call
  result,     \* how the caller's query ended, or the one before
  spent,      \* (history) what the provider really charged, per meter
  ceiling,    \* (history) the highest limit any guard was built with
  late,       \* (history) calls started since the killswitch was thrown, up to 2
  faults      \* (bound) faults still to occur

store   == <<file, dbOpen, engine, booked>>
locals  == <<guard, snap, used>>
history == <<spent, ceiling, late>>
vars    == <<store, pc, locals, result, history, faults>>

Stages == {"idle", "usd", "tokens", "month", "decide", "call", "book", "record"}

CostForTokens(t) == Price * t

Charge_Negated(t) == [m \in Meters |-> IF m = "tokensDay" THEN -t ELSE -CostForTokens(t)]

\* What a row of usage_log adds to the sums of the three usage queries.
Charge(t) == [m \in Meters |-> IF m = "tokensDay" THEN t ELSE CostForTokens(t)]

\* The most an attempt adds to a meter (for an unpriced model: a bound on the zero).
MaxCharge(m) == IF m = "tokensDay" \/ Price = 0 THEN MaxTokens ELSE CostForTokens(MaxTokens)

NoUsage == [m \in Meters |-> 0]
MeterLimits(ov) == [m \in Meters |-> effectiveLimits(ov)[m]]
Larger(a, b) == IF a >= b THEN a ELSE b

\* (bound) late calls are counted up to two, one more than there may be.
OneMore(n) == IF n < 2 THEN n + 1 ELSE n

Goto(c, stage) == pc' = [pc EXCEPT ![c] = stage]

\* Query returns: its guard and its local variables are gone.
Leave(c) ==
  /\ Goto(c, "idle")
  /\ guard' = [guard EXCEPT ![c] = NoUsage]
  /\ snap' = [snap EXCEPT ![c] = NoUsage]
  /\ used' = [used EXCEPT ![c] = 0]

Refuse(c) ==
  /\ Leave(c)
  /\ result' = [result EXCEPT ![c] = "refused"]
  /\ UNCHANGED <<store, history, faults>>

Fault(kind) == kind \in Faults /\ faults > 0 /\ faults' = faults - 1

-----------------------------------------------------------------------------
Init ==
  /\ file \in Contents
  /\ dbOpen \in BOOLEAN
  /\ engine = "stub"
  /\ booked = NoUsage
  /\ pc = [c \in Callers |-> "idle"]
  /\ guard = [c \in Callers |-> NoUsage]
  /\ snap = [c \in Callers |-> NoUsage]
  /\ used = [c \in Callers |-> 0]
  /\ result = [c \in Callers |-> "none"]
  /\ spent = NoUsage
  /\ ceiling = NoUsage
  /\ late = [c \in Callers |-> 0]
  /\ faults = MaxFaults

\* newCostGuard on a budget.json it cannot read: there will be no guard.
LoadFails(c) == pc[c] = "idle" /\ ~Loads(file) /\ Refuse(c)

\* newCostGuard succeeds, and PreCheck finds the killswitch on in its copy.
BlockKilled(c) == pc[c] = "idle" /\ KillOn(file) /\ Refuse(c)

BuildGuard_IgnoresKillswitch(c) ==
  /\ pc[c] = "idle"
  /\ Loads(file)
  /\ guard' = [guard EXCEPT ![c] = MeterLimits(file.ov)]
  /\ ceiling' = [m \in Meters |-> Larger(ceiling[m], MeterLimits(file.ov)[m])]
  /\ result' = [result EXCEPT ![c] = "none"]
  /\ Goto(c, "usd")
  /\ UNCHANGED <<store, snap, used, spent, late, faults>>

\* newCostGuard succeeds; the guard keeps the limits as they are in the file.
BuildGuard(c) ==
  /\ pc[c] = "idle"
  /\ Loads(file) /\ ~KillOn(file)
  /\ guard' = [guard EXCEPT ![c] = MeterLimits(file.ov)]
  /\ ceiling' = [m \in Meters |-> Larger(ceiling[m], MeterLimits(file.ov)[m])]
  /\ result' = [result EXCEPT ![c] = "none"]
  /\ Goto(c, "usd")
  /\ UNCHANGED <<store, snap, used, spent, late, faults>>

(* One usage query.  TodayStats and Stats drop the error of Scan, so a     *)
(* query that fails (SQLITE_BUSY, I/O) returns 0 instead of an error.      *)
ReadMeter(c, stage, m, next) ==
  /\ pc[c] = stage
  /\ dbOpen
  /\ \/ snap' = [snap EXCEPT ![c][m] = booked[m]] /\ UNCHANGED faults
     \/ snap' = [snap EXCEPT ![c][m] = 0] /\ Fault("dbRead")
  /\ Goto(c, next)
  /\ UNCHANGED <<store, guard, used, result, history>>

ReadTodayUsd(c)    == ReadMeter(c, "usd", "usdDay", "tokens")
ReadTodayTokens(c) == ReadMeter(c, "tokens", "tokensDay", "month")
ReadMonthUsd(c)    == ReadMeter(c, "month", "usdMonth", "decide")

\* Without a db the first read already is an error, and PreCheck refuses.
ReadFails(c) == pc[c] = "usd" /\ ~dbOpen /\ Refuse(c)

Block_Waits(c) ==
  /\ pc[c] = "decide"
  /\ OverLimit(guard[c], snap[c])
  /\ Goto(c, "usd")
  /\ UNCHANGED <<store, locals, result, history, faults>>

\* The end of PreCheck.
Block(c) == pc[c] = "decide" /\ OverLimit(guard[c], snap[c]) /\ Refuse(c)

Approve(c) ==
  /\ pc[c] = "decide"
  /\ ~OverLimit(guard[c], snap[c])
  /\ Goto(c, "call")
  /\ late' = [late EXCEPT ![c] = IF KillOn(file) THEN OneMore(@) ELSE 0]
  /\ UNCHANGED <<store, locals, result, spent, ceiling, faults>>

(* The call: ChatStream, abstracted to its outcome (ChatStream.tla has the *)
(* detail).  The provider may process, and charge for, an attempt whose    *)
(* usage never arrives: doWithRetry sends the request again after an error *)
(* of the transport or a 5xx; a reply or a stream breaks off.  "reported"  *)
(* is the usage that does arrive, "n" the attempts that are lost.          *)
Charged(reported, n) ==
  /\ n = 0 \/ "cutShort" \in Faults
  /\ n <= faults /\ faults' = faults - n
  /\ \E lost \in n..(n * MaxTokens) :
       spent' = [m \in Meters |-> spent[m] + Charge(reported + lost)[m]]

CallOk_UsageDropped(c) ==
  /\ pc[c] = "call"
  /\ \E t \in 1..MaxTokens, n \in 0..MaxRetries : Charged(t, n)
  /\ result' = [result EXCEPT ![c] = "ok"]
  /\ Goto(c, "book")
  /\ UNCHANGED <<store, locals, ceiling, late>>

\* The stream of the last attempt ends with its usage chunk.
CallOk(c) ==
  /\ pc[c] = "call"
  /\ \E t \in 1..MaxTokens, n \in 0..MaxRetries :
       Charged(t, n) /\ used' = [used EXCEPT ![c] = t]
  /\ result' = [result EXCEPT ![c] = "ok"]
  /\ Goto(c, "book")
  /\ UNCHANGED <<store, guard, snap, ceiling, late>>

\* The call fails and none of its attempts was charged.
CallFails(c) ==
  /\ pc[c] = "call"
  /\ result' = [result EXCEPT ![c] = "error"]
  /\ Goto(c, "book")
  /\ UNCHANGED <<store, locals, history, faults>>

(* Attempts were charged and no usage arrives: the call fails in the end,  *)
(* or its stream breaks before the usage chunk, which is no error:         *)
(* scanSSE ignores the reader's, and ChatStream returns nil.               *)
CutShort(c) ==
  /\ pc[c] = "call"
  /\ \E n \in 1..(MaxRetries + 1) : Charged(0, n)
  /\ \E r \in {"ok", "error"} : result' = [result EXCEPT ![c] = r]
  /\ Goto(c, "book")
  /\ UNCHANGED <<store, locals, ceiling, late>>

(* db.LogUsage (a caller without a db was refused before).  It drops the   *)
(* error of Exec, so a failed INSERT loses the row.                        *)
LogUsage(c) ==
  /\ pc[c] = "book"
  /\ \/ /\ booked' = [m \in Meters |-> booked[m] + Charge(used[c])[m]]
        /\ UNCHANGED faults
     \/ Fault("dbWrite") /\ UNCHANGED booked
  /\ Goto(c, "record")
  /\ UNCHANGED <<file, dbOpen, engine, locals, result, history>>

\* The records of the call (audit, action log, conversation); Query returns.
RecordUsage(c) ==
  /\ pc[c] = "record"
  /\ Leave(c)
  /\ UNCHANGED <<store, result, history, faults>>

-----------------------------------------------------------------------------
(* The process of a caller dies in the middle of a query and is started    *)
(* anew (in the call, after a charge: as if it had ended and then died).   *)
Crash(c) ==
  /\ pc[c] # "idle"
  /\ Fault("crash")
  /\ Leave(c)
  /\ result' = [result EXCEPT ![c] = "none"]
  /\ UNCHANGED <<store, history>>

\* ki:budget, ki:killswitch, the web UI or an editor changes budget.json.
ChangeBudget ==
  /\ file' \in Contents \ {file}
  /\ late' = IF KillOn(file) /\ KillOn(file') THEN late ELSE [c \in Callers |-> 0]
  /\ UNCHANGED <<dbOpen, engine, booked, pc, locals, result, spent, ceiling, faults>>

\* The tokens of the calls that ended and are not logged yet.
Unlogged ==
  {token \in Callers \X (1..MaxTokens) :
     pc[token[1]] = "book" /\ token[2] <= used[token[1]]}

(* TodayStats selects rows by the UTC date of the moment.  A call counts   *)
(* for the day its row is written.                                         *)
Midnight ==
  /\ booked' = [m \in Meters |-> IF m = "usdMonth" THEN booked[m] ELSE 0]
  /\ spent' = [m \in Meters |-> IF m = "usdMonth" THEN spent[m]
                                ELSE Charge(Cardinality(Unlogged))[m]]
  /\ UNCHANGED <<file, dbOpen, engine, pc, locals, result, ceiling, late, faults>>

\* The shell's first request to its own engine; it may have no provider.
ensureKIEngine ==
  /\ engine = "stub"
  /\ engine' = "provider"
  /\ UNCHANGED <<file, dbOpen, booked, pc, locals, result, history, faults>>

\* What a caller's goroutine does.
Step(c) ==
  \/ LoadFails(c) \/ BlockKilled(c) \/ BuildGuard(c)
  \/ ReadTodayUsd(c) \/ ReadTodayTokens(c) \/ ReadMonthUsd(c) \/ ReadFails(c)
  \/ Block(c) \/ Approve(c)
  \/ CallOk(c) \/ CallFails(c) \/ CutShort(c)
  \/ LogUsage(c) \/ RecordUsage(c)

Next ==
  \/ \E c \in Callers : Step(c) \/ Crash(c)
  \/ ChangeBudget
  \/ Midnight
  \/ ensureKIEngine

Spec == Init /\ [][Next]_vars

\* A query that began runs on: net/http bounds each attempt by 120 s.
FairSpec == Spec /\ \A c \in Callers : WF_vars(pc[c] # "idle" /\ Step(c))

-----------------------------------------------------------------------------
TypeOK ==
  /\ file \in Contents
  /\ dbOpen \in BOOLEAN
  /\ engine \in {"stub", "provider"}
  /\ booked \in [Meters -> Nat]
  /\ pc \in [Callers -> Stages]
  /\ guard \in [Callers -> [Meters -> Int]]
  /\ snap \in [Callers -> [Meters -> Nat]]
  /\ used \in [Callers -> 0..MaxTokens]
  /\ result \in [Callers -> {"none", "refused", "ok", "error"}]
  /\ spent \in [Meters -> Nat]
  /\ ceiling \in [Meters -> Nat]
  /\ late \in [Callers -> 0..2]
  /\ faults \in 0..MaxFaults

\* The faults that occurred so far.
Occurred == MaxFaults - faults

(* The guard checks first and books last, with nothing held in between, so *)
(* callers that run together pass the same check; a usage query that fails *)
(* lets one more through; and what an attempt cost is forgotten when its   *)
(* usage never arrives, its row is not written or the process dies.  What  *)
(* the provider really charges is bounded all the same, on each of the     *)
(* three limits: it exceeds the highest limit any guard was given by less  *)
(* than one attempt for each caller and one for each fault that occurred.  *)
BoundedOvershoot ==
  \A m \in Meters :
    spent[m] < ceiling[m] + (Cardinality(Callers) + Occurred) * MaxCharge(m)

(* The killswitch cannot stop a caller that built its guard before, but it *)
(* stops that caller's next query: while it stays on, each caller starts   *)
(* one more call at the most.                                              *)
KillswitchDrains == KillOn(file) => \A c \in Callers : late[c] <= 1

(* The books against what the provider charged.  Nothing is booked that    *)
(* was not charged, and nothing twice; and what was charged is booked, or  *)
(* is about to be, but for the attempts that a fault took: a write that    *)
(* failed, a crash before it, an attempt without usage, each one attempt.  *)
BooksFollowSpending ==
  \A m \in Meters :
    LET known == booked[m] + Charge(Cardinality(Unlogged))[m]
    IN  known <= spent[m] /\ spent[m] <= known + Occurred * MaxCharge(m)

(* The prompt against the guard (budgetStatus against PreCheck, each with  *)
(* its own comparisons on the same file and usage): "block" is shown only  *)
(* if the next query would be refused, and "ok" only if it would be let    *)
(* through, once the engine is there, while no limit is zero or negative,  *)
(* the database is open and no warning is shown.  Without a database the   *)
(* prompt is given no usage.                                               *)
PositiveLimits(f) == \A m \in Meters : effectiveLimits(f.ov)[m] > 0

PromptLevel == budgetStatus(engine, file, IF dbOpen THEN booked ELSE NoUsage)

PromptIsTruthful ==
  /\ PromptLevel = "block" => Refuses(file, booked)
  /\ engine = "provider" /\ dbOpen /\ PositiveLimits(file) /\ PromptLevel = "ok"
       => ~Refuses(file, booked)

\* Every query ends, refused or not: nothing in Query waits for a budget.
QueryEnds == \A c \in Callers : pc[c] # "idle" ~> pc[c] = "idle"

\* Once the killswitch stays on, in the end no call is being made.
KillswitchSilences ==
  <>[]KillOn(file) => <>[](\A c \in Callers : pc[c] # "call")

-----------------------------------------------------------------------------
(* What comments promise and the code does not keep; a run refutes each.   *)

(* cost_guard.go: "On any limit breach OR any error reading usage/budget,  *)
(* the call is refused."  A caller whose usage query fails returns.        *)
UnreadableUsageRefuses ==
  [][\A c \in Callers :
       pc[c] \in {"usd", "tokens", "month"} /\ pc'[c] # pc[c] /\ faults' < faults
         => pc'[c] = "idle"]_vars

(* cost_builtins.go: budgetBlock means "killswitch on OR a hard limit      *)
(* reached": it is shown when the next query would be refused.             *)
PromptShowsEveryBlock ==
  engine = "provider" /\ PositiveLimits(file) /\ Refuses(file, booked)
    => PromptLevel = "block"
=============================================================================
