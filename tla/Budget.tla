------------------------------- MODULE Budget -------------------------------
(***************************************************************************)
(* What a budget says: the limits of cost_guard.go, the three layers they  *)
(* come from, the decision the guard takes on them, and the level the      *)
(* prompt shows (cost_builtins.go).  Operators only: the modules about the *)
(* running system take their decisions from here.                          *)
(*                                                                         *)
(* Amounts are integers: tokens, and US cents for USD.  A limit may be any *)
(* integer: ki:budget and the web handler parse a sign and check no range. *)
(***************************************************************************)
EXTENDS Integers

CONSTANTS CfgCostLimit,   \* ki.cost_limit of config.yaml in cents, 0 if not set
          CfgMaxTokens    \* ki.max_tokens of config.yaml, 0 if not set

ASSUME ConfigAssumption == CfgCostLimit \in Int /\ CfgMaxTokens \in Int

LimitKeys == {"tokensRun", "softRun", "sparRun", "usdRun",
              "tokensDay", "usdDay", "usdMonth", "confirm"}

\* The limits PreCheck compares with booked usage.
Meters == {"usdDay", "tokensDay", "usdMonth"}

-----------------------------------------------------------------------------
(* budget.json: the fields that are set, and the killswitch.  An absent    *)
(* killswitch and "false" mean the same to every reader.                   *)
IsOverrides(ov) ==
  /\ ov.kill \in BOOLEAN
  /\ DOMAIN ov.lim \subseteq LimitKeys
  /\ \A k \in DOMAIN ov.lim : ov.lim[k] \in Int

NoOverrides == [kill |-> FALSE, lim |-> <<>>]

\* The file as a reader finds it; "ov" is NoOverrides unless it is readable.
IsBudgetFile(f) ==
  /\ f.state \in {"missing", "readable", "empty", "garbled"}
  /\ IsOverrides(f.ov)
  /\ f.state # "readable" => f.ov = NoOverrides

MissingFile == [state |-> "missing", ov |-> NoOverrides]
EmptyFile   == [state |-> "empty", ov |-> NoOverrides]
GarbledFile == [state |-> "garbled", ov |-> NoOverrides]
FileOf(ov)  == [state |-> "readable", ov |-> ov]

\* loadBudgetOverrides: a missing file is an empty budget; a file that is not
\* JSON (nor is an empty one) is an error.
Loads(f)  == f.state \in {"missing", "readable"}
KillOn(f) == f.state = "readable" /\ f.ov.kill

-----------------------------------------------------------------------------
defaultCostLimits ==
  [tokensRun |-> 50000, softRun |-> 40000, sparRun |-> 45000, usdRun |-> 100,
   tokensDay |-> 500000, usdDay |-> 500, usdMonth |-> 5000, confirm |-> 10]

Layer(top, base) ==
  [k \in DOMAIN top \cup DOMAIN base |-> IF k \in DOMAIN top THEN top[k] ELSE base[k]]

\* Go's integer division truncates towards zero.
Quo(a, b) == IF a >= 0 THEN a \div b ELSE -((-a) \div b)

RunTokenLimits_WrongField(hard) == [max_tokens |-> hard, softRun |-> 0, sparRun |-> 0]
RunTokenLimits_HardOnly(hard) == [tokensRun |-> hard]

\* A run-token ceiling always brings its two thresholds along.
RunTokenLimits(hard) ==
  [tokensRun |-> hard, softRun |-> Quo(hard * 80, 100), sparRun |-> Quo(hard * 90, 100)]

ConfigLimits ==
  LET cost   == IF CfgCostLimit > 0 THEN [usdMonth |-> CfgCostLimit] ELSE <<>>
      tokens == IF CfgMaxTokens > 0 THEN RunTokenLimits(CfgMaxTokens) ELSE <<>>
  IN  Layer(tokens, Layer(cost, defaultCostLimits))

effectiveLimits(ov) == Layer(ov.lim, ConfigLimits)

-----------------------------------------------------------------------------
OverLimit_Exclusive(limits, used) == \E m \in Meters : used[m] > limits[m]

\* PreCheck, level 4: the comparisons, given what was read.
OverLimit(limits, used) == \E m \in Meters : used[m] >= limits[m]

\* The verdict on a query that runs alone, from budget file to decision.
Refuses(f, used) ==
  \/ ~Loads(f)
  \/ KillOn(f)
  \/ OverLimit(effectiveLimits(f.ov), used)

Reached_Exclusive(limits, used, m) == limits[m] > 0 /\ used[m] > limits[m]

(* budgetStatus: a ceiling of zero or less is skipped here, and 80% of the *)
(* month is a warning.                                                     *)
Reached(limits, used, m) == limits[m] > 0 /\ used[m] >= limits[m]

(* The engine is a stub until the first request of the session asks for    *)
(* it; while it is, only what budget.json says by itself is shown.         *)
budgetStatus(engine, f, used) ==
  LET limits == effectiveLimits(f.ov) IN
  IF ~Loads(f) \/ KillOn(f) THEN "block"
  ELSE IF engine = "stub" THEN "ok"
  ELSE IF Reached(limits, used, "usdMonth") THEN "block"
  ELSE IF limits["usdMonth"] > 0 /\ used["usdMonth"] * 10 >= limits["usdMonth"] * 8
       THEN "warn"
  ELSE IF Reached(limits, used, "usdDay") \/ Reached(limits, used, "tokensDay")
       THEN "block"
  ELSE "ok"
=============================================================================
