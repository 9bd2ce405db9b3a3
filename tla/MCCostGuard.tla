---------------------------- MODULE MCCostGuard ----------------------------
(* Instances of CostGuard for TLC: amounts of a few cents and tokens.       *)
EXTENDS CostGuard

Budget(kill, lim) == FileOf([kill |-> kill, lim |-> lim])

\* A month of 3 cents, a day of 2 cents and 3 tokens.
Tight    == Budget(FALSE, [usdMonth |-> 3, usdDay |-> 2, tokensDay |-> 3])
OneCent  == Budget(FALSE, [usdDay |-> 1])
KilledDay == Budget(TRUE, [usdDay |-> 1])
TwoDays  == Budget(FALSE, [usdMonth |-> 5, usdDay |-> 2])

AnyBudget       == {OneCent, KilledDay, GarbledFile}
OneBudget       == {Tight}
TwoDayBudget    == {TwoDays}
=============================================================================
