\* Two callers, calls of one token that are attempted up to twice, every kind of fault;
\* the budget is killed and broken (no symmetry under liveness).
SPECIFICATION FairSpec
CONSTANTS
  Callers = {a, b}
  Contents <- AnyBudget
  CfgCostLimit = 2
  CfgMaxTokens = 0
  MaxTokens = 1
  MaxRetries = 1
  Price = 1
  Faults = {"dbRead", "dbWrite", "cutShort", "crash"}
  MaxFaults = 1
INVARIANTS TypeOK BoundedOvershoot KillswitchDrains BooksFollowSpending PromptIsTruthful
PROPERTIES QueryEnds KillswitchSilences
