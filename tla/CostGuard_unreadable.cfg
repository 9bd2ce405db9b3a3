\* A usage query may fail; the comment says the call is then refused.
SPECIFICATION Spec
CONSTANTS
  Callers = {a, b}
  Contents <- OneBudget
  CfgCostLimit = 3
  CfgMaxTokens = 0
  MaxTokens = 2
  MaxRetries = 1
  Price = 1
  Faults = {"dbRead"}
  MaxFaults = 1
PROPERTIES UnreadableUsageRefuses
