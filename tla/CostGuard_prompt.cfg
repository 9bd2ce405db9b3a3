\* The month at 80% hides a reached day limit.
SPECIFICATION Spec
CONSTANTS
  Callers = {a, b}
  Contents <- TwoDayBudget
  CfgCostLimit = 3
  CfgMaxTokens = 0
  MaxTokens = 2
  MaxRetries = 1
  Price = 1
  Faults = {}
  MaxFaults = 0
INVARIANTS PromptShowsEveryBlock
