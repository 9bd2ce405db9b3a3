\* A request that is processed, and sent again because its reply got lost.
SPECIFICATION Spec
CONSTANTS
  Configured = 1
  RetryAfters = {2}
  MaxDeltas = 1
  Second = 3
  Wrap = 128
INVARIANTS NoDoubleCost
