\* A stream that breaks before its usage chunk.
SPECIFICATION Spec
CONSTANTS
  Configured = 1
  RetryAfters = {2}
  MaxDeltas = 2
  Second = 3
  Wrap = 128
INVARIANTS SuccessReportsUsage
