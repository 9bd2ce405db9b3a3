\* The default of 3 retries; Retry-After below, at and above the cap.
SPECIFICATION Spec
CONSTANTS
  Configured = 0
  RetryAfters = {2, 8, 40}
  MaxDeltas = 2
  Second = 3
  Wrap = 128
INVARIANTS TypeOK BodiesClosed WaitsAreBounded NoDuplicatedOutput
PROPERTIES ImplementsProviderCall
