\* Two writers, three updates, a crash or a failed write.
SPECIFICATION Spec
CONSTANTS
  CfgCostLimit = 0
  CfgMaxTokens = 0
  Writers = {u, v}
  Edits <- AllEdits
  MaxUpdates = 3
  MaxFailures = 1
INVARIANTS TypeOK ReadersSeeWantedOrRefuse ThresholdsOrdered
PROPERTIES BrokenStaysClosed
\* All updates may have been made.
CHECK_DEADLOCK FALSE
