\* Two updates at once: one forgets the other's fields.
SPECIFICATION Spec
CONSTANTS
  CfgCostLimit = 0
  CfgMaxTokens = 0
  Writers = {u, v}
  Edits <- FewEdits
  MaxUpdates = 2
  MaxFailures = 0
INVARIANTS OmittedFieldsKeepTheirValue
\* All updates may have been made.
CHECK_DEADLOCK FALSE
