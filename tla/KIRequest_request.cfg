\* Requests one after the other across the edges of both windows.
SPECIFICATION Spec
CONSTANTS
  MaxPerMinute = 2
  MaxPerHour = 3
  Minute = 2
  Hour = 4
  Commands = {"ls", "mv", "dd", "skill"}
  Skills = {"skill"}
  Scripts = {"one", "two"}
  CheckCommand <- Check
  ClassifyAction <- Classify
  Replies <- SomeReplies
  MaxAgentSteps = 2
  MaxTime = 5
  MaxSent = 1
  MaxOthers = 1
INVARIANTS TypeOK GrantsPerWindow QueriesAreBounded CancelLetsOneThrough OnlyConsentedRuns PromptFollowsRequest
PROPERTIES CancelStopsCommands
