\* The log of the loop says pending, whatever the user answers.
SPECIFICATION Spec
CONSTANTS
  MaxPerMinute = 1
  MaxPerHour = 2
  Minute = 2
  Hour = 3
  Commands = {"ls", "mv", "dd", "skill"}
  Skills = {"skill"}
  Scripts = {"one"}
  CheckCommand <- Check
  ClassifyAction <- Classify
  Replies <- FewReplies
  MaxAgentSteps = 2
  MaxTime = 2
  MaxSent = 1
  MaxOthers = 0
INVARIANTS EveryDecisionAudited
