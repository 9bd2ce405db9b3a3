\* A session, a request or a server may come to its end.
SPECIFICATION ShellSpec
CONSTANTS
  ExecStmt <- MCExecStmt
  Scripts <- MCScripts
  Lines <- MCLines
  KeyboardLines <- MCKeyboard
  Shells = {"p", "q"}
  Files = {"config", "history", "usage"}
  Legacy = {"config", "history"}
  Defaults = {"config"}
  MaxRestarts = 1
  TypedLines <- MCTyped
  MaxTyped = 4
  MaxContext = 2
  MaxRuns = 3
  MaxSignals = 3
  MaxServers = 3
  Patient = TRUE
  Users = {"prompt", "web"}
  MaxFiles = 2
  MinSize = 1
  MaxSize = 2
  HistoryCap = 2
  MaxEntries = 6
  MaxDays = 1
  MaxConversation = 2
  MaxDialog = 3
  SkillScripts = {"s1", "s2"}
  SkillNames = {"a", "b", "c", "C"}
  SkillFile <- MCFileOf
  Directory <- MCDirectory
  SkillWords <- MCWords
  Queries <- MCQueries
  MaxEvents = 5
INVARIANTS
  ControlFlow NothingLeftBehind ListsSharedOnlyByAppend LoopsEndWithTheShell
  ScopesClose DirStackFollows TrapsAreTransparent
  LinesWait 
  EveryLineOnce InterruptsAreHeard RunningIsKnown RecordsAreKept
  LearnsTheNewest MatchIsClear OriginalsSurvive
PROPERTIES RecallsTheSame
CHECK_DEADLOCK FALSE
