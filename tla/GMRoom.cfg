SPECIFICATION Spec
CONSTANTS
  Strings <- MCStrings
  Empty = ""
  TrimmedTo <- MCTrimmedTo
  ChoiceIds = {"A", "B", "C", "D"}
  Stories = {s1, s2}
  Jobs = {j1, j2}
  None = None
  Providers = {"codex_cli", "hermes_api", "mock"}
  Answers <- MCAnswers
  Seed <- MCSeed
  MaxHolds = 1
  MaxDeaths = 1
INVARIANT TypeOK
INVARIANT CompletedIsShown
PROPERTY PatchHonoured
PROPERTY PollingEnds
CHECK_DEADLOCK FALSE
