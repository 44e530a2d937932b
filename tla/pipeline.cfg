CONSTANTS
  TESTS = 2
  EDITS = 1
  Correct <- MCCorrect
  Endless <- MCEndless
SPECIFICATION PipelineSpec
INVARIANTS
  PipelineTypeOK
  PassIsEarned
  ChainAgrees
  UpToDateIsCurrent
  EveryTestIsJudged
PROPERTY CommandsEnd
