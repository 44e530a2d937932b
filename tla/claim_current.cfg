CONSTANTS
  TESTS = 1
  EDITS = 1
  Correct <- MCCorrect
  Endless <- MCEndless
SPECIFICATION PipelineSpec
INVARIANT CompleteIsCurrent
