CONSTANTS
  NCtx = 4
  NBatch = 2
  Wrap = 4
  MaxPrompt = 3
  MaxPredict = 2
  MaxRuns = 2
SPECIFICATION FairSpec
CHECK_DEADLOCK FALSE
INVARIANT StopWordsEnd

