CONSTANTS
  NCtx = 4
  NBatch = 2
  Wrap = 4
  MaxPrompt = 5
  MaxPredict = 3
  MaxRuns = 2
SPECIFICATION FairSpec
CHECK_DEADLOCK FALSE
INVARIANTS TypeOK CacheKnown Streamed
PROPERTIES CompletionsEnd InterruptEnds
