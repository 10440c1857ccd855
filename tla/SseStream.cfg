CONSTANTS
  MaxTokens = 5
SPECIFICATION FairStreamSpec
CHECK_DEADLOCK FALSE
INVARIANTS LinesInOrder
PROPERTIES ImplementsTokenStream StreamEnds
