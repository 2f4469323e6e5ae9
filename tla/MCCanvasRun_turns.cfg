SPECIFICATION Spec
CONSTANTS
  Ids <- MCIds
  Graphs <- MCGraphs
  max_loop = 2
  MaxTurns = 2
INVARIANT TypeOK
INVARIANT InputsHaveRun
INVARIANT NothingIsForgotten
PROPERTY TurnEnds
CHECK_DEADLOCK FALSE
