\* One generation with many inputs, and three overlapping ones; two ticks are the timeout.
SPECIFICATION CommitSpec
CONSTANTS
  Gens = {g1, g2, g3}
  NoGen = NoGen
  Cases <- TheCases
  Context = 2
  MarkerSize = 1
  MaxBlocks = 2
  MaxRecent = 3
  MaxExamples = 2
  Idle = 2
  MaxAir = 2
CHECK_DEADLOCK FALSE
INVARIANTS HunksApply PromptTrue
PROPERTIES TimedOutIfSilent AgentStops
