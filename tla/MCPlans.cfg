CONSTANTS
  Modules <- Mods
  NLines = 3
  Trees = {1, 2}
  Weight <- Weights
  Problems <- MCProblems
  Requests <- MCRequests
  Queues <- MCQueues
SPECIFICATION PlansSpec
INVARIANT BuiltInOneShard
INVARIANT RootsBuiltByTheirLines
INVARIANT LoadsAreQuiet
INVARIANT BatchesBuildApart
INVARIANT MergesInOrder
CHECK_DEADLOCK FALSE
