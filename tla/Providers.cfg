\* Three requests of any kind, and any number of agents killed.
SPECIFICATION FairSpec
CONSTANTS
  MaxRequests = 3
  Nil = Nil
CHECK_DEADLOCK FALSE
INVARIANTS NoHalfPatch PatchesSeen RegistryFresh
PROPERTIES RequestsAnswered
