\* Two calls with a finite timeout, and one close().
SPECIFICATION FairSpec
CONSTANTS
  Calls = {c1, c2}
  HasTimeout = TRUE
  Nil = Nil
CHECK_DEADLOCK FALSE
INVARIANTS
  SentIsAnswerable
  NoLeak
  OneCancel
PROPERTIES
  SentSettles
