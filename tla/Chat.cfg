\* Two sessions (one with a file, one that createChatSession makes), two
\* messages, one suspended call and one question at a time, one live runtime.
SPECIFICATION FairSpec
CONSTANTS
  Sessions = {s1, s2}
  NewSessions = {s2}
  Messages = {m1, m2}
  Records = {r1, r2}
  Runtimes = {t1, t2}
  Calls = {c1}
  Questions = {a1}
  MaxRuntimes = 1
  MaxTails = 1
  Outcomes = {"error"}
  LateAnswers = FALSE
  Nil = Nil
CHECK_DEADLOCK FALSE
INVARIANTS
  SerialTurns
  QueueInv
  PromptedRuntimeLives
PROPERTIES
  TurnsEnd
