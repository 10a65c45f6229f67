\* Two sessions, one of them to be created; two calls; two questions that may be
\* open at once.
SPECIFICATION Spec
CONSTANTS
  Sessions = {s1, s2}
  NewSessions = {s2}
  Calls = {c1, c2}
  Questions = {q1, q2}
  MaxTabs = 2
  MaxTroubles = 1
  MaxSteps = 3
  MaxFrames = 1
  Nil = Nil
CHECK_DEADLOCK FALSE
INVARIANTS TabsTrue NoQuestionLost
