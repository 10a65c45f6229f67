\* Three sessions and three messages: two turns wait behind the running one.
SPECIFICATION Spec
CONSTANTS
  Sessions = {s1, s2, s3}
  NewSessions = {}
  Messages = {m1, m2, m3}
  Records = {r1, r2, r3}
  Runtimes = {t1, t2, t3}
  Calls = {c1}
  Questions = {}
  MaxRuntimes = 2
  MaxTails = 1
  Outcomes = {"idle"}
  LateAnswers = FALSE
  Nil = Nil
SYMMETRY LineSymmetry
CHECK_DEADLOCK FALSE
INVARIANTS
  RuntimeBound
PROPERTIES
  InOrder
