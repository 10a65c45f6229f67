SPECIFICATION Spec
CONSTANTS
  Callers = {c1, c2}
  Stoppers = {s1}
  Disposer = d
  Procs = {p1, p2, p3}
  Nil = Nil
INVARIANTS NoOrphan Settled DisposedForGood
PROPERTY EndsWithProject
CHECK_DEADLOCK FALSE
