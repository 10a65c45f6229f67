\* Two calls of the page, each a query of its own.
SPECIFICATION Spec
CONSTANTS
  Calls = {c1, c2}
  Nil = Nil
INVARIANTS CallbackOnce FailsOnlyClosed
PROPERTIES AbandonedStops NoCallbackLeaks
CHECK_DEADLOCK FALSE
