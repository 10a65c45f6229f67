\* One request, its cancel and its answer; one piece of stray text on either pipe.
SPECIFICATION Spec
CONSTANTS
  Requests = {r1}
  MaxStray = 1
  Nil = Nil
INVARIANTS FramesWhole NothingLate
PROPERTIES CancelledUnanswered EndClosesBoth
CHECK_DEADLOCK FALSE
