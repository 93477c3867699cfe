SPECIFICATION Spec
CONSTANTS
  l1 = l1
  l2 = l2
  Loop = {l1}
  MaxIterations = 2
  MaxEdits = 0
  Overlap = FALSE
  Stuck = {}
INVARIANT GreenMeansCompleted
CHECK_DEADLOCK FALSE
