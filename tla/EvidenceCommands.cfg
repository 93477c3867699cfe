\* Two or three commands at a time out of two ingests and two simulations of one key for
\* two groups, an evaluation and a receipt import, beside one collection; the
\* first ingest and the first simulation are given twice.
SPECIFICATION Spec
CONSTANTS
  i1 = i1 i2 = i2 e1 = e1 m1 = m1 s1 = s1 s2 = s2
  Ingest = {i1, i2}
  Evaluate = {e1}
  Import = {m1}
  Simulate = {s1, s2}
  Given <- MCGiven
  Group = {"a", "b"}
  GroupOf <- MCGroupOf
  Probing = {i1}
  Failing = {i1}
  Blocks <- MCBlocks
  Nothing = Nothing
  MaxTries <- MCMaxTries
  MaxLives = 2
INVARIANTS RefusalHolds DoneIsWhole OneSimulation
PROPERTIES VerdictFitsEvidence
CHECK_DEADLOCK FALSE
