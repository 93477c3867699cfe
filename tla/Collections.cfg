\* A finished run, a killed recording whose evidence was moved since, and an
\* ingested run without a timestamp; two garbage collections in a row.
SPECIFICATION Spec
CONSTANTS
  r1 = r1 r2 = r2 r3 = r3 r4 = r4
  Run = {r1, r2, r3}
  Finished = {r2}
  Abandoned = {r1}
  Ingested = {r3}
  Outside = {r1}
  Gc = {c1, c2}
  Overlap = FALSE
  GroupOf <- MCGroupOf
  Started <- MCStarted
  Rank <- MCRank
  Request <- Series
INVARIANTS AppliedIsReported NeverEmptied
PROPERTIES UnknownAgeIsKept NewestAreKept
CHECK_DEADLOCK FALSE
