\* Two runs recorded earlier, a third being recorded into the group of the
\* first, and one garbage collection meanwhile.
SPECIFICATION FairSpec
CONSTANTS
  r1 = r1 r2 = r2 r3 = r3 r4 = r4
  Run = {r1, r2, r4}
  Finished = {r1, r2}
  Abandoned = {}
  Ingested = {}
  Outside = {}
  Gc = {c1}
  Overlap = FALSE
  GroupOf <- MCGroupOf
  Started <- MCStarted
  Rank <- MCRank
  Request <- OneGc
INVARIANTS ChildrenHaveRuns RecordedWhole
PROPERTIES CommandsEnd ContractSpec
CHECK_DEADLOCK FALSE
