SPECIFICATION FairSpec
CONSTANTS
  l1 = l1
  l2 = l2
  Loop = {l1, l2}
  MaxIterations = 2
  MaxEdits = 1
  Overlap = FALSE
  Stuck = {l2}
INVARIANTS PromptsAreGone OutcomeMatchesVerdict GreenIsValidated
PROPERTIES GreenIsSettled DispatchOnEvidence ContractSpec LoopsEnd
CHECK_DEADLOCK FALSE
