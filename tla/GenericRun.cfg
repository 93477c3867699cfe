\* One run of two commands with one executable, one changed path that is an output
\* too, two outputs under one label, one edit; sidecars with and without a claim,
\* receipts of the three tools.
SPECIFICATION Spec
CONSTANTS
  Nothing = Nothing
  Content = {"x", "y"}
  File = {"p", "q"}
  ChangePath <- MCChangePath
  Output <- MCOutput
  Exe <- MCExe
  Disks <- MCDisks
  Sidecars <- MCSidecars
  Attempts <- MCAttempts
  Forged <- MCForged
  MaxEdits = 1
  Lingering = {2}
INVARIANTS ChangesWereObserved SettledIsWhole VerifiedIsAnswered
CHECK_DEADLOCK FALSE
