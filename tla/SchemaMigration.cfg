CONSTANTS
  upgrade = upgrade
  record = record
  export = export
  checked = checked
  present = present
  remote = remote
  Proc = {upgrade, record, export}
  Ref = {checked, present, remote}
  Needs <- MCNeeds
  Command <- MCCommand
  Row <- MCRow
SPECIFICATION FairSpec
INVARIANTS
  StampHonest
  NoSilentLoss
  ReaderMissesNothing
PROPERTIES
  RowsPreserved
  NewerUntouched
  EveryCommandEnds
CHECK_DEADLOCK FALSE
