CONSTANTS
  upgrade = upgrade
  record = record
  export = export
  checked = checked
  present = present
  remote = remote
  Proc = {upgrade, record, export}
  Ref = {checked, present, remote}
  Needs <- MCNeeds
  Command <- MCCommand
  Row <- MCRow
SPECIFICATION Spec
INVARIANT
  UpgradeStaysPossible
CHECK_DEADLOCK FALSE
