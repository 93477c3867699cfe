\* Every text of two tokens, longer ones where spans overlap, JSON documents of seven nodes
\* and directories of two files; a write and the check after it.
SPECIFICATION Spec
CONSTANTS
  Name = {1, 2}
  Absent = Absent
  Start <- MCStart
  Version <- MCVersion
  MaxCommands = 2
  MaxChanges = 1
INVARIANTS SpansHold LabelsTellRedaction 
CHECK_DEADLOCK FALSE
