CONSTANTS
  first = first
  again = again
  relabelled = relabelled
  rewritten = rewritten
  other = other
  NoEntry = NoEntry
  NoFile = NoFile
  Blank = Blank
  Garbled = Garbled
  Call = {first, again, relabelled, rewritten, other}
  Key = {"run.json", "bazel.stdout.txt"}
  Digest = {"d1", "d2"}
  Label = {"l1", "l2"}
  KeyOf <- MCKeyOf
  DigestOf <- MCDigestOf
  LabelOf <- MCLabelOf
SPECIFICATION Spec
INVARIANT
  SameBytesAreReused
CHECK_DEADLOCK FALSE
