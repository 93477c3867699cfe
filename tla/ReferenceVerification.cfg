\* Two file payloads of every kind, two changes of the disk or the store.
SPECIFICATION FairSpec
CONSTANTS
  p1 = p1 c1 = c1 c2 = c2 k1 = k1 k2 = k2
  Path = {p1}
  Content = {c1, c2}
  None = None
  Key = {k1, k2}
  SourceKind = "collectable_v1"
  MaxChanges = 2
  Streams <- MCStreams
INVARIANTS LabelsWereObserved FirstObservationStands CountsMatchRows
 
CHECK_DEADLOCK FALSE
