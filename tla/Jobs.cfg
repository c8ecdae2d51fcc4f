SPECIFICATION FairSpec
CONSTANTS
  v1 = v1
  v2 = v2
  Viewers = {v1, v2}
  MaxLines = 2
  QueueSize = 2
  HazardSets = {{}, {"trim"}, {"restart"}, {"subprocess", "disk_error"}}
INVARIANTS
  TypeOK
  NoSendOnClosed
  NoGap
  AllOutputLogged
  DoneIsPersisted
PROPERTIES
  StreamEnds
CHECK_DEADLOCK FALSE
