SPECIFICATION FairSpec
CONSTANTS
  o1 = o1
  w1 = w1
  c1 = c1
  c2 = c2
  Orders = {o1}
  Workers = {w1}
  Consumers = {c1, c2}
  QueueSize = 1
  MaxClock = 1
  MaxFaults = 1
INVARIANTS
  TypeOK
  LinkNeverAhead
  CountedAtMostOnce
  QuietMeansCounted
PROPERTIES
  FeedSettles
CHECK_DEADLOCK FALSE
