\* The index with one memory, every operation, one process and two faults; the inbox with one
\* pair, two operators and an old binary, from the states an older schema may have left.
SPECIFICATION MCSpec
CONSTANTS
  m = m
  dated = dated
  timed = timed
  None = None
  Null = Null
  Unrecorded = Unrecorded
  Obs = {m}
  Supersedes <- Alone
  Process = {p1}
  MaxFaults = 2
  Operations = {"rebuild", "full", "tombs", "sweep", "purge"}
  Origins = {"host", "peer"}
  Pair = {p1}
  Envelope = {dated, timed}
  AckTime = {a1, a2}
  Operator = {o1, o2}
  MaxTime = 2
  MaxRevision = 2
  Expiry <- Dated
  Deadline <- Timed
INVARIANTS
  AckAnchored
  FlagMatchesAck
  OnlyGenuineAcks
  RetiredBehindQuarantine
  PromotionSticks
PROPERTIES
  FollowsLifecycle
  RepairNeverHides
  RemovedForCause
  SavesConverge
  DeletesConverge
  DecisionsOnTheRowSeen
  EvidenceKept
