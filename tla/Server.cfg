\* The tools of one MCP server over its inbox, and its threads over the session.
SPECIFICATION MCSpec
CONSTANTS
  Null = Null
  Unrecorded = Unrecorded
  NoThread = NoThread
  lasting = lasting
  brief = brief
  Pair = {m1, m2}
  Envelope = {lasting, brief}
  AckTime = {t1}
  Operator = {}
  Deadline <- Due
  Expiry <- Due
  MaxTime = 1
  MaxRevision = 0
  Place = {inSession, inAgent}
  Early = {lasting}
  PageLimit = 1
  MaxMail = 2
  Worker = {w1, w2}
  MaxSessions = 2
  MaxFaults = 2
SYMMETRY Symmetry
INVARIANTS
  SubscribersTracked
  ArrivalsAccountedFor
  AckedStaysRead
  RetiredNotDelivered
PROPERTIES
  CloseAfterWorker
  PollDeletesKnown
CHECK_DEADLOCK FALSE
