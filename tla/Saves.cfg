\* One process, three keys, room for two rows: a full queue, and a blocked row ahead of another.
\* Decisions: two processes, three memories, one failure, two steps of others.
SPECIFICATION MCSpec
CONSTANTS
  scoped = scoped
  tomb = tomb
  plain = plain
  None = None
  Key = {scoped, tomb, plain}
  Repeatable = {tomb}
  Scoped = {scoped}
  Process = {p1}
  Limit = 2
  Batch = 2
  MaxFaults = 2
  Obs = {1, 2, 3}
  Supersedes <- LastOfAll
  Topic <- OneTopic
  Rank <- ById
  HintLimit = 1
  Caller = {c1, c2}
  topic = topic
  MaxUpsets = 1
  MaxChanges = 2
INVARIANTS
  StoredMeansMesh
  QueuedIsKept
  IndexFollowsMesh
  OneIsTold
PROPERTIES
  ReplayedInTime
CHECK_DEADLOCK FALSE
