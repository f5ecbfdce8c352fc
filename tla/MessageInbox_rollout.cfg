\* An old binary that outlives the migration, against the rollout status.
SPECIFICATION InboxSpec
CONSTANTS
  e1 = e1
  e2 = e2
  Null = Null
  Unrecorded = Unrecorded
  Pair = {p1}
  Envelope = {e1, e2}
  AckTime = {a1, a2}
  Operator = {o1, o2}
  MaxTime = 2
  MaxRevision = 2
  Deadline <- MCDeadline
  Expiry <- MCExpiry
INVARIANT OldWriterBlocksCompletion
