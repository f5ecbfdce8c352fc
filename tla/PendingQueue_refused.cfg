\* A save that is refused on its second attempt has left its row in the queue.
SPECIFICATION Spec
CONSTANTS
  scoped = scoped
  tomb = tomb
  plain = plain
  None = None
  Key = {scoped, tomb, plain}
  Repeatable = {tomb}
  Scoped = {scoped}
  Process = {p1}
  Limit = 3
  Batch = 2
  MaxFaults = 2
INVARIANTS
  RefusedLeavesNoTrace
CHECK_DEADLOCK FALSE
