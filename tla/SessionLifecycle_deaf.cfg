\* One failed put while the index is opened: the new session has no subscriber.
SPECIFICATION SessionSpec
CONSTANTS
  NoThread = NoThread
  Worker = {w1}
  MaxSessions = 2
  MaxFaults = 1
INVARIANT ListensOnCurrentSession
CHECK_DEADLOCK FALSE
