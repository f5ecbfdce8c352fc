\* The same instance with nothing reconfigured: a storage whose answer does not come in
\* time is enough.
SPECIFICATION MCSpec
CONSTANTS
  note = note
  tomb = tomb
  taken = taken
  home = home
  office = office
  x = x
  y = y
  team = team
  user = user
  word = word
  of = of
  None = None
  Item = {note, tomb, taken}
  Observation = {note, taken}
  Foreign = {taken}
  BatchSize = 2
  MaxFaults = 2
  Peer = {home, office}
  Payload = {x, y}
  coordinator = home
  ExpectedPeers = 2
  Key = {1, 2}
  Batch = 1
  MaxTrouble = 2
  Absent = Absent
  Obs = {1, 2, 3, 4}
  Supersedes <- OverFirst
  Scope = {team, user}
  ScopeOf <- HomeOf
  Elsewhere = {1, 2}
  Room = 1
  MaxPurgeFaults = 1
  MaxPurgeChanges = 0
  Bare = {1}
  MaxRepairFaults = 2
  MaxRepairChanges = 0
  Created <- FirstTwoAtOnce
  Importance <- FirstMatters
  Relevance <- ThirdRelevant
  Lapse <- ThirdLapses
  Has <- Text
  Short = {of}
  Unreadable = {4}
  Slack = 1
  WideLimit = 3
  PageSize = 2
  Retention = 0
  Unfiled = {2}
  MaxClock = 2
  MaxUpsets = 1
  MaxChanges = 0
INVARIANTS
  ServedDirsStay
CHECK_DEADLOCK FALSE
