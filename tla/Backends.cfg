\* The local backend with two processes, two memories and one fault; the mesh-backed
\* index with two memories of which one supersedes the other.
SPECIFICATION MCSpec
CONSTANTS
  m = m
  n = n
  None = None
  Obs = {m, n}
  Supersedes <- MCSupersedes
  Agent = {p1, p2}
  MaxFailures = 1
  Process = {host}
  MaxFaults = 0
  Operations = {"rebuild", "purge"}
  Origins = {"peer"}
  MaxFlight = 2
SYMMETRY AgentSymmetry
INVARIANTS
  NothingLost
  PointersResolve
PROPERTIES
  OpenAligns
  LocalFollowsLifecycle
