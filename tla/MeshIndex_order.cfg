\* No fault, fair: the superseding memory is delivered first.
SPECIFICATION FairSpec
CONSTANTS
  m = m
  n = n
  None = None
  Obs = {m, n}
  Supersedes <- MCSupersedes
  Process = {p1}
  MaxFaults = 0
  Operations = {"full"}
  Origins = {"peer"}
PROPERTY SupersededConverges
