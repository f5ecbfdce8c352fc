\* No fault, a complete scan: the rebuild that overlaps a save.
SPECIFICATION Spec
CONSTANTS
  m = m
  n = n
  None = None
  Obs = {m}
  Supersedes <- MCSupersedes
  Process = {p1}
  MaxFaults = 0
  Operations = {"rebuild"}
  Origins = {"peer"}
PROPERTY OverlapSafe
