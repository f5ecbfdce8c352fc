\* A storage answers the shadow sweep with an error.
SPECIFICATION Spec
CONSTANTS
  m = m
  n = n
  None = None
  Obs = {m}
  Supersedes <- MCSupersedes
  Process = {p1}
  MaxFaults = 1
  Operations = {"rebuild", "sweep"}
  Origins = {"peer"}
PROPERTY SweepNeedsAnswers
