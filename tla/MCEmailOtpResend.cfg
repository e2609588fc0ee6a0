SPECIFICATION Spec
CONSTANTS
  c1 = c1
  c2 = c2
  Clients = {c1, c2}
  Settings <- MCQueued
  MaxAttempts = 2
  JobAttempts = 2
  MaxCodes = 2
  MaxFaults = 0
SYMMETRY Symmetry
INVARIANTS
  ResentMeansOnItsWay
