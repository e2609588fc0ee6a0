SPECIFICATION Spec
CONSTANTS
  c1 = c1
  c2 = c2
  Clients = {c1, c2}
  Settings <- MCSettings
  MaxAttempts = 2
  JobAttempts = 2
  MaxCodes = 2
  MaxFaults = 1
SYMMETRY Symmetry
INVARIANTS
  TypeOK
  OneUsableCode
  CodeUsedOnce
  GuessesBounded
  OneRegistrationSession
  FirstCodeOnItsWay
