SPECIFICATION Spec
CONSTANTS
  Calls = {c1, c2}
  Others = {}
  Lists = {l1}
  Notes = {n1}
  Nobody = Nobody
  CooldownStart = 2
  CooldownMidsession = 1
SYMMETRY Symmetry
INVARIANTS
  TypeOK
  LockDiscipline
  TransportInService
  RetryUsesFreshTransport
  OneRestartPerDeath
  OrphansAreFailedRetries
  LostByBrokenStart
  CooldownHasCause
PROPERTIES
  LeavesActiveOnlyOnDeath
  StartSettles
