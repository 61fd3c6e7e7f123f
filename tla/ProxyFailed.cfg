SPECIFICATION ProxySpec
CONSTANTS
  Calls = {c1}
  Others = {}
  Lists = {}
  Notes = {n1}
  Nobody = Nobody
  CooldownStart = 2
  CooldownMidsession = 1
  Cleanup = Cleanup
INVARIANTS
  NothingRunsInFailed
