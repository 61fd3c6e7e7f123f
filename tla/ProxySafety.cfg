SPECIFICATION FairProxySpec
CONSTANTS
  Calls = {c1, c2}
  Others = {}
  Lists = {}
  Notes = {n1}
  Nobody = Nobody
  CooldownStart = 2
  CooldownMidsession = 1
  Cleanup = Cleanup

INVARIANTS
  ProxyTypeOK
  CleanupAlone
  ActiveIsStopped
  TransportsClosedAtExit
PROPERTIES
  ProxyImplementsLifecycle
  ShutdownEnds
