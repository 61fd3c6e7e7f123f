SPECIFICATION CodeSpec
CONSTANTS
  Calls = {c1}
  Others = {o1}
  Lists = {}
  Notes = {n1}
  Nobody = Nobody
  CooldownStart = 2
  CooldownMidsession = 1
PROPERTIES
  RetryAnswered
  EverythingServed
  ImplementsFairness
