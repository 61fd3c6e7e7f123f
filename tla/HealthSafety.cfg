SPECIFICATION FairSpec
CONSTANTS
  Kinds = {"http", "command"}
  MaxAttempts = 3
  Interval = 2
  Timeout = 3
  Horizon = 15
INVARIANTS
  WithinBudget
  PatientEnough
  OneProbe
PROPERTIES
  Ends
