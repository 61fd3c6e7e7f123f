SPECIFICATION FairSpec
CONSTANTS
  Kinds = {"object", "value", "null", "skipped", "refused"}
  MaxLines = 4
INVARIANTS
  InOrderOnce
  EndsOnlyWhenTold
PROPERTIES
  EndsWhenTold
