SPECIFICATION Spec
CONSTANTS
  Configs <- TwoChanged
  MaxRecords = 2
INVARIANTS
  ChannelsIndependent
  ConsumersServed
