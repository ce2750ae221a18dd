\* Every database destination and strategy, two Loads of up to four rows.
SPECIFICATION Spec
INVARIANTS TypeOK AppendOnce ReplacedByTheConnection LostKeyReported LatestWins OneCurrent
PROPERTIES StagedSwap KeepsContract
CONSTANTS
  Rows = {1, 2, 3, 4}
  KeyOf <- MCKeyOf
  ColumnsOf <- MCColumnsOf
  BadRows = {2}
  Connections <- MCConnections
  CopyThreshold = 2
  MaxChunk = 2
  MaxLoads = 2
  MaxFaults = 1
CHECK_DEADLOCK FALSE
