\* A dry run of an incremental sync, then a real one.
SPECIFICATION Spec
INVARIANT NoRowLost

CONSTANTS
  Rows = {r1}
  Keys = {k1}
  KeyOf <- OnlyRow
  NoKey = NoKey
  Payloads = {a, b, c}
  Fps = {1, 2, 3}
  Fp <- AllDistinct
  Invalid = {}
  Rules <- CreateUpdate
  Default = "skip"
  NoRule = NoRule
  Blank = Blank
  MissingAction = "none"
  Threshold = 1
  AllowDestructive = FALSE
  DlqOn = TRUE
  OnErrorSkip = FALSE
  Incremental = TRUE
  InOrder = FALSE
  HistoryLimit = 3
  DryModes = {TRUE, FALSE}
  Approvals = {}
  Faults = {}
  MaxFaults = 0
  SourceMoves <- Forward
  FirstStamp <- OnlyStamp
  FirstClock = 1
  InitialPayloads = {a}
  MaxClock = 3
  Limits <- NoLimits
  RatioPercent = 100
  ApproveAbove = 0
  ApproveFor = {}
  r1 = r1
  r2 = r2
  k1 = k1
  k2 = k2
  a = a
  b = b
  c = c
  None = None
