\* Incremental extraction with a watermark, rows in its order; interrupted runs.
SPECIFICATION FairSpec
INVARIANTS NoRowLost
PROPERTIES Converges

CONSTANTS
  Rows = {r1, r2}
  Keys = {k1, k2}
  KeyOf <- OneRowPerKey
  NoKey = NoKey
  Payloads = {a, b, c}
  Fps = {1, 2, 3}
  Fp <- AllDistinct
  Invalid = {}
  Rules <- CreateUpdate
  Default = "skip"
  NoRule = NoRule
  Blank = Blank
  MissingAction = "none"
  Threshold = 1
  AllowDestructive = FALSE
  DlqOn = TRUE
  OnErrorSkip = FALSE
  Incremental = TRUE
  InOrder = TRUE
  HistoryLimit = 2
  DryModes = {FALSE}
  Approvals = {}
  Faults = {"crash", "cancel", "extract", "timeout", "commit", "save"}
  MaxFaults = 1
  SourceMoves <- Forward
  FirstStamp <- OwnStamps
  FirstClock = 2
  InitialPayloads = {a, None}
  MaxClock = 5
  Limits <- NoLimits
  RatioPercent = 100
  ApproveAbove = 0
  ApproveFor = {}
  r1 = r1
  r2 = r2
  k1 = k1
  k2 = k2
  a = a
  b = b
  c = c
  None = None
