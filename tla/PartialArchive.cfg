\* A run whose source fails partway through the extraction.
SPECIFICATION Spec
PROPERTY ArchiveOnlyAbsent

CONSTANTS
  Rows = {r1}
  Keys = {k1}
  KeyOf <- OnlyRow
  NoKey = NoKey
  Payloads = {a, b}
  Fps = {1, 2, 3}
  Fp <- AllDistinct
  Invalid = {}
  Rules <- CreateUpdate
  Default = "skip"
  NoRule = NoRule
  Blank = Blank
  MissingAction = "delete"
  Threshold = 1
  AllowDestructive = TRUE
  DlqOn = TRUE
  OnErrorSkip = FALSE
  Incremental = FALSE
  InOrder = FALSE
  HistoryLimit = 3
  DryModes = {FALSE}
  Approvals = {}
  Faults = {"extract"}
  MaxFaults = 1
  SourceMoves <- BackAndForth
  FirstStamp <- OnlyStamp
  FirstClock = 1
  InitialPayloads = {a}
  MaxClock = 3
  Limits <- NoLimits
  RatioPercent = 100
  ApproveAbove = 0
  ApproveFor = {}
  r1 = r1
  r2 = r2
  k1 = k1
  k2 = k2
  a = a
  b = b
  c = c
  None = None
