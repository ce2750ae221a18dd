\* Rows that leave the source and come back; archiving, limits, approvals.
SPECIFICATION Spec
INVARIANTS WithinLimits ApprovedOnly OnceRuleAtMostOnce
PROPERTIES ArchiveOnlyAbsent

CONSTANTS
  Rows = {r1, r2}
  Keys = {k1, k2}
  KeyOf <- OneRowPerKey
  NoKey = NoKey
  Payloads = {a, b}
  Fps = {1, 2, 3}
  Fp <- AllDistinct
  Invalid = {}
  Rules <- OnceThenUpdate
  Default = "skip"
  NoRule = NoRule
  Blank = Blank
  MissingAction = "delete"
  Threshold = 2
  AllowDestructive = TRUE
  DlqOn = FALSE
  OnErrorSkip = FALSE
  Incremental = FALSE
  InOrder = FALSE
  HistoryLimit = 3
  DryModes = {FALSE}
  Approvals <- ApproveUpdate
  Faults = {"row", "fatal"}
  MaxFaults = 2
  SourceMoves <- ComeGoChange
  FirstStamp <- SameStamp
  FirstClock = 1
  InitialPayloads = {a}
  MaxClock = 5
  Limits <- TightLimits
  RatioPercent = 100
  ApproveAbove = 0
  ApproveFor <- Updates
  r1 = r1
  r2 = r2
  k1 = k1
  k2 = k2
  a = a
  b = b
  c = c
  None = None
