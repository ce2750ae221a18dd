\* Two rows; crashes, cancellations, failed deliveries, saves and commits.
SPECIFICATION Spec
INVARIANTS TypeOK SuccessWasDelivered LoggedWasDelivered FailuresAreDeadLettered StateMatchesDestination

CONSTANTS
  Rows = {r1, r2}
  Keys = {k1, k2}
  KeyOf <- OneRowPerKey
  NoKey = NoKey
  Payloads = {a, b, c}
  Fps = {1, 2, 3}
  Fp <- AllDistinct
  Invalid = {c}
  Rules <- UpsertAll
  Default = "skip"
  NoRule = NoRule
  Blank = Blank
  MissingAction = "none"
  Threshold = 1
  AllowDestructive = FALSE
  DlqOn = TRUE
  OnErrorSkip = FALSE
  Incremental = FALSE
  InOrder = FALSE
  HistoryLimit = 3
  DryModes = {TRUE, FALSE}
  Approvals = {}
  Faults = {"crash", "cancel", "row", "ambiguous", "fatal", "save", "commit", "read", "extract", "timeout", "reset"}
  MaxFaults = 2
  SourceMoves <- BadRowToo
  FirstStamp <- SameStamp
  FirstClock = 1
  InitialPayloads = {a}
  MaxClock = 3
  Limits <- NoLimits
  RatioPercent = 100
  ApproveAbove = 0
  ApproveFor = {}
  r1 = r1
  r2 = r2
  k1 = k1
  k2 = k2
  a = a
  b = b
  c = c
  None = None
