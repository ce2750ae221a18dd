\* Batch: three rows with keys 1..3, one without a watermark, pages of two;
\* two runs, one statement that fails.  Streams: four events, two mishaps.
SPECIFICATION SourcesSpec
CONSTANTS
  Second = 2
  Rows = {1, 2, 3}
  BareRows = {2}
  Sources <- MCSources
  BatchSize = 2
  Capacity = 1
  MaxTime = 3
  MaxRuns = 2
  MaxFaults = 1
  Streams = {"none", "cdc", "kafka", "webhook"}
  TxEnd <- MCTxEnd
  Posted = {1, 2}
  Window = 2
  MaxTries = 3
  MaxMishaps = 2
INVARIANTS TypeOK StableRowsReadOnce NoRowPassed StreamTypeOK ForgottenWasDelivered
PROPERTIES ExtractReturns StreamSettles
\* Runs, mishaps and the clock are bounded: the system may stop.
CHECK_DEADLOCK FALSE
