\* Every API destination, two Loads of up to two rows, of three for the parallel
\* bulk path.
SPECIFICATION Spec
INVARIANTS TypeOK MarkedWasWritten EveryRowDecided NoSecondRecord ProbeIsOut
PROPERTIES LoadReturns KeepsContract
CONSTANTS
  Threshold = 1
  Attempts = 2
  WriteParallelism = 2
  ChunkSize = 2
  HubSpotAttempts = 3
  KindsChecked = {"restapi", "intercom", "pipedrive", "zendesk", "klaviyo",
                  "mixpanel", "hubspot", "slack", "googlesheets",
                  "salesforceRest", "salesforceBulk", "salesforceBulkParallel"}
  MaxRows = 3
  Codes = {200, 204, 401, 422, 500}
  InstanceOf <- MCInstanceOf
CHECK_DEADLOCK FALSE
