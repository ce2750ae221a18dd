\* Two runs and a replay, or a run and two replays; two contents, two changes
\* of the source, or one over Postgres; one fault; a lock that lives one tick.
SPECIFICATION Spec
CONSTANTS
  Setups <- MCSetups
  Runners = {r1, r2}
  Replayers = {p1, p2}
  r1 = r1
  r2 = r2
  p1 = p1
  p2 = p2
  JobsOf <- MCJobsOf
  Payloads = {a, b}
  First = a
  None = none
  Ttl = 1
  MaxChanges <- MCMaxChanges
  MaxFaults = 1
INVARIANTS TypeOK OneRunAtATime LoadedOnce StateFollowsDestination
PROPERTIES SyncKeepsRunning
