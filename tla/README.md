# Vortara in TLA+

Specifications of vortara (reverse ETL in Go): how rows of a source query become
deliveries at a destination, what is remembered between runs, and what a crash, a
cancellation or a failed call may leave behind. Paths below are relative to the
repository; `run.go` is `internal/engine/run.go`.

## The system

    source --rows--> runOnce --decide--> pending --Load--> destination
                        |  ^                          |
       run_log, lock,   v  | entity_state,            | delivery_log (batched marks)
                     state store <--------------------+     dead-letter file --> replay

| part | state it keeps | operations | what is hard | correct when |
|---|---|---|---|---|
| batch engine, `run.go` | the open run: pending deliveries, counters, seen keys | extract and decide, gates, deliver, missing-entity sweep, commit | crash or cancellation between any two store calls; partial extraction; dry runs sharing the store | nothing is claimed that did not happen; no row is lost; caps and approvals hold; only absent entities are archived |
| decision engine, `internal/decision` | none (rule firings are in the store) | `Evaluate` | once-rules across runs | first match wins, a fired once-rule never wins |
| safety limits, `internal/safety` | none | `Allow`, `Record`, ratio, approval | boundaries; two counters | see the engine |
| state store, `internal/state` | `entity_state`, `rule_firings`, `delivery_log`, `run_log`, `pipeline_locks`, one delivery batch in memory | one SQL statement each; `CommitBatch` is a transaction | marks are lost with the process; lock by expiry; one batch for all runs of a process | marks stand for deliveries; one run per sync |
| dead-letter file, `engine/dlq.go`, and replay | JSON lines | append; replay all | stale payloads, no lock | every failed entity is in it |
| CRM destinations (HubSpot, REST, Salesforce, ...) | stored destination IDs | `Load` | ambiguous failures, parallel workers, chunks in which some rows fail | loaded rows landed; errors are per row |
| database destinations (Postgres, MySQL, Snowflake) | staging tables | `Load` by strategy, `FinalizeRun` | several statements per load; replace | a failed run leaves the table whole |
| HTTP helpers, `connector/http` | breaker state, tokens | retry, `Allow`/`Record*`, `Wait` | concurrent workers, late results | the breaker recovers |
| batch sources | page offset | `Extract` | pages over a changing table | every row once, or an error |
| streaming sources (CDC, Kafka, webhook) | positions of unacknowledged rows | `Subscribe`, `Ack`, `Nack` | out-of-order acknowledgement | no unacknowledged row is lost |
| engine lifecycle, cron | shutdown channel | `Run`, `Shutdown`, `Close` | triggers that overlap | one run of a sync at a time |
| commands | none | run, dry-run, replay, state reset/unlock/patch, explain, diff | operator commands between runs | dry run writes nothing |
| the rest (config, fingerprint, diff, steps, LRU, artifacts, metrics, API) | small or none | pure functions, output | data | - |

`PROJECT.json` lists each part with its files and status, and each hazard at its line.

## Modules

| module | models |
|---|---|
| `DecisionRules` | `decision.Evaluate`: a rule is a name, a once flag, an action and the set of inputs its `when` tree accepts |
| `SafetyLimits` | `safety.Evaluator`: caps, changed-field ratio, approval |
| `SyncRun` | any number of runs of one sync: `runOnce` with `processMissingEntities`, the SQLite store, the dead-letter file, a destination and a changing source |
| `HttpHelpers` | `connector/http`: circuit breaker, retry loop, classes of answers, as operators |
| `ApiDestinations` | the ten API destinations as data: which helpers `Connect` builds, how `Load` cuts rows into units, which requests a unit takes and which checks come before each |
| `HttpDelivery` | `Load` of all of them: workers that share breaker, limiter and token, a server that fails or applies without answering, a context that ends |
| `TableLoad` | `Load` and `FinalizeRun` of Postgres, MySQL and Snowflake under every strategy, statement by statement |
| `LoadContract` | what destination.go promises of `Load`; `HttpDelivery` and `TableLoad` implement it |
| `BatchSources` | the six batch sources as data: statement, paging, filter, watermark of a row |
| `BatchExtract` | runs over a batch source whose table changes between its statements |
| `StreamDelivery` | CDC, Kafka and webhook sources with a consumer of `streaming.go`'s contract, crashes and reconnects |
| `SharedStore` | one store (SQLite, Postgres, memory) under two runs, cron overlap, replay and force-unlock: lock, delivery batch, log, state |
| `MCSyncRun`, `MCHttpDelivery`, `MCTableLoad`, `MCSources`, `MCSharedStore` | the instances TLC checks; `MCSources` puts `BatchExtract` and `StreamDelivery` into one run |
| `SyncRunProofs`, `LimitProofs`, `SharedStoreProofs`, `DeliveryProofs`, `ContractProofs`, `StreamProofs`, `TableProofs`, `ExtractProofs` | theorems |

How they fit: `SyncRun` has a run in full and takes a destination by the outcomes of one
`Load` (`LoadOutcomes`) and a source by the rows it sends (`Extraction`). The modules of
the destinations show which outcomes there are and when a row's mark in the delivery log
may be believed; those of the sources show which rows an `Extract` sends and what its
watermark stands for. `SharedStore` is `SyncRun` reduced to one entity and opened to
other jobs on the same store.

### SyncRun against the code

State. `src` is the source table, with `stamp` the watermark column (0 when none is
configured). `dest` is the destination's record per entity. `es`, `fired`, `log`,
`history` and `locked` are the store's tables; `history` holds, newest first, as many
runs as `GetRunHistory` returns. `dlq` is the dead-letter file. The second group of
variables are the locals of `runOnce`, with `pc` its position, and `batch`, the store's
buffer of delivery marks: a crash clears them. The third group exists for the properties
(what ever landed, what the source had when the run read it, how often in a row it lacked
an entity).

Actions follow the order of `runOnce`; each makes one change that outlives the process,
so a crash or a cancellation can come between any two.

| action | code |
|---|---|
| `BeginRun` | lock, run-log row, batch, watermark, start of the extraction (run.go:82-190) |
| `RejectRow`, `DecideRow`, `DecideFails` | one row of the extraction loop (196-297) |
| `EndExtract` | end of the channel, cancellation, a source error, or a timeout of the source's own, which run.go:488 takes for the end of the context and lets pass (299, 488) |
| `GateBlock`, `GatePass` | ratio and approval, before any delivery (305-339) |
| `SkipOverLimit`, `DeliverRow` | `Allow`, then `dest.Load` and the branch on its result (347-429) |
| `SaveDelivered`, `MarkRuleFired`, `SaveFailed` | the state writes after it (385-454) |
| `EndDelivery` | end of the loop, start of the sweep (468-478) |
| `CountMissing`, `SendMissing`, `SaveMissing`, `EndSweep` | `processMissingEntities` (508-638) |
| `Commit`, `FinishRun` | `CommitBatch`, final status, deferred `FinishRun` and `UnlockRun` (480-502, 116-141) |
| `Cancel`, `Crash`, `ReleaseStaleLock`, `ResetEntity`, `ChangeSource` | signals, process death, lock expiry or `state unlock`, `state reset`, the source's owner |

`LoadOutcomes` is what one `Load` of one row may return: loaded and marked, skipped as
already delivered, a row error (with the request applied or not: the ambiguous class of
hubspot.go), a fatal error, or any of those because the context ended during the request.
The REST destination's answer to an ended context, a top-level error after the row may
have been sent and marked, is among them. A dry run's destination prints and reports
the row as loaded.

Abstractions. A payload stands for the mapped, normalised row; `Fp` gives its
fingerprint. The order of extraction is any order, or, with `InOrder`, that of the
watermark column; `FirstStamp` and `FirstClock` say what that column shows at the start,
so that rows with one value and rows with different ones are both instances.
The sweep visits entities in any order; pages are left out. Writes of decision events,
artifacts and metrics, which nothing reads back, are left out. A run that fails before
its run-log row changes nothing. The dead-letter file can always be written. There is
one process at a time: `ReleaseStaleLock` frees only the lock of a dead run.

### HttpDelivery against the code

`kind` is the destination, with Salesforce's three paths as three kinds: `SalesforcePath`
chooses by the number of rows. `ConnectOf`, `LoadOf` and `RequestsOf` (`ApiDestinations`)
hold what the files differ in, one operator per destination, and the actions are common.

| action | code |
|---|---|
| `Call`, `Filter`, `Return` | `Load`: the context, the pass over the rows (match field, delivery log), the wait for the workers, the context again where the code looks again |
| `Start` | a goroutine takes the semaphore, or the loop takes its next row or chunk |
| `Resolve` | HubSpot's `deliver` looks up the stored ID; an error of that read is dropped (hubspot.go:192), so the ID is then unknown: a delete is done, another row is searched for |
| `CheckContext`, `CheckBreaker`, `CheckLimiter`, `CheckAuth`, `Send` | what `DoWithRetry`'s function does before `client.Do`, in the order of each file |
| `Answer` | the response or its absence, what the server made of the request, `recordCircuitResponse`, and what follows: the next request, the next attempt, the mark, or the failure of the unit |
| `Mark` | `MarkDelivered` for each row of the unit and the counts; where it fails, a written row becomes a failed one |
| `Backoff`, `Tick`, `Deadline` | the waits: between attempts, between polls of a bulk job (a `select` takes any case that is ready), the job's own deadline |
| `Refill`, `Cooldown`, `TokenExpires`, `EndContext` | time and the caller |

A unit is known by its first row. A request that was answered well was applied, a refused
one was not, of any other either may be true. An answer is a status and an error: Intercom,
Klaviyo, Mixpanel, Pipedrive and Zendesk return an error beside a status they do not
accept, and retry.go:45 then goes by the error, so a 422 or an unexpected 2xx goes through
the backoff there. Calls of the state store (`IsDelivered`, `MarkDelivered`, the stored ID)
fail one at a time, as a fault, or any of them once the context has ended
(`StoreFailures`).

`entity` says which rows have one match value. Where a destination searches before it
creates, `records` counts what the server holds of each entity, and two workers may search
for one entity before either has created it: `raced` has the rows searched for in that
moment. A search sees at once what was created; the delay of a CRM's search index, which
makes the window longer, is left out.

The bulk jobs of Salesforce end in two lists, of results and of failures, and either may
fail to be read (`RejectedAs`): an unread or empty first list counts every row as loaded, an
unread second list leaves the rejected rows out of every count, and a batch that failed as
a whole has one error without a row. The verdicts "unnamed" and "lost" stand for these.

Times are events. Payload layout and field mapping are left out.

### TableLoad against the code

A `Load` becomes a queue of statements. `Plan` asks the log where the code asks it for all
rows at once, and puts the rows in line (`PutInLine`): in `left`, in the order of the
source or sorted by key and grouped by columns (`Order`, a set of pairs), or, where rows
go one by one, straight into `queue`. From `left`, `TakeChunk` cuts the next chunk and
`TakeTurn` takes the next row of Snowflake and SCD2, with its own look at the context and
the log. `Execute` runs the head of the queue; `OnEnd` is what each file makes of an error
(row errors, one row at a time, COPY to INSERT, a top-level error). `EndRun` is
`FinalizeRun`. An SQL statement is atomic; it may take effect and lose its answer, and it
may end in a `DeadlineExceeded` of the driver itself. Under any strategy a chunk without a
match field is a plain INSERT.
Snowflake's `Merge` and `Delete`, which nothing calls, are left out, as are DDL and types.

### BatchExtract against the code

`Plan` is the start of `Extract` (including `getPKColumn` and the ranges), `Query`, `Emit`,
`EndPage` a page, per range and in parallel; `Take` is the engine's loop with
`maxWatermark`; `Finish` is the end of `runOnce`. `Write` changes the table between any two
statements. A statement sees the table as it is when it starts (what a single SELECT
does); several pages do not share a snapshot, since no code opens a transaction for them.

`Interrupt` is a statement that fails after it has sent some of its rows, or all of them
(postgres.go:301, mysql.go:371, snowflake.go:278 and their like); REST has decoded a page
before it sends any of it. A row may be committed with the time of the write or with any
earlier one, as a transaction that commits late shows it, and an append-only key may commit
after greater ones: `late` has the rows that did. A row of an append-only table is not
written again.

Times are ticks, two to a second, because `{{watermark}}` and `since=` are cut to seconds.
Where a statement does not order its rows, or orders them by a column with equal values,
they come in any order that agrees with the statement (`Orders`, `AnyOrder`).

### StreamDelivery against the code

`Receive`, `Record`, `Send` are the steps of the `Subscribe` loops between which `Ack` and
`Nack` can come: a message is read, its row ID is remembered, the row goes to `out`.
`Settle` is `Ack` or `Nack`; `StandbyStatus` sends `confirmed` to Postgres. `Crash` clears
what the process knows. `reader` says that a Kafka reader keeps its place in memory: a
second `Subscribe` in one process goes on there and not at the committed offset
(kafka.go:107, 129-133), so rows that were fetched and not handed over when the first ended
stay behind (`skipped`). A rebalance of a consumer group is left out. The consumer is external: nothing in the repository calls
`Subscribe`, so it is modelled by the contract in streaming.go: rows in order, each loaded
and acknowledged, or refused.

### SharedStore against the code

A run is its steps on shared things: the two statements (SQLite), the transaction
(Postgres) or the mutex (memory) of `LockRun`, `BeginBatch`, the decision, `IsDelivered`,
`Load` with `MarkDelivered`, the save, `CommitBatch`, the deferred `UnlockRun`. `Load` may
fail, and a failed one may have landed all the same (hubspot.go:404). A save may fail, and
nobody is told (replay.go:200, run.go:393). A replay is the same without a lock, with its
own key and its own store object; any number may run at a time, and that of a memory store
has a new, empty one (`SeesStore`). `Sharing` says who uses one store object: runs that a
cron schedule starts in one process do, and so share the delivery batch. A command replays
one record here; several records are several commands one after the other. A failing
`GetEntityState`, which replay ignores, is left out.

Three variables remember what the properties except. `unsure`: deliveries that landed and
were reported as failed, or that two replays had at a time, or a replay of a memory store.
`unsaved`: what the destination got last is not in the state, because the save failed, was
not reached, or the landing was not heard of. `crossed`: a replay was at work together with
a run or another replay.

## Runs

| run | question | bounds | result |
|---|---|---|---|
| `core_faults` | do state, log and dead-letter file stay truthful? | 2 entities, payloads a, b and an invalid one, 2 source changes, any 2 of 11 kinds of fault, dry and real runs | holds |
| `core_missing` | caps, approval, once-rules, archiving | 2 entities, rows leave and return, 4 changes, caps of 1 create, 2 updates, 1 delete, threshold 2, 2 failures | holds |
| `core_incremental` | does the watermark lose rows; does the destination catch up? | 2 entities, contents that move forward, 3 changes, 1 fault (timeouts of the source among them), rows in the order of the watermark and none with the same value, history of 2 runs | holds, under fairness |
| `failed_not_pending` | is a failed delivery pending work? | 1 entity, 1 row error | violated |
| `dry_run_writes` | does a dry run write state? | 1 entity, sweep configured | violated |
| `partial_archive` | are only absent entities archived when the source breaks? | 1 entity, 1 source error | violated |
| `not_consecutive` | are missing runs consecutive? | 1 entity, threshold 2, 3 changes | violated |
| `dry_run_watermark` | does a dry run leave the next run's baseline alone? | 1 entity, watermark | violated |
| `http_delivery` | does a `Load` of an API destination return, decide every row, mark only what was written? | 12 kinds, each with its instance of 1 or 2 Loads of 1 to 3 rows and up to 2 faults, 2 workers, 2 attempts, breaker threshold 1, one token, statuses 200, 204, 401, 422, 500; where Load searches first, two rows of one entity or of two | holds, under fairness |
| `table_load` | do strategies, fallbacks and staging keep tables whole? | every database and strategy, 2 Loads of up to 4 rows, chunks of 2, one fault | holds |
| `sources` | is every promised row read once, does a position pass nothing unread? | 14 batch sources, 3 rows, pages of 2, 2 runs, one fault; or one stream of 4 events in 3 transactions, 2 mishaps | holds, under fairness |
| `shared_store` | do lock, batch and log survive overlap, crash and replay? | 2 runs and a replay on each backend, or a run and 2 replays over Postgres; 2 changes of the source, one over Postgres; 2 contents, one fault, a lock of one tick | holds, under fairness |

Why these bounds are enough: entities meet only in the counters, the batch, the watermark
and the sweep, so two of them show each meeting; two faults let a second failure hit the
recovery from the first; three payloads give content that goes back and forth and a row
that is rejected; caps of one and two are reached within a run; a history of two runs
lets a failed run push the last success out of the window. Runs are unbounded in number:
only faults (`MaxFaults`) and source changes (`MaxClock`) are bounded. The missing count
saturates at the threshold, which is all the code compares it with. Deadlock is checked in
the runs of `SyncRun` and in `shared_store`: a new run can always start or a stale lock be
released.

The other instances are cut to where each mechanism first meets another. In
`http_delivery` two rows make two workers, a threshold of one and one token make the
breaker and the limiter bite at once, two attempts are one retry. `MCHttpDelivery` gives every kind
an instance of its own: two faults, which hit a request and its retry or a worker and its
neighbour, go to the kinds in which that meeting differs (Zendesk, Klaviyo, Slack, Sheets,
Salesforce by REST), one fault to the others, none to bulk in parallel, where refusals
and the end of the context remain. A second `Load` comes only to the destinations
that work alone (to the parallel ones it adds states, no new meeting: they share nothing
between Loads but the breaker), with the same rows or new content. Three rows appear
where the parallel bulk path needs more than twice its threshold. Row 2 has no match
value where the destination asks for one, row 1 a known record for HubSpot, Intercom and
Pipedrive. Intercom goes without a limiter, Pipedrive without a breaker, bulk in parallel
without both. In
`table_load` four rows give three versions of one key, a row the database refuses and one
with other columns, so that groups, chunks and repeats all split; two Loads are the
first and a later one of a run or connection. In `sources` three rows make two pages and
two ranges, one row has no watermark, two runs hand a watermark on; four events hold a
transaction of two and two of one. `HttpDelivery.cfg`, `TableLoad.cfg` and `Sources.cfg`
set `CHECK_DEADLOCK FALSE`: Loads, runs and mishaps are bounded there, and the caller may
stop calling; `LoadReturns`, `ExtractReturns` and `StreamSettles` say that nothing in
between stops.

The properties of the passing runs:

- `SuccessWasDelivered`: state "success" means that payload landed once.
- `LoggedWasDelivered`: a delivery key in the log or the batch means it landed.
- `FailuresAreDeadLettered`: an entity saved as failed is in the dead-letter file with
  that payload.
- `StateMatchesDestination`: without faults, state and destination agree between runs.
  It is what the early `continue` at run.go:399 protects: content that goes a, b, a is
  skipped at the third step (its key is in the log), and saving a as the state would
  hide that the destination has b.
- `WithinLimits`, `ApprovedOnly`: no run lands more than the caps, or anything that needs
  approval without that approval. The approval gate counts pending rules' deliveries
  only, so `ApprovedOnly` leaves the sweep's archives out. The caps hold but for two gaps
  in the accounting, both part of the statement: the sweep counts its own deletes, so
  with rules that delete the cap applies twice; and a request that landed though it was
  reported as failed is not counted (run.go:413-429), one record for each such fault.
- `OnceRuleAtMostOnce`: holds while no crash, cancellation or failed save falls between a
  delivery and the rule's mark, and entity keys are unique in an extraction.
- `ArchiveOnlyAbsent`: with whole extractions, an archived entity had no row.
- `NoRowLost`: whatever the next incremental run will not read again is delivered. A
  source's own timeout, which ends in a success (run.go:488), is among the faults of
  `core_incremental`. It does no harm there because rows come in the order of the column
  and none share a value: what was read is then all there is up to the watermark. In any
  other order the property fails on the first such timeout, see "Disagreements".
- `Converges`: once source and faults are quiet, every row reaches the destination, under
  the same condition.

`TypeOK` of `SyncRun` is checked in `core_faults`, the run with most kinds of fault.

Of `http_delivery`:

- `MarkedWasWritten`: a row in the delivery log was written by the server. Exempt are rows
  a destination books without writing them (`Waived`): what Klaviyo's payload leaves out,
  what a Salesforce bulk job rejected, the delete of a HubSpot contact whose ID is not
  known, be it that there is none or that it could not be read.
- `EveryRowDecided`: a Load without a top-level error has loaded, skipped or failed every
  row, by name. Workers that fall silent when the context ends rely on the look at it in
  the end. The bulk jobs of Salesforce are held to less: each row was counted, or belongs
  to a batch or a job that reports an error without a row, or reports nothing of its
  rejected rows because their list could not be read.
- `NoSecondRecord`: search-then-create makes a second record of an entity only after a
  create or a search of one of its rows without a usable answer, or where one of its rows
  was searched for while the worker of another was about to create the entity.
- `ProbeIsOut`: a half-open breaker waits for a probe that is out, except probes dropped
  before they were sent (limiter, credentials), which leave it waiting for ever.
- `LoadReturns`: a Load returns, or is for ever in a request that has no time limit of its
  own (`Unlimited`: the fetch of an OAuth token, auth.go:166-171, and the requests of
  Google Sheets, googlesheets.go:50-76). Retries, breaker, limiter, semaphore and the polls
  of a bulk job hold no worker back for ever.
- `KeepsContract`.

Of `table_load`:

- `AppendOnce`: an append leaves at least as many copies as Loads that loaded the row and
  at most as many as Loads that brought it, through the fallbacks from COPY to INSERT and
  from chunks to rows, lost answers aside.
- `ReplacedByTheConnection`: in MySQL and Snowflake a replace keeps what earlier Loads of
  the connection wrote. Postgres remembers runs only, and the engine names none: there
  the property fails, see below.
- `StagedSwap`: with a run ID the target changes only when a run ends without an error.
- `LostKeyReported`: delete+insert that loses a key reports a row of it.
- `LatestWins`: of rows with one key and the same columns, all written by a merge, the
  last of the source stays.
- `OneCurrent`: SCD2 has one current version per key.
- `KeepsContract`.

Of `sources`:

- `StableRowsReadOnce`: an `Extract` that returns nil sent each promised row that did not
  change once. Offset paging needs a table at rest and distinct times (`smooth`).
- `NoRowPassed`: a saved watermark passes no row nobody read, rows committed late (`late`)
  and rows at the very time of a watermark aside (`tied`). A late row shows a time the
  watermark has passed, or may pass in the run it falls into; no code looks back for it.
  Tied rows really can be passed: when a driver's timeout cuts a page
  inside rows of one time, the run is a success (run.go:488) and the next one looks for
  times above theirs. The proof without the exception failed on this, and TLC then gave
  the run, in an instance with more rows of one time than a page has room for.
- `ForgottenWasDelivered`: a stored position or a 200 stands for delivered events, with
  the exceptions listed under "Disagreements".
- `ExtractReturns`: whoever stops first, engine or source, the other is released.
- `StreamSettles`: after any crash every event is delivered in the end.

Of `shared_store`:

- `OneRunAtATime`: exclusive unless a run outlives its lock or the operator removes it.
- `LoadedOnce`: a delivery is repeated only after lost marks or overlapping runs, or if it
  is `unsure`: its own first request landed and was reported as failed, or two replays had
  it at a time. The batch that overlapping cron runs share, replays of other content,
  refused rows and failed saves do not cause it.
- `StateFollowsDestination`: state and destination agree through replays of old content,
  in any order, unless they crossed or what was loaded last was not saved (`unsaved`). The
  next load that is saved ends the exception.
- `SyncKeepsRunning`: a run gets the lock again and again, whatever died holding it.

`LoadContract` is the abstract specification. A row is not written when the log has it,
enters the log as it is written and counted, is counted once, and a Load without a
top-level error accounts for all of its rows, by name unless it is `anonymous`.
`HttpDelivery` refines it with the waived rows above, anonymous for the bulk jobs;
`TableLoad` is never anonymous and refines it with its log, or, for append and replace, which skip the log, with
the rows counted in this Load, and with a driver's own dial timeout counted as a
top-level error (the code returns none, see below).

Fairness. In `SyncRun` the engine takes its own steps (weak fairness of `Engine`: it is sequential code
whose calls return), a stale lock expires after its ten minutes, and the scheduler keeps
starting real runs. No fairness is assumed of faults, cancellations or source changes.
`core_incremental` uses content that does not return to an earlier value of a row: with
such content, or after a row error, the code does not converge, which is the subject of
`failed_not_pending` and of the a, b, a remark above.

In `HttpDelivery` some goroutine that can run does (weak fairness of `Progress`), the
ticker refills the bucket and the bulk deadline passes. `Progress` leaves out the requests
without a time limit (`Unlimited`): of every other one `client.Do` has a timeout, so it is
answered or fails. A `select` chooses among its ready cases with equal chances, so a
deadline that is ready at tick after tick is taken in the end (strong fairness of that
choice). The cooldown of the breaker needs none: while it is open, requests fail at once. In `BatchExtract` statements end and goroutines run; in
`StreamDelivery` someone subscribes again, the loops and the consumer go on, the
acknowledgement timer fires; in `SharedStore` jobs go on, time passes, runs are started
again. None is assumed of faults, crashes, the table, or the end of a context.
`TableLoad` claims no liveness: it is sequential, and each statement shortens the queue or
falls back once.

## Disagreements between documents and code

Each violation run checks what a document or comment says and TLC refutes it with a short
behaviour; the lines are in `PROJECT.json` under "findings":

1. docs/dlq-replay.md:83 - failed entities appear as create or update again. The failed
   payload is saved as current (run.go:385-393), so they are skipped until they change.
2. docs/state-model.md:27 - a dry run never writes state. The sweep does (run.go:540-630).
3. docs/hubspot-restore.md:3 - archived because the source record was deleted. A source
   error partway through has the same effect (run.go:474).
4. README.md:291 - consecutive missing runs. The count survives runs that see the row
   unchanged (run.go:277, 537).
5. run.go:426-428 - real runs after a dry run see the correct baseline. The dry run's
   watermark counts as that of a successful run (run.go:172-176, 302).

Met while reading for the models, and without a run of their own. Where a property of a
passing run meets one, its statement names the exception.

Runs. `LockRun` is taken for ten minutes and `HeartbeatLock` is never called; `UnlockRun`
deletes the lock whoever owns it; a replay takes none. A limit does not stop or abort the
run, as README.md:280 and docs/architecture.md:74 have it: rows over it are skipped one by
one and the loop goes on (run.go:352-358), by the kind of delivery that is at its limit.
`on_status` (docs/dlq-replay.md:16) is not looked at: whatever the status, a failed row
is dead-lettered. A top-level error of a Load does save state, as failed (run.go:381-393,
against docs/architecture.md:113). `Shutdown` ("waits for in-flight
work", engine.go:67) does not wait, and nothing calls it. A run whose source stopped with
`DeadlineExceeded` or `Canceled` of its own, the context alive, succeeds (run.go:488) and
its watermark counts: where rows come in another order than the watermark's, it passes
rows nobody read, which no later run looks for (against docs/concepts.md:13). The
"reset" of replay.go:145 resets nothing: a second replay of a record is skipped by its key.
The engine never calls `CursorKind`, `ExtractNumeric` or `FinalizeRun`, names no run to a
destination, and asks for the strategy "upsert" everywhere (run.go:866), which MySQL and
Snowflake refuse; so the branch of postgres.go:183 ("engine-managed run") never applies,
and without it a replace removes, in Postgres, what the Load before it wrote.

Database destinations. A driver's own dial timeout leaves rows neither loaded nor in error
(postgres.go:462, mysql.go:238). Rows are written by groups of equal columns, so two rows
of one key with other columns may land in the wrong order. Postgres merges under
`delete+insert`, and with a `match_on` of several columns every row is an error.

API destinations. Only HubSpot looks at `_action`: elsewhere an archive is one more write.
A half-open probe that is dropped before it is sent leaves the breaker probing for ever.
HubSpot drops the error of the read of a stored ID (hubspot.go:192): a delete is then done
without a request and marked, which the comment at hubspot.go:201 allows only "No
destination ID stored". The parallel bulk jobs of Salesforce report one error without a row
for all rows of a batch (salesforce.go:236-238), and the others one for all rows a job
rejected, against "RowError captures a single row that failed to load"
(destination.go:12, 39). Two rows of one match value in one Load may both be created by
Pipedrive or Intercom, whose workers search before either has created (pipedrive.go:154-215,
intercom.go:149-222; "upserts rows", pipedrive.go:33). The requests named at `LoadReturns`
have no timeout.

Batch sources. MySQL compares with the interval's end even when it is zero
(mysql.go:262-267), which the engine always passes: a table with a watermark reads nothing.
Offset pages and parallel ranges over a changing table skip and repeat rows. A row without
a watermark gets the time of reading in some sources and ends the run in others; BigQuery
reads `>=`; `{{watermark}}` and `since=` are cut to seconds. A transaction that commits
while an extraction runs, with a time below what that run has seen, is never read, and a
key that commits after a greater one neither, against "rows that arrive during a long
extraction are picked up by the next run" and "no late-arrival risk for inserts"
(docs/concepts.md:24-27). The saved watermark is the
newest seen, not "the end of the last completed extraction window" (docs/concepts.md:13).

Streams. The `Ack` of the first row of a transaction confirms the rest of it, against
"unacked changes are redelivered" (postgres_cdc.go:27). A Kafka group without a commit
starts at the end and so loses what a crashed reader had fetched
(docs/examples/kafka-to-hubspot.md:40). The `Ack` of a later row passes a refused one
(streaming.go:40). The webhook's timeout starts only once the row is handed over, and CDC
sends no standby status while a row waits for its reader.

## Proofs

TLAPS proves, for all values of the constants that satisfy the named assumptions
(`RulesAssumption`, `LimitsAssumption`, `SyncAssumption`, `NoneAssumption`: the shapes of
the configuration and that the null value is neither a state nor a list of counts).

Of `DecisionRules` and `SyncRun`:

- `FirstMatchWins`, `FiredOnceRuleNeverWins`: `Evaluate` returns the first eligible rule,
  and never a once-rule that fired. The second needs rule names to be unique, which
  `Validate` does not enforce: with two rules of one name, the first firing silences both,
  while a plain rule with a once-rule's name is marked as fired with it.
- `TypeCorrect`: `Spec => []TypeOK`. `TypeOK` is inductive by itself; its `PhaseFacts` are
  what the types need (a pending row exists whenever one is being saved, the sweep only
  holds entities with state).
- `SuccessClaims`, `LogClaims`, `FailureClaims`: the three claims of `core_faults`, for any
  number of entities, runs and faults. None is inductive alone: between `Load` and the
  save after it, the claim rests on the row at the head of the pending deliveries. The
  invariant `DeliveryInv` adds that at `saveOk` this row landed and at `saveErr` it is in
  the dead-letter file. `DeliveryStep` goes through the actions; only `DeliverRow`, the
  saves and the sweep disturb it. `DeliverRow` uses `OutcomeFacts`: an outcome that marks,
  or that counts as loaded in a real run, landed.

- `RunsStayWithinLimits`, `OnlyApprovedLands`: `WithinLimits` and `ApprovedOnly`, for all
  limits and approvals. What landed is held against the counters of the run, action by
  action (`BookInv`): the evaluator's counts for rules and for the sweep, one more where
  a row has landed and is not yet recorded, and the faults that hide a landing.
  `ApproveInv` adds that what is pending and what landed together never exceed the
  count the gate compared. The bound without the second gap was the first attempt; it is
  not inductive, and TLC showed a run that lands one record more than `max_creates`.
- `StateIsTheDestination`: `StateMatchesDestination`. `MatchInv` excepts the entity
  whose delivery is being saved and adds that nothing fails on the way there. With content
  that returns (a, b, a) it holds because of the early `continue`: a skipped row is not
  saved.
- `OnceMeansOnce`: `OnceRuleAtMostOnce`, under the conditions it is true of: one row per
  entity (`OneRowEach`), rules of different names, and no fault between a delivery and the
  mark (`Recorded`). Each is needed; without the last, a crash between `Load` and
  `MarkRuleFired` delivers twice.
- `ArchivesOnlyTheAbsent`: `ArchiveOnlyAbsent`, for extractions that see everything
  (`SeesAll`: no watermark, no invalid rows, no source error; the violation runs are the
  other cases).

- `NothingIsLost`: `NoRowLost`, under two hypotheses that name what the claim depends on.
  `KeepsUp`: one row per entity; incremental, real runs; every changed row gets an action
  and no cap skips it; nothing delivered is archived; and no row errors, whole-Load errors
  or unreadable states on their own. The code saves a row that Load failed on with its
  fingerprint, so the next run finds it unchanged, skips it and succeeds past it, and it
  passes over an unreadable state in a run that succeeds. If the source may time out of
  itself, its rows come in the order of the column and start with different values, which
  changes of the source then keep apart. Crashes, cancellations in the
  middle of a Load, broken extractions, failed saves and commits and resets all stay.
  `Onward`: content never comes back. If it did, its delivery key would be in the log,
  and the early `continue` skips it while the destination has something else.
  The invariant is `LostInv`. `StampInv`: stamps are of the past. `AgeInv`: what is on its
  way is no younger than the source, what log or state know is no younger than what is on
  its way, and content the source still has, if known, is at the destination. `RunInv`: a
  run that may still succeed has brought each row, has it on its way, or the row changed
  after anything the run has a watermark of; rows still to be read are above those that
  were, where order matters. `PassedInv`: no watermark of a success has
  passed a row that was not brought. All of it is needed: after a crash the log knows more
  than the state, and only `AgeInv` says why the skip that follows loses nothing. TLC
  checked `LostInv` first, on the instance of `core_incremental` and on one with invalid
  rows, resets and two faults.

Of `SharedStore` (`StoreAssumption`):

- `StoreTypeCorrect`: `TypeOK`, inductive by itself.
- `LockIsExclusive`: `Spec => []OneRunAtATime` of `SharedStore`. A run
  at work, as long as no lock expired under a run and none was forced, owns a lock with
  time left (`OwnsTheLock`); `LockRun` cannot overrule it, and the unconditional
  `UnlockRun` removes its own. `KeepsLock` stands for all the actions that leave it alone.
- `DeliveredOnce`: `LoadedOnce`, for any number of runs and replays. With marks kept and no
  overlap, a delivery in flight that is not `unsure` is in nobody else's hands, and a landed
  one is in the log or the batch (`OnceInv`).
- `StateIsTrue`: `StateFollowsDestination`, over failed saves and unheard landings. Between
  a load and the save after it the destination is ahead of the state: `FollowInv` says that
  a job there holds what the destination holds, and that the state speaks for it when no
  job is there and nothing is `unsaved`.

Of `HttpDelivery` (`HelpersAssumption`, `DestinationsAssumption`, `DeliveryAssumption`):

- `MarkedOnlyWhenWritten`: `Spec => []MarkedWasWritten`, for all kinds, codes, instances
  and numbers of rows, and whatever fails in the state store. Inductive is `MarkInv`: the
  shape, that a worker at work is at one of its unit's requests, that after the request
  which closes a bulk job the rows of the unit are written or rejected, and that the rows
  of a worker about to mark are written or waived. The mark follows the last request, so
  it needs what the requests before it did.
- `HalfOpenHasAProbe`: `Spec => []ProbeIsOut`, for the same constants. `Allow` lets one
  attempt through a half-open breaker, and the claim is that this attempt is always told
  back. Each end of an attempt (answer, backoff, abort, deadline) is an `Over` step, after
  which the breaker is not probing; the invariant adds that between Loads nobody probes,
  and that an attempt which may end the whole Load belongs to a destination with one
  worker at work (`OneAtWork`), so that no neighbour's probe is cut off.
- `NoRowUndecided`: `EveryRowDecided`. `UnitInv` says that every row of the batch is in
  exactly one unit, that a unit not yet taken has its rows undecided, and that a worker
  that gave up did so after the context had ended, which Load sees in the end; only a bulk
  job leaves a row without a name. The
  lemmas on `Units` show that the cut into chunks forgets and repeats no row
  (`UnitsCover`, `UnitsDisjoint`), which needs that ranks have no gaps.
- `KeepsTheContract`: `Spec => KeepsContract`, the refinement of `LoadContract` step by
  step: `Call` begins, `Answer` writes, `Mark` counts and marks, the ends of a unit and of
  Load count what failed, the rest stutters. A written row is fresh because its unit is in
  one worker's hands.
- `SecondRecordsExcused`: `NoSecondRecord`, for any way match values put rows together.
  `CreateInv`: where a worker is about to create a record (`About`), its entity has none
  and no other worker is about to create it, or the entity is `Excused`: one of its rows is
  `unsure` or `raced`. A search that finds nothing while another worker is about to create
  makes its row `raced`, so two workers never get there unexcused.
- `DeliveryTypeCorrect`: `TypeOK`. Inductive with `RetriesLeft`: a worker waits for another
  attempt only while its retry loop has one left, and no request makes more than four
  checks; so attempts are bounded by `Attempts` and `HubSpotAttempts`, failures by
  `Threshold` and tokens by the bucket.

Of `StreamDelivery`:

- `NothingForgotten`: `StreamSpec => []ForgottenWasDelivered`, for logs of any length and
  any division into transactions (`StreamsAssumption`). `InOrderOfLog` is the argument:
  what was read is settled, or held by the consumer, or about to be sent, and these follow
  each other in the order of the log; then the position an `Ack` confirms passes nothing
  that is not settled.
- `StreamTypeCorrect`: `StreamTypeOK`, with its claim that no two answers wait for one
  post. `IdsInv`: a row ID is never used again, and one that is signalled is no longer
  pending, so a retry's answer cannot meet a late one; and what CDC produced ends with a
  transaction, so the positions stay within it.

Of `TableLoad` (`TableAssumption`: the shapes of rows, keys, columns and connections, and
bounds that are numbers):

- `TableTypeCorrect`: `TypeOK`, as part of `IInv`, the invariant the others build on. It
  needs the rest: a copy more stays within `MaxCopies` only because a row that waits was
  loaded less often than brought (`BookInv`). `LineInv` gives the shapes the queue takes
  (single rows, one statement, or a delete and what follows it), each row in it and in
  `left` once, each statement one its connection makes. `CountInv` says that a row that
  waits is not counted and, where the log is looked at, not in it, and that an uncounted
  row of the batch waits or had its statement end in the driver's timeout.
- The lemmas under it are about sequences made of sets: in a strict total order `Ordered`
  names every row once and in that order (`RankReached`, `OrderedIs`), `SortRowsByKey` and
  `Groups` are such orders (`OrderOfRows`), and a chunk and the rest cut the line in two
  without a loss (`NextChunkIs`, `CutInTwo`).
- `AppendsOnce`, `SwapsOnlyAWholeRun`: `AppendOnce` and the action property `StagedSwap`.
  `CopyInv`: a table has a row at least as often as it was loaded, at most as often as it
  was brought, and once less where this Load may still write it. So a fallback after a
  COPY that did nothing may insert, and one after a COPY that took effect is the lost
  answer that the property excepts. For `StagedSwap` the same is said of the staging table.
- `ReplacesBeforeItLoads`: `ReplacedByTheConnection`. `ReplaceInv`: nothing of the run
  counts as loaded before the truncation, and after it the table has what was loaded.
- `ReportsLostKeys`: `LostKeyReported`. `LostInv`: a key that was there and is gone has
  its row in the statement about to run, or has it reported.
- `LatestVersionStays`: `LatestWins`. `OrderInv`: what waits keeps the versions of a key
  in the order of the source, through sorting, grouping, chunks and the retry row by row;
  `LatestInv`: the latest version is in the table once loaded.
- `OneVersionCurrent`: `OneCurrent`, from the two statements of `Scd2` alone.
- `TableKeepsTheContract`: `Spec => KeepsContract`, the second refinement of `LoadContract`.
  `KeptIsStep` says what a step must do to be one of the contract; that a statement
  writes nothing the log has, and that the last step leaves nobody out, is `CountInv`.

Of `BatchExtract` (`SourcesAssumption`, `ExtractAssumption`: a finite table with integer
keys, at least one row, bounds that are numbers):

- One invariant, `ExtractInv`, carries all three results; `ExtractStep` goes through the
  actions conjunct by conjunct. `Base` has the types, the shape of the scans and what each
  phase guarantees; `Marks` says that watermarks are times of the past or keys that are
  there, `Interval` that both ends of the interval are bounded.
- `ExtractTypeOK`: `TypeOK`. That a row is sent no more often than there are rows needs
  `Counts`, and for pages by offset `OffsetOrder`.
- `ExtractReadsOnce`: `StableRowsReadOnce`. `Unique`: a row is in one place only (counted,
  in the channel, in one page) and no later statement will bring it again. This is where
  the ranges of a parallel extraction come in: `RangesCut` shows that `Ranges` cuts the keys
  from the least to the greatest into parts that meet nowhere and leave none out, for
  every number of parts, those of size one and the remainder included. `OffsetOrder`:
  pages by offset are cut from one order of the table, as long as the table rests and no
  two rows have one rank. `StableSeen`: an unchanged row in scope was read or a statement
  that brings it is still to come. At the end of `Extract` no statement is to come.
- `ExtractPassesNoRow`: `NoRowPassed`. `StableFresh`: what was read of an unchanged row is
  what the table has. `ChangedSeen`: a row that changed during the run was read since, or
  is newer than anything read, or a statement that brings it is to come. `InOrder`: where
  rows come in order, one not yet read is not below those that were, so a timeout leaves
  no gap; `UpToEnd`: nothing above the end of the interval was read. A row written
  during the run is either late, and excepted, or newer than anything the run can record. `NothingPassed` says
  the property in every phase, for the watermark that is saved and the one that will be.
- The lemmas under it: what a permutation of a set, its prefix and its rest are
  (`SeqsOf`, `OrdersAre`, `LeftIs`, `RestIs`), that in a set without ties there is one order
  (`OneOrder`), the first keys above a cursor (`FirstKeys`), and a digest of each kind of
  page, so that the steps speak of pages and not of sequences.

Only model-checked: the liveness properties (`Converges`, `LoadReturns`, `ExtractReturns`,
`StreamSettles`, `SyncKeepsRunning`), since the prover has neither `ENABLED` nor fairness.
Every invariant of a passing run is proved as well.

## What is left

To model: an entity archived twice, or back unchanged after an archive; the predicates
`transitioned` and `only_changed`, and `Trace` against `Evaluate`; a delayed search index
behind search-then-create; a rebalance of Kafka consumers.

## Not modelled

- Explain, diff, history, validate and test commands, and the listing commands of state and
  dead letters: they read and print.
- Steps and expressions, and the LRU cache: the batch engine does not call them.
- Configuration: its values are the constants; parsing has no state.
- Artifacts, metrics, logging, alerts, the connector registry, the API server, the demo:
  output and wiring that nothing reads back.
- Encodings: field mapping and payload layout, fingerprints, type conversion, DDL, schema
  discovery, decoding of CDC tuples, webhook signatures. Their result is a value here.
- Snowflake's `Merge` and `Delete`, and `Close` of the sources: the first have no caller,
  the second ends the process that a crash also ends.
- A dead-letter file that cannot be written, and a state store that cannot be opened.
