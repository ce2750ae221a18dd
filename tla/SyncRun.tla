------------------------------- MODULE SyncRun -------------------------------
(***************************************************************************)
(* Successive runs of one sync: the engine's runOnce (internal/engine/      *)
(* run.go) with the state store, the dead-letter file, a source whose rows  *)
(* change between and during runs, and a destination with per-row           *)
(* idempotency.  One action per call that changes shared or durable state,  *)
(* so that a crash or a cancellation can fall between any two of them.      *)
(*                                                                         *)
(* A payload stands for a row after mapping and normalisation; Fp gives its *)
(* fingerprint, which ignores the excluded fields, so two payloads may      *)
(* share one.                                                              *)
(*                                                                         *)
(* A change of a row is seen at once, with a stamp above all earlier ones.  *)
(* Rows that become visible late, and several statements in one extraction, *)
(* are the subject of BatchExtract.                                        *)
(***************************************************************************)
EXTENDS DecisionRules, SafetyLimits, FiniteSets

CONSTANTS
  Rows, Keys,         \* rows of the source query; entity keys
  KeyOf,              \* [Rows -> Keys \cup {NoKey}]: the entity_key field of a row
  NoKey,              \* the field is empty or absent
  Payloads, Fps, Fp,  \* Fp \in [Payloads -> Fps]
  Invalid,            \* payloads that lack a required field
  None,               \* no row, no record, no entity state
  Blank,              \* a destination record whose on_missing fields are cleared
  MissingAction,      \* on_missing_from_source.action, "none" when not configured
  Threshold,          \* after_missing_runs (1 when the file leaves it at 0)
  AllowDestructive,   \* allow_destructive_actions
  DlqOn, OnErrorSkip, \* errors.dlq configured; errors.on_error is "skip"
  Incremental,        \* source.watermark configured
  InOrder,            \* the source sends rows in the order of that column
  HistoryLimit,       \* runs GetRunHistory returns when the watermark is read
  DryModes,           \* subset of BOOLEAN: may a run be dry, may it be real
  Approvals,          \* counts an operator may pass as --approve-snapshot
  Faults, MaxFaults,  \* the faults that may occur and how many of them
  SourceMoves,        \* <<old, new>> payloads of one change of a source row
  FirstStamp,         \* what that column shows in each row at the start
  FirstClock,         \* changes of the source until then
  InitialPayloads, MaxClock

FaultKinds == {"crash", "cancel", "extract", "timeout", "read", "row",
               "ambiguous", "fatal", "save", "commit", "reset"}
RunStatus == {"running", "success", "failed", "timeout"}

ASSUME SyncAssumption ==
  /\ KeyOf \in [Rows -> Keys \cup {NoKey}] /\ NoKey \notin Keys
  /\ Fp \in [Payloads -> Fps]
  /\ Invalid \subseteq Payloads
  /\ None \notin Payloads /\ Blank \notin Payloads /\ None \notin Keys
  /\ MissingAction \in {"none", "skip", "delete", "clear_fields"}
  /\ Threshold \in Nat \ {0} /\ HistoryLimit \in Nat \ {0}
  /\ {AllowDestructive, DlqOn, OnErrorSkip, Incremental, InOrder} \subseteq BOOLEAN
  /\ DryModes \subseteq BOOLEAN
  /\ Approvals \subseteq [Buckets -> Nat]
  /\ Faults \subseteq FaultKinds
  /\ MaxFaults \in Nat /\ MaxClock \in Nat /\ FirstClock \in Nat
  /\ FirstStamp \in [Rows -> 1..FirstClock]
  /\ InitialPayloads \subseteq Payloads \cup {None}
  /\ SourceMoves \subseteq (Payloads \cup {None}) \X (Payloads \cup {None})

VARIABLES
  src, clock,    \* source rows [payload, stamp]; number of changes so far
  dest,          \* destination record of each entity
  es,            \* entity_state
  fired,         \* rule_firings
  log,           \* delivery_log
  history,       \* run_log, newest first, the part GetRunHistory returns
  locked,        \* pipeline_locks has a row for the sync
  dlq            \* the dead-letter file

VARIABLES        \* runOnce's own state, lost in a crash
  pc, dryRun, approval,
  todo,          \* rows the extraction query still has to send
  extracted, maxWm,
  seen,          \* seenKeys
  pend,          \* pending deliveries, in extraction order
  batch,         \* delivery marks buffered since BeginBatch
  counts, deleteCount,
  sweep, cur,    \* known entities still to sweep; the one being saved
  cancelled, extractErr, firstErr, status

VARIABLES        \* bookkeeping of the model, not of the program
  faults,        \* faults so far
  landed,        \* <<key, payload>> pairs the destination ever applied
  runLanded,     \* requests of this run that the destination applied
  present,       \* entities with a source row when the run's query started
  streak,        \* runs in a row in which the source lacked the entity
  hits           \* landed deliveries under a once-rule, per entity, up to 2

sourceVars == <<src, clock>>
storeVars == <<es, fired, log, history, locked, dlq>>
extractVars == <<todo, extracted, maxWm, seen>>
sweepVars == <<deleteCount, sweep, cur>>
outcomeVars == <<cancelled, extractErr, firstErr, status>>
runVars == <<pc, dryRun, approval, extractVars, pend, batch, counts,
             sweepVars, outcomeVars>>
ghostVars == <<landed, runLanded, present, streak, hits>>
vars == <<sourceVars, dest, storeVars, runVars, faults, ghostVars>>

------------------------------------------------------------------------------
\* Types

Phases == {"idle", "extract", "gate", "deliver", "saveOk", "mark", "saveErr",
           "sweep", "sweepSave", "commit", "finish"}
EntityState == [fp : Fps, payload : Payloads, status : {"success", "failed"},
                decision : DeliveryActions \cup {"clear_fields"},
                missing : 0..Threshold, hasId : BOOLEAN]

ASSUME NoneAssumption == None \notin EntityState \cup [Buckets -> Nat]

Pending == [key : Keys, payload : Payloads, action : DeliveryActions,
            rule : RuleNames \cup {NoRule}, es : EntityState \cup {None}]
RunLog == [status : RunStatus, wm : Nat]

(* deliveryOpKey, a hash of all three.  The variant leaves the content out. *)
OpKeyWithoutFp(k, action, fp) == <<k, action, CHOOSE f \in Fps : TRUE>>
OpKey(k, action, fp) == <<k, action, fp>>

RawKey(k) == <<k>>                           \* row ID of a missing-entity request
DeliveryKeys == (Keys \X DeliveryActions \X Fps) \cup {RawKey(k) : k \in Keys}

------------------------------------------------------------------------------
\* Helpers

AtMost(n, bound) == IF n < bound THEN n ELSE bound

(* A fault of kind f happens now; MaxFaults bounds how many do.            *)
Fault(f) == f \in Faults /\ faults < MaxFaults /\ faults' = faults + 1
MayFail(f) == f \in Faults /\ faults < MaxFaults
NoFault == faults' = faults

(* The watermark of the latest successful run that has one, else 0.        *)
(* The variant also takes the watermark of runs that did not succeed.      *)
LastWatermarkOfAny(h) ==
  LET useful == {i \in DOMAIN h : h[i].wm > 0}
  IN IF useful = {} THEN 0
     ELSE h[CHOOSE i \in useful : \A j \in useful : i <= j].wm
LastWatermark(h) ==
  LET useful == {i \in DOMAIN h : h[i].status = "success" /\ h[i].wm > 0}
  IN IF useful = {} THEN 0
     ELSE h[CHOOSE i \in useful : \A j \in useful : i <= j].wm

(* StartRun's row is the newest of those GetRunHistory returns.  The        *)
(* variant returns every run.                                              *)
StartedUnlimited(h) == <<[status |-> "running", wm |-> 0]>> \o h
Started(h) ==
  LET all == <<[status |-> "running", wm |-> 0]>> \o h
  IN SubSeq(all, 1, AtMost(Len(all), HistoryLimit))

(* Rows the extraction query returns: all of them, or those whose          *)
(* watermark column is above the previous watermark.                       *)
Extraction(wm) ==
  {[row |-> r, payload |-> src[r].payload, stamp |-> src[r].stamp] :
     r \in {q \in Rows : /\ src[q].payload # None
                         /\ wm > 0 => src[q].stamp > wm}}

Plan(k, payload) ==
  Evaluate([first |-> es[k] = None,
            changed |-> es[k] = None \/ es[k].fp # Fp[payload]],
           {name \in RuleNames : <<k, name>> \in fired})

PendingItem(k, payload) ==
  LET plan == Plan(k, payload)
  IN [key |-> k, payload |-> payload, action |-> plan.action,
      rule |-> plan.rule, es |-> es[k]]

PendingCounts ==
  [b \in Buckets |-> Cardinality({i \in DOMAIN pend : Bucket(pend[i].action) = b})]

ChangedRows ==
  Cardinality({i \in DOMAIN pend :
                 pend[i].es = None \/ pend[i].es.payload # pend[i].payload})

(* The variant lets every run with some approval through.                  *)
GateBlocksUnlessAnyApproval ==
  \/ RatioExceeded(ChangedRows, extracted)
  \/ ApprovalRequired(PendingCounts) /\ approval = None
GateBlocks ==
  \/ RatioExceeded(ChangedRows, extracted)
  \/ ApprovalRequired(PendingCounts) /\ approval # PendingCounts

(* The state after a delivery attempt.  The variant drops the status.      *)
BuildEntityStateAlwaysOk(item, st, id) ==
  [fp |-> Fp[item.payload], payload |-> item.payload, status |-> "success",
   decision |-> item.action, missing |-> 0, hasId |-> id]
BuildEntityState(item, st, id) ==
  [fp |-> Fp[item.payload], payload |-> item.payload, status |-> st,
   decision |-> item.action, missing |-> 0, hasId |-> id]

HadId(item) == item.es # None /\ item.es.hasId

(* The SQL stores run the upsert under the run's context, so it fails once *)
(* that is cancelled; every caller ignores the error.                      *)
SaveEntityState(k, state) ==
  \/ ~cancelled /\ NoFault /\ es' = [es EXCEPT ![k] = state]
  \/ cancelled /\ NoFault /\ es' = es
  \/ ~cancelled /\ Fault("save") /\ es' = es

------------------------------------------------------------------------------
\* The destination: one row per Load

(* What one Load may come back with: the HubSpot destination's results, and *)
(* the REST destination's when the context ends during the request (fatal, *)
(* even if the row was sent and marked).  A dry run's destination prints.  *)
(* kind is how runOnce reads the result, landed that the destination       *)
(* applied the request, marked that the delivery was recorded, cancels     *)
(* that the run's context ended meanwhile.                                 *)
Outcome(kind, lands, marks, stops) ==
  [kind |-> kind, landed |-> lands, marked |-> marks, cancels |-> stops]

LoadOutcomes(id) ==
  IF dryRun THEN {Outcome("loaded", FALSE, FALSE, FALSE)}
  ELSE IF cancelled THEN {Outcome("fatal", FALSE, FALSE, FALSE)}
  ELSE IF id \in batch \cup log THEN {Outcome("skipped", FALSE, FALSE, FALSE)}
  ELSE {Outcome("loaded", TRUE, TRUE, FALSE)}
       \cup (IF MayFail("row")
               THEN {Outcome("rowErr", FALSE, FALSE, FALSE)} ELSE {})
       \cup (IF MayFail("ambiguous")
               THEN {Outcome("rowErr", TRUE, FALSE, FALSE)} ELSE {})
       \cup (IF MayFail("fatal")
               THEN {Outcome("fatal", FALSE, FALSE, FALSE)} ELSE {})
       \cup (IF MayFail("cancel")
               THEN {Outcome("rowErr", FALSE, FALSE, TRUE),
                     Outcome("rowErr", TRUE, FALSE, TRUE),
                     Outcome("fatal", FALSE, FALSE, TRUE),
                     Outcome("fatal", TRUE, FALSE, TRUE),
                     Outcome("fatal", TRUE, TRUE, TRUE)} ELSE {})

(* Is the failed row written to the dead-letter file?  The variant writes   *)
(* only rows whose whole Load failed.                                      *)
DeadLetteredFatal(kind, dead) == DlqOn /\ kind = "fatal"
DeadLettered(kind, dead) == DlqOn /\ kind \in dead

(* Load's effects shared by both callers: value is what a landed request   *)
(* leaves at the destination; a result of a kind in dead puts payload in   *)
(* the dead-letter file.                                                   *)
Load(k, id, payload, value, dead, o) ==
  /\ o \in LoadOutcomes(id)
  /\ dest' = IF o.landed THEN [dest EXCEPT ![k] = value] ELSE dest
  /\ batch' = IF o.marked THEN batch \cup {id} ELSE batch
  /\ cancelled' = (cancelled \/ o.cancels)
  /\ dlq' = IF DeadLettered(o.kind, dead)
              THEN dlq \cup {[key |-> k, id |-> id, payload |-> payload]}
              ELSE dlq
  /\ faults' = IF o.kind \in {"rowErr", "fatal"} /\ ~cancelled
                 THEN faults + 1 ELSE faults

------------------------------------------------------------------------------
\* Initial state

Idle ==
  /\ pc = "idle" /\ dryRun = FALSE /\ approval = None
  /\ todo = {} /\ extracted = 0 /\ maxWm = 0 /\ seen = {}
  /\ pend = <<>> /\ batch = {} /\ counts = ZeroCounts
  /\ deleteCount = 0 /\ sweep = {} /\ cur = None
  /\ cancelled = FALSE /\ extractErr = FALSE /\ firstErr = FALSE
  /\ status = "success"

Init ==
  /\ clock = FirstClock
  /\ \E first \in [Rows -> InitialPayloads] :
       src = [r \in Rows |-> [payload |-> first[r],
                              stamp |-> IF Incremental THEN FirstStamp[r] ELSE 0]]
  /\ dest = [k \in Keys |-> None]
  /\ es = [k \in Keys |-> None]
  /\ fired = {} /\ log = {} /\ history = <<>> /\ locked = FALSE /\ dlq = {}
  /\ Idle
  /\ faults = 0 /\ landed = {} /\ runLanded = ZeroCounts
  /\ present = {} /\ streak = [k \in Keys |-> 0]
  /\ hits = [h \in Keys \X OnceRules |-> 0]

------------------------------------------------------------------------------
\* Phase 1: extract and decide

(* runOnce up to the start of the extraction: take the lock, log the run,  *)
(* begin a delivery batch, read the watermark (an unreadable run history   *)
(* means a full extraction) and open the source query.  A run that fails   *)
(* earlier (no source, lock held) changes nothing and is not modelled.     *)
BeginRun(dry, approved) ==
  /\ pc = "idle" /\ ~locked
  /\ dry => approved = None            \* dry-run has no --approve-snapshot
  /\ locked' = TRUE
  /\ history' = Started(history)
  /\ \/ NoFault /\ todo' = Extraction(IF Incremental THEN LastWatermark(history') ELSE 0)
     \/ Incremental /\ Fault("read") /\ todo' = Extraction(0)
  /\ pc' = "extract" /\ dryRun' = dry /\ approval' = approved
  /\ extracted' = 0 /\ maxWm' = 0 /\ seen' = {}
  /\ pend' = <<>> /\ batch' = {} /\ counts' = ZeroCounts
  /\ deleteCount' = 0 /\ sweep' = {} /\ cur' = None
  /\ cancelled' = FALSE /\ extractErr' = FALSE /\ firstErr' = FALSE
  /\ status' = "success"
  /\ runLanded' = ZeroCounts
  /\ present' = {KeyOf[r] : r \in {q \in Rows : src[q].payload # None}}
  /\ UNCHANGED <<sourceVars, dest, es, fired, log, dlq, landed, streak, hits>>

Receive(x) ==
  /\ pc = "extract" /\ ~cancelled
  /\ x \in todo /\ todo' = todo \ {x}
  /\ InOrder => \A y \in todo : x.stamp <= y.stamp
  /\ extracted' = extracted + 1
  /\ maxWm' = IF x.stamp > maxWm THEN x.stamp ELSE maxWm

Deliverable(x) == x.payload \notin Invalid /\ KeyOf[x.row] # NoKey

(* A row without its required fields or its entity key is only counted.    *)
RejectRow ==
  /\ \E x \in todo : Receive(x) /\ ~Deliverable(x)
  /\ NoFault
  /\ UNCHANGED <<sourceVars, dest, storeVars, pc, dryRun, approval, seen, pend,
                 batch, counts, sweepVars, outcomeVars, ghostVars>>

(* A row is decided against the stored state; what is not skipped waits.   *)
DecideRow ==
  /\ \E x \in todo :
       LET item == PendingItem(KeyOf[x.row], x.payload)
       IN /\ Receive(x) /\ Deliverable(x)
          /\ seen' = seen \cup {KeyOf[x.row]}
          /\ pend' = IF item.action = "skip" THEN pend ELSE Append(pend, item)
  /\ NoFault
  /\ UNCHANGED <<sourceVars, dest, storeVars, pc, dryRun, approval, batch, counts,
                 sweepVars, outcomeVars, ghostVars>>

(* The state or the rule firings of the entity cannot be read.             *)
DecideFails ==
  /\ \E x \in todo : /\ Receive(x) /\ Deliverable(x)
                      /\ seen' = seen \cup {KeyOf[x.row]}
  /\ Fault("read")
  /\ UNCHANGED <<sourceVars, dest, storeVars, pc, dryRun, approval, pend, batch,
                 counts, sweepVars, outcomeVars, ghostVars>>

(* The channel is drained, the context has ended, or the source failed     *)
(* partway; runOnce goes on with the rows it has.  A source that failed     *)
(* with a deadline or a cancellation of its own is taken for one at its end. *)
EndExtract ==
  /\ pc = "extract"
  /\ \/ (todo = {} \/ cancelled) /\ NoFault /\ UNCHANGED extractErr
     \/ todo # {} /\ Fault("extract") /\ extractErr' = TRUE
     \/ todo # {} /\ Fault("timeout") /\ UNCHANGED extractErr
  /\ pc' = "gate" /\ todo' = {}
  /\ UNCHANGED <<sourceVars, dest, storeVars, dryRun, approval, extracted, maxWm,
                 seen, pend, batch, counts, sweepVars, cancelled, firstErr,
                 status, ghostVars>>

(* The field-ratio check and the approval gate, before any delivery.       *)
GateBlock ==
  /\ pc = "gate" /\ GateBlocks
  /\ batch' = {} /\ status' = "failed" /\ pc' = "finish"
  /\ UNCHANGED <<sourceVars, dest, storeVars, dryRun, approval, extractVars, pend,
                 counts, sweepVars, cancelled, extractErr, firstErr, faults,
                 ghostVars>>

GatePass ==
  /\ pc = "gate" /\ ~GateBlocks
  /\ pc' = "deliver"
  /\ UNCHANGED <<sourceVars, dest, storeVars, dryRun, approval, extractVars, pend,
                 batch, counts, sweepVars, outcomeVars, faults, ghostVars>>

------------------------------------------------------------------------------
\* Phase 2: deliver

pd == Head(pend)
opKey == OpKey(pd.key, pd.action, Fp[pd.payload])

Delivering == pc = "deliver" /\ pend # <<>> /\ ~cancelled

(* Over a per-run cap: this row is skipped, the loop goes on.              *)
SkipOverLimit ==
  /\ Delivering /\ ~Allow(pd.action, counts)
  /\ pend' = Tail(pend)
  /\ UNCHANGED <<sourceVars, dest, storeVars, pc, dryRun, approval, extractVars,
                 batch, counts, sweepVars, outcomeVars, faults, ghostVars>>

(* Where runOnce goes with a Load result.  The variant saves the state of a *)
(* row the destination skipped.                                            *)
AfterLoadSaveSkipped(kind) ==
  CASE kind = "loaded" /\ dryRun -> "deliver"
    [] kind \in {"loaded", "skipped"} /\ ~dryRun -> "saveOk"
    [] OTHER -> "saveErr"
AfterLoad(kind) ==
  CASE kind = "skipped" -> "deliver"
    [] kind = "loaded" /\ dryRun -> "deliver"
    [] kind = "loaded" /\ ~dryRun -> "saveOk"
    [] OTHER -> "saveErr"

(* dest.Load for the next row, then the branch runOnce takes on its result. *)
(* A destination that skips the row leaves the entity state alone.         *)
DeliverRow ==
  /\ Delivering /\ Allow(pd.action, counts)
  /\ \E o \in LoadOutcomes(opKey) :
       /\ Load(pd.key, opKey, pd.payload, pd.payload,
               {"rowErr", "fatal"}, o)
       /\ pc' = AfterLoad(o.kind)
       /\ pend' = IF AfterLoad(o.kind) = "deliver" THEN Tail(pend) ELSE pend
       /\ counts' = IF o.kind = "loaded" /\ dryRun
                      THEN Record(pd.action, counts) ELSE counts
       /\ firstErr' = (firstErr \/ (o.kind = "fatal" /\ ~DlqOn /\ ~OnErrorSkip))
       /\ landed' = IF o.landed THEN landed \cup {<<pd.key, pd.payload>>}
                                ELSE landed
       /\ runLanded' = IF o.landed THEN Record(pd.action, runLanded)
                                   ELSE runLanded
       /\ hits' = IF o.landed /\ pd.rule \in OnceRules
                    THEN [hits EXCEPT ![<<pd.key, pd.rule>>] = AtMost(@ + 1, 2)]
                    ELSE hits
  /\ UNCHANGED <<sourceVars, es, fired, log, history, locked, dryRun, approval,
                 extractVars, sweepVars, extractErr, status, present, streak>>

(* A delivery that landed: the entity state, then the once-rule firing.    *)
SaveDelivered ==
  /\ pc = "saveOk"
  /\ SaveEntityState(pd.key, BuildEntityState(pd, "success", TRUE))
  /\ counts' = Record(pd.action, counts)
  /\ pc' = IF pd.rule \in OnceRules THEN "mark" ELSE "deliver"
  /\ pend' = IF pd.rule \in OnceRules THEN pend ELSE Tail(pend)
  /\ UNCHANGED <<sourceVars, dest, fired, log, history, locked, dlq, dryRun,
                 approval, extractVars, batch, sweepVars, outcomeVars, ghostVars>>

MarkRuleFired ==
  /\ pc = "mark"
  /\ \/ ~cancelled /\ NoFault /\ fired' = fired \cup {<<pd.key, pd.rule>>}
     \/ cancelled /\ NoFault /\ UNCHANGED fired
     \/ ~cancelled /\ Fault("save") /\ UNCHANGED fired
  /\ pc' = "deliver" /\ pend' = Tail(pend)
  /\ UNCHANGED <<sourceVars, dest, es, log, history, locked, dlq, dryRun, approval,
                 extractVars, batch, counts, sweepVars, outcomeVars, ghostVars>>

(* A delivery that failed, its dead-letter record already written.         *)
SaveFailed ==
  /\ pc = "saveErr"
  /\ SaveEntityState(pd.key, BuildEntityState(pd, "failed", HadId(pd)))
  /\ pc' = "deliver" /\ pend' = Tail(pend)
  /\ UNCHANGED <<sourceVars, dest, fired, log, history, locked, dlq, dryRun,
                 approval, extractVars, batch, counts, sweepVars, outcomeVars,
                 ghostVars>>

(* The entities the sweep will visit.  The variant forgets seenKeys.       *)
KnownMissingAll == {k \in Keys : es[k] # None}
KnownMissing == {k \in Keys : es[k] # None} \ seen

(* The loop is done or cut short; the sweep starts unless cancelled.       *)
EndDelivery ==
  /\ pc = "deliver" /\ (pend = <<>> \/ cancelled)
  /\ pend' = <<>>
  /\ IF MissingAction # "none" /\ ~cancelled
       THEN /\ pc' = "sweep"
            /\ \/ NoFault /\ sweep' = KnownMissing
               \/ Fault("read") /\ sweep' = {}
            /\ streak' = [k \in Keys |-> IF k \in present THEN 0
                                         ELSE AtMost(streak[k] + 1, Threshold)]
       ELSE pc' = "commit" /\ NoFault /\ UNCHANGED <<sweep, streak>>
  /\ UNCHANGED <<sourceVars, dest, storeVars, dryRun, approval, extractVars, batch,
                 counts, deleteCount, cur, outcomeVars, landed, runLanded, present, hits>>

------------------------------------------------------------------------------
\* Entities missing from the extraction (processMissingEntities)

Missed(k) == AtMost(es[k].missing + 1, Threshold)   \* ++, saturating

(* The sweep's own cap, on its own counter.  The variant is off by one.    *)
DeletesCappedLate == Limits["deletes"] > 0 /\ deleteCount > Limits["deletes"]
DeletesCapped == Limits["deletes"] > 0 /\ deleteCount >= Limits["deletes"]

(* The entity is due for the configured action, and the action is allowed. *)
Due(k) ==
  /\ Missed(k) >= Threshold
  /\ \/ MissingAction = "clear_fields"
     \/ MissingAction = "delete" /\ AllowDestructive /\ ~DeletesCapped

(* Only the count of missing runs is saved.  There is no dry-run guard.    *)
CountMissing(k) ==
  /\ pc = "sweep" /\ k \in sweep /\ ~Due(k)
  /\ SaveEntityState(k, [es[k] EXCEPT !.missing = Missed(k)])
  /\ sweep' = sweep \ {k}
  /\ UNCHANGED <<sourceVars, dest, fired, log, history, locked, dlq, pc, dryRun,
                 approval, extractVars, pend, batch, counts, deleteCount, cur,
                 outcomeVars, ghostVars>>

(* The archive or clear request.  An archive of an entity without a stored *)
(* destination ID sends nothing.  Only a fatal error is looked at: a row   *)
(* error is neither counted nor dead-lettered, and counts as a delete.     *)
SendMissing(k) ==
  /\ pc = "sweep" /\ k \in sweep /\ Due(k)
  /\ \E o \in LoadOutcomes(RawKey(k)) :
       /\ Load(k, RawKey(k), es[k].payload,
               CASE MissingAction = "clear_fields" -> Blank
                 [] es[k].hasId -> None
                 [] OTHER -> dest[k],
               {"fatal"}, o)
       /\ deleteCount' = IF MissingAction = "delete" /\ o.kind # "fatal"
                           THEN deleteCount + 1 ELSE deleteCount
       /\ runLanded' = IF MissingAction = "delete" /\ o.landed /\ es[k].hasId
                         THEN Record("delete", runLanded) ELSE runLanded
  /\ cur' = k /\ pc' = "sweepSave"
  /\ UNCHANGED <<sourceVars, es, fired, log, history, locked, dryRun, approval,
                 extractVars, pend, counts, sweep, extractErr, firstErr, status,
                 landed, present, streak, hits>>

(* Whatever the request came to, the action is saved as the decision.      *)
SaveMissing ==
  /\ pc = "sweepSave"
  /\ SaveEntityState(cur,
       IF MissingAction = "delete"
         THEN [es[cur] EXCEPT !.decision = "delete", !.missing = 0]
         ELSE [es[cur] EXCEPT !.decision = "clear_fields", !.missing = Missed(cur)])
  /\ sweep' = sweep \ {cur} /\ cur' = None /\ pc' = "sweep"
  /\ UNCHANGED <<sourceVars, dest, fired, log, history, locked, dlq, dryRun,
                 approval, extractVars, pend, batch, counts, deleteCount,
                 outcomeVars, ghostVars>>

EndSweep ==
  /\ pc = "sweep" /\ sweep = {}
  /\ pc' = "commit"
  /\ UNCHANGED <<sourceVars, dest, storeVars, dryRun, approval, extractVars, pend,
                 batch, counts, sweepVars, outcomeVars, faults, ghostVars>>

------------------------------------------------------------------------------
\* End of the run

(* CommitBatch empties the buffer before its transaction, so a failed      *)
(* commit loses the delivery marks of the run.                             *)
Commit ==
  /\ pc = "commit"
  /\ \/ /\ NoFault
        /\ log' = log \cup batch
        /\ status' = CASE cancelled -> "timeout"
                       [] ~cancelled /\ (firstErr \/ extractErr) -> "failed"
                       [] OTHER -> "success"
     \/ Fault("commit") /\ log' = log /\ status' = "failed"
  /\ batch' = {} /\ pc' = "finish"
  /\ UNCHANGED <<sourceVars, dest, es, fired, history, locked, dlq, dryRun, approval,
                 extractVars, pend, counts, sweepVars, cancelled, extractErr,
                 firstErr, ghostVars>>

ClearRun ==
  /\ pc' = "idle" /\ dryRun' = FALSE /\ approval' = None
  /\ todo' = {} /\ extracted' = 0 /\ maxWm' = 0 /\ seen' = {}
  /\ pend' = <<>> /\ batch' = {} /\ counts' = ZeroCounts
  /\ deleteCount' = 0 /\ sweep' = {} /\ cur' = None
  /\ cancelled' = FALSE /\ extractErr' = FALSE /\ firstErr' = FALSE
  /\ status' = "success"

(* The deferred FinishRun and UnlockRun.                                   *)
FinishRun ==
  /\ pc = "finish"
  /\ history' = [history EXCEPT ![1] = [status |-> status, wm |-> maxWm]]
  /\ locked' = FALSE
  /\ ClearRun
  /\ UNCHANGED <<sourceVars, dest, es, fired, log, dlq, faults, ghostVars>>

(* The run's context ends: SIGINT or SIGTERM.                              *)
Cancel ==
  /\ pc # "idle" /\ ~cancelled
  /\ Fault("cancel") /\ cancelled' = TRUE
  /\ UNCHANGED <<sourceVars, dest, storeVars, pc, dryRun, approval, extractVars,
                 pend, batch, counts, sweepVars, extractErr, firstErr, status,
                 ghostVars>>

(* The process dies: buffers and run state are gone, the lock row and the  *)
(* "running" log entry stay.                                               *)
Crash ==
  /\ pc # "idle"
  /\ Fault("crash")
  /\ ClearRun
  /\ UNCHANGED <<sourceVars, dest, storeVars, ghostVars>>

(* A dead run's lock expires, or the operator clears it (state unlock).    *)
ReleaseStaleLock ==
  /\ pc = "idle" /\ locked
  /\ locked' = FALSE
  /\ UNCHANGED <<sourceVars, dest, es, fired, log, history, dlq, runVars, faults,
                 ghostVars>>

------------------------------------------------------------------------------
\* The environment

ChangeSource(r, p) ==
  /\ clock < MaxClock /\ <<src[r].payload, p>> \in SourceMoves
  /\ clock' = clock + 1
  /\ src' = [src EXCEPT ![r] = [payload |-> p,
                                stamp |-> IF Incremental THEN clock + 1 ELSE 0]]
  /\ UNCHANGED <<dest, storeVars, runVars, faults, ghostVars>>

(* The operator's `state reset`: the entity state goes, the delivery log   *)
(* and the rule firings stay.                                              *)
ResetEntity(k) ==
  /\ pc = "idle" /\ es[k] # None
  /\ Fault("reset")
  /\ es' = [es EXCEPT ![k] = None]
  /\ UNCHANGED <<sourceVars, dest, fired, log, history, locked, dlq, runVars,
                 ghostVars>>

Engine ==
  \/ RejectRow \/ DecideRow \/ DecideFails \/ EndExtract \/ GateBlock \/ GatePass
  \/ SkipOverLimit \/ DeliverRow \/ SaveDelivered \/ MarkRuleFired \/ SaveFailed
  \/ EndDelivery
  \/ \E k \in Keys : CountMissing(k) \/ SendMissing(k)
  \/ SaveMissing \/ EndSweep \/ Commit \/ FinishRun

Operator ==
  \/ \E dry \in DryModes, approved \in Approvals \cup {None} :
       BeginRun(dry, approved)
  \/ ReleaseStaleLock
  \/ \E k \in Keys : ResetEntity(k)

Environment ==
  \/ Cancel \/ Crash
  \/ \E r \in Rows, p \in Payloads \cup {None} : ChangeSource(r, p)

Next == Engine \/ Operator \/ Environment

Spec == Init /\ [][Next]_vars

(* The engine keeps running its own code; a stale lock expires; the        *)
(* scheduler starts real runs for ever.                                    *)
Fairness ==
  /\ WF_vars(Engine)
  /\ WF_vars(ReleaseStaleLock)
  /\ WF_vars(\E approved \in Approvals \cup {None} : BeginRun(FALSE, approved))

FairSpec == Spec /\ Fairness

------------------------------------------------------------------------------
\* Properties

StoreTypes ==
  /\ es \in [Keys -> EntityState \cup {None}]
  /\ fired \subseteq Keys \X OnceRules
  /\ log \subseteq DeliveryKeys
  /\ history \in Seq(RunLog) /\ Len(history) <= HistoryLimit
  /\ locked \in BOOLEAN
  /\ dlq \subseteq [key : Keys, id : DeliveryKeys, payload : Payloads]

ExtractTypes ==
  /\ todo \subseteq [row : Rows, payload : Payloads, stamp : Nat]
  /\ extracted \in Nat /\ maxWm \in Nat /\ seen \subseteq Keys

RunTypes ==
  /\ pc \in Phases /\ dryRun \in BOOLEAN /\ approval \in Approvals \cup {None}
  /\ pend \in Seq(Pending) /\ batch \subseteq DeliveryKeys
  /\ counts \in [Buckets -> Nat] /\ deleteCount \in Nat
  /\ sweep \subseteq Keys /\ cur \in Keys \cup {None}
  /\ cancelled \in BOOLEAN /\ extractErr \in BOOLEAN /\ firstErr \in BOOLEAN
  /\ status \in RunStatus \ {"running"}

GhostTypes ==
  /\ faults \in 0..MaxFaults
  /\ landed \subseteq Keys \X Payloads
  /\ runLanded \in [Buckets -> Nat]
  /\ present \subseteq Keys \cup {NoKey}
  /\ streak \in [Keys -> 0..Threshold]
  /\ hits \in [Keys \X OnceRules -> 0..2]

(* What each phase of runOnce relies on.                                   *)
PhaseFacts ==
  /\ pc # "idle" => locked /\ history # <<>>
  /\ pc \in {"saveOk", "mark", "saveErr"} => pend # <<>>
  /\ pc = "mark" => pd.rule \in OnceRules
  /\ pc = "sweepSave" => cur \in sweep
  /\ pc \in {"sweep", "sweepSave"} => \A k \in sweep : es[k] # None

(* Types, and the phase facts they depend on: the run holds its lock and   *)
(* its run-log row, never saves the result of a row it does not have, and  *)
(* never sweeps an entity without state.                                   *)
TypeOK ==
  /\ clock \in Nat
  /\ src \in [Rows -> [payload : Payloads \cup {None}, stamp : Nat]]
  /\ dest \in [Keys -> Payloads \cup {None, Blank}]
  /\ StoreTypes /\ ExtractTypes /\ RunTypes /\ GhostTypes
  /\ PhaseFacts

(* An entity marked "success" carries a payload the destination really     *)
(* applied for it at some time: no crash, cancellation or failed delivery  *)
(* makes the state claim a delivery that never landed.                     *)
SuccessWasDelivered ==
  \A k \in Keys : es[k] # None /\ es[k].status = "success"
                    => <<k, es[k].payload>> \in landed

(* The delivery log and the open batch only hold deliveries that landed,   *)
(* with that content: a row skipped as "already delivered" was delivered.  *)
LoggedWasDelivered ==
  \A k \in Keys, a \in DeliveryActions, f \in Fps :
    OpKey(k, a, f) \in log \cup batch
      => \E p \in Payloads : Fp[p] = f /\ <<k, p>> \in landed

(* With a dead-letter file, an entity left "failed" has the payload it     *)
(* failed with in that file, so that replay can find it.                   *)
FailuresAreDeadLettered ==
  DlqOn => \A k \in Keys : es[k] # None /\ es[k].status = "failed"
             => \E d \in dlq : d.key = k /\ d.payload = es[k].payload

(* As long as nothing failed, between runs the stored payload of an entity *)
(* is the destination's record: a delivery skipped as already done, after  *)
(* the content went back and forth, must not be saved as the new state.    *)
StateMatchesDestination ==
  pc = "idle" /\ faults = 0 =>
    \A k \in Keys : es[k] # None /\ es[k].decision \in {"create", "upsert", "update"}
                      => dest[k] = es[k].payload

(* A run changes no more destination records, per kind, than the safety    *)
(* section allows, but for two gaps in the accounting: the sweep counts    *)
(* deletes of its own, so rules that delete get the cap once more; and a    *)
(* request that landed although it was reported as failed is not counted.  *)
RulesDelete == Default = "delete" \/ \E i \in DOMAIN Rules : Rules[i].action = "delete"
Cap(b) == IF b = "deletes" /\ RulesDelete /\ MissingAction = "delete"
            THEN 2 * Limits[b] ELSE Limits[b]
Unanswered == IF Faults \cap {"ambiguous", "cancel"} = {} THEN 0 ELSE faults
WithinLimits ==
  \A b \in Buckets : Limits[b] > 0 => runLanded[b] <= Cap(b) + Unanswered

(* A kind of action that needs approval lands only in a run whose operator *)
(* approved that many of them.                                             *)
ApprovedOnly ==
  pc # "idle" =>
    \A b \in ApproveFor \ {"deletes"} :
      runLanded[b] > 0 => approval # None /\ runLanded[b] <= approval[b]

(* A once-rule delivers at most once per entity, where each entity has one  *)
(* row and no delivery goes unrecorded: it does not crash, get cancelled,   *)
(* fail to save or fail after it landed.                                   *)
OnceRuleAtMostOnce == \A h \in Keys \X OnceRules : hits[h] <= 1

Archived(k) == dest[k] # None /\ dest'[k] = None

(* An entity is archived only if the source had no row for it when the     *)
(* run queried it.                                                         *)
ArchiveOnlyAbsent == [][\A k \in Keys : Archived(k) => k \notin present]_vars

(* An entity is archived only after it was missing in after_missing_runs   *)
(* consecutive runs.                                                       *)
ArchiveAfterThreshold ==
  [][\A k \in Keys : Archived(k) => streak[k] >= Threshold]_vars

(* A dry run writes no entity state, rule firing or delivery mark.         *)
DryRunWritesNoState == [][dryRun => UNCHANGED <<es, fired, log>>]_vars

CurrentRows == {r \in Rows : /\ src[r].payload \notin Invalid \cup {None}
                             /\ KeyOf[r] # NoKey}

(* Failed entities are still pending work: the rules give them an action   *)
(* again while their source row is what it was.                            *)
FailedIsPending ==
  pc = "idle" =>
    \A r \in CurrentRows :
      LET k == KeyOf[r]
      IN es[k] # None /\ es[k].status = "failed"
           => Plan(k, src[r].payload).action # "skip"

(* Every row at or below the watermark the next incremental run starts     *)
(* from has reached the destination: a run that crashed, was cancelled or  *)
(* lost its source halfway must not move the watermark past its rows.  A   *)
(* source's own timeout, which leaves the run a success, does no harm as   *)
(* long as rows come in the order of the column and no two share a value;  *)
(* in any other order it does.                                             *)
NoRowLost ==
  pc = "idle" =>
    \A r \in CurrentRows : src[r].stamp <= LastWatermark(history)
                             => dest[KeyOf[r]] = src[r].payload

(* Once the source stops changing and faults stop, runs bring every row to *)
(* the destination and keep it there.                                      *)
Converges == <>[](\A r \in CurrentRows : dest[KeyOf[r]] = src[r].payload)
==============================================================================
