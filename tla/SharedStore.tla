----------------------------- MODULE SharedStore -----------------------------
(***************************************************************************)
(* One state store (internal/state: sqlite, postgres, memory) and what        *)
(* works on it at the same time: runs of one sync, of one process by its     *)
(* cron schedule or of two, replay commands, and the operator who unlocks.    *)
(* SyncRun has a run in full; here one is reduced to one entity and the     *)
(* calls that touch what others share.                                      *)
(***************************************************************************)
EXTENDS Naturals

CONSTANTS
  Setups,        \* pairs of a backend and: are the runners one process
  Runners,       \* places a run may be started from
  Replayers,     \* those of the replay command, each a process of its own
  JobsOf,        \* of each setup: the runners and replayers there are
  Payloads, First, None,   \* First: what the source has in the beginning
  Ttl,           \* ticks a lock lives, ten minutes in the engine
  MaxChanges,    \* of the source row, in each setup
  MaxFaults      \* failures, crashes, runs that outlive their lock, unlocks by hand

ASSUME StoreAssumption ==
  /\ Setups \subseteq ({"sqlite", "postgres"} \X BOOLEAN) \cup {<<"memory", TRUE>>}
  /\ First \in Payloads
  /\ Replayers \cap Runners = {} /\ None \notin Payloads \cup Runners
  /\ Ttl \in Nat \ {0} /\ MaxFaults \in Nat /\ MaxChanges \in [Setups -> Nat]

Jobs == Runners \cup Replayers

VARIABLES
  backend,
  oneProcess,    \* the runners are one process with one store object
  src, dest,     \* the entity in the source and in the destination
  es,            \* entity_states
  log,           \* delivery_log
  lock,          \* pipeline_locks
  dlq,           \* payloads in the dead-letter file
  batch,         \* batchSeen and batchPending of each job's store object
  pc, work       \* of each job: where it is, what it delivers and how that went

VARIABLES        \* bookkeeping of the model
  faults, changes,
  loaded, twice, \* deliveries loaded so far; those of them loaded again
  disturbed,     \* a run outlived its lock, or the operator unlocked
  lost,          \* marks were lost: a crash, a failed commit
  unsure,        \* deliveries that landed unanswered, or of two replays at a time
  crossed,       \* a replay was at work together with a run, or another replay
  unsaved        \* the destination has something whose state was not saved

storeVars == <<src, dest, es, log, lock, dlq, batch>>
bookVars == <<faults, changes, loaded, twice, disturbed, lost, unsure, crossed, unsaved>>
vars == <<backend, oneProcess, storeVars, pc, work, bookVars>>

Setup == <<backend, oneProcess>>
Deliveries == {"upsert", "replay"} \X Payloads
EntityState == [payload : Payloads, status : {"success", "failed"}]
Places == {"idle", "clean", "insert", "begin", "decide", "check", "load", "save", "commit",
           "unlock"}
Locks == [owner : Runners, left : 0..Ttl]

ASSUME NoneAssumption == None \notin EntityState \cup Locks

Closed == [open |-> FALSE, marks |-> {}]
NoWork == [payload |-> None, result |-> "none"]

TypeOK ==
  /\ Setup \in Setups
  /\ src \in Payloads /\ dest \in Payloads \cup {None}
  /\ es \in EntityState \cup {None} /\ log \subseteq Deliveries /\ dlq \subseteq Payloads
  /\ lock \in Locks \cup {None}
  /\ \A j \in Jobs :
       /\ batch[j].open \in BOOLEAN /\ batch[j].marks \subseteq Deliveries
       /\ ~batch[j].open => batch[j].marks = {}
       /\ pc[j] \in Places
       /\ work[j].payload \in Payloads \cup {None}
       /\ work[j].result \in {"none", "loaded", "skipped", "failed"}
  /\ faults \in 0..MaxFaults /\ changes \in 0..MaxChanges[Setup]
  /\ {loaded, twice, unsure} \subseteq SUBSET Deliveries
  /\ {disturbed, lost, crossed, unsaved} \subseteq BOOLEAN

Init ==
  /\ \E setup \in Setups : backend = setup[1] /\ oneProcess = setup[2]
  /\ src = First /\ dest = None /\ es = None /\ log = {} /\ lock = None /\ dlq = {}
  /\ batch = [j \in Jobs |-> Closed]
  /\ pc = [j \in Jobs |-> "idle"] /\ work = [j \in Jobs |-> NoWork]
  /\ faults = 0 /\ changes = 0 /\ loaded = {} /\ twice = {} /\ unsure = {}
  /\ disturbed = FALSE /\ lost = FALSE /\ crossed = FALSE /\ unsaved = FALSE

(* The jobs that use the store object of j.                                *)
Sharing(j) == IF oneProcess /\ j \in Runners THEN Runners ELSE {j}
SetBatch(j, b) == batch' = [i \in Jobs |-> IF i \in Sharing(j) THEN b ELSE batch[i]]
Goto(j, place) == pc' = [pc EXCEPT ![j] = place]
Fault == faults < MaxFaults /\ faults' = faults + 1

(* A run that has the lock, or believes it has; and the replays.            *)
Running == {j \in Runners : pc[j] \notin {"idle", "clean", "insert"}}
Working == Running \cup {j \in Replayers : pc[j] # "idle"}

(* A memory store is that of one process; a replay has an empty one.        *)
SeesStore(j) == j \in Runners \/ backend # "memory"

------------------------------------------------------------------------------
\* The world

SourceChanges ==
  /\ changes < MaxChanges[Setup] /\ changes' = changes + 1
  /\ \E p \in Payloads \ {src} : src' = p
  /\ UNCHANGED <<backend, oneProcess, dest, es, log, lock, dlq, batch, pc, work, faults,
                 loaded, twice, disturbed, lost, unsure, crossed, unsaved>>

(* Time passes for the lock; no heartbeat renews it.                       *)
Tick ==
  /\ lock # None /\ lock.left > 0
  /\ lock' = [lock EXCEPT !.left = @ - 1]
  /\ IF lock.left = 1 /\ lock.owner \in Running THEN Fault /\ disturbed' = TRUE
     ELSE UNCHANGED <<faults, disturbed>>
  /\ UNCHANGED <<backend, oneProcess, src, dest, es, log, dlq, batch, pc, work, changes, loaded,
                 twice, lost, unsure, crossed, unsaved>>

(* run --force-unlock, state unlock.                                       *)
ForceUnlock ==
  /\ lock # None /\ lock' = None /\ Fault
  /\ disturbed' = (disturbed \/ Running # {})
  /\ UNCHANGED <<backend, oneProcess, src, dest, es, log, dlq, batch, pc, work, changes, loaded,
                 twice, lost, unsure, crossed, unsaved>>

(* A process dies with all its jobs; the memory store dies with it.         *)
Crash(j) ==
  /\ \E i \in Sharing(j) : pc[i] # "idle"
  /\ Fault
  /\ pc' = [i \in Jobs |-> IF i \in Sharing(j) THEN "idle" ELSE pc[i]]
  /\ work' = [i \in Jobs |-> IF i \in Sharing(j) THEN NoWork ELSE work[i]]
  /\ SetBatch(j, Closed)
  /\ unsaved' = (unsaved \/ \E i \in Sharing(j) : pc[i] = "save" /\ work[i].result = "loaded")
  /\ IF backend = "memory" /\ j \in Runners
       THEN es' = None /\ log' = {} /\ lock' = None /\ lost' = TRUE
       ELSE UNCHANGED <<es, log, lock>> /\ lost' = (lost \/ batch[j].marks # {})
  /\ UNCHANGED <<backend, oneProcess, src, dest, dlq, changes, loaded, twice, disturbed, unsure,
                 crossed>>

------------------------------------------------------------------------------
\* The lock

storeFrame == <<backend, oneProcess, src, dest, es, log, dlq, work>>

(* runOnce is called: by hand, or by the schedule although the run before   *)
(* is still busy.  The variant opens its batch before it has the lock.      *)
StartAndBeginBatch(j) ==
  /\ j \in Runners \cap JobsOf[Setup] /\ pc[j] = "idle" /\ Goto(j, "clean")
  /\ SetBatch(j, [open |-> TRUE, marks |-> {}])
  /\ UNCHANGED <<storeFrame, lock, bookVars>>
Start(j) ==
  /\ j \in Runners \cap JobsOf[Setup] /\ pc[j] = "idle" /\ Goto(j, "clean")
  /\ UNCHANGED <<storeFrame, lock, batch, bookVars>>

Expired(l) == l # None /\ l.left = 0
Lock(j) == [owner |-> j, left |-> Ttl]

(* SQLite removes an expired lock and inserts its own in two statements;    *)
(* nothing joins them but the conflict.                                    *)
LockCleanup(j) ==
  /\ pc[j] = "clean" /\ backend = "sqlite" /\ Goto(j, "insert")
  /\ lock' = IF Expired(lock) THEN None ELSE lock
  /\ UNCHANGED <<storeFrame, batch, bookVars>>
(* The variant replaces the row it conflicts with.                         *)
LockInsertReplaces(j) ==
  /\ pc[j] = "insert" /\ lock' = Lock(j) /\ Goto(j, "begin")
  /\ UNCHANGED <<storeFrame, batch, bookVars>>
LockInsert(j) ==
  /\ pc[j] = "insert"
  /\ IF lock = None THEN lock' = Lock(j) /\ Goto(j, "begin")
     ELSE UNCHANGED lock /\ Goto(j, "idle")
  /\ UNCHANGED <<storeFrame, batch, bookVars>>

(* Postgres does both in one transaction, memory under its mutex.  The      *)
(* variant waits for an unlock, expired or not.                            *)
LockTransactionForEver(j) ==
  /\ pc[j] = "clean" /\ backend = "postgres"
  /\ IF lock = None THEN lock' = Lock(j) /\ Goto(j, "begin")
     ELSE UNCHANGED lock /\ Goto(j, "idle")
  /\ UNCHANGED <<storeFrame, batch, bookVars>>
LockTransaction(j) ==
  /\ pc[j] = "clean" /\ backend = "postgres"
  /\ IF lock = None \/ Expired(lock) THEN lock' = Lock(j) /\ Goto(j, "begin")
     ELSE UNCHANGED lock /\ Goto(j, "idle")
  /\ UNCHANGED <<storeFrame, batch, bookVars>>
LockInMemory(j) ==
  /\ pc[j] = "clean" /\ backend = "memory"
  /\ IF lock # None /\ lock.left > 0 THEN UNCHANGED lock /\ Goto(j, "idle")
     ELSE lock' = Lock(j) /\ Goto(j, "begin")
  /\ UNCHANGED <<storeFrame, batch, bookVars>>

(* The deferred UnlockRun removes whatever lock the sync has.               *)
UnlockRun(j) ==
  /\ pc[j] = "unlock" /\ lock' = None /\ Goto(j, "idle")
  /\ UNCHANGED <<storeFrame, batch, bookVars>>

------------------------------------------------------------------------------
\* What a run and a replay do with an entity

Key(j) == <<IF j \in Replayers THEN "replay" ELSE "upsert", work[j].payload>>

BeginBatch(j) ==
  /\ pc[j] = "begin" /\ SetBatch(j, [open |-> TRUE, marks |-> {}])
  /\ Goto(j, IF j \in Replayers THEN "check" ELSE "decide")
  /\ UNCHANGED <<storeFrame, lock, bookVars>>

(* The source is read and compared with the entity state.                  *)
Decide(j) ==
  /\ pc[j] = "decide"
  /\ IF es # None /\ es.payload = src
       THEN Goto(j, "commit") /\ UNCHANGED work
       ELSE /\ work' = [work EXCEPT ![j] = [payload |-> src, result |-> "none"]]
            /\ Goto(j, "check")
  /\ UNCHANGED <<backend, oneProcess, storeVars, bookVars>>

(* runReplay takes the payload of the entity state or of the dead-letter    *)
(* file, and no lock: nothing keeps a second one from the same.            *)
Replays(j, p) == work[j].payload = p \/ <<"replay", p>> \in batch[j].marks
StartReplay(j) ==
  LET stored == dlq \cup (IF es = None \/ backend = "memory" THEN {} ELSE {es.payload})
  IN /\ j \in Replayers \cap JobsOf[Setup] /\ pc[j] = "idle" /\ Goto(j, "begin")
     /\ \E p \in stored :
          /\ work' = [work EXCEPT ![j] = [payload |-> p, result |-> "none"]]
          /\ unsure' = IF backend = "memory" \/ \E k \in Replayers : Replays(k, p)
                         THEN unsure \cup {<<"replay", p>>} ELSE unsure
     /\ UNCHANGED <<backend, oneProcess, storeVars, faults, changes, loaded, twice, disturbed,
                    lost, crossed, unsaved>>

(* IsDelivered, from the batch or the table.                                *)
IsDelivered(j) ==
  (SeesStore(j) /\ Key(j) \in log) \/ (batch[j].open /\ Key(j) \in batch[j].marks)
Check(j) ==
  /\ pc[j] = "check" /\ Goto(j, IF IsDelivered(j) THEN "save" ELSE "load")
  /\ work' = [work EXCEPT ![j].result = IF IsDelivered(j) THEN "skipped" ELSE "none"]
  /\ UNCHANGED <<backend, oneProcess, storeVars, bookVars>>

Lands(j) ==
  /\ dest' = work[j].payload
  /\ loaded' = loaded \cup {Key(j)}
  /\ twice' = IF Key(j) \in loaded THEN twice \cup {Key(j)} ELSE twice

(* The destination writes, and MarkDelivered goes to the batch that is      *)
(* open, or else to the table.  Or Load reports a failure: the destination  *)
(* has refused the row, or written it and not been heard; nothing is marked. *)
Load(j) ==
  /\ pc[j] = "load" /\ Goto(j, "save")
  /\ \/ /\ Lands(j) /\ work' = [work EXCEPT ![j].result = "loaded"]
        /\ IF batch[j].open
             THEN SetBatch(j, [batch[j] EXCEPT !.marks = @ \cup {Key(j)}]) /\ UNCHANGED log
             ELSE log' = log \cup {Key(j)} /\ UNCHANGED batch
        /\ UNCHANGED <<faults, dlq, unsure, unsaved>>
     \/ /\ Fault /\ work' = [work EXCEPT ![j].result = "failed"]
        /\ dlq' = IF j \in Replayers THEN dlq ELSE dlq \cup {work[j].payload}
        /\ \/ UNCHANGED <<dest, loaded, twice, unsure, unsaved>>
           \/ Lands(j) /\ unsure' = unsure \cup {Key(j)} /\ unsaved' = TRUE
        /\ UNCHANGED <<log, batch>>
  /\ crossed' = (crossed \/ (Working # {j} /\ \E k \in Replayers : pc[k] # "idle"))
  /\ UNCHANGED <<backend, oneProcess, src, es, lock, changes, disturbed, lost>>

(* A run saves what it loaded and what failed; what the log skips leaves    *)
(* the state alone.  A replay saves only what was loaded; the variant saves *)
(* what was skipped, too.  A save that fails changes nothing, and nobody is *)
(* told.                                                                   *)
SaveFrame == <<backend, oneProcess, src, dest, log, lock, dlq, batch, changes, loaded, twice,
               disturbed, lost, unsure, crossed>>
Saved(j, status) == [payload |-> work[j].payload, status |-> status]
SaveFails(j) ==
  /\ backend # "memory" /\ Fault
  /\ UNCHANGED es /\ unsaved' = (unsaved \/ work[j].result = "loaded")
SaveRun(j) ==
  /\ pc[j] = "save" /\ j \in Runners /\ Goto(j, "commit")
  /\ \/ /\ es' = CASE work[j].result = "loaded" -> Saved(j, "success")
                   [] work[j].result = "failed" -> Saved(j, "failed")
                   [] work[j].result = "skipped" -> es
        /\ unsaved' = (unsaved /\ work[j].result # "loaded") /\ UNCHANGED faults
     \/ work[j].result # "skipped" /\ SaveFails(j)
  /\ work' = [work EXCEPT ![j] = NoWork]
  /\ UNCHANGED SaveFrame
SaveReplayAnyway(j) ==
  /\ pc[j] = "save" /\ j \in Replayers /\ Goto(j, "commit")
  /\ es' = IF work[j].result # "failed" THEN Saved(j, "success") ELSE es
  /\ work' = [work EXCEPT ![j] = NoWork]
  /\ UNCHANGED <<SaveFrame, faults, unsaved>>
SaveReplay(j) ==
  /\ pc[j] = "save" /\ j \in Replayers /\ Goto(j, "commit")
  /\ \/ /\ work[j].result # "loaded" /\ UNCHANGED <<es, unsaved, faults>>
     \/ /\ work[j].result = "loaded" /\ UNCHANGED faults
        /\ es' = IF SeesStore(j) THEN Saved(j, "success") ELSE es
        /\ unsaved' = ~SeesStore(j)
     \/ work[j].result = "loaded" /\ SaveFails(j)
  /\ work' = [work EXCEPT ![j] = NoWork]
  /\ UNCHANGED SaveFrame

(* CommitBatch empties the buffer and then writes what was in it.  The      *)
(* memory store has nothing that could fail.  The variant keeps the buffer. *)
CommitBatchKeeps(j) ==
  /\ pc[j] = "commit" /\ Goto(j, IF j \in Replayers THEN "idle" ELSE "unlock")
  /\ SetBatch(j, [batch[j] EXCEPT !.open = FALSE])
  /\ log' = IF SeesStore(j) THEN log \cup batch[j].marks ELSE log
  /\ UNCHANGED <<backend, oneProcess, src, dest, es, lock, dlq, work, bookVars>>
CommitBatch(j) ==
  /\ pc[j] = "commit" /\ Goto(j, IF j \in Replayers THEN "idle" ELSE "unlock")
  /\ SetBatch(j, Closed)
  /\ \/ /\ log' = IF SeesStore(j) THEN log \cup batch[j].marks ELSE log
        /\ UNCHANGED <<faults, lost>>
     \/ /\ backend # "memory" /\ batch[j].marks # {} /\ Fault
        /\ lost' = TRUE /\ UNCHANGED log
  /\ UNCHANGED <<backend, oneProcess, src, dest, es, lock, dlq, work, changes, loaded, twice,
                 disturbed, unsure, crossed, unsaved>>

Step(j) ==
  \/ LockCleanup(j) \/ LockInsert(j) \/ LockTransaction(j) \/ LockInMemory(j) \/ UnlockRun(j)
  \/ BeginBatch(j) \/ Decide(j) \/ Check(j) \/ Load(j) \/ SaveRun(j) \/ SaveReplay(j)
  \/ CommitBatch(j)

Next ==
  \/ SourceChanges \/ Tick \/ ForceUnlock
  \/ \E j \in Jobs : Start(j) \/ StartReplay(j) \/ Step(j) \/ Crash(j)

(* Jobs go on, time passes, and whoever starts runs starts them again.      *)
Fairness ==
  /\ WF_vars(Tick)
  /\ \A j \in Jobs : WF_vars(Step(j)) /\ WF_vars(Start(j))

Spec == Init /\ [][Next]_vars /\ Fairness

------------------------------------------------------------------------------
\* Properties

(* As long as no run outlives its lock and nobody removes it, no two runs   *)
(* of the sync are at work together: over the two statements of SQLite,     *)
(* crashed owners, expired rows, and the unconditional UnlockRun.          *)
OneRunAtATime == ~disturbed => \A i, j \in Running : i = j

(* A delivery is loaded a second time only if marks were lost or runs        *)
(* overlapped, if its own first request landed and was reported as failed,   *)
(* or if two replays of it ran at a time (or of a memory store, which no    *)
(* replay sees).  Overlapping triggers of one process, which share one      *)
(* batch, replays of other content, refused rows and failed saves do not    *)
(* make it happen.                                                         *)
LoadedOnce == ~disturbed /\ ~lost => twice \subseteq unsure

(* When nothing is at work, an entity state with "success" names what the    *)
(* destination holds, through runs and replays of older content in any      *)
(* order, unless they crossed, runs overlapped, or what was loaded last was  *)
(* not saved: the save failed or a crash came before it, a replay was       *)
(* reported as failed and was not, or had a memory store.  The next load    *)
(* that is saved sets that right.                                          *)
StateFollowsDestination ==
  /\ \A j \in Jobs : pc[j] = "idle"
  /\ es # None /\ es.status = "success" /\ ~crossed /\ ~disturbed /\ ~unsaved
  => dest = es.payload

(* Whatever died with the lock, a run gets it again, and again.             *)
SyncKeepsRunning == []<>(\E j \in Runners : pc[j] = "begin")

==============================================================================
