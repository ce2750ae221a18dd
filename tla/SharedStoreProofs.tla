--------------------------- MODULE SharedStoreProofs ---------------------------
(***************************************************************************)
(* The invariants of SharedStore, for every number of runners and replays,   *)
(* every backend and every time to live: the lock, the types, what may be    *)
(* loaded a second time, and that the entity state follows the destination. *)
(***************************************************************************)
EXTENDS SharedStore, TLAPS

(* A run at work in an undisturbed system owns a lock that has not expired.  *)
(* This is what LockRun cannot overrule and what makes the unconditional    *)
(* UnlockRun harmless.                                                     *)
OwnsTheLock ==
  ~disturbed => \A j \in Running : lock # None /\ lock.owner = j /\ lock.left > 0

(* What the frame of the actions needs: the shape of a lock and of pc, that  *)
(* a replay never asks for the lock, and that a memory store has one process. *)
Shape == lock \in Locks \cup {None} /\ pc \in [Jobs -> Places]
ReplayPc == \A j \in Replayers : pc[j] \notin {"clean", "insert", "decide", "unlock"}
OnlyHere == backend = "memory" => oneProcess

LockInv == Shape /\ ReplayPc /\ OnlyHere /\ OwnsTheLock

USE StoreAssumption, NoneAssumption DEF Jobs, Places

(* Steps that leave the lock alone and move a job that had it, or one that   *)
(* does not need it, keep LockInv: most actions are instances of this.      *)
LEMMA KeepsLock ==
  ASSUME LockInv, NEW j \in Jobs, NEW place \in Places,
         pc' = [pc EXCEPT ![j] = place],
         lock' = lock, disturbed' = disturbed, backend' = backend, oneProcess' = oneProcess,
         \/ j \in Running
         \/ (j \in Replayers /\ place \notin {"clean", "insert", "decide", "unlock"})
         \/ (j \in Runners /\ place \in {"idle", "clean", "insert"})
  PROVE LockInv'
<1>1. Shape'
  BY DEF LockInv, Shape
<1>2. ReplayPc'
  BY DEF LockInv, Shape, ReplayPc, Running
<1>3. OnlyHere'
  BY DEF LockInv, Shape, OnlyHere, Running
<1>4. Running' \subseteq Running
  <2>1. SUFFICES ASSUME NEW i \in Runners, pc'[i] \notin {"idle", "clean", "insert"}
                 PROVE pc[i] \notin {"idle", "clean", "insert"}
    BY DEF Running
  <2> QED BY <2>1 DEF LockInv, Shape, Running
<1>5. OwnsTheLock'
  BY <1>4 DEF LockInv, OwnsTheLock
<1> QED BY <1>1, <1>2, <1>3, <1>5 DEF LockInv

(* A run takes the lock when there is none, or an expired one.              *)
LEMMA TakesLock ==
  ASSUME LockInv, NEW j \in Runners, pc' = [pc EXCEPT ![j] = "begin"],
         lock = None \/ Expired(lock), lock' = Lock(j), disturbed' = disturbed,
         backend' = backend, oneProcess' = oneProcess
  PROVE LockInv'
<1>1. Shape'
  BY DEF LockInv, Shape, Lock, Locks
<1>2. ReplayPc' /\ OnlyHere'
  BY DEF LockInv, Shape, ReplayPc, OnlyHere
<1>3. OwnsTheLock'
  <2>1. SUFFICES ASSUME ~disturbed, NEW i \in Running' PROVE i = j
    BY DEF OwnsTheLock, Lock, Locks
  <2>2. Running = {}
    BY <2>1 DEF LockInv, OwnsTheLock, Expired
  <2> QED BY <2>2 DEF Running, LockInv, Shape
<1> QED BY <1>1, <1>2, <1>3 DEF LockInv

(* A run that loses the race for the lock goes idle; whoever removes an      *)
(* expired lock, or its own, leaves no run at work without one.             *)
LEMMA GivesUpLock ==
  ASSUME LockInv, NEW j \in Runners, NEW place \in {"idle", "insert"},
         pc' = [pc EXCEPT ![j] = place], lock' \in {lock, None},
         \/ lock' = lock
         \/ Expired(lock)
         \/ j \in Running,
         disturbed' = disturbed, backend' = backend, oneProcess' = oneProcess
  PROVE LockInv'
<1>1. Shape'
  BY DEF LockInv, Shape
<1>2. ReplayPc' /\ OnlyHere'
  BY DEF LockInv, Shape, ReplayPc, OnlyHere
<1>3. Running' \subseteq Running \ {j}
  BY DEF Running, LockInv, Shape
<1>4. OwnsTheLock'
  BY <1>3 DEF LockInv, OwnsTheLock, Expired
<1> QED BY <1>1, <1>2, <1>4 DEF LockInv

(* The steps of a job.                                                      *)
LEMMA StepKeeps ==
  ASSUME LockInv, NEW j \in Jobs, Step(j) \/ Start(j)
  PROVE LockInv'
<1>0. /\ ReplayPc
      /\ pc \in [Jobs -> Places]
  BY DEF LockInv, Shape
<1> USE DEF Goto
<1>1. CASE Start(j)
  BY <1>1, KeepsLock DEF Start, storeFrame, bookVars
<1>2. CASE LockCleanup(j)
  BY <1>0, <1>2, GivesUpLock DEF LockCleanup, storeFrame, bookVars, ReplayPc
<1>3. CASE LockInsert(j)
  BY <1>0, <1>3, GivesUpLock, TakesLock DEF LockInsert, storeFrame, bookVars, ReplayPc
<1>4. CASE LockTransaction(j)
  BY <1>0, <1>4, GivesUpLock, TakesLock DEF LockTransaction, storeFrame, bookVars, ReplayPc
<1>5. CASE LockInMemory(j)
  <2>1. lock = None \/ Expired(lock) \/ lock.left > 0
    BY DEF LockInv, Shape, Locks, Expired
  <2>2. j \in Runners
    BY <1>0, <1>5 DEF LockInMemory, ReplayPc
  <2> QED BY <1>5, <2>1, <2>2, GivesUpLock, TakesLock DEF LockInMemory, storeFrame, bookVars
<1>6. CASE UnlockRun(j)
  <2>1. j \in Running
    BY <1>0, <1>6 DEF UnlockRun, ReplayPc, Running
  <2> QED BY <1>6, <2>1, GivesUpLock DEF UnlockRun, storeFrame, bookVars, Running
<1>7. ASSUME pc[j] \in {"begin", "decide", "check", "load", "save", "commit"}
      PROVE j \in Running \/ j \in Replayers
  BY <1>0, <1>7 DEF Running
<1>8. CASE BeginBatch(j)
  BY <1>7, <1>8, KeepsLock DEF BeginBatch, storeFrame, bookVars
<1>9. CASE Decide(j)
  <2>1. j \in Running
    BY <1>0, <1>9, <1>7 DEF Decide, ReplayPc
  <2> QED BY <1>9, <2>1, KeepsLock DEF Decide, storeVars, bookVars
<1>10. CASE Check(j)
  BY <1>7, <1>10, KeepsLock DEF Check, storeVars, bookVars
<1>11. CASE Load(j)
  BY <1>7, <1>11, KeepsLock DEF Load
<1>12. CASE SaveRun(j)
  BY <1>7, <1>12, KeepsLock DEF SaveRun, SaveFrame, bookVars
<1>13. CASE SaveReplay(j)
  BY <1>7, <1>13, KeepsLock DEF SaveReplay, SaveFrame, bookVars
<1>14. CASE CommitBatch(j)
  BY <1>7, <1>14, KeepsLock DEF CommitBatch
<1> QED
  BY <1>1, <1>2, <1>3, <1>4, <1>5, <1>6, <1>8, <1>9, <1>10, <1>11, <1>12, <1>13, <1>14 DEF Step

(* Time and the operator: an undisturbed step of theirs takes no lock from   *)
(* a run at work.                                                          *)
LEMMA OutsideKeeps ==
  ASSUME LockInv, Tick \/ ForceUnlock \/ SourceChanges
  PROVE LockInv'
<1>1. pc' = pc /\ backend' = backend /\ oneProcess' = oneProcess
  BY DEF Tick, ForceUnlock, SourceChanges
<1>2. ReplayPc' /\ OnlyHere' /\ Running' = Running
  BY <1>1 DEF LockInv, ReplayPc, OnlyHere, Running
<1>3. CASE Tick
  <2>1. lock.left \in 1..Ttl /\ lock \in Locks /\ lock' = [lock EXCEPT !.left = @ - 1]
    BY <1>3 DEF Tick, LockInv, Shape, Locks
  <2>2. lock' \in Locks /\ lock'.owner = lock.owner /\ lock'.left = lock.left - 1
    BY <2>1 DEF Locks
  <2>3. Shape'
    BY <1>1, <2>2 DEF LockInv, Shape
  <2>4. OwnsTheLock'
    <3>1. CASE lock.left = 1 /\ lock.owner \in Running
      BY <1>3, <3>1 DEF Tick, OwnsTheLock
    <3>2. CASE ~(lock.left = 1 /\ lock.owner \in Running)
      <4>1. disturbed' = disturbed
        BY <1>3, <3>2 DEF Tick
      <4> QED BY <1>2, <2>1, <2>2, <3>2, <4>1 DEF LockInv, OwnsTheLock, Locks
    <3> QED BY <3>1, <3>2
  <2> QED BY <1>2, <2>3, <2>4 DEF LockInv
<1>4. CASE ForceUnlock
  <2>1. Shape' /\ OwnsTheLock'
    BY <1>1, <1>2, <1>4 DEF ForceUnlock, LockInv, Shape, OwnsTheLock
  <2> QED BY <1>2, <2>1 DEF LockInv
<1>5. CASE SourceChanges
  <2>1. lock' = lock /\ disturbed' = disturbed
    BY <1>5 DEF SourceChanges
  <2> QED BY <1>1, <1>2, <2>1 DEF LockInv, Shape, OwnsTheLock
<1> QED BY <1>3, <1>4, <1>5

(* A crash takes runs away, and the lock only together with all of them.     *)
LEMMA CrashKeeps ==
  ASSUME LockInv, NEW j \in Jobs, Crash(j)
  PROVE LockInv'
<1>1. /\ pc' = [i \in Jobs |-> IF i \in Sharing(j) THEN "idle" ELSE pc[i]]
      /\ backend' = backend /\ oneProcess' = oneProcess /\ disturbed' = disturbed
      /\ lock' = IF backend = "memory" /\ j \in Runners THEN None ELSE lock
  BY DEF Crash
<1>2. Shape' /\ ReplayPc' /\ OnlyHere'
  BY <1>1 DEF LockInv, Shape, ReplayPc, OnlyHere
<1>3. Running' \subseteq Running
  BY <1>1 DEF Running
<1>4. CASE ~(backend = "memory" /\ j \in Runners)
  BY <1>1, <1>2, <1>3, <1>4 DEF LockInv, OwnsTheLock
<1>5. CASE backend = "memory" /\ j \in Runners
  <2>1. oneProcess
    BY <1>5 DEF LockInv, OnlyHere
  <2>2. Running' = {}
    BY <1>1, <1>5, <2>1 DEF Running, Sharing
  <2> QED BY <1>2, <2>2 DEF LockInv, OwnsTheLock
<1> QED BY <1>4, <1>5

LEMMA LockInvHolds == Spec => []LockInv
<1>1. Init => LockInv
  <2> SUFFICES ASSUME Init PROVE LockInv
    OBVIOUS
  <2>1. lock = None /\ pc = [j \in Jobs |-> "idle"]
    BY DEF Init
  <2>2. PICK setup \in Setups : backend = setup[1] /\ oneProcess = setup[2]
    BY DEF Init
  <2>3. setup \in {"sqlite", "postgres"} \X BOOLEAN \/ setup = <<"memory", TRUE>>
    OBVIOUS
  <2>4. setup[1] = "memory" => setup[2]
    <3>1. CASE setup \in {"sqlite", "postgres"} \X BOOLEAN
      <4>1. setup[1] \in {"sqlite", "postgres"}
        BY <3>1
      <4> QED BY <4>1
    <3>2. CASE setup = <<"memory", TRUE>>
      <4>1. setup[2] = TRUE
        BY <3>2
      <4> QED BY <4>1
    <3> QED BY <2>3, <3>1, <3>2
  <2>5. backend = "memory" => oneProcess
    BY <2>2, <2>4
  <2> QED BY <2>1, <2>5 DEF LockInv, Shape, ReplayPc, OnlyHere, OwnsTheLock, Running
<1>2. LockInv /\ [Next]_vars => LockInv'
  <2> SUFFICES ASSUME LockInv, [Next]_vars PROVE LockInv'
    OBVIOUS
  <2>1. CASE Tick \/ ForceUnlock \/ SourceChanges
    BY <2>1, OutsideKeeps
  <2>2. ASSUME NEW j \in Jobs, Start(j) \/ Step(j) PROVE LockInv'
    BY <2>2, StepKeeps
  <2>3. ASSUME NEW j \in Jobs, Crash(j) PROVE LockInv'
    BY <2>3, CrashKeeps
  <2>4. ASSUME NEW j \in Jobs, StartReplay(j) PROVE LockInv'
    <3>1. /\ pc' = [pc EXCEPT ![j] = "begin"] /\ j \in Replayers
          /\ lock' = lock /\ disturbed' = disturbed /\ backend' = backend
          /\ oneProcess' = oneProcess
      BY <2>4 DEF StartReplay, Goto, storeVars, bookVars
    <3> QED BY <3>1, KeepsLock
  <2>5. CASE UNCHANGED vars
    BY <2>5 DEF vars, storeVars, bookVars, LockInv, Shape, ReplayPc, OnlyHere, OwnsTheLock, Running
  <2> QED BY <2>1, <2>2, <2>3, <2>4, <2>5 DEF Next
<1> QED BY <1>1, <1>2, PTL DEF Spec

(* Two runs of the sync are never at work together, unless one outlived its  *)
(* lock or somebody removed it.                                            *)
THEOREM LockIsExclusive == Spec => []OneRunAtATime
<1>1. LockInv => OneRunAtATime
  BY DEF LockInv, OwnsTheLock, OneRunAtATime
<1> QED BY <1>1, LockInvHolds, PTL

------------------------------------------------------------------------------
\* Types

Batches == [open : BOOLEAN, marks : SUBSET Deliveries]
Results == {"none", "loaded", "skipped", "failed"}
WorkItems == [payload : Payloads \cup {None}, result : Results]

(* Where a job knows what it delivers: a replay from the beginning.          *)
NeedsPayload(j, place) ==
  place \in {"check", "load", "save"} \/ (j \in Replayers /\ place = "begin")

(* TypeOK with the domains of its functions; a job that is checked, loaded   *)
(* or saved has a payload, and one that is saved a result.                 *)
TypeInv ==
  /\ TypeOK
  /\ batch \in [Jobs -> Batches] /\ work \in [Jobs -> WorkItems] /\ pc \in [Jobs -> Places]
  /\ \A j \in Jobs : NeedsPayload(j, pc[j]) => work[j].payload \in Payloads
  /\ \A j \in Jobs : pc[j] = "save" => work[j].result # "none"

LEMMA InitTypes == Init => TypeInv
<1> SUFFICES ASSUME Init PROVE TypeInv
  OBVIOUS
<1>1. PICK setup \in Setups : backend = setup[1] /\ oneProcess = setup[2]
  BY DEF Init
<1>2. <<backend, oneProcess>> = setup
  <2>1. CASE setup \in {"sqlite", "postgres"} \X BOOLEAN
    BY <1>1, <2>1
  <2>2. CASE setup = <<"memory", TRUE>>
    BY <1>1, <2>2
  <2> QED BY <2>1, <2>2
<1>3. Closed \in Batches /\ NoWork \in WorkItems
  BY DEF Closed, NoWork, Batches, WorkItems, Results
<1>4. batch = [j \in Jobs |-> Closed] /\ work = [j \in Jobs |-> NoWork] /\ pc = [j \in Jobs |-> "idle"]
  BY DEF Init
<1>5. batch \in [Jobs -> Batches] /\ work \in [Jobs -> WorkItems] /\ pc \in [Jobs -> Places]
  BY <1>3, <1>4
<1>6. \A j \in Jobs : batch[j].marks = {} /\ batch[j].open = FALSE
  BY <1>4 DEF Closed
<1>7. \A j \in Jobs : work[j].payload = None /\ work[j].result = "none" /\ pc[j] = "idle"
  BY <1>4 DEF NoWork
<1>8. /\ src \in Payloads /\ dest = None /\ es = None /\ log = {} /\ lock = None /\ dlq = {}
      /\ faults = 0 /\ changes = 0 /\ loaded = {}
      /\ twice = {} /\ unsure = {}
      /\ disturbed = FALSE /\ lost = FALSE /\ crossed = FALSE /\ unsaved = FALSE
  BY DEF Init
<1>9. TypeOK
  <2>1. Setup \in Setups
    BY <1>1, <1>2 DEF Setup
  <2>2. 0 \in 0..MaxFaults /\ 0 \in 0..MaxChanges[Setup] /\ {} \subseteq Deliveries /\ {} \subseteq Payloads
    BY <2>1 DEF Setup
  <2>3. {disturbed, lost, crossed, unsaved} \subseteq BOOLEAN
    BY <1>8
  <2> QED BY <1>6, <1>7, <1>8, <2>1, <2>2, <2>3 DEF Setup, TypeOK
<1> QED BY <1>5, <1>7, <1>9 DEF TypeInv, NeedsPayload

(* A job sets the batch of its store object.                               *)
LEMMA SetBatchTypes ==
  ASSUME TypeInv, NEW j \in Jobs, NEW b \in Batches, ~b.open => b.marks = {}, SetBatch(j, b)
  PROVE  /\ batch' \in [Jobs -> Batches]
         /\ \A i \in Jobs : ~batch'[i].open => batch'[i].marks = {}
<1>1. \A i \in Jobs : batch'[i] = IF i \in Sharing(j) THEN b ELSE batch[i]
  BY DEF SetBatch
<1> QED BY <1>1 DEF SetBatch, TypeInv, TypeOK

BatchesTyped ==
  /\ batch \in [Jobs -> Batches]
  /\ \A i \in Jobs : ~batch[i].open => batch[i].marks = {}
OthersTyped ==
  /\ src \in Payloads /\ dest \in Payloads \cup {None} /\ es \in EntityState \cup {None}
  /\ log \subseteq Deliveries /\ dlq \subseteq Payloads /\ lock \in Locks \cup {None}
  /\ faults \in 0..MaxFaults /\ changes \in 0..MaxChanges[Setup]
  /\ {loaded, twice, unsure} \subseteq SUBSET Deliveries
  /\ {disturbed, lost, crossed, unsaved} \subseteq BOOLEAN

(* What is left of TypeInv when the frame of an action is known: the batch,  *)
(* the work and the place of one job change.                               *)
LEMMA JobTypes ==
  ASSUME TypeInv, NEW j \in Jobs, NEW place \in Places, NEW item \in WorkItems,
         pc' = [pc EXCEPT ![j] = place], work' = [work EXCEPT ![j] = item],
         NeedsPayload(j, place) => item.payload \in Payloads,
         place = "save" => item.result # "none",
         BatchesTyped', OthersTyped', UNCHANGED <<backend, oneProcess>>
  PROVE  TypeInv'
<1>1. work' \in [Jobs -> WorkItems] /\ pc' \in [Jobs -> Places]
  BY DEF TypeInv
<1>2. \A i \in Jobs : /\ NeedsPayload(i, pc'[i]) => work'[i].payload \in Payloads
                      /\ pc'[i] = "save" => work'[i].result # "none"
  BY DEF TypeInv
<1>3. TypeOK'
  BY <1>1 DEF Setup, TypeInv, TypeOK, Batches, WorkItems, Results, BatchesTyped, OthersTyped
<1> QED BY <1>1, <1>2, <1>3 DEF TypeInv, BatchesTyped

LEMMA AreTyped == ASSUME TypeInv PROVE BatchesTyped /\ OthersTyped
BY DEF TypeInv, TypeOK, BatchesTyped, OthersTyped

LEMMA StayTyped ==
  ASSUME TypeInv, UNCHANGED <<backend, oneProcess, src, dest, es, log, dlq, lock, bookVars>>
  PROVE  OthersTyped'
BY AreTyped DEF Setup, OthersTyped, bookVars

(* The steps that only take or give the lock, and where they lead.          *)
LEMMA LockTypes ==
  ASSUME TypeInv, NEW j \in Jobs, NEW place \in {"idle", "clean", "insert", "begin"},
         j \in Replayers => place # "begin", pc' = [pc EXCEPT ![j] = place],
         lock' \in Locks \cup {None}, UNCHANGED <<storeFrame, batch, bookVars>>
  PROVE  TypeInv'
<1>1. work' = [work EXCEPT ![j] = work[j]] /\ work[j] \in WorkItems
  BY DEF storeFrame, TypeInv
<1>2. BatchesTyped' /\ OthersTyped'
  BY AreTyped DEF Setup, BatchesTyped, OthersTyped, storeFrame, bookVars
<1>3. NeedsPayload(j, place) => work[j].payload \in Payloads
  BY DEF NeedsPayload
<1>4. place \in Places /\ place # "save" /\ UNCHANGED <<backend, oneProcess>>
  BY DEF Places, storeFrame
<1> DEFINE item == work[j]
<1>5. work' = [work EXCEPT ![j] = item] /\ item \in WorkItems
      /\ (NeedsPayload(j, place) => item.payload \in Payloads)
  BY <1>1, <1>3
<1> HIDE DEF item
<1> QED BY <1>2, <1>4, <1>5, JobTypes

LEMMA StepTypes ==
  ASSUME TypeInv, LockInv, NEW j \in Jobs, Step(j) \/ Start(j)
  PROVE  TypeInv'
<1> USE DEF Goto
<1>a. j \in Replayers => pc[j] \notin {"clean", "insert"}
  BY DEF LockInv, ReplayPc
<1>b. j \in Runners => Lock(j) \in Locks
  BY DEF Lock, Locks
<1>c. lock \in Locks \cup {None}
  BY DEF TypeInv, TypeOK
<1>d. /\ src \in Payloads /\ dest \in Payloads \cup {None} /\ es \in EntityState \cup {None}
      /\ log \subseteq Deliveries /\ dlq \subseteq Payloads
      /\ faults \in 0..MaxFaults /\ changes \in 0..MaxChanges[Setup]
      /\ {loaded, twice, unsure} \subseteq SUBSET Deliveries
      /\ {disturbed, lost, crossed, unsaved} \subseteq BOOLEAN
      /\ batch \in [Jobs -> Batches] /\ work[j] \in WorkItems /\ work \in [Jobs -> WorkItems]
      /\ \A i \in Jobs : ~batch[i].open => batch[i].marks = {}
      /\ NeedsPayload(j, pc[j]) => work[j].payload \in Payloads
      /\ pc[j] = "save" => work[j].result # "none"
  BY DEF TypeInv, TypeOK
<1>e. work = [work EXCEPT ![j] = work[j]]
  BY <1>d
<1>f. pc[j] \in {"check", "load", "save"} => Key(j) \in Deliveries
  BY <1>d DEF Key, Deliveries, NeedsPayload
<1>g. NoWork \in WorkItems /\ Closed \in Batches
  BY DEF NoWork, WorkItems, Results, Closed, Batches
<1>1. CASE Start(j)
  BY <1>1, <1>c, LockTypes DEF Start
<1>2. CASE LockCleanup(j)
  BY <1>2, <1>c, LockTypes DEF LockCleanup
<1>3. CASE LockInsert(j)
  BY <1>3, <1>a, <1>b, <1>c, LockTypes DEF LockInsert
<1>4. CASE LockTransaction(j)
  BY <1>4, <1>a, <1>b, <1>c, LockTypes DEF LockTransaction
<1>5. CASE LockInMemory(j)
  BY <1>5, <1>a, <1>b, <1>c, LockTypes DEF LockInMemory
<1>6. CASE UnlockRun(j)
  BY <1>6, LockTypes DEF UnlockRun
<1>8. CASE BeginBatch(j)
  <2> DEFINE b == [open |-> TRUE, marks |-> {}]
  <2>1. b \in Batches /\ b.open
    BY DEF Batches
  <2>2. /\ batch' \in [Jobs -> Batches]
        /\ \A i \in Jobs : ~batch'[i].open => batch'[i].marks = {}
    BY <1>8, <2>1, SetBatchTypes DEF BeginBatch
  <2> DEFINE place == IF j \in Replayers THEN "check" ELSE "decide"
  <2>3. /\ pc' = [pc EXCEPT ![j] = place] /\ place \in Places /\ place # "save"
        /\ NeedsPayload(j, place) => NeedsPayload(j, pc[j])
        /\ UNCHANGED <<storeFrame, lock, bookVars>>
    BY <1>8 DEF BeginBatch, NeedsPayload
  <2> HIDE DEF place
  <2> DEFINE item == work[j]
  <2>4. /\ work' = [work EXCEPT ![j] = item] /\ item \in WorkItems
        /\ NeedsPayload(j, place) => item.payload \in Payloads
    BY <1>d, <1>e, <2>3 DEF storeFrame
  <2>5. BatchesTyped' /\ OthersTyped'
    BY <2>2, <2>3, StayTyped DEF BatchesTyped, storeFrame
  <2>6. UNCHANGED <<backend, oneProcess>>
    BY <2>3 DEF storeFrame
  <2> HIDE DEF item
  <2> QED BY <2>3, <2>4, <2>5, <2>6, JobTypes
<1>9. CASE Decide(j)
  <2> DEFINE fresh == [payload |-> src, result |-> "none"]
  <2>1. fresh \in WorkItems /\ fresh.payload \in Payloads
    BY <1>d DEF WorkItems, Results
  <2>2. batch' = batch
    BY <1>9 DEF Decide, storeVars
  <2>a. UNCHANGED <<backend, oneProcess>> /\ UNCHANGED <<src, dest, es, log, dlq, lock, bookVars>>
    BY <1>9 DEF Decide, storeVars
  <2>b. BatchesTyped' /\ OthersTyped'
    BY <2>2, <2>a, AreTyped, StayTyped DEF BatchesTyped
  <2>3. CASE es # None /\ es.payload = src
    <3>1. /\ pc' = [pc EXCEPT ![j] = "commit"] /\ work' = work
      BY <1>9, <2>3 DEF Decide
    <3>2. "commit" \in Places /\ ~NeedsPayload(j, "commit")
      BY DEF Places, NeedsPayload
    <3> DEFINE item == work[j]
    <3>3. work' = [work EXCEPT ![j] = item] /\ item \in WorkItems
      BY <1>d, <1>e, <3>1
    <3> HIDE DEF item
    <3> QED BY <2>a, <2>b, <3>1, <3>2, <3>3, JobTypes
  <2>4. CASE ~(es # None /\ es.payload = src)
    <3>1. /\ pc' = [pc EXCEPT ![j] = "check"] /\ work' = [work EXCEPT ![j] = fresh]
          /\ UNCHANGED <<backend, oneProcess, storeVars, bookVars>>
      BY <1>9, <2>4 DEF Decide
    <3>2. "check" \in Places
      BY DEF Places
    <3> HIDE DEF fresh
    <3> QED BY <2>1, <2>a, <2>b, <3>1, <3>2, JobTypes
  <2> QED BY <2>3, <2>4
<1>10. CASE Check(j)
  <2> DEFINE item == [work[j] EXCEPT !.result = IF IsDelivered(j) THEN "skipped" ELSE "none"]
  <2>1. item \in WorkItems /\ item.payload = work[j].payload
        /\ item.result = IF IsDelivered(j) THEN "skipped" ELSE "none"
    BY <1>d DEF WorkItems, Results
  <2>2. work' = [work EXCEPT ![j] = item]
    BY <1>10, <1>d DEF Check
  <2>3. pc' = [pc EXCEPT ![j] = IF IsDelivered(j) THEN "save" ELSE "load"] /\ pc[j] = "check"
    BY <1>10 DEF Check
  <2>4. batch' = batch
    BY <1>10 DEF Check, storeVars
  <2>5. UNCHANGED <<backend, oneProcess>> /\ work[j].payload \in Payloads
    BY <1>10, <1>d DEF Check, NeedsPayload
  <2>a. BatchesTyped' /\ OthersTyped'
    BY <1>10, <2>4, AreTyped, StayTyped DEF BatchesTyped, Check, storeVars
  <2> DEFINE place == IF IsDelivered(j) THEN "save" ELSE "load"
  <2>6. place \in Places /\ (place = "save" => item.result # "none")
    BY <2>1 DEF Places
  <2> HIDE DEF item, place
  <2>7. pc' = [pc EXCEPT ![j] = place]
    BY <2>3 DEF place
  <2> QED
    BY <2>1, <2>2, <2>5, <2>6, <2>7, <2>a, JobTypes
<1>11. CASE Load(j)
  <2> DEFINE item(r) == [work[j] EXCEPT !.result = r]
  <2>1. \A r \in Results : item(r) \in WorkItems /\ item(r).payload = work[j].payload /\ item(r).result = r
    BY <1>d DEF WorkItems
  <2>2. /\ work[j].payload \in Payloads /\ Key(j) \in Deliveries
        /\ pc' = [pc EXCEPT ![j] = "save"]
        /\ crossed' \in BOOLEAN
        /\ UNCHANGED <<backend, oneProcess, src, es, lock, changes, disturbed, lost>>
    BY <1>11, <1>d, <1>f DEF Load, NeedsPayload
  <2>a. "save" \in Places /\ "loaded" # "none" /\ "failed" # "none"
    BY DEF Places
  <2>b. Lands(j) => dest' \in Payloads /\ {loaded', twice'} \subseteq SUBSET Deliveries
    BY <1>d, <2>2 DEF Lands
  <2>3. CASE /\ Lands(j) /\ work' = [work EXCEPT ![j].result = "loaded"]
             /\ IF batch[j].open
                  THEN SetBatch(j, [batch[j] EXCEPT !.marks = @ \cup {Key(j)}]) /\ UNCHANGED log
                  ELSE log' = log \cup {Key(j)} /\ UNCHANGED batch
             /\ UNCHANGED <<faults, dlq, unsure, unsaved>>
    <3>1. work' = [work EXCEPT ![j] = item("loaded")]
      BY <1>d, <2>3
    <3> DEFINE b == [batch[j] EXCEPT !.marks = @ \cup {Key(j)}]
    <3>2. b \in Batches /\ b.open = batch[j].open
      BY <1>d, <2>2 DEF Batches
    <3>3. /\ batch' \in [Jobs -> Batches]
          /\ \A i \in Jobs : ~batch'[i].open => batch'[i].marks = {}
      <4>1. CASE batch[j].open
        BY <2>3, <3>2, <4>1, SetBatchTypes
      <4>2. CASE ~batch[j].open
        BY <1>d, <2>3, <4>2
      <4> QED BY <4>1, <4>2
    <3>4. log' \subseteq Deliveries
      BY <1>d, <2>2, <2>3
    <3>5. "loaded" \in Results
      BY DEF Results
    <3>6. BatchesTyped'
      BY <3>3 DEF BatchesTyped
    <3>7. OthersTyped'
      BY <1>c, <1>d, <2>2, <2>3, <2>b, <3>4 DEF Setup, OthersTyped
    <3> HIDE DEF item
    <3> QED BY <2>1, <2>2, <2>a, <3>1, <3>5, <3>6, <3>7, JobTypes
  <2>4. CASE /\ Fault /\ work' = [work EXCEPT ![j].result = "failed"]
             /\ dlq' = IF j \in Replayers THEN dlq ELSE dlq \cup {work[j].payload}
             /\ \/ UNCHANGED <<dest, loaded, twice, unsure, unsaved>>
                \/ Lands(j) /\ unsure' = unsure \cup {Key(j)} /\ unsaved' = TRUE
             /\ UNCHANGED <<log, batch>>
    <3>1. work' = [work EXCEPT ![j] = item("failed")]
      BY <1>d, <2>4
    <3>2. dlq' \subseteq Payloads /\ faults' \in 0..MaxFaults
      BY <1>d, <2>2, <2>4 DEF Fault
    <3>3. "failed" \in Results
      BY DEF Results
    <3> HIDE DEF item
    <3>4. UNCHANGED <<log, batch>>
      BY <2>4
    <3>5. BatchesTyped'
      BY <3>4, AreTyped DEF BatchesTyped
    <3>6. /\ dest' \in Payloads \cup {None} /\ unsaved' \in BOOLEAN
          /\ {loaded', twice', unsure'} \subseteq SUBSET Deliveries
      <4>1. CASE UNCHANGED <<dest, loaded, twice, unsure, unsaved>>
        BY <1>d, <4>1
      <4>2. CASE Lands(j) /\ unsure' = unsure \cup {Key(j)} /\ unsaved' = TRUE
        BY <1>d, <2>2, <2>b, <4>2
      <4> QED BY <2>4, <4>1, <4>2
    <3>7. OthersTyped'
      BY <1>c, <1>d, <2>2, <3>2, <3>4, <3>6 DEF Setup, OthersTyped
    <3> QED BY <2>1, <2>2, <2>a, <3>1, <3>3, <3>5, <3>7, JobTypes
  <2> QED BY <1>11, <2>3, <2>4 DEF Load
<1>12. CASE SaveRun(j) \/ SaveReplay(j)
  <2>1. /\ pc[j] = "save" /\ pc' = [pc EXCEPT ![j] = "commit"] /\ work' = [work EXCEPT ![j] = NoWork]
        /\ UNCHANGED SaveFrame
    BY <1>12 DEF SaveRun, SaveReplay
  <2>2. /\ Saved(j, "success") \in EntityState /\ Saved(j, "failed") \in EntityState
        /\ work[j].result \in {"loaded", "failed", "skipped"}
    BY <1>d, <2>1 DEF Saved, EntityState, NeedsPayload, WorkItems, Results
  <2>3. es' \in EntityState \cup {None} /\ unsaved' \in BOOLEAN
    BY <1>12, <1>d, <2>2 DEF SaveRun, SaveReplay, SaveFails, SeesStore
  <2>a. faults' \in 0..MaxFaults
    <3>1. faults' = faults \/ Fault
      BY <1>12 DEF SaveRun, SaveReplay, SaveFails
    <3> QED BY <1>d, <3>1 DEF Fault
  <2>4. BatchesTyped' /\ OthersTyped'
    BY <1>c, <1>d, <2>1, <2>3, <2>a DEF Setup, SaveFrame, bookVars, BatchesTyped, OthersTyped
  <2>5. "commit" \in Places /\ ~NeedsPayload(j, "commit") /\ UNCHANGED <<backend, oneProcess>>
    BY <2>1 DEF Places, NeedsPayload, SaveFrame
  <2> QED BY <1>g, <2>1, <2>4, <2>5, JobTypes
<1>13. CASE CommitBatch(j)
  <2>1. /\ batch' \in [Jobs -> Batches]
        /\ \A i \in Jobs : ~batch'[i].open => batch'[i].marks = {}
    BY <1>13, <1>g, SetBatchTypes DEF CommitBatch, Closed
  <2>2. log' \subseteq Deliveries /\ faults' \in 0..MaxFaults /\ lost' \in BOOLEAN
    <3>1. batch[j].marks \subseteq Deliveries
      BY <1>d DEF Batches
    <3>2. CASE /\ log' = IF SeesStore(j) THEN log \cup batch[j].marks ELSE log
               /\ UNCHANGED <<faults, lost>>
      BY <1>d, <3>1, <3>2
    <3>3. CASE Fault /\ lost' = TRUE /\ UNCHANGED log
      BY <1>d, <3>3 DEF Fault
    <3> QED BY <1>13, <3>2, <3>3 DEF CommitBatch
  <2> DEFINE place == IF j \in Replayers THEN "idle" ELSE "unlock"
  <2>3. /\ pc' = [pc EXCEPT ![j] = place] /\ place \in Places /\ place # "save"
        /\ ~NeedsPayload(j, place)
        /\ UNCHANGED <<backend, oneProcess, src, dest, es, lock, dlq, work, changes, loaded,
                       twice, disturbed, unsure, crossed, unsaved>>
    BY <1>13 DEF CommitBatch, NeedsPayload
  <2> HIDE DEF place
  <2> DEFINE item == work[j]
  <2>4. work' = [work EXCEPT ![j] = item] /\ item \in WorkItems
    BY <1>d, <1>e, <2>3
  <2>5. /\ src' \in Payloads /\ dest' \in Payloads \cup {None} /\ es' \in EntityState \cup {None}
        /\ dlq' \subseteq Payloads /\ changes' \in 0..MaxChanges[Setup]
        /\ {loaded', twice', unsure'} \subseteq SUBSET Deliveries
        /\ lock' \in Locks \cup {None} /\ {disturbed', lost', crossed', unsaved'} \subseteq BOOLEAN
        /\ log' \subseteq Deliveries /\ faults' \in 0..MaxFaults
    BY <1>c, <1>d, <2>2, <2>3
  <2>a. BatchesTyped' /\ OthersTyped'
    BY <2>1, <2>3, <2>5 DEF Setup, BatchesTyped, OthersTyped
  <2>6. UNCHANGED <<backend, oneProcess>> /\ ~NeedsPayload(j, place) /\ place # "save"
    BY <2>3
  <2>7. pc' = [pc EXCEPT ![j] = place] /\ place \in Places
    BY <2>3
  <2> HIDE DEF item
  <2> QED BY <2>4, <2>6, <2>7, <2>a, JobTypes
<1> QED
  BY <1>1, <1>2, <1>3, <1>4, <1>5, <1>6, <1>8, <1>9, <1>10, <1>11, <1>12, <1>13 DEF Step

LEMMA OtherTypes ==
  ASSUME TypeInv, LockInv, SourceChanges \/ Tick \/ ForceUnlock
  PROVE  TypeInv'
<1>1. UNCHANGED <<backend, oneProcess, dest, es, log, dlq, batch, pc, work, loaded, twice, lost,
                  unsure, crossed, unsaved>>
  BY DEF SourceChanges, Tick, ForceUnlock
<1>2. src' \in Payloads /\ changes' \in 0..MaxChanges[Setup]
  BY DEF SourceChanges, Tick, ForceUnlock, TypeInv, TypeOK
<1>3. faults' \in 0..MaxFaults /\ disturbed' \in BOOLEAN
  <2>1. faults \in 0..MaxFaults /\ disturbed \in BOOLEAN
    BY DEF TypeInv, TypeOK
  <2>2. \/ Fault /\ disturbed' = TRUE
        \/ Fault /\ disturbed' = (disturbed \/ Running # {})
        \/ UNCHANGED <<faults, disturbed>>
    BY DEF SourceChanges, Tick, ForceUnlock
  <2>3. Fault => faults' \in 0..MaxFaults
    BY <2>1 DEF Fault
  <2> QED BY <2>1, <2>2, <2>3
<1>4. lock' \in Locks \cup {None}
  <2>1. LockInv'
    BY OutsideKeeps
  <2> QED BY <2>1 DEF LockInv, Shape
<1>5. /\ batch \in [Jobs -> Batches] /\ work \in [Jobs -> WorkItems] /\ pc \in [Jobs -> Places]
      /\ \A j \in Jobs : NeedsPayload(j, pc[j]) => work[j].payload \in Payloads
      /\ \A j \in Jobs : pc[j] = "save" => work[j].result # "none"
  BY DEF TypeInv
<1>6. TypeOK'
  BY <1>1, <1>2, <1>3, <1>4 DEF Setup, TypeInv, TypeOK
<1> QED BY <1>1, <1>5, <1>6 DEF TypeInv, NeedsPayload

LEMMA CrashTypes ==
  ASSUME TypeInv, LockInv, NEW j \in Jobs, Crash(j)
  PROVE  TypeInv'
<1>1. /\ pc' = [i \in Jobs |-> IF i \in Sharing(j) THEN "idle" ELSE pc[i]]
      /\ work' = [i \in Jobs |-> IF i \in Sharing(j) THEN NoWork ELSE work[i]]
      /\ SetBatch(j, Closed)
      /\ UNCHANGED <<backend, oneProcess, src, dest, dlq, changes, loaded, twice, disturbed, unsure,
                     crossed>>
  BY DEF Crash
<1>2. NoWork \in WorkItems /\ Closed \in Batches
  BY DEF NoWork, WorkItems, Results, Closed, Batches
<1>3. /\ batch' \in [Jobs -> Batches]
      /\ \A i \in Jobs : ~batch'[i].open => batch'[i].marks = {}
  BY <1>1, <1>2, SetBatchTypes DEF Closed
<1>4. work' \in [Jobs -> WorkItems] /\ pc' \in [Jobs -> Places]
  BY <1>1, <1>2 DEF TypeInv
<1>5. \A i \in Jobs : /\ NeedsPayload(i, pc'[i]) => work'[i].payload \in Payloads
                      /\ pc'[i] = "save" => work'[i].result # "none"
  BY <1>1 DEF TypeInv, NeedsPayload
<1>6. /\ es' \in EntityState \cup {None} /\ log' \subseteq Deliveries /\ lock' \in Locks \cup {None}
  BY DEF Crash, TypeInv, TypeOK
<1>7. faults' \in 0..MaxFaults /\ lost' \in BOOLEAN /\ unsaved' \in BOOLEAN
  <2>1. lost' \in BOOLEAN
    BY DEF Crash
  <2>2. unsaved' \in BOOLEAN
    BY DEF Crash
  <2>3. faults' \in 0..MaxFaults
    BY DEF Crash, Fault, TypeInv, TypeOK
  <2> QED BY <2>1, <2>2, <2>3
<1>8. \A i \in Jobs : /\ batch'[i].open \in BOOLEAN /\ batch'[i].marks \subseteq Deliveries
                      /\ work'[i].payload \in Payloads \cup {None} /\ work'[i].result \in Results
  BY <1>3, <1>4 DEF Batches, WorkItems
<1>9. TypeOK'
  BY <1>1, <1>3, <1>4, <1>6, <1>7, <1>8 DEF Setup, TypeInv, TypeOK, Results
<1> QED BY <1>3, <1>4, <1>5, <1>9 DEF TypeInv

LEMMA TypesHold == Spec => [](TypeInv /\ LockInv)
<1>1. TypeInv /\ LockInv /\ [Next]_vars => TypeInv'
  <2> SUFFICES ASSUME TypeInv, LockInv, [Next]_vars PROVE TypeInv'
    OBVIOUS
  <2>1. CASE Tick \/ ForceUnlock \/ SourceChanges
    BY <2>1, OtherTypes
  <2>2. ASSUME NEW j \in Jobs, Start(j) \/ Step(j) PROVE TypeInv'
    BY <2>2, StepTypes
  <2>3. ASSUME NEW j \in Jobs, Crash(j) PROVE TypeInv'
    BY <2>3, CrashTypes
  <2>4. ASSUME NEW j \in Jobs, StartReplay(j) PROVE TypeInv'
    <3>1. PICK p \in dlq \cup (IF es = None \/ backend = "memory" THEN {} ELSE {es.payload}) :
            /\ work' = [work EXCEPT ![j] = [payload |-> p, result |-> "none"]]
            /\ unsure' \in {unsure, unsure \cup {<<"replay", p>>}}
      BY <2>4 DEF StartReplay
    <3>2. p \in Payloads
      BY <3>1 DEF TypeInv, TypeOK, EntityState
    <3> DEFINE item == [payload |-> p, result |-> "none"]
    <3>3. item \in WorkItems /\ item.payload \in Payloads
      BY <3>2 DEF WorkItems, Results
    <3>4. /\ pc' = [pc EXCEPT ![j] = "begin"] /\ work' = [work EXCEPT ![j] = item]
          /\ UNCHANGED <<backend, oneProcess, storeVars, faults, changes, loaded, twice, disturbed,
                         lost, crossed, unsaved>>
      BY <2>4, <3>1 DEF StartReplay, Goto
    <3>5. BatchesTyped' /\ UNCHANGED <<backend, oneProcess>>
      BY <3>4, AreTyped DEF BatchesTyped, storeVars
    <3>6. OthersTyped'
      <4>1. unsure' \subseteq Deliveries
        BY <3>1, <3>2 DEF TypeInv, TypeOK, Deliveries
      <4> QED BY <3>4, <4>1, AreTyped DEF Setup, OthersTyped, storeVars
    <3>7. "begin" \in Places
      BY DEF Places
    <3> HIDE DEF item
    <3> QED BY <3>3, <3>4, <3>5, <3>6, <3>7, JobTypes
  <2>5. CASE UNCHANGED vars
    BY <2>5 DEF Setup, vars, storeVars, bookVars, TypeInv, TypeOK, NeedsPayload
  <2> QED BY <2>1, <2>2, <2>3, <2>4, <2>5 DEF Next
<1> QED BY <1>1, InitTypes, LockInvHolds, PTL DEF Spec

(* Every variable keeps its shape; in particular a buffer that is closed is  *)
(* empty, and no more faults happen than allowed.                          *)
THEOREM StoreTypeCorrect == Spec => []TypeOK
<1>1. TypeInv => TypeOK
  BY DEF TypeInv
<1> QED BY <1>1, TypesHold, PTL

------------------------------------------------------------------------------
\* A delivery is loaded once

Busy == {"decide", "check", "load", "save", "commit"}

(* Jobs with one store object see one buffer, and a mark names its job's kind. *)
OneBuffer == \A j \in Jobs : \A i \in Sharing(j) : batch[i] = batch[j]
OwnKinds == \A j \in Jobs : \A k \in batch[j].marks : (k[1] = "replay") <=> (j \in Replayers)

(* Marks wait in a buffer only while a job of that store object is at work, *)
(* so that BeginBatch of the next one throws none away; what was loaded is   *)
(* marked, in the table or in a buffer, or unsure; and so is what is about   *)
(* to be loaded, if it was loaded before.                                  *)
MarksHaveOwner ==
  ~disturbed => \A i \in Jobs : batch[i].marks # {} => \E k \in Sharing(i) : pc[k] \in Busy
Marked(k) == k \in log \/ \E i \in Jobs : k \in batch[i].marks
LoadedIsMarked == ~disturbed /\ ~lost => \A k \in loaded : Marked(k) \/ k \in unsure
NextIsNew ==
  ~disturbed /\ ~lost =>
    \A j \in Jobs : pc[j] = "load" => Key(j) \notin loaded \/ Key(j) \in unsure

(* A replay sees neither the buffer of another nor, over a memory store, the  *)
(* table: what it has in hand or in its buffer is then unsure from the start. *)
ReplaysApart ==
  \A i, j \in Replayers, p \in Payloads :
    Replays(i, p) /\ Replays(j, p) /\ (i # j \/ backend = "memory") => <<"replay", p>> \in unsure

OnceInv ==
  /\ OneBuffer /\ OwnKinds /\ MarksHaveOwner /\ LoadedIsMarked /\ NextIsNew /\ LoadedOnce
  /\ ReplaysApart

LEMMA SharingIsClass ==
  /\ \A j \in Jobs : j \in Sharing(j) /\ Sharing(j) \subseteq Jobs
  /\ \A i, j \in Jobs : i \in Sharing(j) => (i \in Replayers <=> j \in Replayers) /\ Sharing(i) = Sharing(j)
BY DEF Sharing

LEMMA RunsAlone ==
  ASSUME LockInv, ~disturbed, NEW i \in Runners, NEW j \in Runners, i # j,
         pc[j] \notin {"idle", "clean", "insert"}
  PROVE  pc[i] \in {"idle", "clean", "insert"}
BY DEF LockInv, OwnsTheLock, Running

(* No step but StartReplay gives a replay anything more to deliver.          *)
LEMMA StayApart ==
  ASSUME ReplaysApart, unsure \subseteq unsure', backend' = backend,
         \A i \in Replayers, p \in Payloads : Replays(i, p)' => Replays(i, p)
  PROVE  ReplaysApart'
BY DEF ReplaysApart

(* The steps that touch neither the buffers nor the table.                   *)
LEMMA MovesOn ==
  ASSUME OnceInv, TypeInv, NEW j \in Jobs, NEW place \in Places \ {"load"}, NEW item,
         pc' = [pc EXCEPT ![j] = place], work' = [work EXCEPT ![j] = item],
         pc[j] \in Busy => place \in Busy,
         j \in Replayers => item.payload \in {None, work[j].payload},
         UNCHANGED <<backend, oneProcess, batch, log, loaded, twice, disturbed, lost, unsure>>
  PROVE  OnceInv'
<1> USE DEF OnceInv
<1>1. Sharing(j)' = Sharing(j) /\ \A i \in Jobs : Sharing(i)' = Sharing(i)
  BY DEF Sharing
<1>2. /\ pc'[j] = place /\ \A i \in Jobs : i # j => pc'[i] = pc[i]
      /\ \A i \in Jobs : i # j => work'[i] = work[i]
  BY DEF TypeInv
<1>3. OneBuffer' /\ OwnKinds' /\ LoadedOnce'
  BY <1>1 DEF OneBuffer, OwnKinds, LoadedOnce
<1>4. MarksHaveOwner'
  <2>1. \A k \in Jobs : pc[k] \in Busy => pc'[k] \in Busy
    BY <1>2
  <2> QED BY <1>1, <2>1, SharingIsClass DEF MarksHaveOwner
<1>5. LoadedIsMarked'
  BY DEF LoadedIsMarked, Marked
<1>6. NextIsNew'
  BY <1>2 DEF NextIsNew, Key
<1>7. ReplaysApart'
  <2>1. work'[j] = item
    BY DEF TypeInv
  <2>2. \A i \in Replayers, p \in Payloads : Replays(i, p)' => Replays(i, p)
    BY <1>2, <2>1 DEF Replays
  <2> QED BY <2>2, StayApart
<1> QED BY <1>3, <1>4, <1>5, <1>6, <1>7

(* What a replay starts with becomes unsure, if another has it or there is   *)
(* no store to see it in.                                                  *)
LEMMA StartReplayOnce ==
  ASSUME OnceInv, TypeInv, NEW j \in Jobs, StartReplay(j)
  PROVE  OnceInv'
<1> USE DEF OnceInv
<1>1. PICK p :
        /\ work' = [work EXCEPT ![j] = [payload |-> p, result |-> "none"]]
        /\ unsure' = IF backend = "memory" \/ \E k \in Replayers : Replays(k, p)
                       THEN unsure \cup {<<"replay", p>>} ELSE unsure
  BY DEF StartReplay
<1>2. /\ j \in Replayers /\ pc[j] = "idle" /\ pc' = [pc EXCEPT ![j] = "begin"]
      /\ UNCHANGED <<backend, oneProcess, batch, log, loaded, twice, disturbed, lost>>
      /\ \A i \in Jobs : Sharing(i)' = Sharing(i)
  BY DEF StartReplay, Goto, storeVars, Sharing
<1>3. /\ pc'[j] = "begin" /\ work'[j].payload = p
      /\ \A i \in Jobs : i # j => pc'[i] = pc[i] /\ work'[i] = work[i]
  BY <1>1, <1>2 DEF TypeInv
<1>4. unsure \subseteq unsure'
  BY <1>1
<1>5. OneBuffer' /\ OwnKinds' /\ LoadedOnce'
  BY <1>2, <1>4 DEF OneBuffer, OwnKinds, LoadedOnce
<1>6. MarksHaveOwner'
  <2>1. \A k \in Jobs : pc[k] \in Busy => pc'[k] \in Busy
    BY <1>2, <1>3 DEF Busy
  <2> QED BY <1>2, <2>1, SharingIsClass DEF MarksHaveOwner
<1>7. LoadedIsMarked'
  BY <1>2, <1>4 DEF LoadedIsMarked, Marked
<1>8. NextIsNew'
  BY <1>2, <1>3, <1>4 DEF NextIsNew, Key
<1>9. ReplaysApart'
  <2> SUFFICES ASSUME NEW i \in Replayers, NEW k \in Replayers, NEW q \in Payloads,
                      Replays(i, q)', Replays(k, q)', i # k \/ backend = "memory"
               PROVE  <<"replay", q>> \in unsure'
    BY <1>2 DEF ReplaysApart
  <2>1. \A m \in Replayers : Replays(m, q)' => Replays(m, q) \/ (m = j /\ q = p)
    BY <1>2, <1>3 DEF Replays
  <2>2. CASE Replays(i, q) /\ Replays(k, q)
    BY <1>4, <2>2 DEF ReplaysApart
  <2>3. CASE ~(Replays(i, q) /\ Replays(k, q))
    <3>1. q = p /\ (backend = "memory" \/ \E m \in Replayers : Replays(m, p))
      BY <2>1, <2>3
    <3> QED BY <1>1, <3>1
  <2> QED BY <2>2, <2>3
<1> QED BY <1>5, <1>6, <1>7, <1>8, <1>9

LEMMA BeginBatchOnce ==
  ASSUME OnceInv, TypeInv, LockInv, NEW j \in Jobs, BeginBatch(j)
  PROVE  OnceInv'
<1> USE DEF OnceInv
<1> DEFINE b == [open |-> TRUE, marks |-> {}]
<1>1. /\ pc[j] = "begin"
      /\ UNCHANGED <<backend, oneProcess, work, log, loaded, twice, disturbed, lost, unsure>>
      /\ \A i \in Jobs : batch'[i] = IF i \in Sharing(j) THEN b ELSE batch[i]
      /\ \A i \in Jobs : Sharing(i)' = Sharing(i)
  BY DEF BeginBatch, SetBatch, storeFrame, bookVars, Sharing
<1>2. \A i \in Jobs : i # j => pc'[i] = pc[i]
  BY DEF BeginBatch, Goto, TypeInv
<1>3. pc'[j] \in {"check", "decide"}
  BY DEF BeginBatch, Goto, TypeInv
<1>4. ~disturbed => \A i \in Sharing(j) : batch[i].marks = {}
  <2> SUFFICES ASSUME ~disturbed, NEW i \in Sharing(j), batch[i].marks # {} PROVE FALSE
    OBVIOUS
  <2>1. PICK k \in Sharing(j) : pc[k] \in Busy
    BY SharingIsClass DEF MarksHaveOwner
  <2>2. k # j /\ k \in Jobs
    BY <1>1, <2>1, SharingIsClass DEF Busy
  <2>3. k \in Runners /\ j \in Runners
    BY <2>2 DEF Sharing
  <2> QED BY <1>1, <2>1, <2>2, <2>3, RunsAlone DEF Busy
<1>5. OneBuffer'
  BY <1>1, SharingIsClass DEF OneBuffer
<1>6. OwnKinds' /\ LoadedOnce'
  BY <1>1 DEF OwnKinds, LoadedOnce
<1>7. MarksHaveOwner'
  <2> SUFFICES ASSUME ~disturbed, NEW i \in Jobs, batch'[i].marks # {}
               PROVE  \E k \in Sharing(i) : pc'[k] \in Busy
    BY <1>1 DEF MarksHaveOwner
  <2>1. i \notin Sharing(j) /\ batch[i].marks # {}
    BY <1>1
  <2>2. PICK k \in Sharing(i) : pc[k] \in Busy
    BY <2>1 DEF MarksHaveOwner
  <2>3. pc'[k] \in Busy
    BY <1>2, <1>3, <2>2, SharingIsClass DEF Busy
  <2> QED BY <2>3
<1>8. LoadedIsMarked'
  BY <1>1, <1>4 DEF LoadedIsMarked, Marked
<1>9. NextIsNew'
  BY <1>1, <1>2, <1>3 DEF NextIsNew, Key
<1>10. ReplaysApart'
  BY <1>1, StayApart DEF Replays
<1> QED BY <1>5, <1>6, <1>7, <1>8, <1>9, <1>10

(* IsDelivered sees every mark that could be of this job: in the table, in   *)
(* the buffer it shares, or in none, for no other run is at work; only what  *)
(* two replays deliver, or one of a memory store, it may miss.              *)
LEMMA CheckOnce ==
  ASSUME OnceInv, TypeInv, LockInv, NEW j \in Jobs, Check(j)
  PROVE  OnceInv'
<1> USE DEF OnceInv
<1>1. /\ pc[j] = "check"
      /\ UNCHANGED <<backend, oneProcess, batch, log, loaded, twice, disturbed, lost, unsure>>
      /\ \A i \in Jobs : Sharing(i)' = Sharing(i)
  BY DEF Check, storeVars, bookVars, Sharing
<1>2. /\ \A i \in Jobs : i # j => pc'[i] = pc[i]
      /\ \A i \in Jobs : work'[i].payload = work[i].payload
  BY DEF Check, Goto, TypeInv, WorkItems
<1>3. pc'[j] \in {"save", "load"} /\ (pc'[j] = "load" => ~IsDelivered(j))
  BY DEF Check, Goto, TypeInv
<1>4. ASSUME ~disturbed, ~lost, ~IsDelivered(j), Key(j) \in loaded PROVE Key(j) \in unsure
  <2> DEFINE p == work[j].payload
  <2>a. p \in Payloads /\ (j \in Replayers => Key(j) = <<"replay", p>> /\ Replays(j, p))
    BY <1>1 DEF TypeInv, NeedsPayload, Key, Replays
  <2>b. CASE backend = "memory" /\ j \in Replayers
    BY <2>a, <2>b DEF ReplaysApart
  <2>c. CASE ~(backend = "memory" /\ j \in Replayers)
    <3> SUFFICES ASSUME NEW i \in Jobs, Key(j) \in batch[i].marks PROVE Key(j) \in unsure
      BY <1>4, <2>c DEF LoadedIsMarked, Marked, IsDelivered, SeesStore
    <3>1. batch[j].marks = {} \/ Key(j) \notin batch[j].marks
      BY <1>4 DEF IsDelivered, TypeInv, TypeOK
    <3>2. i \notin Sharing(j)
      BY <3>1 DEF OneBuffer
    <3>3. i \in Replayers <=> j \in Replayers
      BY DEF OwnKinds, Key
    <3>4. CASE j \in Replayers
      <4>1. i # j /\ Replays(i, p)
        BY <2>a, <3>2, <3>4, SharingIsClass DEF Replays
      <4> QED BY <2>a, <3>3, <3>4, <4>1 DEF ReplaysApart
    <3>5. CASE j \notin Replayers
      <4>1. i \in Runners /\ j \in Runners /\ i # j /\ ~oneProcess
        BY <3>2, <3>3, <3>5, SharingIsClass DEF Sharing
      <4>2. pc[i] \in Busy
        BY <1>4, <4>1 DEF MarksHaveOwner, Sharing
      <4> QED BY <1>1, <1>4, <4>1, <4>2, RunsAlone DEF Busy
    <3> QED BY <3>4, <3>5
  <2> QED BY <2>b, <2>c
<1>5. OneBuffer' /\ OwnKinds' /\ LoadedOnce'
  BY <1>1 DEF OneBuffer, OwnKinds, LoadedOnce
<1>6. MarksHaveOwner'
  <2>1. \A k \in Jobs : pc[k] \in Busy => pc'[k] \in Busy
    BY <1>2, <1>3 DEF Busy
  <2> QED BY <1>1, <2>1, SharingIsClass DEF MarksHaveOwner
<1>7. LoadedIsMarked'
  BY <1>1 DEF LoadedIsMarked, Marked
<1>8. NextIsNew'
  BY <1>1, <1>2, <1>3, <1>4 DEF NextIsNew, Key
<1>9. ReplaysApart'
  BY <1>1, <1>2, StayApart DEF Replays
<1> QED BY <1>5, <1>6, <1>7, <1>8, <1>9

(* A load marks what it loads where the others of its store see it; a load   *)
(* that fails moves on.                                                    *)
LEMMA LoadOnce ==
  ASSUME OnceInv, TypeInv, LockInv, NEW j \in Jobs, Load(j)
  PROVE  OnceInv'
<1> USE DEF OnceInv
<1>1. /\ pc[j] = "load" /\ UNCHANGED <<backend, oneProcess, disturbed, lost>>
      /\ pc' = [pc EXCEPT ![j] = "save"]
      /\ \A i \in Jobs : Sharing(i)' = Sharing(i)
  BY DEF Load, Goto, Sharing
<1>2. CASE /\ UNCHANGED <<loaded, twice, log, batch, unsure>>
           /\ work' = [work EXCEPT ![j].result = "failed"]
  <2> DEFINE item == [work[j] EXCEPT !.result = "failed"]
  <2>1. work' = [work EXCEPT ![j] = item] /\ item.payload = work[j].payload
    BY <1>2 DEF TypeInv, WorkItems
  <2> HIDE DEF item
  <2> QED BY <1>1, <1>2, <2>1, MovesOn DEF Busy
<1>a. ASSUME loaded' = loaded \cup {Key(j)}, unsure \subseteq unsure',
             \A i \in Jobs : work'[i].payload = work[i].payload
      PROVE  NextIsNew'
  <2> SUFFICES ASSUME ~disturbed, ~lost, NEW i \in Jobs, pc'[i] = "load", Key(i)' \in loaded'
               PROVE  Key(i)' \in unsure'
    BY <1>1 DEF NextIsNew
  <2>1. i # j /\ pc[i] = "load" /\ Key(i)' = Key(i)
    BY <1>1, <1>a DEF Key, TypeInv
  <2>2. CASE Key(i) \in loaded
    BY <1>a, <2>1, <2>2 DEF NextIsNew
  <2>3. CASE Key(i) = Key(j)
    <3>1. i \in Replayers /\ j \in Replayers
      BY <1>1, <2>1, <2>3, RunsAlone DEF Key
    <3>2. work[j].payload \in Payloads /\ work[i].payload = work[j].payload
      BY <1>1, <2>3 DEF TypeInv, NeedsPayload, Key
    <3>3. <<"replay", work[j].payload>> \in unsure
      BY <2>1, <3>1, <3>2 DEF ReplaysApart, Replays
    <3> QED BY <1>a, <2>1, <2>3, <3>1, <3>3 DEF Key
  <2> QED BY <1>a, <2>1, <2>2, <2>3
<1>b. twice' = (IF Key(j) \in loaded THEN twice \cup {Key(j)} ELSE twice) /\ unsure \subseteq unsure'
      => LoadedOnce'
  BY <1>1 DEF LoadedOnce, NextIsNew
<1>4. CASE /\ Lands(j) /\ unsure' = unsure \cup {Key(j)} /\ UNCHANGED <<log, batch>>
           /\ work' = [work EXCEPT ![j].result = "failed"]
  <2>1. /\ \A i \in Jobs : i # j => pc'[i] = pc[i]
        /\ \A i \in Jobs : work'[i].payload = work[i].payload
        /\ pc'[j] = "save"
    BY <1>1, <1>4 DEF TypeInv, WorkItems
  <2>2. OneBuffer' /\ OwnKinds'
    BY <1>1, <1>4 DEF OneBuffer, OwnKinds
  <2>3. MarksHaveOwner'
    <3>1. \A k \in Jobs : pc[k] \in Busy => pc'[k] \in Busy
      BY <2>1 DEF Busy
    <3> QED BY <1>1, <1>4, <3>1, SharingIsClass DEF MarksHaveOwner
  <2>4. LoadedIsMarked'
    BY <1>1, <1>4 DEF LoadedIsMarked, Marked, Lands
  <2>5. NextIsNew' /\ LoadedOnce'
    BY <1>a, <1>b, <1>4, <2>1 DEF Lands
  <2>6. ReplaysApart'
    BY <1>1, <1>4, <2>1, StayApart DEF Replays
  <2> QED BY <2>2, <2>3, <2>4, <2>5, <2>6
<1>3. CASE /\ Lands(j) /\ UNCHANGED unsure
           /\ work' = [work EXCEPT ![j].result = "loaded"]
           /\ IF batch[j].open
                THEN SetBatch(j, [batch[j] EXCEPT !.marks = @ \cup {Key(j)}]) /\ UNCHANGED log
                ELSE log' = log \cup {Key(j)} /\ UNCHANGED batch
  <2>1. /\ \A i \in Jobs : i # j => pc'[i] = pc[i]
        /\ \A i \in Jobs : work'[i].payload = work[i].payload
        /\ pc'[j] = "save"
    BY <1>1, <1>3 DEF TypeInv, WorkItems
  <2>2. /\ \A i \in Jobs : batch'[i].marks =
             IF batch[j].open /\ i \in Sharing(j) THEN batch[i].marks \cup {Key(j)} ELSE batch[i].marks
        /\ \A i \in Sharing(j) : batch'[i] = batch'[j]
        /\ \A i \in Jobs \ Sharing(j) : batch'[i] = batch[i]
        /\ log' = IF batch[j].open THEN log ELSE log \cup {Key(j)}
    <3>1. CASE batch[j].open
      <4> DEFINE b == [batch[j] EXCEPT !.marks = @ \cup {Key(j)}]
      <4>1. /\ \A i \in Jobs : batch'[i] = IF i \in Sharing(j) THEN b ELSE batch[i]
            /\ log' = log
        BY <1>3, <3>1 DEF SetBatch
      <4>2. b.marks = batch[j].marks \cup {Key(j)}
        BY DEF TypeInv, Batches
      <4>3. \A i \in Sharing(j) : batch[i] = batch[j]
        BY DEF OneBuffer
      <4> HIDE DEF b
      <4> QED BY <3>1, <4>1, <4>2, <4>3, SharingIsClass
    <3>2. CASE ~batch[j].open
      BY <1>3, <3>2, SharingIsClass DEF OneBuffer
    <3> QED BY <3>1, <3>2
  <2>3. OneBuffer'
    <3> SUFFICES ASSUME NEW k \in Jobs, NEW i \in Sharing(k) PROVE batch'[i] = batch'[k]
      BY <1>1 DEF OneBuffer
    <3>1. CASE k \in Sharing(j)
      BY <2>2, <3>1, SharingIsClass
    <3>2. CASE k \notin Sharing(j)
      BY <2>2, <3>2, SharingIsClass DEF OneBuffer
    <3> QED BY <3>1, <3>2
  <2>4. OwnKinds'
    <3>1. (Key(j)[1] = "replay") <=> (j \in Replayers)
      BY DEF Key
    <3> SUFFICES ASSUME NEW i \in Jobs, NEW k \in batch'[i].marks
                 PROVE  (k[1] = "replay") <=> (i \in Replayers)
      BY DEF OwnKinds
    <3>2. k \in batch[i].marks \/ (k = Key(j) /\ i \in Sharing(j))
      <4>1. batch'[i].marks = IF batch[j].open /\ i \in Sharing(j) THEN batch[i].marks \cup {Key(j)}
                              ELSE batch[i].marks
        BY <2>2
      <4> QED BY <4>1
    <3> QED BY <3>1, <3>2, SharingIsClass DEF OwnKinds
  <2>5. MarksHaveOwner'
    <3>1. \A k \in Jobs : pc[k] \in Busy => pc'[k] \in Busy
      BY <2>1 DEF Busy
    <3>2. \A i \in Sharing(j) : j \in Sharing(i) /\ pc'[j] \in Busy
      BY <2>1, SharingIsClass DEF Busy
    <3> QED BY <1>1, <2>2, <3>1, <3>2, SharingIsClass DEF MarksHaveOwner
  <2>6. LoadedIsMarked'
    <3>1. Marked(Key(j))'
      BY <2>1, <2>2, SharingIsClass DEF Marked, Key
    <3>2. \A k : Marked(k) => Marked(k)'
      BY <2>2 DEF Marked
    <3>3. \A k \in loaded' : k \in loaded \/ k = Key(j)
      BY <1>3 DEF Lands
    <3>4. \A k : k = Key(j) => (k \in log' \/ \E i \in Jobs : k \in batch'[i].marks)
      BY <2>2, SharingIsClass
    <3> QED BY <1>1, <1>3, <3>2, <3>3, <3>4 DEF LoadedIsMarked, Marked
  <2>7. NextIsNew' /\ LoadedOnce'
    BY <1>a, <1>b, <1>3, <2>1 DEF Lands
  <2>8. ReplaysApart'
    <3>1. ASSUME NEW i \in Replayers, NEW p \in Payloads, Replays(i, p)' PROVE Replays(i, p)
      <4>1. i \in Sharing(j) => i = j
        BY SharingIsClass DEF Sharing
      <4>2. <<"replay", p>> \in batch'[i].marks
            => <<"replay", p>> \in batch[i].marks \/ (i = j /\ <<"replay", p>> = Key(j))
        <5>1. batch'[i].marks = IF batch[j].open /\ i \in Sharing(j)
                                THEN batch[i].marks \cup {Key(j)} ELSE batch[i].marks
          BY <2>2
        <5> QED BY <4>1, <5>1
      <4>3. <<"replay", p>> = Key(j) => p = work[j].payload
        BY DEF Key
      <4> QED BY <2>1, <3>1, <4>2, <4>3 DEF Replays
    <3> QED BY <1>1, <1>3, <3>1, StayApart
  <2> QED BY <2>3, <2>4, <2>5, <2>6, <2>7, <2>8
<1> QED BY <1>2, <1>3, <1>4 DEF Load

(* The buffer goes to the table, or is lost and known to be.                *)
LEMMA CommitOnce ==
  ASSUME OnceInv, TypeInv, LockInv, NEW j \in Jobs, CommitBatch(j)
  PROVE  OnceInv'
<1> USE DEF OnceInv
<1>1. /\ pc[j] = "commit"
      /\ UNCHANGED <<backend, oneProcess, work, loaded, twice, disturbed, unsure>>
      /\ \A i \in Jobs : batch'[i] = IF i \in Sharing(j) THEN Closed ELSE batch[i]
      /\ \A i \in Jobs : Sharing(i)' = Sharing(i)
      /\ \/ log' = (IF SeesStore(j) THEN log \cup batch[j].marks ELSE log) /\ lost' = lost
         \/ lost' = TRUE
  BY DEF CommitBatch, SetBatch, Sharing
<1>2. pc'[j] \in {"idle", "unlock"} /\ \A i \in Jobs : i # j => pc'[i] = pc[i]
  BY DEF CommitBatch, Goto, TypeInv
<1>3. Closed.marks = {}
  BY DEF Closed
<1>4. OneBuffer'
  BY <1>1, SharingIsClass DEF OneBuffer
<1>5. OwnKinds'
  BY <1>1, <1>3 DEF OwnKinds
<1>6. MarksHaveOwner'
  <2> SUFFICES ASSUME ~disturbed, NEW i \in Jobs, batch'[i].marks # {}
               PROVE  \E k \in Sharing(i) : pc'[k] \in Busy
    BY <1>1 DEF MarksHaveOwner
  <2>1. i \notin Sharing(j) /\ batch[i].marks # {}
    BY <1>1, <1>3
  <2>2. PICK k \in Sharing(i) : pc[k] \in Busy
    BY <2>1 DEF MarksHaveOwner
  <2>3. k # j /\ k \in Jobs
    BY <2>1, SharingIsClass
  <2> QED BY <1>2, <2>2, <2>3
<1>7. LoadedIsMarked'
  <2> SUFFICES ASSUME ~disturbed, ~lost, NEW k \in loaded, k \notin unsure,
                      log' = IF SeesStore(j) THEN log \cup batch[j].marks ELSE log
               PROVE  Marked(k)'
    BY <1>1 DEF LoadedIsMarked
  <2>1. Marked(k)
    BY DEF LoadedIsMarked
  <2>2. CASE k \in log
    BY <2>2 DEF Marked
  <2>3. ASSUME NEW i \in Jobs, k \in batch[i].marks PROVE Marked(k)'
    <3>1. CASE i \notin Sharing(j)
      BY <1>1, <2>3, <3>1 DEF Marked
    <3>2. CASE i \in Sharing(j)
      <4>1. k \in batch[j].marks
        BY <2>3, <3>2 DEF OneBuffer
      <4>2. ASSUME ~SeesStore(j) PROVE FALSE
        <5>1. j \in Replayers /\ backend = "memory" /\ k[1] = "replay" /\ k \in Deliveries
          BY <4>1, <4>2 DEF SeesStore, OwnKinds, TypeInv, TypeOK
        <5>2. PICK p \in Payloads : k = <<"replay", p>>
          BY <5>1 DEF Deliveries
        <5>3. Replays(j, p)
          BY <4>1, <5>2 DEF Replays
        <5> QED BY <5>1, <5>2, <5>3 DEF ReplaysApart
      <4> QED BY <4>1, <4>2 DEF Marked
    <3> QED BY <3>1, <3>2
  <2> QED BY <2>1, <2>2, <2>3 DEF Marked
<1>8. NextIsNew' /\ LoadedOnce'
  BY <1>1, <1>2 DEF NextIsNew, LoadedOnce, Key
<1>9. ReplaysApart'
  BY <1>1, <1>3, StayApart DEF Replays
<1> QED BY <1>4, <1>5, <1>6, <1>7, <1>8, <1>9

LEMMA CrashOnce ==
  ASSUME OnceInv, TypeInv, LockInv, NEW j \in Jobs, Crash(j)
  PROVE  OnceInv'
<1> USE DEF OnceInv
<1>1. /\ UNCHANGED <<backend, oneProcess, loaded, twice, disturbed, unsure>>
      /\ \A i \in Jobs : batch'[i] = IF i \in Sharing(j) THEN Closed ELSE batch[i]
      /\ \A i \in Jobs : pc'[i] = IF i \in Sharing(j) THEN "idle" ELSE pc[i]
      /\ \A i \in Jobs : i \notin Sharing(j) => work'[i] = work[i]
      /\ \A i \in Jobs : Sharing(i)' = Sharing(i)
      /\ lost' = (lost \/ batch[j].marks # {} \/ (backend = "memory" /\ j \in Runners))
      /\ log' = IF backend = "memory" /\ j \in Runners THEN {} ELSE log
  BY DEF Crash, SetBatch, Sharing
<1>2. Closed.marks = {}
  BY DEF Closed
<1>3. OneBuffer'
  BY <1>1, SharingIsClass DEF OneBuffer
<1>4. OwnKinds'
  BY <1>1, <1>2 DEF OwnKinds
<1>5. MarksHaveOwner'
  BY <1>1, <1>2, SharingIsClass DEF MarksHaveOwner
<1>6. LoadedIsMarked'
  BY <1>1, <1>2 DEF LoadedIsMarked, Marked, OneBuffer
<1>7. NextIsNew'
  BY <1>1 DEF NextIsNew, Key
<1>8. LoadedOnce'
  BY <1>1 DEF LoadedOnce
<1>9. ReplaysApart'
  <2>1. \A i \in Jobs : i \in Sharing(j) => work'[i] = NoWork
    BY DEF Crash
  <2>2. \A i \in Replayers, p \in Payloads : Replays(i, p)' => Replays(i, p)
    BY <1>1, <1>2, <2>1 DEF Replays, NoWork
  <2> QED BY <1>1, <2>2, StayApart
<1> QED BY <1>3, <1>4, <1>5, <1>6, <1>7, <1>8, <1>9

LEMMA StepOnce ==
  ASSUME OnceInv, TypeInv, LockInv, NEW j \in Jobs, Step(j) \/ Start(j)
  PROVE  OnceInv'
<1> USE DEF Goto
<1>1. work = [work EXCEPT ![j] = work[j]]
  BY DEF TypeInv
<1>2. CASE Start(j)
  BY <1>1, <1>2, MovesOn DEF Start, storeFrame, bookVars, Busy
<1>3. CASE LockCleanup(j)
  BY <1>1, <1>3, MovesOn DEF LockCleanup, storeFrame, bookVars, Busy
<1>4. CASE LockInsert(j)
  BY <1>1, <1>4, MovesOn DEF LockInsert, storeFrame, bookVars, Busy
<1>5. CASE LockTransaction(j)
  BY <1>1, <1>5, MovesOn DEF LockTransaction, storeFrame, bookVars, Busy
<1>6. CASE LockInMemory(j)
  BY <1>1, <1>6, MovesOn DEF LockInMemory, storeFrame, bookVars, Busy
<1>7. CASE UnlockRun(j)
  BY <1>1, <1>7, MovesOn DEF UnlockRun, storeFrame, bookVars, Busy
<1>8. CASE Decide(j)
  <2>1. j \notin Replayers
    BY <1>8 DEF Decide, LockInv, ReplayPc
  <2> QED BY <1>1, <1>8, <2>1, MovesOn DEF Decide, storeVars, bookVars, Busy
<1>9. CASE SaveRun(j)
  BY <1>9, MovesOn DEF SaveRun, SaveFrame, bookVars, Busy, NoWork
<1>10. CASE SaveReplay(j)
  BY <1>10, MovesOn DEF SaveReplay, SaveFrame, bookVars, Busy, NoWork
<1> QED
  BY <1>2, <1>3, <1>4, <1>5, <1>6, <1>7, <1>8, <1>9, <1>10,
     BeginBatchOnce, CheckOnce, LoadOnce, CommitOnce DEF Step

LEMMA OnceHolds == Spec => []OnceInv
<1>1. Init => OnceInv
  BY DEF Init, Closed, OnceInv, OneBuffer, OwnKinds, MarksHaveOwner, LoadedIsMarked, NextIsNew,
         LoadedOnce, Sharing, ReplaysApart, Replays, NoWork
<1>2. OnceInv /\ TypeInv /\ LockInv /\ [Next]_vars => OnceInv'
  <2> SUFFICES ASSUME OnceInv, TypeInv, LockInv, [Next]_vars PROVE OnceInv'
    OBVIOUS
  <2>1. ASSUME UNCHANGED <<backend, oneProcess, batch, pc, work, log, loaded, twice, lost, unsure>>,
               disturbed => disturbed'
        PROVE  OnceInv'
    BY <2>1 DEF OnceInv, OneBuffer, OwnKinds, MarksHaveOwner, LoadedIsMarked, Marked, NextIsNew,
                Key, LoadedOnce, Sharing, ReplaysApart, Replays
  <2>2. CASE Tick \/ ForceUnlock \/ SourceChanges \/ UNCHANGED vars
    <3>1. UNCHANGED <<backend, oneProcess, batch, pc, work, log, loaded, twice, lost, unsure>>
      BY <2>2 DEF Tick, ForceUnlock, SourceChanges, vars, storeVars, bookVars
    <3>2. disturbed' = TRUE \/ disturbed' = disturbed \/ disturbed' = (disturbed \/ Running # {})
      BY <2>2 DEF Tick, ForceUnlock, SourceChanges, vars, storeVars, bookVars
    <3> QED BY <2>1, <3>1, <3>2
  <2>3. ASSUME NEW j \in Jobs, Start(j) \/ Step(j) PROVE OnceInv'
    BY <2>3, StepOnce
  <2>4. ASSUME NEW j \in Jobs, Crash(j) PROVE OnceInv'
    BY <2>4, CrashOnce
  <2>5. ASSUME NEW j \in Jobs, StartReplay(j) PROVE OnceInv'
    BY <2>5, StartReplayOnce
  <2> QED BY <2>2, <2>3, <2>4, <2>5 DEF Next
<1> QED BY <1>1, <1>2, TypesHold, PTL DEF Spec

(* However many runs and replays work on a store, a delivery is loaded a     *)
(* second time only if marks were lost or runs overlapped, if its first     *)
(* request landed and was reported as failed, or if two replays had it at a *)
(* time or one had a memory store.                                         *)
THEOREM DeliveredOnce == Spec => []LoadedOnce
<1>1. OnceInv => LoadedOnce
  BY DEF OnceInv
<1> QED BY <1>1, OnceHolds, PTL

------------------------------------------------------------------------------
\* What the entity state says

(* A job between its load and its save holds what the destination holds, and *)
(* when there is none such, an entity state with "success" says it.         *)
HasLoaded(j) == pc[j] = "save" /\ work[j].result = "loaded"
FollowInv ==
  ~disturbed /\ ~crossed =>
    /\ \A j \in Jobs : HasLoaded(j) => dest = work[j].payload
    /\ es # None /\ es.status = "success" /\ ~unsaved /\ (\A j \in Jobs : ~HasLoaded(j))
       => dest = es.payload

(* The steps that neither load nor save.                                    *)
LEMMA FollowsOn ==
  ASSUME FollowInv, TypeInv, NEW j \in Jobs, NEW place, NEW item,
         pc' = [pc EXCEPT ![j] = place], work' = [work EXCEPT ![j] = item],
         ~HasLoaded(j), place = "save" => item.result # "loaded",
         UNCHANGED <<dest, disturbed>>, crossed => crossed', unsaved' = unsaved,
         es' = es \/ (es'.status # "success")
  PROVE  FollowInv'
<1>1. /\ pc'[j] = place /\ work'[j] = item
      /\ \A i \in Jobs : i # j => pc'[i] = pc[i] /\ work'[i] = work[i]
  BY DEF TypeInv
<1>2. \A i \in Jobs : HasLoaded(i)' = HasLoaded(i)
  BY <1>1 DEF HasLoaded
<1>3. \A i \in Jobs : HasLoaded(i) => work'[i] = work[i]
  BY <1>1
<1> QED BY <1>2, <1>3 DEF FollowInv

(* Two jobs that have both loaded would be two runs, or have crossed.        *)
LEMMA LoadFollows ==
  ASSUME FollowInv, TypeInv, LockInv, NEW j \in Jobs, Load(j)
  PROVE  FollowInv'
<1>1. /\ pc[j] = "load" /\ pc' = [pc EXCEPT ![j] = "save"] /\ UNCHANGED <<es, disturbed>>
      /\ crossed' = (crossed \/ (Working # {j} /\ \E k \in Replayers : pc[k] # "idle"))
  BY DEF Load, Goto
<1>2. ASSUME ~disturbed, ~crossed', NEW i \in Jobs, i # j PROVE ~HasLoaded(i)
  <2> SUFFICES ASSUME pc[i] = "save" PROVE FALSE
    BY DEF HasLoaded
  <2>1. CASE i \in Runners /\ j \in Runners
    BY <1>1, <1>2, <2>1, RunsAlone
  <2>2. CASE ~(i \in Runners /\ j \in Runners)
    <3>1. i \in Working /\ \E k \in Replayers : pc[k] # "idle"
      BY <1>1, <2>2 DEF Working, Running
    <3> QED BY <1>1, <1>2, <3>1
  <2> QED BY <2>1, <2>2
<1>3. CASE Lands(j) /\ work' = [work EXCEPT ![j].result = "loaded"]
  <2>1. /\ work'[j].payload = work[j].payload /\ HasLoaded(j)' /\ dest' = work[j].payload
        /\ \A i \in Jobs : i # j => pc'[i] = pc[i] /\ work'[i] = work[i]
    BY <1>1, <1>3 DEF TypeInv, WorkItems, HasLoaded, Lands
  <2>2. \A i \in Jobs : i # j => HasLoaded(i)' = HasLoaded(i)
    BY <2>1 DEF HasLoaded
  <2> QED BY <1>1, <1>2, <2>1, <2>2 DEF FollowInv
<1>4. CASE UNCHANGED <<dest, unsaved>> /\ work' = [work EXCEPT ![j].result = "failed"]
  <2> DEFINE item == [work[j] EXCEPT !.result = "failed"]
  <2>1. work' = [work EXCEPT ![j] = item] /\ item.result # "loaded"
    BY <1>4 DEF TypeInv, WorkItems
  <2>2. ~HasLoaded(j) /\ (crossed => crossed')
    BY <1>1 DEF HasLoaded
  <2> HIDE DEF item
  <2> QED BY <1>1, <1>4, <2>1, <2>2, FollowsOn
<1>5. CASE unsaved' = TRUE /\ work' = [work EXCEPT ![j].result = "failed"]
  <2>1. /\ work'[j].result = "failed"
        /\ \A i \in Jobs : i # j => pc'[i] = pc[i] /\ work'[i] = work[i]
    BY <1>1, <1>5 DEF TypeInv, WorkItems
  <2>2. /\ ~HasLoaded(j)'
        /\ \A i \in Jobs : i # j => HasLoaded(i)' = HasLoaded(i)
    BY <2>1 DEF HasLoaded
  <2> QED BY <1>1, <1>2, <1>5, <2>2 DEF FollowInv
<1> QED BY <1>3, <1>4, <1>5 DEF Load

(* A save that names what was loaded sets the entity state right; one that   *)
(* fails, or has no store, leaves it unsaved.                              *)
LEMMA SaveFollows ==
  ASSUME FollowInv, TypeInv, NEW j \in Jobs, SaveRun(j) \/ SaveReplay(j)
  PROVE  FollowInv'
<1>1. /\ pc[j] = "save" /\ pc' = [pc EXCEPT ![j] = "commit"] /\ work' = [work EXCEPT ![j] = NoWork]
      /\ UNCHANGED <<dest, disturbed, crossed>>
  BY DEF SaveRun, SaveReplay, Goto, SaveFrame, bookVars
<1>2. work[j].result \in {"loaded", "skipped", "failed"}
  BY <1>1 DEF TypeInv, WorkItems, Results
<1>3. CASE work[j].result = "loaded"
  <2>1. es'.payload = work[j].payload \/ unsaved' = TRUE
    <3>1. CASE SaveRun(j)
      <4>1. es' = Saved(j, "success") \/ SaveFails(j)
        BY <1>3, <3>1 DEF SaveRun
      <4>2. SaveFails(j) => unsaved' = TRUE
        BY <1>3 DEF SaveFails
      <4> QED BY <4>1, <4>2 DEF Saved
    <3>2. CASE SaveReplay(j)
      <4>1. es' = Saved(j, "success") \/ unsaved' = TRUE
        BY <1>3, <3>2 DEF SaveReplay, SaveFails
      <4> QED BY <4>1 DEF Saved
    <3> QED BY <3>1, <3>2
  <2>2. HasLoaded(j) /\ ~HasLoaded(j)'
    BY <1>1, <1>3 DEF HasLoaded, TypeInv
  <2>3. \A i \in Jobs : HasLoaded(i)' => HasLoaded(i) /\ work'[i] = work[i]
    BY <1>1 DEF HasLoaded, TypeInv
  <2> QED BY <1>1, <2>1, <2>2, <2>3 DEF FollowInv
<1>4. CASE work[j].result # "loaded"
  <2>1. es' = es \/ es'.status # "success"
    BY <1>2, <1>4 DEF SaveRun, SaveReplay, Saved, SaveFails
  <2>2. ~HasLoaded(j)
    BY <1>4 DEF HasLoaded
  <2>3. unsaved' = unsaved
    BY <1>2, <1>4 DEF SaveRun, SaveReplay, SaveFails, TypeInv, TypeOK
  <2> QED BY <1>1, <2>1, <2>2, <2>3, FollowsOn
<1> QED BY <1>3, <1>4

LEMMA CrashFollows ==
  ASSUME FollowInv, TypeInv, NEW j \in Jobs, Crash(j)
  PROVE  FollowInv'
<1>1. /\ UNCHANGED <<dest, disturbed, crossed>> /\ es' \in {es, None}
      /\ \A i \in Jobs : pc'[i] = IF i \in Sharing(j) THEN "idle" ELSE pc[i]
      /\ \A i \in Jobs : i \notin Sharing(j) => work'[i] = work[i]
      /\ unsaved' = (unsaved \/ \E i \in Sharing(j) : pc[i] = "save" /\ work[i].result = "loaded")
  BY DEF Crash
<1>2. ASSUME ~unsaved', NEW i \in Jobs PROVE HasLoaded(i)' = HasLoaded(i)
  BY <1>1, <1>2 DEF HasLoaded
<1>3. \A i \in Jobs : HasLoaded(i)' => HasLoaded(i) /\ work'[i] = work[i]
  BY <1>1 DEF HasLoaded
<1> QED BY <1>1, <1>2, <1>3 DEF FollowInv

LEMMA StepFollows ==
  ASSUME FollowInv, TypeInv, LockInv, NEW j \in Jobs, Step(j) \/ Start(j)
  PROVE  FollowInv'
<1> USE DEF Goto
<1>1. work = [work EXCEPT ![j] = work[j]]
  BY DEF TypeInv
<1>2. CASE Start(j)
  BY <1>1, <1>2, FollowsOn DEF Start, storeFrame, bookVars, HasLoaded
<1>3. CASE LockCleanup(j)
  BY <1>1, <1>3, FollowsOn DEF LockCleanup, storeFrame, bookVars, HasLoaded
<1>4. CASE LockInsert(j)
  BY <1>1, <1>4, FollowsOn DEF LockInsert, storeFrame, bookVars, HasLoaded
<1>5. CASE LockTransaction(j)
  BY <1>1, <1>5, FollowsOn DEF LockTransaction, storeFrame, bookVars, HasLoaded
<1>6. CASE LockInMemory(j)
  BY <1>1, <1>6, FollowsOn DEF LockInMemory, storeFrame, bookVars, HasLoaded
<1>7. CASE UnlockRun(j)
  BY <1>1, <1>7, FollowsOn DEF UnlockRun, storeFrame, bookVars, HasLoaded
<1>8. CASE BeginBatch(j)
  BY <1>1, <1>8, FollowsOn DEF BeginBatch, storeFrame, bookVars, HasLoaded
<1>9. CASE Decide(j)
  BY <1>1, <1>9, FollowsOn DEF Decide, storeVars, bookVars, HasLoaded
<1>10. CASE Check(j)
  <2> DEFINE item == [work[j] EXCEPT !.result = IF IsDelivered(j) THEN "skipped" ELSE "none"]
  <2>1. work' = [work EXCEPT ![j] = item] /\ item.result # "loaded"
    BY <1>10 DEF Check, TypeInv, WorkItems
  <2>2. /\ pc[j] = "check" /\ pc' = [pc EXCEPT ![j] = IF IsDelivered(j) THEN "save" ELSE "load"]
        /\ UNCHANGED <<es, dest, disturbed, crossed, unsaved>>
    BY <1>10 DEF Check, storeVars, bookVars
  <2> HIDE DEF item
  <2> QED BY <2>1, <2>2, FollowsOn DEF HasLoaded
<1>11. CASE CommitBatch(j)
  BY <1>1, <1>11, FollowsOn DEF CommitBatch, HasLoaded
<1> QED
  BY <1>2, <1>3, <1>4, <1>5, <1>6, <1>7, <1>8, <1>9, <1>10, <1>11, LoadFollows, SaveFollows DEF Step

LEMMA FollowHolds == Spec => []FollowInv
<1>1. Init => FollowInv
  BY DEF Init, FollowInv, HasLoaded, NoWork
<1>2. FollowInv /\ TypeInv /\ LockInv /\ [Next]_vars => FollowInv'
  <2> SUFFICES ASSUME FollowInv, TypeInv, LockInv, [Next]_vars PROVE FollowInv'
    OBVIOUS
  <2>1. CASE Tick \/ ForceUnlock \/ SourceChanges \/ UNCHANGED vars
    <3>1. UNCHANGED <<pc, work, es, dest, crossed, unsaved>>
      BY <2>1 DEF Tick, ForceUnlock, SourceChanges, vars, storeVars, bookVars
    <3>2. disturbed' = TRUE \/ disturbed' = disturbed \/ disturbed' = (disturbed \/ Running # {})
      BY <2>1 DEF Tick, ForceUnlock, SourceChanges, vars, storeVars, bookVars
    <3> QED BY <3>1, <3>2 DEF FollowInv, HasLoaded
  <2>2. ASSUME NEW j \in Jobs, Start(j) \/ Step(j) PROVE FollowInv'
    BY <2>2, StepFollows
  <2>3. ASSUME NEW j \in Jobs, Crash(j) PROVE FollowInv'
    BY <2>3, CrashFollows
  <2>4. ASSUME NEW j \in Jobs, StartReplay(j) PROVE FollowInv'
    <3>1. PICK p : work' = [work EXCEPT ![j] = [payload |-> p, result |-> "none"]]
      BY <2>4 DEF StartReplay
    <3> QED
      BY <2>4, <3>1, FollowsOn DEF StartReplay, Goto, storeVars, bookVars, HasLoaded
  <2> QED BY <2>1, <2>2, <2>3, <2>4 DEF Next
<1> QED BY <1>1, <1>2, TypesHold, PTL DEF Spec

(* At rest an entity state with "success" is what the destination holds,    *)
(* through runs and replays of whatever content in whatever order, unless    *)
(* a replay crossed a run or another replay, runs overlapped, or what was    *)
(* loaded last was not saved, or was reported as failed.                    *)
THEOREM StateIsTrue == Spec => []StateFollowsDestination
<1>1. FollowInv => StateFollowsDestination
  BY DEF FollowInv, StateFollowsDestination, HasLoaded
<1> QED BY <1>1, FollowHolds, PTL
=============================================================================
