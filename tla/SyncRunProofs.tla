---------------------------- MODULE SyncRunProofs ----------------------------
(***************************************************************************)
(* Theorems about SyncRun, for every source, rule list, limit and number   *)
(* of faults.                                                              *)
(***************************************************************************)
EXTENDS SyncRun, SequenceTheorems, WellFoundedInduction, TLAPS

------------------------------------------------------------------------------
\* The decision engine

(* A non-empty set of natural numbers has a least element.                 *)
LEMMA LeastElement ==
  ASSUME NEW T, T \subseteq Nat, T # {}
  PROVE  \E i \in T : \A j \in T : i <= j
<1> DEFINE R == {p \in Nat \X Nat : p[1] < p[2]}
<1>1. IsWellFoundedOn(R, Nat)
  BY NatLessThanWellFounded DEF OpToRel
<1>2. PICK i \in T : \A j \in T : ~(<<j, i>> \in R)
  <2> HIDE DEF R
  <2> QED BY <1>1, WFMin
<1>3. ASSUME NEW j \in T, ~(i <= j) PROVE FALSE
  <2>1. i \in Nat /\ j \in Nat
    OBVIOUS
  <2>2. <<j, i>> \in R
    BY <1>3, <2>1
  <2> QED BY <2>2, <1>2
<1> QED BY <1>3

LEMMA EligibleRules ==
  ASSUME NEW in, NEW firedNames
  PROVE  /\ DOMAIN Rules \subseteq Nat
         /\ Eligible(in, firedNames) \subseteq DOMAIN Rules
         /\ \A i \in DOMAIN Rules : Rules[i].action \in PlanActions
         /\ \A i \in DOMAIN Rules : Rules[i].name \in RuleNames
<1>1. Rules \in [1..Len(Rules) -> RuleType] /\ Len(Rules) \in Nat
  BY RulesAssumption, LenProperties
<1>2. \A i \in DOMAIN Rules : Rules[i] \in RuleType
  BY <1>1
<1>3. DOMAIN Rules \subseteq Nat
  BY <1>1
<1> QED BY <1>2, <1>3 DEF Eligible, RuleNames, RuleType

(* First match wins, for every rule list: the plan is that of an eligible  *)
(* rule no earlier rule of which is eligible, and the default action when  *)
(* there is none (decision.Evaluate).                                      *)
THEOREM FirstMatchWins ==
  ASSUME NEW in, NEW firedNames
  PROVE  \/ /\ Eligible(in, firedNames) = {}
            /\ Evaluate(in, firedNames) = [action |-> Default, rule |-> NoRule]
         \/ \E i \in Eligible(in, firedNames) :
              /\ \A j \in Eligible(in, firedNames) : i <= j
              /\ Evaluate(in, firedNames) =
                   [action |-> Rules[i].action, rule |-> Rules[i].name]
<1> DEFINE E == Eligible(in, firedNames)
<1>1. CASE E = {}
  BY <1>1 DEF Evaluate
<1>2. CASE E # {}
  <2> DEFINE win == CHOOSE i \in E : \A j \in E : i <= j
  <2>1. E \subseteq Nat
    BY EligibleRules
  <2>2. \E i \in E : \A j \in E : i <= j
    <3> HIDE DEF E
    <3> QED BY <1>2, <2>1, LeastElement
  <2>3. win \in E /\ \A j \in E : win <= j
    <3> HIDE DEF E
    <3> QED BY <2>2
  <2>4. Evaluate(in, firedNames) = [action |-> Rules[win].action, rule |-> Rules[win].name]
    BY <1>2 DEF Evaluate
  <2> HIDE DEF win
  <2> QED BY <2>3, <2>4
<1> QED BY <1>1, <1>2

(* A plan is an action with the rule that won, or none.                    *)
LEMMA EvaluateType ==
  ASSUME NEW in, NEW firedNames
  PROVE  /\ Evaluate(in, firedNames).action \in PlanActions
         /\ Evaluate(in, firedNames).rule \in RuleNames \cup {NoRule}
<1>1. Default \in PlanActions
  BY RulesAssumption
<1> QED BY <1>1, FirstMatchWins, EligibleRules

(* A once-rule that has fired for an entity never decides for it again     *)
(* (decision.Evaluate's HasRuleFired check).                               *)
THEOREM FiredOnceRuleNeverWins ==
  ASSUME NEW in, NEW firedNames,
         \A i, j \in DOMAIN Rules : Rules[i].name = Rules[j].name => i = j
  PROVE  Evaluate(in, firedNames).rule \notin OnceRules \cap firedNames
<1>1. NoRule \notin OnceRules
  BY RulesAssumption DEF OnceRules, RuleNames
<1>2. ASSUME NEW i \in Eligible(in, firedNames)
      PROVE  Rules[i].name \notin OnceRules \cap firedNames
  BY <1>2, EligibleRules DEF Eligible, OnceRules
<1> QED BY <1>1, <1>2, FirstMatchWins

------------------------------------------------------------------------------
\* What the helpers return

LEMMA ConstantTypes ==
  /\ KeyOf \in [Rows -> Keys \cup {NoKey}] /\ NoKey \notin Keys
  /\ Fp \in [Payloads -> Fps]
  /\ None \notin Payloads /\ Blank \notin Payloads /\ None \notin Keys
  /\ MissingAction \in {"none", "skip", "delete", "clear_fields"}
  /\ Threshold \in Nat \ {0} /\ HistoryLimit \in Nat \ {0}
  /\ MaxFaults \in Nat
  /\ DryModes \subseteq BOOLEAN
  /\ InitialPayloads \subseteq Payloads \cup {None}
  /\ AllowDestructive \in BOOLEAN /\ DlqOn \in BOOLEAN
  /\ OnErrorSkip \in BOOLEAN /\ Incremental \in BOOLEAN
BY SyncAssumption

LEMMA RecordType ==
  ASSUME NEW n \in [Buckets -> Nat], NEW action
  PROVE  Record(action, n) \in [Buckets -> Nat]
<1>1. Bucket(action) \in Buckets
  BY DEF Bucket, Buckets
<1> QED BY <1>1 DEF Record

LEMMA ZeroType == ZeroCounts \in [Buckets -> Nat]
BY DEF ZeroCounts

(* The new run's log row is there, and the log stays within its limit.     *)
LEMMA StartedType ==
  ASSUME NEW h \in Seq(RunLog)
  PROVE  /\ Started(h) \in Seq(RunLog)
         /\ Started(h) # <<>>
         /\ Len(Started(h)) <= HistoryLimit
<1> DEFINE new == [status |-> "running", wm |-> 0]
           all == <<new>> \o h
           n == AtMost(Len(all), HistoryLimit)
<1>1. new \in RunLog
  BY DEF RunLog, RunStatus
<1>2. <<new>> \in Seq(RunLog) /\ Len(<<new>>) = 1
  BY <1>1
<1>3. all \in Seq(RunLog) /\ Len(all) \in Nat /\ Len(all) >= 1
  BY <1>2, ConcatProperties, LenProperties
<1>4. n \in Nat /\ 1 <= n /\ n <= HistoryLimit /\ n <= Len(all)
  BY <1>3, ConstantTypes DEF AtMost
<1> HIDE DEF all, n
<1>5. \A i \in 1..n : all[i] \in RunLog
  BY <1>3, <1>4, ElementOfSeq
<1>6. /\ SubSeq(all, 1, n) \in Seq(RunLog)
      /\ Len(SubSeq(all, 1, n)) = n
  BY <1>4, <1>5, SubSeqProperties
<1>7. SubSeq(all, 1, n) # <<>>
  BY <1>4, <1>6, EmptySeq
<1>8. Started(h) = SubSeq(all, 1, n)
  BY DEF Started, all, n
<1> QED BY <1>4, <1>6, <1>7, <1>8

LEMMA KeyTypes ==
  /\ \A k \in Keys, action \in DeliveryActions, f \in Fps :
       OpKey(k, action, f) \in DeliveryKeys
  /\ \A k \in Keys : RawKey(k) \in DeliveryKeys
BY DEF OpKey, RawKey, DeliveryKeys

(* The row at the head of the pending deliveries.                          *)
LEMMA HeadType ==
  ASSUME pend \in Seq(Pending), pend # <<>>
  PROVE  /\ pd \in Pending /\ Tail(pend) \in Seq(Pending)
         /\ pd.key \in Keys /\ pd.payload \in Payloads /\ Fp[pd.payload] \in Fps
         /\ pd.action \in DeliveryActions
         /\ opKey \in DeliveryKeys
<1>1. pd \in Pending /\ Tail(pend) \in Seq(Pending)
  BY HeadTailProperties DEF pd
<1>2. /\ pd.key \in Keys /\ pd.payload \in Payloads
      /\ pd.action \in DeliveryActions
  BY <1>1 DEF Pending
<1>3. Fp[pd.payload] \in Fps
  BY <1>2, ConstantTypes
<1> QED BY <1>1, <1>2, <1>3, KeyTypes DEF opKey

(* A decided row that is not skipped is a pending delivery.                *)
LEMMA PendingItemType ==
  ASSUME StoreTypes, NEW k \in Keys, NEW p \in Payloads,
         PendingItem(k, p).action # "skip"
  PROVE  PendingItem(k, p) \in Pending
<1>1. /\ Plan(k, p).action \in DeliveryActions \cup {"skip"}
      /\ Plan(k, p).rule \in RuleNames \cup {NoRule}
  BY EvaluateType DEF Plan, PlanActions
<1>2. es[k] \in EntityState \cup {None}
  BY DEF StoreTypes
<1> QED BY <1>1, <1>2 DEF PendingItem, Pending

LEMMA BuiltStateType ==
  ASSUME NEW item \in Pending, NEW st \in {"success", "failed"}, NEW id \in BOOLEAN
  PROVE  BuildEntityState(item, st, id) \in EntityState
<1>1. item.payload \in Payloads /\ item.action \in DeliveryActions
  BY DEF Pending
<1>2. Fp[item.payload] \in Fps /\ 0 \in 0..Threshold
  BY <1>1, ConstantTypes
<1> QED BY <1>1, <1>2 DEF BuildEntityState, EntityState

LEMMA FaultType ==
  ASSUME GhostTypes, NoFault \/ \E f \in FaultKinds : Fault(f)
  PROVE  faults' \in 0..MaxFaults
BY ConstantTypes DEF GhostTypes, NoFault, Fault

LEMMA SaveType ==
  ASSUME StoreTypes, GhostTypes, NEW k \in Keys, NEW state \in EntityState,
         SaveEntityState(k, state)
  PROVE  /\ es' \in [Keys -> EntityState \cup {None}]
         /\ faults' \in 0..MaxFaults
         /\ \A j \in Keys : es[j] # None => es'[j] # None
<1>1. es \in [Keys -> EntityState \cup {None}] /\ faults \in 0..MaxFaults
  BY DEF StoreTypes, GhostTypes
<1>2. /\ es' = es \/ es' = [es EXCEPT ![k] = state]
      /\ faults' = faults \/ (faults' = faults + 1 /\ faults < MaxFaults)
  BY DEF SaveEntityState, Fault, NoFault
<1>3. es' \in [Keys -> EntityState \cup {None}]
  BY <1>1, <1>2
<1>4. \A j \in Keys : es[j] # None => es'[j] # None
  BY <1>1, <1>2, NoneAssumption
<1>5. faults' \in 0..MaxFaults
  BY <1>1, <1>2, ConstantTypes
<1> QED BY <1>3, <1>4, <1>5

(* Every outcome that marks a delivery landed it, and a failure is counted *)
(* only while faults are left.                                             *)
LEMMA OutcomeFacts ==
  ASSUME NEW id, NEW o \in LoadOutcomes(id)
  PROVE  /\ o.marked => o.landed
         /\ o.kind = "loaded" /\ ~dryRun => o.landed
         /\ o.kind \in {"loaded", "skipped", "rowErr", "fatal"}
         /\ o.kind \in {"rowErr", "fatal"} /\ ~cancelled => faults < MaxFaults
         /\ o.cancels \in BOOLEAN
<1>1. PICK kind \in {"loaded", "skipped", "rowErr", "fatal"},
           lands \in BOOLEAN, marks \in BOOLEAN, stops \in BOOLEAN :
        /\ o = Outcome(kind, lands, marks, stops)
        /\ marks => lands
        /\ kind = "loaded" /\ ~dryRun => lands
        /\ kind \in {"rowErr", "fatal"} /\ ~cancelled => faults < MaxFaults
  BY Zenon DEF LoadOutcomes, MayFail
<1> QED BY <1>1 DEF Outcome

LEMMA LoadType ==
  ASSUME TypeOK, NEW k \in Keys, NEW id \in DeliveryKeys, NEW payload \in Payloads,
         NEW value \in Payloads \cup {None, Blank}, NEW dead, NEW o,
         Load(k, id, payload, value, dead, o)
  PROVE  /\ dest' \in [Keys -> Payloads \cup {None, Blank}]
         /\ batch' \subseteq DeliveryKeys
         /\ cancelled' \in BOOLEAN
         /\ dlq' \subseteq [key : Keys, id : DeliveryKeys, payload : Payloads]
         /\ faults' \in 0..MaxFaults
<1>1. o \in LoadOutcomes(id)
  BY DEF Load
<1>2. /\ o.kind \in {"rowErr", "fatal"} /\ ~cancelled => faults < MaxFaults
      /\ o.cancels \in BOOLEAN
  BY <1>1, OutcomeFacts
<1> QED BY <1>2, ConstantTypes DEF Load, TypeOK, StoreTypes, RunTypes, GhostTypes

------------------------------------------------------------------------------
\* Type correctness

(* The idle engine with an empty store is well typed, whatever rows the    *)
(* source starts with.                                                     *)
THEOREM TypeInit == Init => TypeOK
<1> SUFFICES ASSUME Init PROVE TypeOK
  OBVIOUS
<1>1. clock \in Nat /\ src \in [Rows -> [payload : Payloads \cup {None}, stamp : Nat]]
  <2>1. PICK first \in [Rows -> InitialPayloads] :
          src = [r \in Rows |-> [payload |-> first[r],
                                 stamp |-> IF Incremental THEN FirstStamp[r] ELSE 0]]
    BY DEF Init
  <2>2. \A r \in Rows : FirstStamp[r] \in Nat /\ first[r] \in Payloads \cup {None}
    BY ConstantTypes, SyncAssumption
  <2> QED BY <2>1, <2>2, SyncAssumption DEF Init
<1>2. StoreTypes
  <2>1. history \in Seq(RunLog) /\ Len(history) <= HistoryLimit
    BY ConstantTypes, EmptySeq DEF Init
  <2> QED BY <2>1 DEF Init, StoreTypes
<1>3. ExtractTypes /\ RunTypes
  BY ZeroType, EmptySeq DEF Init, Idle, ExtractTypes, RunTypes, RunStatus, Phases
<1>4. GhostTypes
  BY ZeroType, ConstantTypes DEF Init, GhostTypes
<1>5. PhaseFacts
  BY DEF Init, Idle, PhaseFacts
<1> QED BY <1>1, <1>2, <1>3, <1>4, <1>5 DEF Init, TypeOK

LEMMA RejectRowType ==
  ASSUME TypeOK, RejectRow PROVE TypeOK'
BY DEF RejectRow, Receive, NoFault, TypeOK, StoreTypes, ExtractTypes, RunTypes, GhostTypes, PhaseFacts,
  sourceVars, storeVars, extractVars, sweepVars, outcomeVars, ghostVars

LEMMA DecideFailsType ==
  ASSUME TypeOK, DecideFails PROVE TypeOK'
BY ConstantTypes DEF DecideFails, Receive, Deliverable, Fault, TypeOK, StoreTypes, ExtractTypes, RunTypes, GhostTypes, PhaseFacts,
  sourceVars, storeVars, extractVars, sweepVars, outcomeVars, ghostVars

LEMMA EndExtractType ==
  ASSUME TypeOK, EndExtract PROVE TypeOK'
<1>1. faults' \in 0..MaxFaults
  BY FaultType DEF EndExtract, TypeOK, FaultKinds
<1> QED
  BY <1>1 DEF EndExtract, Phases, TypeOK, StoreTypes, ExtractTypes, RunTypes, GhostTypes, PhaseFacts,
     sourceVars, storeVars, extractVars, sweepVars, outcomeVars, ghostVars

LEMMA GateBlockType ==
  ASSUME TypeOK, GateBlock PROVE TypeOK'
BY DEF GateBlock, Phases, RunStatus, TypeOK, StoreTypes, ExtractTypes, RunTypes, GhostTypes, PhaseFacts,
  sourceVars, storeVars, extractVars, sweepVars, outcomeVars, ghostVars

LEMMA GatePassType ==
  ASSUME TypeOK, GatePass PROVE TypeOK'
BY DEF GatePass, Phases, TypeOK, StoreTypes, ExtractTypes, RunTypes, GhostTypes, PhaseFacts,
  sourceVars, storeVars, extractVars, sweepVars, outcomeVars, ghostVars

LEMMA SkipOverLimitType ==
  ASSUME TypeOK, SkipOverLimit PROVE TypeOK'
BY HeadType DEF SkipOverLimit, Delivering, TypeOK, StoreTypes, ExtractTypes, RunTypes, GhostTypes, PhaseFacts,
  sourceVars, storeVars, extractVars, sweepVars, outcomeVars, ghostVars

LEMMA EndSweepType ==
  ASSUME TypeOK, EndSweep PROVE TypeOK'
BY DEF EndSweep, Phases, TypeOK, StoreTypes, ExtractTypes, RunTypes, GhostTypes, PhaseFacts,
  sourceVars, storeVars, extractVars, sweepVars, outcomeVars, ghostVars

LEMMA CommitType ==
  ASSUME TypeOK, Commit PROVE TypeOK'
<1>1. faults' \in 0..MaxFaults
  BY FaultType DEF Commit, TypeOK, FaultKinds
<1> QED
  BY <1>1 DEF Commit, Phases, RunStatus, TypeOK, StoreTypes, ExtractTypes, RunTypes, GhostTypes, PhaseFacts,
     sourceVars, storeVars, extractVars, sweepVars, outcomeVars, ghostVars

LEMMA CancelType ==
  ASSUME TypeOK, Cancel PROVE TypeOK'
<1>1. faults' \in 0..MaxFaults
  BY FaultType DEF Cancel, TypeOK, FaultKinds
<1> QED
  BY <1>1 DEF Cancel, runVars, pd, TypeOK, StoreTypes, ExtractTypes, RunTypes, GhostTypes, PhaseFacts,
     sourceVars, storeVars, extractVars, sweepVars, outcomeVars, ghostVars

LEMMA CrashType ==
  ASSUME TypeOK, Crash PROVE TypeOK'
<1>1. faults' \in 0..MaxFaults
  BY FaultType DEF Crash, TypeOK, FaultKinds
<1> QED
  BY <1>1, ZeroType, EmptySeq DEF Crash, ClearRun, RunStatus, Phases, TypeOK, StoreTypes, ExtractTypes, RunTypes, GhostTypes, PhaseFacts,
     sourceVars, storeVars, extractVars, sweepVars, outcomeVars, ghostVars

LEMMA ReleaseStaleLockType ==
  ASSUME TypeOK, ReleaseStaleLock PROVE TypeOK'
BY DEF ReleaseStaleLock, runVars, pd, TypeOK, StoreTypes, ExtractTypes, RunTypes, GhostTypes, PhaseFacts,
  sourceVars, storeVars, extractVars, sweepVars, outcomeVars, ghostVars

LEMMA BeginRunType ==
  ASSUME TypeOK, NEW dry \in DryModes, NEW approved \in Approvals \cup {None},
         BeginRun(dry, approved)
  PROVE  TypeOK'
<1>1. faults' \in 0..MaxFaults
  BY FaultType DEF BeginRun, TypeOK, FaultKinds
<1>2. \A wm : Extraction(wm) \subseteq [row : Rows, payload : Payloads, stamp : Nat]
  BY DEF Extraction, TypeOK
<1>3. todo' \subseteq [row : Rows, payload : Payloads, stamp : Nat]
  BY <1>2 DEF BeginRun
<1>4. ExtractTypes'
  BY <1>3 DEF BeginRun, ExtractTypes
<1>5. history' \in Seq(RunLog) /\ history' # <<>> /\ Len(history') <= HistoryLimit
  BY StartedType DEF BeginRun, TypeOK, StoreTypes
<1>6. StoreTypes'
  BY <1>5 DEF BeginRun, TypeOK, StoreTypes
<1>7. RunTypes'
  BY ConstantTypes, ZeroType, EmptySeq DEF BeginRun, TypeOK, RunTypes, Phases, RunStatus
<1>8. present' \subseteq Keys \cup {NoKey}
  BY ConstantTypes DEF BeginRun
<1>9. GhostTypes'
  BY <1>1, <1>8, ZeroType DEF BeginRun, TypeOK, GhostTypes
<1> QED
  BY <1>4, <1>5, <1>6, <1>7, <1>9 DEF BeginRun, TypeOK, PhaseFacts, sourceVars

LEMMA DecideRowType ==
  ASSUME TypeOK, DecideRow PROVE TypeOK'
<1>1. PICK x \in todo :
        /\ Receive(x) /\ Deliverable(x)
        /\ seen' = seen \cup {KeyOf[x.row]}
        /\ pend' = IF PendingItem(KeyOf[x.row], x.payload).action = "skip" THEN pend
                   ELSE Append(pend, PendingItem(KeyOf[x.row], x.payload))
  BY DEF DecideRow
<1>2. x.row \in Rows /\ x.payload \in Payloads /\ x.stamp \in Nat
  BY DEF TypeOK, ExtractTypes
<1>3. KeyOf[x.row] \in Keys
  BY <1>1, <1>2, ConstantTypes DEF Deliverable
<1>4. pend' \in Seq(Pending)
  BY <1>1, <1>2, <1>3, PendingItemType, AppendProperties DEF TypeOK, RunTypes
<1>5. ExtractTypes'
  BY <1>1, <1>2, <1>3 DEF Receive, TypeOK, ExtractTypes
<1>6. pc = "extract" /\ pc' = pc
  BY <1>1 DEF DecideRow, Receive
<1> QED
  BY <1>4, <1>5, <1>6 DEF DecideRow, NoFault, TypeOK, StoreTypes, RunTypes, GhostTypes,
     PhaseFacts, sourceVars, storeVars, sweepVars, outcomeVars, ghostVars

LEMMA DeliverRowType ==
  ASSUME TypeOK, DeliverRow PROVE TypeOK'
<1>1. PICK o \in LoadOutcomes(opKey) :
        /\ Load(pd.key, opKey, pd.payload, pd.payload, {"rowErr", "fatal"}, o)
        /\ pc' = AfterLoad(o.kind)
        /\ pend' = IF AfterLoad(o.kind) = "deliver" THEN Tail(pend) ELSE pend
        /\ counts' = IF o.kind = "loaded" /\ dryRun
                       THEN Record(pd.action, counts) ELSE counts
        /\ firstErr' = (firstErr \/ (o.kind = "fatal" /\ ~DlqOn /\ ~OnErrorSkip))
        /\ landed' = IF o.landed THEN landed \cup {<<pd.key, pd.payload>>}
                                 ELSE landed
        /\ runLanded' = IF o.landed THEN Record(pd.action, runLanded)
                                    ELSE runLanded
        /\ hits' = IF o.landed /\ pd.rule \in OnceRules
                     THEN [hits EXCEPT ![<<pd.key, pd.rule>>] = AtMost(@ + 1, 2)]
                     ELSE hits
  BY DEF DeliverRow
<1>2. pc = "deliver" /\ pend \in Seq(Pending) /\ pend # <<>>
  BY DEF DeliverRow, Delivering, TypeOK, RunTypes
<1>3. /\ Tail(pend) \in Seq(Pending)
      /\ pd.key \in Keys /\ pd.payload \in Payloads /\ opKey \in DeliveryKeys
  BY <1>2, HeadType
<1>4. /\ dest' \in [Keys -> Payloads \cup {None, Blank}]
      /\ batch' \subseteq DeliveryKeys
      /\ cancelled' \in BOOLEAN
      /\ dlq' \subseteq [key : Keys, id : DeliveryKeys, payload : Payloads]
      /\ faults' \in 0..MaxFaults
  BY <1>1, <1>3, LoadType
<1>5. pc' \in {"deliver", "saveOk", "saveErr"} /\ (pc' # "deliver" => pend' = pend)
  BY <1>1 DEF AfterLoad
<1>6. StoreTypes'
  BY <1>4 DEF DeliverRow, TypeOK, StoreTypes
<1>7. counts' \in [Buckets -> Nat] /\ runLanded' \in [Buckets -> Nat]
  BY <1>1, RecordType DEF TypeOK, RunTypes, GhostTypes
<1>8. firstErr' \in BOOLEAN
  BY <1>1 DEF TypeOK, RunTypes
<1>9. RunTypes'
  BY <1>1, <1>2, <1>3, <1>4, <1>5, <1>7, <1>8
  DEF DeliverRow, TypeOK, RunTypes, Phases, sweepVars
<1>10. landed' \subseteq Keys \X Payloads
  BY <1>1, <1>3 DEF TypeOK, GhostTypes
<1>11. hits' \in [Keys \X OnceRules -> 0..2]
  <2>1. hits \in [Keys \X OnceRules -> 0..2]
    BY DEF TypeOK, GhostTypes
  <2>2. CASE o.landed /\ pd.rule \in OnceRules
    <3> DEFINE h == <<pd.key, pd.rule>>
    <3>1. h \in Keys \X OnceRules
      BY <1>3, <2>2
    <3>2. AtMost(hits[h] + 1, 2) \in 0..2
      BY <2>1, <3>1 DEF AtMost
    <3>3. hits' = [hits EXCEPT ![h] = AtMost(hits[h] + 1, 2)]
      BY <1>1, <2>2
    <3> QED BY <2>1, <3>1, <3>2, <3>3
  <2>3. CASE ~(o.landed /\ pd.rule \in OnceRules)
    BY <1>1, <2>1, <2>3
  <2> QED BY <2>2, <2>3
<1>12. GhostTypes'
  BY <1>4, <1>7, <1>10, <1>11 DEF DeliverRow, TypeOK, GhostTypes
<1>13. PhaseFacts'
  BY <1>1, <1>2, <1>5 DEF DeliverRow, TypeOK, PhaseFacts
<1> QED
  BY <1>4, <1>6, <1>9, <1>12, <1>13
  DEF DeliverRow, TypeOK, ExtractTypes, sourceVars, extractVars

LEMMA SaveDeliveredType ==
  ASSUME TypeOK, SaveDelivered PROVE TypeOK'
<1>1. pend \in Seq(Pending) /\ pend # <<>>
  BY DEF SaveDelivered, TypeOK, RunTypes, PhaseFacts
<1>2. pd \in Pending /\ pd.key \in Keys /\ Tail(pend) \in Seq(Pending)
  BY <1>1, HeadType
<1>3. BuildEntityState(pd, "success", TRUE) \in EntityState
  BY <1>2, BuiltStateType
<1>4. es' \in [Keys -> EntityState \cup {None}] /\ faults' \in 0..MaxFaults
  BY <1>2, <1>3, SaveType DEF SaveDelivered, TypeOK
<1>5. counts' \in [Buckets -> Nat]
  BY RecordType DEF SaveDelivered, TypeOK, RunTypes
<1>6. pend' \in Seq(Pending) /\ pc' \in {"mark", "deliver"}
  BY <1>1, <1>2 DEF SaveDelivered
<1>7. RunTypes'
  BY <1>5, <1>6 DEF SaveDelivered, TypeOK, RunTypes, Phases, sweepVars, outcomeVars
<1>8. PhaseFacts'
  BY <1>1, <1>6 DEF SaveDelivered, TypeOK, PhaseFacts, pd
<1> QED
  BY <1>4, <1>7, <1>8 DEF SaveDelivered, TypeOK, StoreTypes, ExtractTypes, GhostTypes,
     sourceVars, extractVars, ghostVars

LEMMA MarkRuleFiredType ==
  ASSUME TypeOK, MarkRuleFired PROVE TypeOK'
<1>1. pend \in Seq(Pending) /\ pend # <<>> /\ pd.rule \in OnceRules
  BY DEF MarkRuleFired, TypeOK, RunTypes, PhaseFacts
<1>2. pd.key \in Keys /\ Tail(pend) \in Seq(Pending)
  BY <1>1, HeadType
<1>3. faults' \in 0..MaxFaults
  BY FaultType DEF MarkRuleFired, TypeOK, FaultKinds
<1>4. fired' \subseteq Keys \X OnceRules
  BY <1>1, <1>2 DEF MarkRuleFired, TypeOK, StoreTypes
<1> QED
  BY <1>2, <1>3, <1>4 DEF MarkRuleFired, TypeOK, StoreTypes, ExtractTypes, RunTypes, GhostTypes, PhaseFacts,
     Phases, sourceVars, storeVars, extractVars, sweepVars, outcomeVars, ghostVars

LEMMA SaveFailedType ==
  ASSUME TypeOK, SaveFailed PROVE TypeOK'
<1>1. pend \in Seq(Pending) /\ pend # <<>>
  BY DEF SaveFailed, TypeOK, RunTypes, PhaseFacts
<1>2. pd \in Pending /\ pd.key \in Keys /\ Tail(pend) \in Seq(Pending)
  BY <1>1, HeadType
<1>3. HadId(pd) \in BOOLEAN
  BY <1>2 DEF HadId, Pending, EntityState
<1>4. BuildEntityState(pd, "failed", HadId(pd)) \in EntityState
  BY <1>2, <1>3, BuiltStateType
<1>5. es' \in [Keys -> EntityState \cup {None}] /\ faults' \in 0..MaxFaults
  BY <1>2, <1>4, SaveType DEF SaveFailed, TypeOK
<1> QED
  BY <1>2, <1>5 DEF SaveFailed, TypeOK, StoreTypes, ExtractTypes, RunTypes, GhostTypes, PhaseFacts,
     Phases, sourceVars, storeVars, extractVars, sweepVars, outcomeVars, ghostVars

LEMMA EndDeliveryType ==
  ASSUME TypeOK, EndDelivery PROVE TypeOK'
<1>1. faults' \in 0..MaxFaults
  BY FaultType DEF EndDelivery, TypeOK, FaultKinds
<1>2. /\ sweep' \subseteq Keys /\ pc' \in {"sweep", "commit"}
      /\ pc' = "sweep" => \A k \in sweep' : es[k] # None
  BY DEF EndDelivery, KnownMissing, TypeOK, RunTypes
<1>3. streak' \in [Keys -> 0..Threshold]
  <2>1. \A k \in Keys : streak[k] \in 0..Threshold
    BY DEF TypeOK, GhostTypes
  <2>2. \A k \in Keys : AtMost(streak[k] + 1, Threshold) \in 0..Threshold
    BY <2>1, ConstantTypes DEF AtMost
  <2>3. 0 \in 0..Threshold
    BY ConstantTypes
  <2> QED BY <2>2, <2>3 DEF EndDelivery, TypeOK, GhostTypes
<1>4. pend' \in Seq(Pending)
  BY EmptySeq DEF EndDelivery
<1>5. RunTypes'
  BY <1>2, <1>4 DEF EndDelivery, TypeOK, RunTypes, Phases, outcomeVars
<1>6. GhostTypes'
  BY <1>1, <1>3 DEF EndDelivery, TypeOK, GhostTypes
<1>7. PhaseFacts'
  BY <1>2 DEF EndDelivery, TypeOK, PhaseFacts, storeVars
<1> QED
  BY <1>5, <1>6, <1>7 DEF EndDelivery, TypeOK, StoreTypes, ExtractTypes,
     sourceVars, storeVars, extractVars

(* What the sweep knows of the entity it works on.                         *)
LEMMA SweptType ==
  ASSUME TypeOK, pc \in {"sweep", "sweepSave"}, NEW k \in sweep
  PROVE  /\ k \in Keys /\ es[k] \in EntityState
         /\ Missed(k) \in 0..Threshold
<1>1. k \in Keys /\ es[k] \in EntityState
  BY DEF TypeOK, RunTypes, StoreTypes, PhaseFacts
<1>2. es[k].missing \in 0..Threshold
  BY <1>1 DEF EntityState
<1> QED BY <1>1, <1>2, ConstantTypes DEF Missed, AtMost

LEMMA CountMissingType ==
  ASSUME TypeOK, NEW k \in Keys, CountMissing(k) PROVE TypeOK'
<1>1. es[k] \in EntityState /\ Missed(k) \in 0..Threshold
  BY SweptType DEF CountMissing
<1>2. [es[k] EXCEPT !.missing = Missed(k)] \in EntityState
  BY <1>1 DEF EntityState
<1>3. /\ es' \in [Keys -> EntityState \cup {None}] /\ faults' \in 0..MaxFaults
      /\ \A j \in Keys : es[j] # None => es'[j] # None
  BY <1>2, SaveType DEF CountMissing, TypeOK
<1> QED
  BY <1>3 DEF CountMissing, TypeOK, StoreTypes, ExtractTypes, RunTypes, GhostTypes, PhaseFacts,
     sourceVars, storeVars, extractVars, sweepVars, outcomeVars, ghostVars

LEMMA SendMissingType ==
  ASSUME TypeOK, NEW k \in Keys, SendMissing(k) PROVE TypeOK'
<1>1. es[k] \in EntityState /\ es[k].payload \in Payloads
  BY SweptType DEF SendMissing, EntityState
<1> DEFINE value == CASE MissingAction = "clear_fields" -> Blank
                      [] es[k].hasId -> None
                      [] OTHER -> dest[k]
<1>2. value \in Payloads \cup {None, Blank}
  BY DEF TypeOK
<1>3. PICK o : /\ Load(k, RawKey(k), es[k].payload, value, {"fatal"}, o)
               /\ deleteCount' = IF MissingAction = "delete" /\ o.kind # "fatal"
                                   THEN deleteCount + 1 ELSE deleteCount
               /\ runLanded' = IF MissingAction = "delete" /\ o.landed /\ es[k].hasId
                                 THEN Record("delete", runLanded) ELSE runLanded
  BY DEF SendMissing
<1> HIDE DEF value
<1>4. /\ dest' \in [Keys -> Payloads \cup {None, Blank}]
      /\ batch' \subseteq DeliveryKeys
      /\ cancelled' \in BOOLEAN
      /\ dlq' \subseteq [key : Keys, id : DeliveryKeys, payload : Payloads]
      /\ faults' \in 0..MaxFaults
  BY <1>1, <1>2, <1>3, KeyTypes, LoadType
<1>5. deleteCount' \in Nat /\ runLanded' \in [Buckets -> Nat]
  <2>1. deleteCount \in Nat /\ runLanded \in [Buckets -> Nat]
    BY DEF TypeOK, RunTypes, GhostTypes
  <2>2. Record("delete", runLanded) \in [Buckets -> Nat]
    BY <2>1, RecordType
  <2>3. deleteCount' \in {deleteCount, deleteCount + 1}
    BY <1>3
  <2>4. runLanded' \in {runLanded, Record("delete", runLanded)}
    BY <1>3
  <2> QED BY <2>1, <2>2, <2>3, <2>4
<1>6. StoreTypes'
  BY <1>4 DEF SendMissing, TypeOK, StoreTypes
<1>7. RunTypes'
  BY <1>4, <1>5 DEF SendMissing, TypeOK, RunTypes, Phases
<1>8. GhostTypes'
  BY <1>4, <1>5 DEF SendMissing, TypeOK, GhostTypes
<1>9. PhaseFacts'
  BY DEF SendMissing, TypeOK, PhaseFacts
<1> QED
  BY <1>4, <1>6, <1>7, <1>8, <1>9 DEF SendMissing, TypeOK, ExtractTypes,
     sourceVars, extractVars

LEMMA SaveMissingType ==
  ASSUME TypeOK, SaveMissing PROVE TypeOK'
<1>1. cur \in Keys /\ es[cur] \in EntityState /\ Missed(cur) \in 0..Threshold
  BY SweptType DEF SaveMissing, TypeOK, PhaseFacts
<1>2. /\ [es[cur] EXCEPT !.decision = "delete", !.missing = 0] \in EntityState
      /\ [es[cur] EXCEPT !.decision = "clear_fields", !.missing = Missed(cur)]
           \in EntityState
  <2>1. 0 \in 0..Threshold
    BY ConstantTypes
  <2> QED BY <1>1, <2>1 DEF EntityState, DeliveryActions
<1>3. /\ es' \in [Keys -> EntityState \cup {None}] /\ faults' \in 0..MaxFaults
      /\ \A j \in Keys : es[j] # None => es'[j] # None
  BY <1>1, <1>2, SaveType DEF SaveMissing, TypeOK
<1> QED
  BY <1>3 DEF SaveMissing, TypeOK, StoreTypes, ExtractTypes, RunTypes, GhostTypes, PhaseFacts,
     Phases, sourceVars, storeVars, extractVars, sweepVars, outcomeVars, ghostVars

LEMMA FinishRunType ==
  ASSUME TypeOK, FinishRun PROVE TypeOK'
<1>1. history \in Seq(RunLog) /\ history # <<>> /\ Len(history) <= HistoryLimit
  BY DEF FinishRun, TypeOK, StoreTypes, PhaseFacts
<1>2. 1 \in 1..Len(history)
  BY <1>1, EmptySeq
<1>3. [status |-> status, wm |-> maxWm] \in RunLog
  BY DEF TypeOK, RunTypes, ExtractTypes, RunLog
<1>4. history' \in Seq(RunLog) /\ Len(history') = Len(history)
  BY <1>1, <1>2, <1>3, ExceptSeq DEF FinishRun
<1> QED
  BY <1>1, <1>4, ZeroType, EmptySeq DEF FinishRun, ClearRun, TypeOK, StoreTypes, ExtractTypes, RunTypes, GhostTypes, PhaseFacts,
     RunStatus, Phases, sourceVars, storeVars, extractVars, sweepVars, outcomeVars, ghostVars

LEMMA ChangeSourceType ==
  ASSUME TypeOK, NEW r \in Rows, NEW p \in Payloads \cup {None}, ChangeSource(r, p)
  PROVE  TypeOK'
<1>1. clock' \in Nat
  BY DEF ChangeSource, TypeOK
<1>2. src' \in [Rows -> [payload : Payloads \cup {None}, stamp : Nat]]
  BY ConstantTypes DEF ChangeSource, TypeOK
<1> QED
  BY <1>1, <1>2 DEF ChangeSource, TypeOK, StoreTypes, ExtractTypes, RunTypes, GhostTypes, PhaseFacts,
     runVars, pd, sourceVars, storeVars, extractVars, sweepVars, outcomeVars, ghostVars

LEMMA ResetEntityType ==
  ASSUME TypeOK, NEW k \in Keys, ResetEntity(k) PROVE TypeOK'
<1>1. faults' \in 0..MaxFaults
  BY FaultType DEF ResetEntity, TypeOK, FaultKinds
<1> QED
  BY <1>1 DEF ResetEntity, TypeOK, StoreTypes, ExtractTypes, RunTypes, GhostTypes, PhaseFacts,
     runVars, sourceVars, storeVars, extractVars, sweepVars, outcomeVars, ghostVars

(* Every step of runOnce, of the operator and of the environment keeps the *)
(* types.                                                                  *)
THEOREM TypeStep == TypeOK /\ [Next]_vars => TypeOK'
<1> SUFFICES ASSUME TypeOK, [Next]_vars PROVE TypeOK'
  OBVIOUS
<1>1. CASE Engine
  BY <1>1, RejectRowType, DecideRowType, DecideFailsType, EndExtractType, GateBlockType,
     GatePassType, SkipOverLimitType, DeliverRowType, SaveDeliveredType,
     MarkRuleFiredType, SaveFailedType, EndDeliveryType, CountMissingType,
     SendMissingType, SaveMissingType, EndSweepType, CommitType, FinishRunType
  DEF Engine
<1>2. CASE Operator
  BY <1>2, BeginRunType, ReleaseStaleLockType, ResetEntityType DEF Operator
<1>3. CASE Environment
  BY <1>3, CancelType, CrashType, ChangeSourceType DEF Environment
<1>4. CASE UNCHANGED vars
  BY <1>4 DEF vars, runVars, TypeOK, StoreTypes, ExtractTypes, RunTypes, GhostTypes, PhaseFacts, pd,
     sourceVars, storeVars, extractVars, sweepVars, outcomeVars, ghostVars
<1> QED BY <1>1, <1>2, <1>3, <1>4 DEF Next

(* No step of any run leaves the types and the phase facts (run.go).       *)
THEOREM TypeCorrect == Spec => []TypeOK
BY TypeInit, TypeStep, PTL DEF Spec

------------------------------------------------------------------------------
\* What the entity state and the delivery log claim really happened

(* SuccessWasDelivered, LoggedWasDelivered and FailuresAreDeadLettered with *)
(* what they rest on between Load and the save that follows it: the row at *)
(* the head of the pending deliveries landed, or it is dead-lettered.      *)
DeliveryInv ==
  /\ SuccessWasDelivered
  /\ LoggedWasDelivered
  /\ FailuresAreDeadLettered
  /\ pc = "saveOk" => <<pd.key, pd.payload>> \in landed
  /\ pc = "saveErr" /\ DlqOn => \E d \in dlq : d.key = pd.key /\ d.payload = pd.payload

(* Steps that save nothing and deliver nothing.                            *)
LEMMA NothingDelivered ==
  ASSUME DeliveryInv, UNCHANGED <<es, landed, dlq>>,
         log' \cup batch' \subseteq log \cup batch,
         pc' \notin {"saveOk", "saveErr"} \/ (pc' = pc /\ pend' = pend)
  PROVE  DeliveryInv'
BY DEF DeliveryInv, SuccessWasDelivered, LoggedWasDelivered, FailuresAreDeadLettered, pd

(* The save of a state whose claim is already true.                        *)
LEMMA TrueStateSaved ==
  ASSUME TypeOK, DeliveryInv, UNCHANGED <<landed, dlq, log, batch>>,
         pc' \notin {"saveOk", "saveErr"},
         NEW k \in Keys, NEW state \in EntityState, SaveEntityState(k, state),
         state.status = "success" => <<k, state.payload>> \in landed,
         state.status = "failed" /\ DlqOn
           => \E d \in dlq : d.key = k /\ d.payload = state.payload
  PROVE  DeliveryInv'
<1>1. /\ es'[k] = es[k] \/ es'[k] = state
      /\ \A j \in Keys \ {k} : es'[j] = es[j]
  BY DEF SaveEntityState, TypeOK, StoreTypes
<1>2. SuccessWasDelivered'
  BY <1>1 DEF DeliveryInv, SuccessWasDelivered
<1>3. FailuresAreDeadLettered'
  BY <1>1 DEF DeliveryInv, FailuresAreDeadLettered
<1>4. LoggedWasDelivered'
  BY DEF DeliveryInv, LoggedWasDelivered
<1> QED BY <1>2, <1>3, <1>4 DEF DeliveryInv

LEMMA DeliverRowClaims ==
  ASSUME TypeOK, DeliveryInv, DeliverRow PROVE DeliveryInv'
<1>1. PICK o \in LoadOutcomes(opKey) :
        /\ Load(pd.key, opKey, pd.payload, pd.payload, {"rowErr", "fatal"}, o)
        /\ pc' = AfterLoad(o.kind)
        /\ pend' = IF AfterLoad(o.kind) = "deliver" THEN Tail(pend) ELSE pend
        /\ landed' = IF o.landed THEN landed \cup {<<pd.key, pd.payload>>}
                                 ELSE landed
  BY DEF DeliverRow
<1>2. /\ o.marked => o.landed
      /\ o.kind = "loaded" /\ ~dryRun => o.landed
      /\ o.kind \in {"loaded", "skipped", "rowErr", "fatal"}
  BY <1>1, OutcomeFacts
<1>3. pd.key \in Keys /\ pd.payload \in Payloads
  BY HeadType DEF DeliverRow, Delivering, TypeOK, RunTypes
<1>4. /\ landed \subseteq landed' /\ dlq \subseteq dlq'
      /\ batch' = IF o.marked THEN batch \cup {opKey} ELSE batch
      /\ es' = es /\ log' = log
  BY <1>1 DEF Load, DeliverRow
<1>5. SuccessWasDelivered' /\ FailuresAreDeadLettered'
  BY <1>4 DEF DeliveryInv, SuccessWasDelivered, FailuresAreDeadLettered
<1>6. LoggedWasDelivered'
  <2> SUFFICES ASSUME NEW k \in Keys, NEW a \in DeliveryActions, NEW f \in Fps,
                      OpKey(k, a, f) \in log' \cup batch'
               PROVE  \E p \in Payloads : Fp[p] = f /\ <<k, p>> \in landed'
    BY DEF LoggedWasDelivered
  <2>1. CASE OpKey(k, a, f) \in log \cup batch
    BY <1>4, <2>1 DEF DeliveryInv, LoggedWasDelivered
  <2>2. CASE o.marked /\ OpKey(k, a, f) = opKey
    <3>1. k = pd.key /\ f = Fp[pd.payload]
      BY <2>2 DEF OpKey, opKey
    <3>2. <<pd.key, pd.payload>> \in landed'
      BY <1>1, <1>2, <2>2
    <3> QED BY <1>3, <3>1, <3>2
  <2> QED BY <1>4, <2>1, <2>2
<1>7. pc' = "saveOk" => <<pd.key, pd.payload>> \in landed' /\ pend' = pend
  BY <1>1, <1>2 DEF AfterLoad
<1>8. pc' = "saveErr" /\ DlqOn
        => /\ [key |-> pd.key, id |-> opKey, payload |-> pd.payload] \in dlq'
           /\ pend' = pend
  <2> SUFFICES ASSUME pc' = "saveErr", DlqOn
               PROVE  /\ [key |-> pd.key, id |-> opKey, payload |-> pd.payload] \in dlq'
                      /\ pend' = pend
    OBVIOUS
  <2>1. o.kind \in {"rowErr", "fatal"} /\ pend' = pend
    BY <1>1, <1>2 DEF AfterLoad
  <2> QED BY <1>1, <2>1 DEF Load, DeadLettered
<1> QED BY <1>5, <1>6, <1>7, <1>8 DEF DeliveryInv, pd

LEMMA SendMissingClaims ==
  ASSUME TypeOK, DeliveryInv, NEW k \in Keys, SendMissing(k) PROVE DeliveryInv'
<1>1. /\ es' = es /\ log' = log /\ landed' = landed /\ dlq \subseteq dlq'
      /\ batch' = batch \/ batch' = batch \cup {RawKey(k)}
      /\ pc' = "sweepSave"
  BY DEF SendMissing, Load
<1>2. \A j \in Keys, a \in DeliveryActions, f \in Fps : OpKey(j, a, f) # RawKey(k)
  BY DEF OpKey, RawKey
<1>3. LoggedWasDelivered'
  BY <1>1, <1>2 DEF DeliveryInv, LoggedWasDelivered
<1>4. SuccessWasDelivered' /\ FailuresAreDeadLettered'
  BY <1>1 DEF DeliveryInv, SuccessWasDelivered, FailuresAreDeadLettered
<1> QED BY <1>1, <1>3, <1>4 DEF DeliveryInv

LEMMA SaveDeliveredClaims ==
  ASSUME TypeOK, DeliveryInv, SaveDelivered PROVE DeliveryInv'
<1>1. pd \in Pending /\ pd.key \in Keys
  BY HeadType DEF SaveDelivered, TypeOK, RunTypes, PhaseFacts
<1> DEFINE state == BuildEntityState(pd, "success", TRUE)
<1>2. state \in EntityState
  BY <1>1, BuiltStateType
<1>3. state.status = "success" /\ state.payload = pd.payload
  BY DEF BuildEntityState
<1>4. <<pd.key, pd.payload>> \in landed
  BY DEF SaveDelivered, DeliveryInv
<1>5. SaveEntityState(pd.key, state) /\ pc' \notin {"saveOk", "saveErr"}
  BY DEF SaveDelivered
<1>6. UNCHANGED <<landed, dlq, log, batch>>
  BY DEF SaveDelivered, ghostVars
<1> HIDE DEF state
<1> QED BY <1>1, <1>2, <1>3, <1>4, <1>5, <1>6, TrueStateSaved

LEMMA SaveFailedClaims ==
  ASSUME TypeOK, DeliveryInv, SaveFailed PROVE DeliveryInv'
<1>1. pd \in Pending /\ pd.key \in Keys
  BY HeadType DEF SaveFailed, TypeOK, RunTypes, PhaseFacts
<1> DEFINE state == BuildEntityState(pd, "failed", HadId(pd))
<1>2. state \in EntityState
  BY <1>1, BuiltStateType DEF HadId, Pending, EntityState
<1>3. state.status = "failed" /\ state.payload = pd.payload
  BY DEF BuildEntityState
<1>4. DlqOn => \E d \in dlq : d.key = pd.key /\ d.payload = pd.payload
  BY DEF SaveFailed, DeliveryInv
<1>5. SaveEntityState(pd.key, state) /\ pc' \notin {"saveOk", "saveErr"}
  BY DEF SaveFailed
<1>6. UNCHANGED <<landed, dlq, log, batch>>
  BY DEF SaveFailed, ghostVars
<1> HIDE DEF state
<1> QED BY <1>1, <1>2, <1>3, <1>4, <1>5, <1>6, TrueStateSaved

LEMMA CountMissingClaims ==
  ASSUME TypeOK, DeliveryInv, NEW k \in Keys, CountMissing(k) PROVE DeliveryInv'
<1> DEFINE state == [es[k] EXCEPT !.missing = Missed(k)]
<1>1. k \in Keys /\ es[k] \in EntityState /\ Missed(k) \in 0..Threshold
  BY SweptType DEF CountMissing
<1>2. /\ state \in EntityState
      /\ state.status = es[k].status /\ state.payload = es[k].payload
  BY <1>1 DEF EntityState
<1>3. /\ SaveEntityState(k, state) /\ pc' \notin {"saveOk", "saveErr"}
      /\ UNCHANGED <<landed, dlq, log, batch>>
  BY DEF CountMissing, ghostVars
<1>4. /\ state.status = "success" => <<k, state.payload>> \in landed
      /\ state.status = "failed" /\ DlqOn
           => \E d \in dlq : d.key = k /\ d.payload = state.payload
  BY <1>1, <1>2, NoneAssumption
  DEF DeliveryInv, SuccessWasDelivered, FailuresAreDeadLettered
<1> HIDE DEF state
<1> QED BY <1>1, <1>2, <1>3, <1>4, TrueStateSaved

LEMMA SaveMissingClaims ==
  ASSUME TypeOK, DeliveryInv, SaveMissing PROVE DeliveryInv'
<1> DEFINE state ==
      IF MissingAction = "delete"
        THEN [es[cur] EXCEPT !.decision = "delete", !.missing = 0]
        ELSE [es[cur] EXCEPT !.decision = "clear_fields", !.missing = Missed(cur)]
<1>1. cur \in Keys /\ es[cur] \in EntityState /\ Missed(cur) \in 0..Threshold
  BY SweptType DEF SaveMissing, TypeOK, PhaseFacts
<1>2. 0 \in 0..Threshold
  BY ConstantTypes
<1>3. /\ state \in EntityState
      /\ state.status = es[cur].status /\ state.payload = es[cur].payload
  BY <1>1, <1>2 DEF EntityState, DeliveryActions
<1>4. /\ SaveEntityState(cur, state) /\ pc' \notin {"saveOk", "saveErr"}
      /\ UNCHANGED <<landed, dlq, log, batch>>
  BY DEF SaveMissing, ghostVars
<1>5. /\ state.status = "success" => <<cur, state.payload>> \in landed
      /\ state.status = "failed" /\ DlqOn
           => \E d \in dlq : d.key = cur /\ d.payload = state.payload
  BY <1>1, <1>3, NoneAssumption
  DEF DeliveryInv, SuccessWasDelivered, FailuresAreDeadLettered
<1> HIDE DEF state
<1> QED BY <1>1, <1>3, <1>4, <1>5, TrueStateSaved

(* Operator steps; `state reset` only forgets claims.                      *)
LEMMA OperatorClaims ==
  ASSUME TypeOK, DeliveryInv, Operator PROVE DeliveryInv'
<1>1. ASSUME NEW dry \in DryModes, NEW approved \in Approvals \cup {None},
             BeginRun(dry, approved)
      PROVE  DeliveryInv'
  BY <1>1, NothingDelivered DEF BeginRun
<1>2. CASE ReleaseStaleLock
  BY <1>2, NothingDelivered DEF ReleaseStaleLock, runVars, ghostVars
<1>3. ASSUME NEW k \in Keys, ResetEntity(k) PROVE DeliveryInv'
  <2>1. /\ es'[k] = None /\ \A j \in Keys \ {k} : es'[j] = es[j]
        /\ pc' = "idle" /\ UNCHANGED <<log, batch, landed, dlq>>
    BY <1>3 DEF ResetEntity, runVars, ghostVars, TypeOK, StoreTypes
  <2> QED
    BY <2>1 DEF DeliveryInv, SuccessWasDelivered, LoggedWasDelivered,
       FailuresAreDeadLettered
<1> QED BY <1>1, <1>2, <1>3 DEF Operator

(* Engine steps that neither deliver nor save.                             *)
LEMMA QuietClaims ==
  ASSUME TypeOK, DeliveryInv,
         \/ RejectRow \/ DecideRow \/ DecideFails \/ EndExtract \/ GateBlock \/ GatePass
         \/ SkipOverLimit \/ MarkRuleFired \/ EndDelivery \/ EndSweep \/ Commit
         \/ FinishRun
  PROVE  DeliveryInv'
<1>1. UNCHANGED <<es, landed, dlq>> /\ log' \cup batch' \subseteq log \cup batch
  BY DEF RejectRow, DecideRow, DecideFails, EndExtract, GateBlock, GatePass, SkipOverLimit,
     MarkRuleFired, EndDelivery, EndSweep, Commit, FinishRun, ClearRun, storeVars, ghostVars
<1>2. pc' \notin {"saveOk", "saveErr"}
  BY DEF RejectRow, DecideRow, DecideFails, Receive, EndExtract, GateBlock, GatePass,
     SkipOverLimit, Delivering, MarkRuleFired, EndDelivery, EndSweep, Commit, FinishRun,
     ClearRun
<1> QED BY <1>1, <1>2, NothingDelivered

LEMMA EnvironmentClaims ==
  ASSUME TypeOK, DeliveryInv, Environment PROVE DeliveryInv'
<1>1. CASE Cancel
  BY <1>1, NothingDelivered DEF Cancel, storeVars, ghostVars
<1>2. CASE Crash
  BY <1>2, NothingDelivered DEF Crash, ClearRun, storeVars, ghostVars
<1>3. ASSUME NEW r \in Rows, NEW p \in Payloads \cup {None}, ChangeSource(r, p)
      PROVE  DeliveryInv'
  BY <1>3, NothingDelivered DEF ChangeSource, storeVars, runVars, ghostVars
<1> QED BY <1>1, <1>2, <1>3 DEF Environment

(* An empty store claims nothing.                                          *)
THEOREM DeliveryInit == Init => DeliveryInv
BY DEF Init, Idle, DeliveryInv, SuccessWasDelivered, LoggedWasDelivered,
   FailuresAreDeadLettered

(* Each step keeps the claims honest: Load, the state save after it and    *)
(* the sweep are the ones that can disturb them.                           *)
THEOREM DeliveryStep == TypeOK /\ DeliveryInv /\ [Next]_vars => DeliveryInv'
<1> SUFFICES ASSUME TypeOK, DeliveryInv, [Next]_vars PROVE DeliveryInv'
  OBVIOUS
<1>1. CASE Engine
  BY <1>1, QuietClaims, DeliverRowClaims, SaveDeliveredClaims, SaveFailedClaims,
     CountMissingClaims, SendMissingClaims, SaveMissingClaims
  DEF Engine
<1>2. CASE Operator
  BY <1>2, OperatorClaims
<1>3. CASE Environment
  BY <1>3, EnvironmentClaims
<1>4. CASE UNCHANGED vars
  BY <1>4, NothingDelivered DEF vars, storeVars, runVars, ghostVars
<1> QED BY <1>1, <1>2, <1>3, <1>4 DEF Next

(* The claims of the entity state, the delivery log and the dead-letter    *)
(* file hold across any number of runs, crashes and failures (run.go).     *)
THEOREM DeliveryClaims == Spec => []DeliveryInv
BY TypeCorrect, DeliveryInit, DeliveryStep, PTL DEF Spec

(* An entity state that says "success" carries a payload the destination   *)
(* applied: run.go saves it only after Load reported the row as loaded.    *)
THEOREM SuccessClaims == Spec => []SuccessWasDelivered
<1>1. DeliveryInv => SuccessWasDelivered
  BY DEF DeliveryInv
<1> QED BY <1>1, DeliveryClaims, PTL

(* A row skipped as already delivered was delivered with that content: the *)
(* key of deliveryOpKey is marked only after the request landed.           *)
THEOREM LogClaims == Spec => []LoggedWasDelivered
<1>1. DeliveryInv => LoggedWasDelivered
  BY DEF DeliveryInv
<1> QED BY <1>1, DeliveryClaims, PTL

(* With a dead-letter file, no failed entity is without a record there:    *)
(* run.go writes the record before it saves the state.                     *)
THEOREM FailureClaims == Spec => []FailuresAreDeadLettered
<1>1. DeliveryInv => FailuresAreDeadLettered
  BY DEF DeliveryInv
<1> QED BY <1>1, DeliveryClaims, PTL
==============================================================================
