----------------------------- MODULE LimitProofs -----------------------------
(***************************************************************************)
(* What the safety section bounds, what the entity state and the once-rules  *)
(* say of the destination, whom the sweep archives, and what the watermark    *)
(* passes: theorems about SyncRun for every source, rule list, limit, approval *)
(* and number of faults.                                                     *)
(***************************************************************************)
EXTENDS SyncRunProofs, FiniteSetTheorems, FunctionTheorems

------------------------------------------------------------------------------
\* Counting

LEMMA RecordValue ==
  ASSUME NEW n \in [Buckets -> Nat], NEW action, NEW b \in Buckets
  PROVE  Record(action, n)[b] = IF Bucket(action) = b THEN n[b] + 1 ELSE n[b]
<1>1. Bucket(action) \in Buckets
  BY DEF Bucket, Buckets
<1> QED BY <1>1 DEF Record

LEMMA BucketOfDelete ==
  ASSUME NEW action \in DeliveryActions
  PROVE  Bucket(action) \in Buckets /\ (Bucket(action) = "deletes" <=> action = "delete")
BY DEF Bucket, Buckets, DeliveryActions

(* A delete is planned only by a rule that deletes, or by default.          *)
LEMMA PlannedDelete ==
  ASSUME NEW k, NEW p, Plan(k, p).action = "delete"
  PROVE  RulesDelete
<1> DEFINE in == [first |-> es[k] = None, changed |-> es[k] = None \/ es[k].fp # Fp[p]]
           names == {name \in RuleNames : <<k, name>> \in fired}
<1>1. Plan(k, p) = Evaluate(in, names)
  BY DEF Plan
<1> HIDE DEF in, names
<1>2. \/ Evaluate(in, names) = [action |-> Default, rule |-> NoRule]
      \/ \E i \in Eligible(in, names) :
           Evaluate(in, names) = [action |-> Rules[i].action, rule |-> Rules[i].name]
  BY FirstMatchWins
<1>3. Eligible(in, names) \subseteq DOMAIN Rules
  BY EligibleRules
<1> QED BY <1>1, <1>2, <1>3 DEF RulesDelete

------------------------------------------------------------------------------
\* The caps of a run

(* What runOnce has counted for a kind of action, the row that landed and is *)
(* being saved included, and the deletes of the sweep.                      *)
HeadIn(b) == IF pc = "saveOk" /\ Bucket(pd.action) = b THEN 1 ELSE 0
Booked(b) == counts[b] + HeadIn(b) + (IF b = "deletes" THEN deleteCount ELSE 0)
NoDeletes(s) == ~RulesDelete => \A i \in DOMAIN s : s[i].action # "delete"

(* What landed in a run is booked, but for what was reported as failed; what *)
(* is booked stays within the cap, for the rows and for the sweep each.      *)
BookInv ==
  /\ pc # "idle" => \A b \in Buckets : runLanded[b] <= Booked(b) + Unanswered
  /\ \A b \in Buckets : Limits[b] > 0 => counts[b] + HeadIn(b) <= Limits[b]
  /\ Limits["deletes"] > 0 => deleteCount <= Limits["deletes"]
  /\ MissingAction # "delete" => deleteCount = 0
  /\ ~RulesDelete => counts["deletes"] = 0
  /\ NoDeletes(pend)
  /\ pc = "idle" => WithinLimits

LEMMA BookTypes ==
  ASSUME TypeOK
  PROVE  /\ counts \in [Buckets -> Nat] /\ runLanded \in [Buckets -> Nat]
         /\ Limits \in [Buckets -> Nat] /\ deleteCount \in Nat /\ faults \in Nat
         /\ Unanswered \in Nat /\ "deletes" \in Buckets
         /\ \A b \in Buckets : HeadIn(b) \in {0, 1} /\ Cap(b) \in Nat /\ Cap(b) >= Limits[b]
<1>1. Limits \in [Buckets -> Nat]
  BY LimitsAssumption
<1>2. faults \in Nat
  BY DEF TypeOK, GhostTypes
<1> QED BY <1>1, <1>2 DEF TypeOK, RunTypes, GhostTypes, Unanswered, HeadIn, Cap, Buckets

LEMMA BooksBound ==
  ASSUME TypeOK, BookInv
  PROVE  WithinLimits
<1>1. CASE pc = "idle"
  BY <1>1 DEF BookInv
<1>2. CASE pc # "idle"
  <2> SUFFICES ASSUME NEW b \in Buckets, Limits[b] > 0
               PROVE  runLanded[b] <= Cap(b) + Unanswered
    BY DEF WithinLimits
  <2>1. /\ runLanded[b] <= Booked(b) + Unanswered
        /\ counts[b] + HeadIn(b) <= Limits[b]
    BY <1>2 DEF BookInv
  <2>2. CASE b # "deletes"
    BY <2>1, <2>2, BookTypes DEF Booked, Cap
  <2>3. CASE b = "deletes"
    <3>1. deleteCount <= Limits[b] /\ (MissingAction # "delete" => deleteCount = 0)
      BY <2>3 DEF BookInv
    <3>2. ~RulesDelete => counts[b] + HeadIn(b) = 0
      <4> SUFFICES ASSUME ~RulesDelete PROVE counts[b] + HeadIn(b) = 0
        OBVIOUS
      <4>1. counts[b] = 0
        BY <2>3 DEF BookInv
      <4>2. HeadIn(b) = 0
        <5> SUFFICES ASSUME pc = "saveOk" PROVE Bucket(pd.action) # b
          BY DEF HeadIn
        <5>1. pend \in Seq(Pending) /\ pend # <<>>
          BY DEF TypeOK, RunTypes, PhaseFacts
        <5>2. pd.action \in DeliveryActions /\ 1 \in DOMAIN pend /\ pd = pend[1]
          BY <5>1, HeadType DEF pd
        <5>3. pd.action # "delete"
          BY <5>2 DEF BookInv, NoDeletes
        <5> QED BY <2>3, <5>2, <5>3, BucketOfDelete
      <4> QED BY <4>1, <4>2
    <3> QED BY <2>1, <2>3, <3>1, <3>2, BookTypes DEF Booked, Cap
  <2> QED BY <2>2, <2>3
<1> QED BY <1>1, <1>2

(* Steps that count nothing and land nothing.                               *)
LEMMA NothingBooked ==
  ASSUME TypeOK, BookInv, UNCHANGED <<counts, deleteCount, runLanded>>,
         faults' \in {faults, faults + 1}, NoDeletes(pend'),
         pc' = "idle" <=> pc = "idle",
         (pc # "saveOk" /\ pc' # "saveOk") \/ (pc' = pc /\ pend' = pend)
  PROVE  BookInv'
<1>1. \A b \in Buckets : HeadIn(b)' = HeadIn(b)
  BY DEF HeadIn, pd
<1>2. Unanswered' \in Nat /\ Unanswered <= Unanswered'
  BY BookTypes DEF Unanswered
<1>3. \A b \in Buckets : Booked(b)' = Booked(b) /\ Booked(b) \in Nat
  BY <1>1, BookTypes DEF Booked
<1>4. pc' # "idle" => \A b \in Buckets : runLanded'[b] <= Booked(b)' + Unanswered'
  BY <1>2, <1>3, BookTypes DEF BookInv
<1>5. pc' = "idle" => WithinLimits'
  BY <1>2, BookTypes DEF BookInv, WithinLimits, Cap
<1>6. NoDeletes(pend)'
  BY DEF NoDeletes
<1> QED BY <1>1, <1>4, <1>5, <1>6 DEF BookInv

LEMMA TailNoDeletes ==
  ASSUME NEW s \in Seq(Pending), s # <<>>, NoDeletes(s)
  PROVE  NoDeletes(Tail(s))
<1>1. /\ Len(s) \in Nat /\ DOMAIN s = 1..Len(s)
      /\ DOMAIN Tail(s) = 1..(Len(s) - 1)
      /\ \A i \in 1..(Len(s) - 1) : Tail(s)[i] = s[i + 1]
  BY LenProperties, HeadTailProperties
<1> QED BY <1>1 DEF NoDeletes

LEMMA AppendAt ==
  ASSUME NEW S, NEW s \in Seq(S), NEW x
  PROVE  /\ DOMAIN Append(s, x) = 1..(Len(s) + 1)
         /\ \A i \in 1..Len(s) : Append(s, x)[i] = s[i]
         /\ Append(s, x)[Len(s) + 1] = x
<1>1. s \in Seq(S \cup {x}) /\ x \in S \cup {x}
  BY SeqMonotonic
<1>2. /\ Append(s, x) \in Seq(S \cup {x}) /\ Len(Append(s, x)) = Len(s) + 1
      /\ \A i \in 1..Len(s) : Append(s, x)[i] = s[i]
      /\ Append(s, x)[Len(s) + 1] = x
  BY <1>1, AppendProperties
<1>3. DOMAIN Append(s, x) = 1..Len(Append(s, x))
  BY <1>2, LenProperties
<1> QED BY <1>2, <1>3

LEMMA FaultGrows ==
  ASSUME NoFault \/ \E f \in FaultKinds : Fault(f)
  PROVE  faults' \in {faults, faults + 1}
BY DEF NoFault, Fault

LEMMA SaveFault ==
  ASSUME NEW k, NEW state, SaveEntityState(k, state)
  PROVE  faults' \in {faults, faults + 1}
BY DEF SaveEntityState, NoFault, Fault

(* Engine steps of NothingBooked.                                           *)
LEMMA QuietBooks ==
  ASSUME TypeOK, BookInv,
         \/ RejectRow \/ DecideRow \/ DecideFails \/ EndExtract \/ GateBlock \/ GatePass
         \/ SkipOverLimit \/ MarkRuleFired \/ SaveFailed \/ EndDelivery
         \/ (\E k \in Keys : CountMissing(k)) \/ SaveMissing \/ EndSweep \/ Commit
  PROVE  BookInv'
<1>1. UNCHANGED <<counts, deleteCount, runLanded>> /\ pc' # "idle" /\ pc # "idle"
      /\ pc # "saveOk" /\ pc' # "saveOk"
  BY DEF RejectRow, DecideRow, DecideFails, Receive, EndExtract, GateBlock, GatePass, SkipOverLimit,
     Delivering, MarkRuleFired, SaveFailed, EndDelivery, CountMissing, SaveMissing, EndSweep,
     Commit, sweepVars, ghostVars
<1>2. faults' \in {faults, faults + 1}
  <2>1. CASE MarkRuleFired
    BY <2>1, FaultGrows DEF MarkRuleFired, FaultKinds
  <2>2. CASE SaveFailed \/ (\E k \in Keys : CountMissing(k)) \/ SaveMissing
    BY <2>2, SaveFault DEF SaveFailed, CountMissing, SaveMissing
  <2>3. CASE RejectRow \/ DecideRow \/ DecideFails \/ EndExtract \/ EndDelivery \/ Commit
    BY <2>3, FaultGrows DEF RejectRow, DecideRow, DecideFails, EndExtract, EndDelivery, Commit,
       FaultKinds
  <2>4. CASE GateBlock \/ GatePass \/ SkipOverLimit \/ EndSweep
    BY <2>4 DEF GateBlock, GatePass, SkipOverLimit, EndSweep
  <2> QED BY <2>1, <2>2, <2>3, <2>4
<1>3. NoDeletes(pend) /\ pend \in Seq(Pending) /\ NoDeletes(<<>>)
  BY DEF BookInv, NoDeletes, TypeOK, RunTypes
<1>4. NoDeletes(pend')
  <2>1. CASE MarkRuleFired \/ SaveFailed \/ SkipOverLimit
    <3>1. pend # <<>> /\ pend' = Tail(pend)
      BY <2>1 DEF MarkRuleFired, SaveFailed, SkipOverLimit, Delivering, TypeOK, PhaseFacts
    <3> QED BY <1>3, <3>1, TailNoDeletes
  <2>2. CASE DecideRow
    <3>1. PICK x \in todo :
            pend' = IF PendingItem(KeyOf[x.row], x.payload).action = "skip" THEN pend
                    ELSE Append(pend, PendingItem(KeyOf[x.row], x.payload))
      BY <2>2 DEF DecideRow
    <3> DEFINE item == PendingItem(KeyOf[x.row], x.payload)
    <3>2. item.action = "delete" => RulesDelete
      BY PlannedDelete DEF PendingItem
    <3>3. Len(pend) \in Nat /\ DOMAIN pend = 1..Len(pend)
      BY <1>3, LenProperties
    <3> HIDE DEF item
    <3>4. /\ DOMAIN Append(pend, item) = 1..(Len(pend) + 1)
          /\ \A i \in 1..Len(pend) : Append(pend, item)[i] = pend[i]
          /\ Append(pend, item)[Len(pend) + 1] = item
      BY <1>3, <3>3, AppendAt
    <3>5. NoDeletes(Append(pend, item))
      BY <1>3, <3>2, <3>3, <3>4 DEF NoDeletes
    <3> QED BY <1>3, <3>1, <3>5 DEF item
  <2>3. CASE EndDelivery
    BY <1>3, <2>3 DEF EndDelivery
  <2>4. CASE \/ RejectRow \/ DecideFails \/ EndExtract \/ GateBlock \/ GatePass
             \/ (\E k \in Keys : CountMissing(k)) \/ SaveMissing \/ EndSweep \/ Commit
    BY <1>3, <2>4 DEF RejectRow, DecideFails, EndExtract, GateBlock, GatePass, CountMissing,
       SaveMissing, EndSweep, Commit
  <2> QED BY <2>1, <2>2, <2>3, <2>4
<1> QED BY <1>1, <1>2, <1>4, NothingBooked

(* What landed is either loaded, and booked by the save that follows, or was  *)
(* reported as failed, which is one of the faults that make it so.           *)
LEMMA LandedOutcomes ==
  ASSUME NEW id, NEW o \in LoadOutcomes(id), o.landed
  PROVE  /\ o.kind # "skipped" /\ ~dryRun /\ ~cancelled
         /\ o.kind # "loaded" => /\ Faults \cap {"ambiguous", "cancel"} # {}
                                 /\ o.kind \in {"rowErr", "fatal"}
<1>1. CASE dryRun
  BY <1>1 DEF LoadOutcomes, Outcome
<1>2. CASE ~dryRun /\ cancelled
  BY <1>2 DEF LoadOutcomes, Outcome
<1>3. CASE ~dryRun /\ ~cancelled /\ id \in batch \cup log
  BY <1>3 DEF LoadOutcomes, Outcome
<1>4. CASE ~dryRun /\ ~cancelled /\ id \notin batch \cup log
  <2>1. \/ o = Outcome("loaded", TRUE, TRUE, FALSE)
        \/ o = Outcome("rowErr", FALSE, FALSE, FALSE)
        \/ "ambiguous" \in Faults /\ o = Outcome("rowErr", TRUE, FALSE, FALSE)
        \/ o = Outcome("fatal", FALSE, FALSE, FALSE)
        \/ /\ "cancel" \in Faults
           /\ \/ o = Outcome("rowErr", FALSE, FALSE, TRUE)
              \/ o = Outcome("rowErr", TRUE, FALSE, TRUE)
              \/ o = Outcome("fatal", FALSE, FALSE, TRUE)
              \/ o = Outcome("fatal", TRUE, FALSE, TRUE)
              \/ o = Outcome("fatal", TRUE, TRUE, TRUE)
    BY <1>4, Zenon DEF LoadOutcomes, MayFail
  <2> QED BY <1>4, <2>1 DEF Outcome
<1> QED BY <1>1, <1>2, <1>3, <1>4

(* The context ends in a Load only when that is one of the faults, and then   *)
(* the Load fails.                                                         *)
LEMMA CancelOutcomes ==
  ASSUME NEW id, NEW o \in LoadOutcomes(id), o.cancels
  PROVE  "cancel" \in Faults /\ o.kind \in {"rowErr", "fatal"}
<1>1. \/ \E kind, lands, marks : o = Outcome(kind, lands, marks, FALSE)
      \/ /\ "cancel" \in Faults
         /\ \E kind \in {"rowErr", "fatal"}, lands \in BOOLEAN, marks \in BOOLEAN :
              o = Outcome(kind, lands, marks, TRUE)
  BY Zenon DEF LoadOutcomes, MayFail
<1> QED BY <1>1 DEF Outcome

LEMMA DeliverRowBooks ==
  ASSUME TypeOK, BookInv, DeliverRow
  PROVE  BookInv'
<1>1. PICK o \in LoadOutcomes(opKey) :
        /\ Load(pd.key, opKey, pd.payload, pd.payload, {"rowErr", "fatal"}, o)
        /\ pc' = AfterLoad(o.kind)
        /\ pend' = IF AfterLoad(o.kind) = "deliver" THEN Tail(pend) ELSE pend
        /\ counts' = IF o.kind = "loaded" /\ dryRun THEN Record(pd.action, counts) ELSE counts
        /\ runLanded' = IF o.landed THEN Record(pd.action, runLanded) ELSE runLanded
  BY DEF DeliverRow
<1>2. /\ pend \in Seq(Pending) /\ pend # <<>> /\ pc = "deliver"
      /\ Allow(pd.action, counts) /\ deleteCount' = deleteCount
  BY DEF DeliverRow, Delivering, TypeOK, RunTypes, sweepVars
<1>3. pd.action \in DeliveryActions /\ 1 \in DOMAIN pend /\ pd = pend[1]
  BY <1>2, HeadType DEF pd
<1>4. faults' = IF o.kind \in {"rowErr", "fatal"} /\ ~cancelled THEN faults + 1 ELSE faults
  BY <1>1 DEF Load
<1>5. /\ Unanswered' \in Nat /\ Unanswered <= Unanswered'
      /\ o.landed /\ o.kind # "loaded" => Unanswered' = Unanswered + 1
  BY <1>4, LandedOutcomes, BookTypes DEF Unanswered
<1>6. \A b \in Buckets : Limits[b] > 0 /\ Bucket(pd.action) = b => counts[b] < Limits[b]
  BY <1>2 DEF Allow
<1>7. o.kind \in {"loaded", "skipped", "rowErr", "fatal"} /\ (o.kind = "loaded" /\ ~dryRun => o.landed)
  BY <1>1, OutcomeFacts
<1>8. pc' \in {"deliver", "saveOk", "saveErr"} /\ (pc' = "saveOk" <=> o.kind = "loaded" /\ ~dryRun)
  BY <1>1, <1>7 DEF AfterLoad
<1>9. \A b \in Buckets : HeadIn(b) = 0
  BY <1>2 DEF HeadIn
<1>10. \A b \in Buckets : HeadIn(b)' = IF pc' = "saveOk" /\ Bucket(pd.action) = b THEN 1 ELSE 0
  <2>1. CASE pc' # "saveOk"
    BY <2>1 DEF HeadIn
  <2>2. CASE pc' = "saveOk"
    <3>1. pend' = pend
      BY <1>1, <2>2
    <3> QED BY <2>2, <3>1 DEF HeadIn, pd
  <2> QED BY <2>1, <2>2
<1>11. \A b \in Buckets : counts'[b] = IF o.kind = "loaded" /\ dryRun /\ Bucket(pd.action) = b
                                         THEN counts[b] + 1 ELSE counts[b]
  <2> SUFFICES ASSUME NEW b \in Buckets
               PROVE  counts'[b] = IF o.kind = "loaded" /\ dryRun /\ Bucket(pd.action) = b
                                     THEN counts[b] + 1 ELSE counts[b]
    OBVIOUS
  <2>1. Record(pd.action, counts)[b] = IF Bucket(pd.action) = b THEN counts[b] + 1 ELSE counts[b]
    BY BookTypes, RecordValue
  <2>2. counts' = IF o.kind = "loaded" /\ dryRun THEN Record(pd.action, counts) ELSE counts
    BY <1>1
  <2> QED BY <2>1, <2>2
<1>12. \A b \in Buckets : runLanded'[b] = IF o.landed /\ Bucket(pd.action) = b
                                            THEN runLanded[b] + 1 ELSE runLanded[b]
  <2> SUFFICES ASSUME NEW b \in Buckets
               PROVE  runLanded'[b] = IF o.landed /\ Bucket(pd.action) = b
                                        THEN runLanded[b] + 1 ELSE runLanded[b]
    OBVIOUS
  <2>1. Record(pd.action, runLanded)[b] =
          IF Bucket(pd.action) = b THEN runLanded[b] + 1 ELSE runLanded[b]
    BY BookTypes, RecordValue
  <2>2. runLanded' = IF o.landed THEN Record(pd.action, runLanded) ELSE runLanded
    BY <1>1
  <2> QED BY <2>1, <2>2
<1>13. ASSUME NEW b \in Buckets PROVE runLanded'[b] <= Booked(b)' + Unanswered'
  <2>1. runLanded[b] <= Booked(b) + Unanswered
    BY <1>2 DEF BookInv
  <2>2. runLanded[b] \in Nat /\ counts[b] \in Nat
    BY BookTypes
  <2>3. (IF o.landed THEN 1 ELSE 0) <=
          (IF pc' = "saveOk" THEN 1 ELSE 0) + (Unanswered' - Unanswered)
    <3>1. CASE o.landed /\ o.kind = "loaded"
      BY <1>5, <1>8, <3>1, LandedOutcomes, BookTypes
    <3>2. CASE o.landed /\ o.kind # "loaded"
      BY <1>5, <3>2, BookTypes
    <3>3. CASE ~o.landed
      BY <1>5, <3>3, BookTypes
    <3> QED BY <3>1, <3>2, <3>3
  <2> DEFINE swept == IF b = "deletes" THEN deleteCount ELSE 0
  <2>4. /\ swept \in Nat /\ Booked(b) = counts[b] + swept
        /\ Booked(b)' = counts'[b] + HeadIn(b)' + swept
    BY <1>2, <1>9, <2>2, BookTypes DEF Booked
  <2>5. counts'[b] >= counts[b] /\ counts'[b] \in Nat /\ HeadIn(b)' \in {0, 1}
    BY <1>10, <1>11, <2>2
  <2> HIDE DEF swept
  <2>6. CASE Bucket(pd.action) = b
    <3>1. runLanded'[b] = runLanded[b] + (IF o.landed THEN 1 ELSE 0)
      BY <1>12, <2>2, <2>6
    <3>2. HeadIn(b)' = IF pc' = "saveOk" THEN 1 ELSE 0
      BY <1>10, <2>6
    <3> QED BY <1>5, <2>1, <2>2, <2>3, <2>4, <2>5, <3>1, <3>2, BookTypes
  <2>7. CASE Bucket(pd.action) # b
    BY <1>5, <1>12, <2>1, <2>2, <2>4, <2>5, <2>7, BookTypes
  <2> QED BY <2>6, <2>7
<1>14. \A b \in Buckets : Limits[b] > 0 => counts'[b] + HeadIn(b)' <= Limits[b]
  BY <1>6, <1>8, <1>9, <1>10, <1>11, BookTypes DEF BookInv
<1>15. ~RulesDelete => counts'["deletes"] = 0
  <2> SUFFICES ASSUME ~RulesDelete PROVE counts'["deletes"] = 0
    OBVIOUS
  <2>1. pd.action # "delete" /\ counts["deletes"] = 0
    BY <1>3 DEF BookInv, NoDeletes
  <2> QED BY <1>3, <1>11, <2>1, BucketOfDelete, BookTypes
<1>16. NoDeletes(pend')
  BY <1>1, <1>2, TailNoDeletes DEF BookInv
<1> QED BY <1>2, <1>8, <1>13, <1>14, <1>15, <1>16 DEF BookInv, NoDeletes

(* The save books the row that HeadIn held.                                 *)
LEMMA SaveDeliveredBooks ==
  ASSUME TypeOK, BookInv, SaveDelivered
  PROVE  BookInv'
<1>1. /\ pc = "saveOk" /\ pc' \in {"mark", "deliver"} /\ pend' \in {pend, Tail(pend)}
      /\ counts' = Record(pd.action, counts)
      /\ UNCHANGED <<deleteCount, runLanded>>
  BY DEF SaveDelivered, sweepVars, ghostVars
<1>2. pend \in Seq(Pending) /\ pend # <<>>
  BY <1>1 DEF TypeOK, RunTypes, PhaseFacts
<1>3. pd.action \in DeliveryActions /\ 1 \in DOMAIN pend /\ pd = pend[1]
  BY <1>2, HeadType DEF pd
<1>4. faults' \in {faults, faults + 1}
  BY SaveFault DEF SaveDelivered
<1>5. Unanswered' \in Nat /\ Unanswered <= Unanswered'
  BY <1>4, BookTypes DEF Unanswered
<1>6. \A b \in Buckets : counts'[b] + HeadIn(b)' = counts[b] + HeadIn(b)
  <2> SUFFICES ASSUME NEW b \in Buckets PROVE counts'[b] + HeadIn(b)' = counts[b] + HeadIn(b)
    OBVIOUS
  <2>1. HeadIn(b)' = 0 /\ HeadIn(b) = IF Bucket(pd.action) = b THEN 1 ELSE 0
    BY <1>1 DEF HeadIn
  <2> QED BY <1>1, <2>1, BookTypes, RecordValue
<1>7. \A b \in Buckets : runLanded'[b] <= Booked(b)' + Unanswered'
  <2> SUFFICES ASSUME NEW b \in Buckets PROVE runLanded'[b] <= Booked(b)' + Unanswered'
    OBVIOUS
  <2> DEFINE swept == IF b = "deletes" THEN deleteCount ELSE 0
  <2>a. swept \in Nat /\ counts[b] + HeadIn(b) \in Nat
    BY BookTypes
  <2>b. /\ Booked(b) = (counts[b] + HeadIn(b)) + swept
        /\ Booked(b)' = (counts'[b] + HeadIn(b)') + swept
    BY <1>1 DEF Booked
  <2> HIDE DEF swept
  <2>1. Booked(b)' = Booked(b) /\ Booked(b) \in Nat
    BY <1>6, <2>a, <2>b
  <2> QED BY <1>1, <1>5, <2>1, BookTypes DEF BookInv
<1>8. ~RulesDelete => counts'["deletes"] = 0
  <2> SUFFICES ASSUME ~RulesDelete PROVE counts'["deletes"] = 0
    OBVIOUS
  <2>1. pd.action # "delete" /\ counts["deletes"] = 0
    BY <1>3 DEF BookInv, NoDeletes
  <2>2. Bucket(pd.action) # "deletes"
    BY <1>3, <2>1, BucketOfDelete
  <2>3. counts \in [Buckets -> Nat] /\ "deletes" \in Buckets
    BY BookTypes
  <2>4. Record(pd.action, counts)["deletes"] = counts["deletes"]
    BY <2>2, <2>3, RecordValue
  <2> QED BY <1>1, <2>1, <2>4
<1>9. NoDeletes(pend')
  BY <1>1, <1>2, TailNoDeletes DEF BookInv
<1> QED BY <1>1, <1>6, <1>7, <1>8, <1>9 DEF BookInv, NoDeletes

(* The sweep books a delete, or the fault that hid that it landed.           *)
LEMMA SendMissingBooks ==
  ASSUME TypeOK, BookInv, NEW k \in Keys, SendMissing(k)
  PROVE  BookInv'
<1>1. PICK o \in LoadOutcomes(RawKey(k)) :
        /\ faults' = IF o.kind \in {"rowErr", "fatal"} /\ ~cancelled THEN faults + 1 ELSE faults
        /\ deleteCount' = IF MissingAction = "delete" /\ o.kind # "fatal"
                            THEN deleteCount + 1 ELSE deleteCount
        /\ runLanded' = IF MissingAction = "delete" /\ o.landed /\ es[k].hasId
                          THEN Record("delete", runLanded) ELSE runLanded
  BY DEF SendMissing, Load
<1>2. /\ pc = "sweep" /\ pc' = "sweepSave" /\ UNCHANGED <<counts, pend>>
      /\ MissingAction = "delete" /\ Limits["deletes"] > 0 => deleteCount < Limits["deletes"]
  BY BookTypes DEF SendMissing, Due, DeletesCapped
<1>3. /\ Unanswered' \in Nat /\ Unanswered <= Unanswered'
      /\ o.landed /\ o.kind # "loaded" => Unanswered' = Unanswered + 1
  BY <1>1, LandedOutcomes, BookTypes DEF Unanswered
<1>4. \A b \in Buckets : HeadIn(b)' = 0 /\ HeadIn(b) = 0
  BY <1>2 DEF HeadIn
<1>5. Bucket("delete") = "deletes"
  BY DEF Bucket
<1>6. deleteCount' \in Nat /\ deleteCount' >= deleteCount
  BY <1>1, BookTypes
<1>7. ASSUME NEW b \in Buckets PROVE runLanded'[b] <= Booked(b)' + Unanswered'
  <2>1. runLanded[b] <= Booked(b) + Unanswered
    BY <1>2 DEF BookInv
  <2>2. runLanded'[b] = IF b = "deletes" /\ MissingAction = "delete" /\ o.landed /\ es[k].hasId
                          THEN runLanded[b] + 1 ELSE runLanded[b]
    BY <1>1, <1>5, BookTypes, RecordValue
  <2>3. CASE b # "deletes"
    <3>1. Booked(b)' = counts[b] /\ Booked(b) = counts[b]
      BY <1>2, <1>4, <2>3, BookTypes DEF Booked
    <3> QED BY <1>3, <2>1, <2>2, <2>3, <3>1, BookTypes
  <2>4. CASE b = "deletes"
    <3>1. Booked(b)' = counts[b] + deleteCount' /\ Booked(b) = counts[b] + deleteCount
      BY <1>2, <1>4, <1>6, <2>4, BookTypes DEF Booked
    <3>2. MissingAction = "delete" /\ o.landed
            => 1 <= (deleteCount' - deleteCount) + (Unanswered' - Unanswered)
      <4> SUFFICES ASSUME MissingAction = "delete", o.landed
                   PROVE  1 <= (deleteCount' - deleteCount) + (Unanswered' - Unanswered)
        OBVIOUS
      <4>1. CASE o.kind = "loaded"
        BY <1>1, <1>3, <4>1, BookTypes
      <4>2. CASE o.kind # "loaded"
        BY <1>3, <1>6, <4>2, BookTypes
      <4> QED BY <4>1, <4>2
    <3> QED BY <1>3, <1>6, <2>1, <2>2, <3>1, <3>2, BookTypes
  <2> QED BY <2>3, <2>4
<1>8. /\ Limits["deletes"] > 0 => deleteCount' <= Limits["deletes"]
      /\ MissingAction # "delete" => deleteCount' = 0
  BY <1>1, <1>2, BookTypes DEF BookInv
<1> QED BY <1>2, <1>4, <1>7, <1>8 DEF BookInv, NoDeletes

(* A new run starts its books; a run that ends leaves what it landed.        *)
LEMMA StartAndEndBook ==
  ASSUME TypeOK, BookInv,
         \/ \E dry \in DryModes, approved \in Approvals \cup {None} : BeginRun(dry, approved)
         \/ FinishRun \/ Crash
  PROVE  BookInv'
<1>1. /\ counts' = ZeroCounts /\ pend' = <<>> /\ deleteCount' = 0
      /\ pc' # "saveOk"
      /\ \/ runLanded' = ZeroCounts /\ pc' = "extract"
         \/ UNCHANGED runLanded /\ pc' = "idle"
  BY DEF BeginRun, FinishRun, Crash, ClearRun, ghostVars
<1>2. faults' \in {faults, faults + 1}
  <2>1. CASE FinishRun
    BY <2>1 DEF FinishRun
  <2>2. CASE \E dry \in DryModes, approved \in Approvals \cup {None} : BeginRun(dry, approved)
    BY <2>2, FaultGrows DEF BeginRun, FaultKinds
  <2>3. CASE Crash
    BY <2>3, FaultGrows DEF Crash, FaultKinds
  <2> QED BY <2>1, <2>2, <2>3
<1>3. Unanswered' \in Nat /\ Unanswered <= Unanswered'
  BY <1>2, BookTypes DEF Unanswered
<1>4. \A b \in Buckets : counts'[b] = 0 /\ HeadIn(b)' = 0 /\ ZeroCounts[b] = 0
  BY <1>1 DEF HeadIn, ZeroCounts
<1>5. \A b \in Buckets : Booked(b)' = 0
  BY <1>1, <1>4 DEF Booked
<1>6. pc' = "idle" => WithinLimits'
  BY <1>1, <1>3, BooksBound, BookTypes DEF WithinLimits, Cap
<1>7. pc' # "idle" => \A b \in Buckets : runLanded'[b] <= Booked(b)' + Unanswered'
  BY <1>1, <1>3, <1>4, <1>5
<1>8. "deletes" \in Buckets /\ NoDeletes(pend')
  BY <1>1 DEF Buckets, NoDeletes
<1> QED BY <1>1, <1>4, <1>6, <1>7, <1>8, BookTypes DEF BookInv, NoDeletes

LEMMA BookStep == TypeOK /\ BookInv /\ [Next]_vars => BookInv'
<1> SUFFICES ASSUME TypeOK, BookInv, [Next]_vars PROVE BookInv'
  OBVIOUS
<1>1. ASSUME UNCHANGED <<counts, deleteCount, runLanded, pc, pend>>,
             faults' \in {faults, faults + 1}
      PROVE  BookInv'
  BY <1>1, NothingBooked DEF BookInv, NoDeletes
<1>2. CASE Cancel
  BY <1>1, <1>2, FaultGrows DEF Cancel, sweepVars, ghostVars, FaultKinds
<1>3. ASSUME NEW r \in Rows, NEW p \in Payloads \cup {None}, ChangeSource(r, p) PROVE BookInv'
  BY <1>1, <1>3 DEF ChangeSource, runVars, sweepVars, ghostVars
<1>4. CASE ReleaseStaleLock
  BY <1>1, <1>4 DEF ReleaseStaleLock, runVars, sweepVars, ghostVars
<1>5. ASSUME NEW k \in Keys, ResetEntity(k) PROVE BookInv'
  BY <1>1, <1>5, FaultGrows DEF ResetEntity, runVars, sweepVars, ghostVars, FaultKinds
<1>6. CASE UNCHANGED vars
  BY <1>1, <1>6 DEF vars, runVars, sweepVars, ghostVars
<1>7. CASE Engine
  BY <1>7, QuietBooks, DeliverRowBooks, SaveDeliveredBooks, SendMissingBooks, StartAndEndBook DEF Engine
<1> QED
  BY <1>2, <1>3, <1>4, <1>5, <1>6, <1>7, StartAndEndBook DEF Next, Operator, Environment

(* No run changes more records than the safety section allows: once more    *)
(* for deletes when both the rules and the sweep delete, and but for the     *)
(* requests that landed although they were reported as failed.              *)
THEOREM RunsStayWithinLimits == Spec => []WithinLimits
<1>1. Init => BookInv
  <2> SUFFICES ASSUME Init PROVE BookInv
    OBVIOUS
  <2>1. /\ pc = "idle" /\ counts = ZeroCounts /\ deleteCount = 0 /\ pend = <<>>
        /\ runLanded = ZeroCounts
    BY DEF Init, Idle
  <2>2. TypeOK
    BY TypeInit
  <2>3. \A b \in Buckets : counts[b] = 0 /\ HeadIn(b) = 0 /\ runLanded[b] = 0
    BY <2>1 DEF HeadIn, ZeroCounts
  <2>4. WithinLimits
    BY <2>2, <2>3, BookTypes DEF WithinLimits
  <2> QED BY <2>1, <2>2, <2>3, <2>4, BookTypes DEF BookInv, NoDeletes
<1>2. TypeOK /\ BookInv => WithinLimits
  BY BooksBound
<1> QED BY <1>1, <1>2, BookStep, TypeCorrect, PTL DEF Spec

------------------------------------------------------------------------------
\* What the operator approved

(* The rows of a list that are of a kind, and those of the run that can still *)
(* land: the head no more once its Load is done.                            *)
Of(s, b) == {i \in DOMAIN s : Bucket(s[i].action) = b}
Left(b) == Cardinality(IF pc = "deliver" THEN Of(pend, b) ELSE Of(pend, b) \ {1})

(* Nothing landed before the gate; behind it what landed of a kind that needs *)
(* approval, and what still can, is what the operator approved or nothing.   *)
Fits(b) == \/ runLanded[b] + Left(b) = 0
           \/ approval # None /\ runLanded[b] + Left(b) <= approval[b]
ApproveInv ==
  /\ pc \in {"extract", "gate"} => \A b \in Buckets : runLanded[b] = 0
  /\ pc \in {"deliver", "saveOk", "mark", "saveErr"} => \A b \in ApproveFor : Fits(b)
  /\ ApprovedOnly

LEMMA OfFinite ==
  ASSUME NEW s \in Seq(Pending), NEW b
  PROVE  /\ IsFiniteSet(Of(s, b)) /\ Cardinality(Of(s, b)) \in Nat
         /\ IsFiniteSet(Of(s, b) \ {1}) /\ Cardinality(Of(s, b) \ {1}) \in Nat
         /\ Cardinality(Of(s, b) \ {1}) =
              IF 1 \in Of(s, b) THEN Cardinality(Of(s, b)) - 1 ELSE Cardinality(Of(s, b))
         /\ Cardinality(Of(s, b) \ {1}) <= Cardinality(Of(s, b))
<1>1. Len(s) \in Nat /\ DOMAIN s = 1..Len(s)
  BY LenProperties
<1>2. IsFiniteSet(1..Len(s)) /\ Of(s, b) \subseteq 1..Len(s)
  BY <1>1, FS_Interval DEF Of
<1>3. IsFiniteSet(Of(s, b))
  BY <1>2, FS_Subset
<1>4. /\ IsFiniteSet(Of(s, b) \ {1})
      /\ Cardinality(Of(s, b) \ {1}) =
           IF 1 \in Of(s, b) THEN Cardinality(Of(s, b)) - 1 ELSE Cardinality(Of(s, b))
  BY <1>3, FS_RemoveElement
<1>5. Cardinality(Of(s, b)) \in Nat /\ Cardinality(Of(s, b) \ {1}) \in Nat
  BY <1>3, <1>4, FS_CardinalityType
<1>6. Cardinality(Of(s, b) \ {1}) <= Cardinality(Of(s, b))
  BY <1>4, <1>5
<1> QED BY <1>3, <1>4, <1>5, <1>6

(* A list without its head has the rows that were not at its head.           *)
LEMMA OfTail ==
  ASSUME NEW s \in Seq(Pending), s # <<>>, NEW b
  PROVE  Cardinality(Of(Tail(s), b)) = Cardinality(Of(s, b) \ {1})
<1>1. /\ Len(s) \in Nat /\ DOMAIN s = 1..Len(s)
      /\ DOMAIN Tail(s) = 1..(Len(s) - 1)
      /\ \A i \in 1..(Len(s) - 1) : Tail(s)[i] = s[i + 1]
  BY LenProperties, HeadTailProperties
<1> DEFINE S == Of(Tail(s), b)
           T == Of(s, b) \ {1}
           f == [i \in S |-> i + 1]
<1>2. S \subseteq Nat /\ T \subseteq Nat
  BY <1>1 DEF Of
<1>3. f \in [S -> T]
  BY <1>1 DEF Of
<1>4. \A i, j \in S : f[i] = f[j] => i = j
  BY <1>2
<1>5. \A t \in T : \E i \in S : f[i] = t
  <2> SUFFICES ASSUME NEW t \in T PROVE t - 1 \in S /\ f[t - 1] = t
    OBVIOUS
  <2> QED BY <1>1 DEF Of
<1>6. f \in Bijection(S, T)
  <2> HIDE DEF f, S, T
  <2> QED BY <1>3, <1>4, <1>5, Fun_IsBij
<1>7. ExistsBijection(S, T)
  <2> HIDE DEF f, S, T
  <2> QED BY <1>6, Fun_ExistsBij
<1>8. Tail(s) \in Seq(Pending)
  BY HeadTailProperties
<1>9. IsFiniteSet(S)
  BY <1>8, OfFinite
<1> QED BY <1>7, <1>9, FS_Bijection

(* The head's Load is done, whether its save is still to come or not.        *)
LEMMA HeadGone ==
  ASSUME pend \in Seq(Pending), pend # <<>>, NEW b,
         \/ pc' = "deliver" /\ pend' = Tail(pend)
         \/ pc' \in {"saveOk", "mark", "saveErr"} /\ pend' = pend
  PROVE  Left(b)' = Cardinality(Of(pend, b) \ {1})
<1>1. CASE pc' = "deliver" /\ pend' = Tail(pend)
  BY <1>1, OfTail DEF Left
<1>2. CASE pc' \in {"saveOk", "mark", "saveErr"} /\ pend' = pend
  BY <1>2 DEF Left
<1> QED BY <1>1, <1>2

LEMMA ApproveTypes ==
  ASSUME TypeOK
  PROVE  /\ ApproveFor \subseteq Buckets /\ runLanded \in [Buckets -> Nat]
         /\ approval # None => approval \in [Buckets -> Nat]
         /\ pend \in Seq(Pending)
         /\ \A b : Left(b) \in Nat
<1>1. ApproveFor \subseteq Buckets /\ Approvals \subseteq [Buckets -> Nat]
  BY LimitsAssumption, SyncAssumption
<1>2. pend \in Seq(Pending) /\ approval \in Approvals \cup {None} /\ runLanded \in [Buckets -> Nat]
  BY DEF TypeOK, RunTypes, GhostTypes
<1> QED BY <1>1, <1>2, OfFinite DEF Left

(* What fits is within what was approved.                                   *)
LEMMA FitsApproved ==
  ASSUME TypeOK, \A b \in ApproveFor : Fits(b)
  PROVE  ApprovedOnly
BY ApproveTypes DEF Fits, ApprovedOnly

(* Steps at which nothing lands, and where they lead.                       *)
LEMMA NothingLands ==
  ASSUME TypeOK, ApproveInv, UNCHANGED <<runLanded, approval>>,
         pc' \in {"extract", "gate"} => pc \in {"extract", "gate"},
         pc' \in {"deliver", "saveOk", "mark", "saveErr"}
           => /\ pc \in {"deliver", "saveOk", "mark", "saveErr"}
              /\ \A b \in ApproveFor : Left(b)' \in Nat /\ Left(b)' <= Left(b),
         pc' # "idle" => pc # "idle"
  PROVE  ApproveInv'
<1>1. ApprovedOnly'
  BY DEF ApproveInv, ApprovedOnly
<1>2. pc' \in {"deliver", "saveOk", "mark", "saveErr"} => \A b \in ApproveFor : Fits(b)'
  <2> SUFFICES ASSUME pc' \in {"deliver", "saveOk", "mark", "saveErr"}, NEW b \in ApproveFor
               PROVE  Fits(b)'
    OBVIOUS
  <2>1. Fits(b) /\ Left(b)' \in Nat /\ Left(b)' <= Left(b)
    BY DEF ApproveInv
  <2>2. runLanded[b] \in Nat /\ Left(b) \in Nat /\ (approval # None => approval[b] \in Nat)
    BY ApproveTypes
  <2> QED BY <2>1, <2>2 DEF Fits
<1> QED BY <1>1, <1>2 DEF ApproveInv

LEMMA QuietApproval ==
  ASSUME TypeOK, ApproveInv,
         \/ RejectRow \/ DecideRow \/ DecideFails \/ EndExtract \/ GateBlock
         \/ EndDelivery \/ (\E k \in Keys : CountMissing(k)) \/ SaveMissing \/ EndSweep \/ Commit
         \/ FinishRun \/ Crash
  PROVE  ApproveInv'
<1>1. CASE FinishRun \/ Crash
  <2>1. pc' = "idle"
    BY <1>1 DEF FinishRun, Crash, ClearRun
  <2> QED BY <2>1 DEF ApproveInv, ApprovedOnly
<1>2. CASE ~(FinishRun \/ Crash)
  <2>1. UNCHANGED <<runLanded, approval>> /\ pc # "idle"
        /\ pc' \notin {"deliver", "saveOk", "mark", "saveErr"}
        /\ (pc' \in {"extract", "gate"} => pc \in {"extract", "gate"})
    BY <1>2 DEF RejectRow, DecideRow, DecideFails, Receive, EndExtract, GateBlock, EndDelivery,
       CountMissing, SaveMissing, EndSweep, Commit, ghostVars
  <2> QED BY <2>1, NothingLands
<1> QED BY <1>1, <1>2

(* Steps that are done with the head of the list.                           *)
LEMMA HeadApproval ==
  ASSUME TypeOK, ApproveInv, SkipOverLimit \/ SaveDelivered \/ MarkRuleFired \/ SaveFailed
  PROVE  ApproveInv'
<1>1. /\ UNCHANGED <<runLanded, approval>> /\ pend # <<>> /\ pend \in Seq(Pending)
      /\ pc \in {"deliver", "saveOk", "mark", "saveErr"}
      /\ \/ pc' = "deliver" /\ pend' = Tail(pend)
         \/ pc' = "mark" /\ pend' = pend
  BY DEF SkipOverLimit, Delivering, SaveDelivered, MarkRuleFired, SaveFailed, ghostVars, TypeOK,
     RunTypes, PhaseFacts
<1>2. \A b \in ApproveFor : Left(b)' \in Nat /\ Left(b)' <= Left(b)
  <2> SUFFICES ASSUME NEW b \in ApproveFor PROVE Left(b)' \in Nat /\ Left(b)' <= Left(b)
    OBVIOUS
  <2>1. Left(b)' = Cardinality(Of(pend, b) \ {1})
    BY <1>1, HeadGone
  <2>2. Left(b) = Cardinality(Of(pend, b)) \/ Left(b) = Cardinality(Of(pend, b) \ {1})
    BY DEF Left
  <2>3. /\ Cardinality(Of(pend, b)) \in Nat
        /\ Cardinality(Of(pend, b) \ {1}) \in Nat
        /\ Cardinality(Of(pend, b) \ {1}) <= Cardinality(Of(pend, b))
    BY <1>1, OfFinite
  <2> QED BY <2>1, <2>2, <2>3
<1> QED BY <1>1, <1>2, NothingLands

(* The gate lets a kind of action through that nobody is to do, or whose      *)
(* count is the approved one.                                              *)
LEMMA GateApproval ==
  ASSUME TypeOK, ApproveInv, GatePass
  PROVE  ApproveInv'
<1>1. /\ pc = "gate" /\ pc' = "deliver" /\ UNCHANGED <<runLanded, approval, pend>>
      /\ ~ApprovalRequired(PendingCounts) \/ approval = PendingCounts
  BY DEF GatePass, GateBlocks, ghostVars
<1>2. \A b \in Buckets : runLanded[b] = 0 /\ PendingCounts[b] = Left(b)' /\ PendingCounts[b] \in Nat
  BY <1>1, ApproveTypes, OfFinite DEF ApproveInv, PendingCounts, Left, Of
<1>3. approval = PendingCounts => approval # None
  <2>1. PendingCounts \in [Buckets -> Nat]
    BY <1>2 DEF PendingCounts
  <2> QED BY <2>1, NoneAssumption
<1>4. \A b \in ApproveFor : Fits(b)'
  BY <1>1, <1>2, <1>3, ApproveTypes DEF Fits, ApprovalRequired
<1>5. ApprovedOnly'
  BY <1>1, <1>2, ApproveTypes DEF ApprovedOnly
<1> QED BY <1>1, <1>4, <1>5 DEF ApproveInv

LEMMA DeliverRowApproval ==
  ASSUME TypeOK, ApproveInv, DeliverRow
  PROVE  ApproveInv'
<1>1. PICK o \in LoadOutcomes(opKey) :
        /\ pc' = AfterLoad(o.kind)
        /\ pend' = IF AfterLoad(o.kind) = "deliver" THEN Tail(pend) ELSE pend
        /\ runLanded' = IF o.landed THEN Record(pd.action, runLanded) ELSE runLanded
  BY DEF DeliverRow
<1>2. /\ pend # <<>> /\ pend \in Seq(Pending) /\ pc = "deliver" /\ approval' = approval
  BY DEF DeliverRow, Delivering, TypeOK, RunTypes
<1>3. pc' \in {"deliver", "saveOk", "saveErr"}
  BY <1>1 DEF AfterLoad
<1>4. \A b : Left(b)' = Cardinality(Of(pend, b) \ {1})
  BY <1>1, <1>2, <1>3, HeadGone
<1>5. 1 \in DOMAIN pend /\ pd = pend[1]
  BY <1>2, HeadType DEF pd
<1>6. ASSUME NEW b \in ApproveFor PROVE Fits(b)' /\ Left(b)' \in Nat
  <2>1. Fits(b) /\ b \in Buckets /\ (approval # None => approval[b] \in Nat)
        /\ runLanded[b] \in Nat
    BY <1>2, ApproveTypes DEF ApproveInv
  <2>2. runLanded'[b] \in {runLanded[b]} \cup
          (IF Bucket(pd.action) = b THEN {runLanded[b] + 1} ELSE {})
    BY <1>1, <2>1, ApproveTypes, RecordValue
  <2>3. /\ Left(b) = Cardinality(Of(pend, b)) /\ Left(b) \in Nat /\ Left(b)' \in Nat
        /\ Left(b)' = IF Bucket(pd.action) = b THEN Left(b) - 1 ELSE Left(b)
    BY <1>2, <1>4, <1>5, OfFinite DEF Left, Of
  <2>4. runLanded'[b] + Left(b)' <= runLanded[b] + Left(b) /\ runLanded'[b] \in Nat
    BY <2>1, <2>2, <2>3
  <2> QED BY <1>2, <2>1, <2>3, <2>4 DEF Fits
<1>7. TypeOK'
  BY DeliverRowType
<1>8. ApprovedOnly'
  <2>1. runLanded' \in [Buckets -> Nat] /\ ApproveFor \subseteq Buckets
        /\ (approval' # None => approval' \in [Buckets -> Nat])
    BY <1>2, <1>7, ApproveTypes DEF TypeOK, GhostTypes
  <2> QED BY <1>6, <2>1 DEF ApprovedOnly, Fits
<1> QED BY <1>3, <1>6, <1>8 DEF ApproveInv

LEMMA SendMissingApproval ==
  ASSUME TypeOK, ApproveInv, NEW k \in Keys, SendMissing(k)
  PROVE  ApproveInv'
<1>1. /\ pc = "sweep" /\ pc' = "sweepSave" /\ approval' = approval
      /\ runLanded' = Record("delete", runLanded) \/ runLanded' = runLanded
  BY DEF SendMissing
<1>2. \A b \in Buckets \ {"deletes"} : runLanded'[b] = runLanded[b]
  BY <1>1, ApproveTypes, RecordValue DEF Bucket
<1>3. ApprovedOnly'
  BY <1>1, <1>2, ApproveTypes DEF ApproveInv, ApprovedOnly
<1> QED BY <1>1, <1>3 DEF ApproveInv

LEMMA ApproveStep == TypeOK /\ ApproveInv /\ [Next]_vars => ApproveInv'
<1> SUFFICES ASSUME TypeOK, ApproveInv, [Next]_vars PROVE ApproveInv'
  OBVIOUS
<1>1. ASSUME UNCHANGED <<pc, pend, runLanded, approval>> PROVE ApproveInv'
  <2>1. \A b : Fits(b)' = Fits(b)
    BY <1>1 DEF Fits, Left
  <2> QED BY <1>1, <2>1 DEF ApproveInv, ApprovedOnly
<1>2. CASE Cancel
  BY <1>1, <1>2 DEF Cancel, ghostVars
<1>3. ASSUME NEW r \in Rows, NEW p \in Payloads \cup {None}, ChangeSource(r, p) PROVE ApproveInv'
  BY <1>1, <1>3 DEF ChangeSource, runVars, ghostVars
<1>4. CASE ReleaseStaleLock \/ (\E k \in Keys : ResetEntity(k)) \/ UNCHANGED vars
  BY <1>1, <1>4 DEF ReleaseStaleLock, ResetEntity, vars, runVars, ghostVars
<1>5. ASSUME NEW dry \in DryModes, NEW approved \in Approvals \cup {None}, BeginRun(dry, approved)
      PROVE  ApproveInv'
  <2>1. pc' = "extract" /\ runLanded' = ZeroCounts
    BY <1>5 DEF BeginRun
  <2> QED BY <2>1, ApproveTypes DEF ApproveInv, ApprovedOnly, ZeroCounts
<1>6. CASE Engine
  BY <1>6, QuietApproval, HeadApproval, GateApproval, DeliverRowApproval, SendMissingApproval DEF Engine
<1> QED
  BY <1>2, <1>3, <1>4, <1>5, <1>6, QuietApproval DEF Next, Operator, Environment

(* What needs approval lands only in a run that was approved, and no more of *)
(* it than the operator approved.                                          *)
THEOREM OnlyApprovedLands == Spec => []ApprovedOnly
<1>1. Init => ApproveInv
  BY DEF Init, Idle, ApproveInv, ApprovedOnly
<1>2. ApproveInv => ApprovedOnly
  BY DEF ApproveInv
<1> QED BY <1>1, <1>2, ApproveStep, TypeCorrect, PTL DEF Spec

------------------------------------------------------------------------------
\* The entity state and the destination

(* As long as nothing failed, an entity whose last decision delivers a row   *)
(* is at the destination what its state says, but for the row or the missing *)
(* entity that runOnce is just about to save.                               *)
Delivered(k) == es[k] # None /\ es[k].decision \in {"create", "upsert", "update"}
BeingSaved(k) == (pc = "saveOk" /\ k = pd.key) \/ (pc = "sweepSave" /\ k = cur)
MatchInv ==
  faults = 0 =>
    /\ ~cancelled /\ pc # "saveErr"
    /\ pc = "saveOk" => dest[pd.key] = pd.payload
    /\ \A k \in Keys : Delivered(k) /\ ~BeingSaved(k) => dest[k] = es[k].payload

(* Nothing that failed is forgotten.                                        *)
LEMMA CleanBefore ==
  ASSUME TypeOK, faults' = 0, faults' \in {faults, faults + 1}
  PROVE  faults = 0
BY DEF TypeOK, GhostTypes

LEMMA CleanSave ==
  ASSUME TypeOK, faults' = 0, ~cancelled, NEW k \in Keys, NEW state, SaveEntityState(k, state)
  PROVE  faults = 0 /\ es'[k] = state /\ \A j \in Keys \ {k} : es'[j] = es[j]
<1>1. faults = 0 /\ es \in [Keys -> EntityState \cup {None}]
  BY SaveFault, CleanBefore DEF TypeOK, StoreTypes
<1> QED BY <1>1 DEF SaveEntityState, NoFault, Fault

LEMMA QuietMatches ==
  ASSUME TypeOK, MatchInv, UNCHANGED <<dest, es>>, faults' \in {faults, faults + 1},
         \/ UNCHANGED <<pc, pend, cur, cancelled>>
         \/ /\ pc \notin {"saveOk", "sweepSave"} /\ pc' \notin {"saveOk", "sweepSave", "saveErr"}
            /\ cancelled' = cancelled \/ cancelled' = FALSE
  PROVE  MatchInv'
<1> SUFFICES ASSUME faults' = 0 PROVE MatchInv'
  BY DEF MatchInv
<1>1. faults = 0
  BY CleanBefore
<1>2. \A k \in Keys : (Delivered(k)' <=> Delivered(k)) /\ (BeingSaved(k)' <=> BeingSaved(k))
  BY DEF Delivered, BeingSaved, pd
<1> QED BY <1>1, <1>2 DEF MatchInv, pd

LEMMA DeliverRowMatches ==
  ASSUME TypeOK, MatchInv, DeliverRow
  PROVE  MatchInv'
<1> SUFFICES ASSUME faults' = 0 PROVE MatchInv'
  BY DEF MatchInv
<1>1. PICK o \in LoadOutcomes(opKey) :
        /\ dest' = IF o.landed THEN [dest EXCEPT ![pd.key] = pd.payload] ELSE dest
        /\ cancelled' = (cancelled \/ o.cancels)
        /\ faults' = IF o.kind \in {"rowErr", "fatal"} /\ ~cancelled THEN faults + 1 ELSE faults
        /\ pc' = AfterLoad(o.kind)
        /\ pend' = IF AfterLoad(o.kind) = "deliver" THEN Tail(pend) ELSE pend
  BY DEF DeliverRow, Load
<1>2. pc = "deliver" /\ es' = es /\ pd.key \in Keys /\ dest \in [Keys -> Payloads \cup {None, Blank}]
  BY HeadType DEF DeliverRow, Delivering, TypeOK, RunTypes
<1>3. faults = 0 /\ ~cancelled
  BY <1>1, CleanBefore DEF MatchInv
<1>4. o.kind \in {"loaded", "skipped"} /\ (o.kind = "loaded" /\ ~dryRun => o.landed)
  BY <1>1, <1>3, OutcomeFacts
<1>5. o.landed => o.kind = "loaded" /\ ~dryRun
  BY <1>4, LandedOutcomes
<1>6. ~o.cancels
  BY <1>3, <1>4, CancelOutcomes
<1>7. \A k \in Keys : ~BeingSaved(k) /\ (Delivered(k)' <=> Delivered(k))
  BY <1>2 DEF BeingSaved, Delivered
<1>8. CASE o.landed
  <2>1. pc' = "saveOk" /\ pend' = pend /\ pd' = pd
    BY <1>1, <1>5, <1>8 DEF AfterLoad, pd
  <2> QED BY <1>1, <1>2, <1>3, <1>6, <1>7, <1>8, <2>1 DEF MatchInv, BeingSaved
<1>9. CASE ~o.landed
  <2>1. pc' = "deliver"
    BY <1>1, <1>4, <1>9 DEF AfterLoad
  <2> QED BY <1>1, <1>2, <1>3, <1>6, <1>7, <1>9, <2>1 DEF MatchInv
<1> QED BY <1>8, <1>9

LEMMA SavesMatch ==
  ASSUME TypeOK, MatchInv, SaveDelivered \/ SaveFailed \/ SaveMissing \/ \E k \in Keys : CountMissing(k)
  PROVE  MatchInv'
<1> SUFFICES ASSUME faults' = 0 PROVE MatchInv'
  BY DEF MatchInv
<1>1. UNCHANGED <<dest, cancelled>> /\ faults' \in {faults, faults + 1}
  BY SaveFault DEF SaveDelivered, SaveFailed, SaveMissing, CountMissing, outcomeVars
<1>2. faults = 0 /\ ~cancelled /\ pc # "saveErr"
  BY <1>1, CleanBefore DEF MatchInv
<1>3. CASE SaveDelivered
  <2>1. /\ pc = "saveOk" /\ pc' \in {"mark", "deliver"} /\ pd.key \in Keys
        /\ SaveEntityState(pd.key, BuildEntityState(pd, "success", TRUE))
    BY <1>3, HeadType DEF SaveDelivered, TypeOK, RunTypes, PhaseFacts
  <2>2. es'[pd.key].payload = pd.payload /\ \A j \in Keys \ {pd.key} : es'[j] = es[j]
    BY <1>2, <2>1, CleanSave DEF BuildEntityState
  <2> QED BY <1>1, <1>2, <2>1, <2>2 DEF MatchInv, Delivered, BeingSaved
<1>4. CASE SaveFailed
  BY <1>2, <1>4 DEF SaveFailed
<1>5. CASE SaveMissing
  <2>1. pc = "sweepSave" /\ pc' = "sweep" /\ cur \in Keys /\ es[cur] \in EntityState
    BY <1>5, SweptType DEF SaveMissing, TypeOK, PhaseFacts
  <2>2. es'[cur].decision \in {"delete", "clear_fields"} /\ \A j \in Keys \ {cur} : es'[j] = es[j]
    <3> DEFINE gone == [es[cur] EXCEPT !.decision = "delete", !.missing = 0]
               cleared == [es[cur] EXCEPT !.decision = "clear_fields", !.missing = Missed(cur)]
    <3>1. gone.decision = "delete" /\ cleared.decision = "clear_fields"
      BY <2>1 DEF EntityState
    <3>2. SaveEntityState(cur, IF MissingAction = "delete" THEN gone ELSE cleared)
      BY <1>5 DEF SaveMissing
    <3> HIDE DEF gone, cleared
    <3> QED BY <1>2, <2>1, <3>1, <3>2, CleanSave
  <2> QED BY <1>1, <1>2, <2>1, <2>2 DEF MatchInv, Delivered, BeingSaved
<1>6. ASSUME NEW k \in Keys, CountMissing(k) PROVE MatchInv'
  <2>1. pc = "sweep" /\ pc' = "sweep" /\ es[k] \in EntityState
    BY <1>6, SweptType DEF CountMissing
  <2> DEFINE state == [es[k] EXCEPT !.missing = Missed(k)]
  <2>2. state.payload = es[k].payload /\ state.decision = es[k].decision
    BY <2>1 DEF EntityState
  <2>3. es'[k] = state /\ \A j \in Keys \ {k} : es'[j] = es[j]
    BY <1>2, <1>6, CleanSave DEF CountMissing
  <2> HIDE DEF state
  <2>4. \A j \in Keys : Delivered(j)' => Delivered(j) /\ es'[j].payload = es[j].payload
    BY <2>1, <2>2, <2>3, NoneAssumption DEF Delivered
  <2> QED BY <1>1, <1>2, <2>1, <2>4 DEF MatchInv, BeingSaved
<1> QED BY <1>3, <1>4, <1>5, <1>6

LEMMA SendMissingMatches ==
  ASSUME TypeOK, MatchInv, NEW k \in Keys, SendMissing(k)
  PROVE  MatchInv'
<1> SUFFICES ASSUME faults' = 0 PROVE MatchInv'
  BY DEF MatchInv
<1> DEFINE value == CASE MissingAction = "clear_fields" -> Blank
                      [] es[k].hasId -> None
                      [] OTHER -> dest[k]
<1>1. PICK o \in LoadOutcomes(RawKey(k)) :
        /\ dest' = IF o.landed THEN [dest EXCEPT ![k] = value] ELSE dest
        /\ cancelled' = (cancelled \/ o.cancels)
        /\ faults' = IF o.kind \in {"rowErr", "fatal"} /\ ~cancelled THEN faults + 1 ELSE faults
  BY DEF SendMissing, Load
<1> HIDE DEF value
<1>2. pc = "sweep" /\ pc' = "sweepSave" /\ cur' = k /\ es' = es
      /\ dest \in [Keys -> Payloads \cup {None, Blank}]
  BY DEF SendMissing, TypeOK
<1>3. faults = 0 /\ ~cancelled
  BY <1>1, CleanBefore DEF MatchInv
<1>4. ~o.cancels
  BY <1>1, <1>3, CancelOutcomes, OutcomeFacts
<1>5. \A j \in Keys \ {k} : dest'[j] = dest[j]
  BY <1>1, <1>2
<1> QED BY <1>1, <1>2, <1>3, <1>4, <1>5 DEF MatchInv, Delivered, BeingSaved

LEMMA MatchStep == TypeOK /\ MatchInv /\ [Next]_vars => MatchInv'
<1> SUFFICES ASSUME TypeOK, MatchInv, [Next]_vars PROVE MatchInv'
  OBVIOUS
<1>1. ASSUME faults' = faults + 1 PROVE MatchInv'
  BY <1>1, BookTypes DEF MatchInv
<1>2. CASE Cancel \/ Crash \/ \E k \in Keys : ResetEntity(k)
  BY <1>1, <1>2 DEF Cancel, Crash, ResetEntity, Fault
<1>3. ASSUME NEW r \in Rows, NEW p \in Payloads \cup {None}, ChangeSource(r, p) PROVE MatchInv'
  BY <1>3, QuietMatches DEF ChangeSource, storeVars, runVars, sweepVars, outcomeVars
<1>4. CASE ReleaseStaleLock \/ UNCHANGED vars
  BY <1>4, QuietMatches DEF ReleaseStaleLock, vars, storeVars, runVars, sweepVars, outcomeVars
<1>5. ASSUME NEW dry \in DryModes, NEW approved \in Approvals \cup {None}, BeginRun(dry, approved)
      PROVE  MatchInv'
  BY <1>5, QuietMatches, FaultGrows DEF BeginRun, FaultKinds
<1>6. CASE \/ RejectRow \/ DecideRow \/ DecideFails \/ EndExtract \/ GateBlock \/ GatePass
           \/ SkipOverLimit \/ MarkRuleFired \/ EndDelivery \/ EndSweep \/ Commit \/ FinishRun
  <2>1. /\ UNCHANGED <<dest, es>> /\ (cancelled' = cancelled \/ cancelled' = FALSE)
        /\ pc \notin {"saveOk", "sweepSave"} /\ pc' \notin {"saveOk", "sweepSave", "saveErr"}
    BY <1>6 DEF RejectRow, DecideRow, DecideFails, Receive, EndExtract, GateBlock, GatePass,
       SkipOverLimit, Delivering, MarkRuleFired, EndDelivery, EndSweep, Commit, FinishRun, ClearRun,
       storeVars, outcomeVars
  <2>2. faults' \in {faults, faults + 1}
    <3>1. CASE RejectRow \/ DecideRow \/ DecideFails \/ EndExtract \/ MarkRuleFired \/ EndDelivery
               \/ Commit
      BY <3>1, FaultGrows DEF RejectRow, DecideRow, DecideFails, EndExtract, MarkRuleFired,
         EndDelivery, Commit, FaultKinds
    <3>2. CASE GateBlock \/ GatePass \/ SkipOverLimit \/ EndSweep \/ FinishRun
      BY <3>2 DEF GateBlock, GatePass, SkipOverLimit, EndSweep, FinishRun
    <3> QED BY <1>6, <3>1, <3>2
  <2> QED BY <2>1, <2>2, QuietMatches
<1>7. CASE Engine
  BY <1>6, <1>7, DeliverRowMatches, SavesMatch, SendMissingMatches DEF Engine
<1> QED BY <1>2, <1>3, <1>4, <1>5, <1>7 DEF Next, Operator, Environment

(* Between runs, as long as nothing failed, what the entity state says is    *)
(* what the destination holds: content that goes back and forth, deliveries   *)
(* that are skipped, archives and dry runs included.                         *)
THEOREM StateIsTheDestination == Spec => []StateMatchesDestination
<1>1. Init => MatchInv
  BY DEF Init, Idle, MatchInv, Delivered
<1>2. MatchInv => StateMatchesDestination
  BY DEF MatchInv, StateMatchesDestination, Delivered, BeingSaved
<1> QED BY <1>1, <1>2, MatchStep, TypeCorrect, PTL DEF Spec

------------------------------------------------------------------------------
\* Once-rules

(* What "once" rests on: an entity has one row, the file names no two rules   *)
(* alike, and what lands is recorded.                                       *)
OneRowEach == \A r, q \in Rows : KeyOf[r] = KeyOf[q] /\ KeyOf[r] # NoKey => r = q
NamesDiffer == \A i, j \in DOMAIN Rules : Rules[i].name = Rules[j].name => i = j
Recorded == Faults \cap {"crash", "cancel", "ambiguous", "save"} = {}

(* A once-rule that landed has fired, or is just being recorded; no row waits *)
(* under a rule that fired, no two wait for one entity, and an entity whose   *)
(* row is still to come has none waiting.                                   *)
RuleOf(item) == <<item.key, item.rule>>
OnceInv ==
  /\ ~cancelled
  /\ OnceRuleAtMostOnce
  /\ \A h \in Keys \X OnceRules :
       hits[h] # 0 => h \in fired \/ (pc \in {"saveOk", "mark"} /\ h = RuleOf(pd))
  /\ \A i \in DOMAIN pend : RuleOf(pend[i]) \notin fired
  /\ \A i, j \in DOMAIN pend : pend[i].key = pend[j].key => i = j
  /\ pc = "extract" =>
       /\ \A i \in DOMAIN pend : pend[i].key \in seen
       /\ \A x \in todo : KeyOf[x.row] \notin seen
       /\ \A x, y \in todo : x.row = y.row => x = y

(* Steps that land nothing, fire nothing and at most shorten what waits.      *)
LEMMA NoneFired ==
  ASSUME TypeOK, OnceInv, UNCHANGED <<hits, fired, cancelled>>,
         \/ UNCHANGED <<pc, pend, todo, seen>>
         \/ /\ pc' # "extract" /\ pc \notin {"saveOk", "mark"}
            /\ pend' = pend \/ pend' = <<>> \/ (pend # <<>> /\ pend' = Tail(pend))
  PROVE  OnceInv'
<1>1. CASE UNCHANGED <<pc, pend, todo, seen>>
  BY <1>1 DEF OnceInv, OnceRuleAtMostOnce, RuleOf, pd
<1>2. CASE /\ pc' # "extract" /\ pc \notin {"saveOk", "mark"}
           /\ pend' = pend \/ pend' = <<>> \/ (pend # <<>> /\ pend' = Tail(pend))
  <2>1. pend \in Seq(Pending)
    BY DEF TypeOK, RunTypes
  <2>2. Len(pend) \in Nat /\ DOMAIN pend = 1..Len(pend)
    BY <2>1, LenProperties
  <2>3. pend # <<>> => /\ DOMAIN Tail(pend) = 1..(Len(pend) - 1)
                       /\ \A i \in 1..(Len(pend) - 1) : Tail(pend)[i] = pend[i + 1]
    BY <2>1, LenProperties, HeadTailProperties
  <2>4. /\ \A i \in DOMAIN pend' : RuleOf(pend'[i]) \notin fired'
        /\ \A i, j \in DOMAIN pend' : pend'[i].key = pend'[j].key => i = j
    <3>1. CASE pend' = pend
      BY <3>1 DEF OnceInv
    <3>2. CASE pend' = <<>>
      BY <3>2
    <3>3. CASE pend # <<>> /\ pend' = Tail(pend)
      <4>1. /\ DOMAIN pend' = 1..(Len(pend) - 1)
            /\ \A i \in 1..(Len(pend) - 1) : pend'[i] = pend[i + 1]
        BY <2>3, <3>3, Zenon
      <4>2. \A i \in DOMAIN pend' : i \in Nat /\ i + 1 \in DOMAIN pend /\ pend'[i] = pend[i + 1]
        BY <2>2, <4>1
      <4> QED BY <4>2 DEF OnceInv
    <3> QED BY <1>2, <3>1, <3>2, <3>3
  <2> QED BY <1>2, <2>4 DEF OnceInv, OnceRuleAtMostOnce, RuleOf
<1> QED BY <1>1, <1>2

(* A row of the query is taken, of an entity none of whose rows waits.        *)
LEMMA ExtractFires ==
  ASSUME OneRowEach, TypeOK, OnceInv, UNCHANGED <<hits, fired, cancelled, pc>>,
         NEW x, Receive(x), \/ UNCHANGED <<seen, pend>>
                            \/ Deliverable(x) /\ seen' = seen \cup {KeyOf[x.row]} /\ pend' = pend
  PROVE  OnceInv'
<1>1. pc = "extract" /\ x \in todo /\ todo' = todo \ {x}
  BY DEF Receive
<1>2. \A y \in todo : y.row \in Rows
  BY DEF TypeOK, ExtractTypes
<1>3. \A y \in todo' : KeyOf[y.row] \notin seen'
  BY <1>1, <1>2 DEF OnceInv, OneRowEach, Deliverable
<1> QED BY <1>1, <1>3 DEF OnceInv, OnceRuleAtMostOnce, RuleOf, pd

LEMMA DecideRowFires ==
  ASSUME OneRowEach, NamesDiffer, TypeOK, OnceInv, DecideRow
  PROVE  OnceInv'
<1>1. PICK x \in todo :
        /\ Receive(x) /\ Deliverable(x)
        /\ seen' = seen \cup {KeyOf[x.row]}
        /\ pend' = IF PendingItem(KeyOf[x.row], x.payload).action = "skip" THEN pend
                   ELSE Append(pend, PendingItem(KeyOf[x.row], x.payload))
  BY DEF DecideRow
<1>2. UNCHANGED <<hits, fired, cancelled, pc>>
  BY DEF DecideRow, storeVars, outcomeVars, ghostVars
<1>3. CASE pend' = pend
  BY <1>1, <1>2, <1>3, ExtractFires
<1> DEFINE k == KeyOf[x.row]
           item == PendingItem(k, x.payload)
<1>4. CASE pend' = Append(pend, item)
  <2>1. pc = "extract" /\ todo' = todo \ {x} /\ k # NoKey /\ x.row \in Rows /\ k \notin seen
    BY <1>1 DEF Receive, Deliverable, OnceInv, TypeOK, ExtractTypes
  <2>2. k \in Keys
    BY <2>1, ConstantTypes
  <2>3. item.key = k /\ item.rule = Plan(k, x.payload).rule
    BY DEF PendingItem
  <2> DEFINE names == {name \in RuleNames : <<k, name>> \in fired}
  <2>4. item.rule \notin OnceRules \cap names
    BY <2>3, FiredOnceRuleNeverWins DEF Plan, NamesDiffer
  <2>5. RuleOf(item) \notin fired
    <3>1. fired \subseteq Keys \X OnceRules /\ OnceRules \subseteq RuleNames
      BY DEF TypeOK, StoreTypes, OnceRules, RuleNames
    <3> HIDE DEF item
    <3> QED BY <2>3, <2>4, <3>1 DEF RuleOf
  <2> HIDE DEF item, k
  <2>6. pend \in Seq(Pending) /\ Len(pend) \in Nat /\ DOMAIN pend = 1..Len(pend)
    BY LenProperties DEF TypeOK, RunTypes
  <2>7. /\ DOMAIN pend' = 1..(Len(pend) + 1)
        /\ \A i \in 1..Len(pend) : pend'[i] = pend[i]
        /\ pend'[Len(pend) + 1] = item
    BY <1>4, <2>6, AppendAt
  <2>8. \A i \in DOMAIN pend' : RuleOf(pend'[i]) \notin fired'
    BY <1>2, <2>5, <2>6, <2>7 DEF OnceInv
  <2>9. \A i \in DOMAIN pend : pend[i].key \in seen /\ pend[i].key # k
    BY <2>1 DEF OnceInv
  <2>10. \A i, j \in DOMAIN pend' : pend'[i].key = pend'[j].key => i = j
    BY <2>3, <2>6, <2>7, <2>9 DEF OnceInv
  <2>11. \A i \in DOMAIN pend' : pend'[i].key \in seen'
    BY <1>1, <2>3, <2>6, <2>7, <2>9 DEF k
  <2>12. \A y \in todo' : KeyOf[y.row] \notin seen'
    <3>1. \A y \in todo : y.row \in Rows
      BY DEF TypeOK, ExtractTypes
    <3> QED BY <1>1, <2>1, <3>1 DEF OnceInv, OneRowEach, k
  <2> QED BY <1>2, <2>1, <2>8, <2>10, <2>11, <2>12 DEF OnceInv, OnceRuleAtMostOnce
<1> QED BY <1>1, <1>3, <1>4

(* Only a rule that never landed waits for delivery; landing it leads to the  *)
(* save, and the save to the mark.                                          *)
LEMMA DeliverRowFires ==
  ASSUME Recorded, TypeOK, OnceInv, DeliverRow
  PROVE  OnceInv'
<1>1. PICK o \in LoadOutcomes(opKey) :
        /\ cancelled' = (cancelled \/ o.cancels)
        /\ pc' = AfterLoad(o.kind)
        /\ pend' = IF AfterLoad(o.kind) = "deliver" THEN Tail(pend) ELSE pend
        /\ hits' = IF o.landed /\ pd.rule \in OnceRules
                     THEN [hits EXCEPT ![<<pd.key, pd.rule>>] = AtMost(@ + 1, 2)]
                     ELSE hits
  BY DEF DeliverRow, Load
<1>2. /\ pc = "deliver" /\ fired' = fired /\ pend \in Seq(Pending) /\ pend # <<>>
      /\ pd.key \in Keys /\ 1 \in DOMAIN pend /\ pd = pend[1]
      /\ hits \in [Keys \X OnceRules -> 0..2]
  BY HeadType DEF DeliverRow, Delivering, TypeOK, RunTypes, GhostTypes, pd
<1>3. ~o.cancels /\ (o.landed => o.kind = "loaded" /\ ~dryRun)
  BY CancelOutcomes, LandedOutcomes DEF Recorded
<1>4. ~cancelled'
  BY <1>1, <1>3 DEF OnceInv
<1>5. pc' \in {"deliver", "saveOk", "saveErr"}
  BY <1>1 DEF AfterLoad
<1>6. CASE ~(o.landed /\ pd.rule \in OnceRules)
  <2>1. UNCHANGED <<hits, fired, cancelled>>
    BY <1>1, <1>2, <1>3, <1>6 DEF TypeOK, RunTypes
  <2> QED BY <1>1, <1>2, <1>5, <2>1, NoneFired
<1>7. CASE o.landed /\ pd.rule \in OnceRules
  <2>1. pc' = "saveOk" /\ pend' = pend /\ pd' = pd
    BY <1>1, <1>3, <1>7 DEF AfterLoad, pd
  <2> DEFINE h == RuleOf(pd)
  <2>2. h \in Keys \X OnceRules /\ h \notin fired
    BY <1>2, <1>7 DEF OnceInv, RuleOf
  <2>3. hits[h] = 0
    BY <1>2, <2>2 DEF OnceInv
  <2>4. hits'[h] = 1 /\ \A g \in Keys \X OnceRules : g # h => hits'[g] = hits[g]
    BY <1>1, <1>2, <1>7, <2>2, <2>3 DEF AtMost, RuleOf
  <2> HIDE DEF h
  <2>5. OnceRuleAtMostOnce'
    BY <2>4 DEF OnceInv, OnceRuleAtMostOnce
  <2>6. \A g \in Keys \X OnceRules : hits'[g] # 0 => g \in fired' \/ g = h
    BY <1>2, <2>4 DEF OnceInv
  <2> QED BY <1>2, <1>4, <2>1, <2>5, <2>6 DEF OnceInv, h
<1> QED BY <1>6, <1>7

LEMMA SaveDeliveredFires ==
  ASSUME TypeOK, OnceInv, SaveDelivered
  PROVE  OnceInv'
<1>1. /\ pc = "saveOk" /\ UNCHANGED <<hits, fired, cancelled>> /\ pend # <<>> /\ pend \in Seq(Pending)
      /\ pc' = IF pd.rule \in OnceRules THEN "mark" ELSE "deliver"
      /\ pend' = IF pd.rule \in OnceRules THEN pend ELSE Tail(pend)
  BY DEF SaveDelivered, outcomeVars, ghostVars, TypeOK, PhaseFacts, RunTypes
<1>2. CASE pd.rule \in OnceRules
  BY <1>1, <1>2 DEF OnceInv, OnceRuleAtMostOnce, pd
<1>3. CASE pd.rule \notin OnceRules
  <2>1. \A h \in Keys \X OnceRules : hits[h] # 0 => h \in fired
    BY <1>3 DEF OnceInv, RuleOf
  <2>2. /\ Len(pend) \in Nat /\ DOMAIN pend = 1..Len(pend)
        /\ DOMAIN Tail(pend) = 1..(Len(pend) - 1)
        /\ \A i \in 1..(Len(pend) - 1) : Tail(pend)[i] = pend[i + 1]
    BY <1>1, LenProperties, HeadTailProperties
  <2>3. /\ \A i \in DOMAIN pend' : RuleOf(pend'[i]) \notin fired'
        /\ \A i, j \in DOMAIN pend' : pend'[i].key = pend'[j].key => i = j
    BY <1>1, <1>3, <2>2 DEF OnceInv
  <2> QED BY <1>1, <1>3, <2>1, <2>3 DEF OnceInv, OnceRuleAtMostOnce
<1> QED BY <1>2, <1>3

(* The firing is recorded, and no other row of the entity waits for it.       *)
LEMMA MarkFires ==
  ASSUME Recorded, TypeOK, OnceInv, MarkRuleFired
  PROVE  OnceInv'
<1>1. /\ pc = "mark" /\ pc' = "deliver" /\ pend' = Tail(pend) /\ pend # <<>>
      /\ pend \in Seq(Pending) /\ UNCHANGED <<hits, cancelled>>
      /\ fired' = fired \cup {RuleOf(pd)}
  BY DEF MarkRuleFired, Fault, Recorded, OnceInv, outcomeVars, ghostVars, TypeOK, PhaseFacts,
     RunTypes, RuleOf
<1>2. /\ Len(pend) \in Nat /\ DOMAIN pend = 1..Len(pend)
      /\ DOMAIN Tail(pend) = 1..(Len(pend) - 1)
      /\ \A i \in 1..(Len(pend) - 1) : Tail(pend)[i] = pend[i + 1]
  BY <1>1, LenProperties, HeadTailProperties
<1>3. 1 \in DOMAIN pend /\ pd = pend[1]
  BY <1>1, HeadType DEF pd
<1>4. \A i \in DOMAIN pend' : RuleOf(pend'[i]) \notin fired'
  <2> SUFFICES ASSUME NEW i \in DOMAIN pend' PROVE RuleOf(pend'[i]) \notin fired'
    OBVIOUS
  <2>1. i + 1 \in DOMAIN pend /\ pend'[i] = pend[i + 1] /\ i + 1 # 1
    BY <1>1, <1>2
  <2>2. pend[i + 1].key # pd.key /\ RuleOf(pend[i + 1]) \notin fired
    BY <1>3, <2>1 DEF OnceInv
  <2> QED BY <1>1, <2>1, <2>2 DEF RuleOf
<1>5. \A i, j \in DOMAIN pend' : pend'[i].key = pend'[j].key => i = j
  BY <1>1, <1>2 DEF OnceInv
<1>6. \A h \in Keys \X OnceRules : hits'[h] # 0 => h \in fired'
  BY <1>1 DEF OnceInv
<1> QED BY <1>1, <1>4, <1>5, <1>6 DEF OnceInv, OnceRuleAtMostOnce

LEMMA BeginRunFires ==
  ASSUME TypeOK, OnceInv, NEW dry \in DryModes, NEW approved \in Approvals \cup {None},
         BeginRun(dry, approved)
  PROVE  OnceInv'
<1>1. /\ pc = "idle" /\ pc' = "extract" /\ pend' = <<>> /\ seen' = {} /\ cancelled' = FALSE
      /\ UNCHANGED <<hits, fired>>
      /\ \E wm : todo' = Extraction(wm)
  BY DEF BeginRun
<1>2. \A x, y \in todo' : x.row = y.row => x = y
  BY <1>1 DEF Extraction
<1> QED BY <1>1, <1>2 DEF OnceInv, OnceRuleAtMostOnce

LEMMA OnceStep ==
  ASSUME OneRowEach, NamesDiffer, Recorded
  PROVE  TypeOK /\ OnceInv /\ [Next]_vars => OnceInv'
<1> SUFFICES ASSUME TypeOK, OnceInv, [Next]_vars PROVE OnceInv'
  OBVIOUS
<1>1. CASE RejectRow \/ DecideFails
  <2>1. PICK x \in todo : /\ Receive(x)
                          /\ \/ UNCHANGED <<seen, pend>>
                             \/ /\ Deliverable(x) /\ seen' = seen \cup {KeyOf[x.row]}
                                /\ pend' = pend
    BY <1>1 DEF RejectRow, DecideFails
  <2>2. UNCHANGED <<hits, fired, cancelled, pc>>
    BY <1>1 DEF RejectRow, DecideFails, storeVars, outcomeVars, ghostVars
  <2> QED BY <2>1, <2>2, ExtractFires
<1>2. CASE \/ EndExtract \/ GateBlock \/ GatePass \/ SkipOverLimit \/ SaveFailed \/ EndDelivery
           \/ (\E k \in Keys : CountMissing(k)) \/ SaveMissing \/ EndSweep \/ Commit
  <2>1. /\ UNCHANGED <<hits, fired, cancelled>> /\ pc' # "extract" /\ pc \notin {"saveOk", "mark"}
        /\ pend' = pend \/ pend' = <<>> \/ (pend # <<>> /\ pend' = Tail(pend))
    BY <1>2 DEF EndExtract, GateBlock, GatePass, SkipOverLimit, Delivering, SaveFailed, EndDelivery,
       CountMissing, SaveMissing, EndSweep, Commit, storeVars, outcomeVars, ghostVars, TypeOK, PhaseFacts
  <2> QED BY <2>1, NoneFired
<1>3. ASSUME NEW k \in Keys, SendMissing(k) PROVE OnceInv'
  <2>1. PICK o \in LoadOutcomes(RawKey(k)) : cancelled' = (cancelled \/ o.cancels)
    BY <1>3 DEF SendMissing, Load
  <2>2. ~o.cancels
    BY CancelOutcomes DEF Recorded
  <2>3. /\ UNCHANGED <<hits, fired, pend>> /\ pc = "sweep" /\ pc' = "sweepSave"
        /\ UNCHANGED cancelled
    BY <1>3, <2>1, <2>2 DEF SendMissing, OnceInv, TypeOK, RunTypes
  <2> QED BY <2>3, NoneFired
<1>4. CASE FinishRun
  BY <1>4, NoneFired DEF FinishRun, ClearRun, ghostVars, OnceInv, TypeOK, RunTypes
<1>5. CASE Cancel \/ Crash
  BY <1>5 DEF Cancel, Crash, Fault, Recorded
<1>6. ASSUME NEW r \in Rows, NEW p \in Payloads \cup {None}, ChangeSource(r, p) PROVE OnceInv'
  BY <1>6, NoneFired DEF ChangeSource, storeVars, runVars, extractVars, outcomeVars, ghostVars
<1>7. CASE ReleaseStaleLock \/ (\E k \in Keys : ResetEntity(k)) \/ UNCHANGED vars
  BY <1>7, NoneFired DEF ReleaseStaleLock, ResetEntity, vars, storeVars, runVars, extractVars,
     outcomeVars, ghostVars
<1>8. CASE Engine
  BY <1>1, <1>2, <1>3, <1>4, <1>8, DecideRowFires, DeliverRowFires, SaveDeliveredFires, MarkFires
  DEF Engine
<1> QED BY <1>5, <1>6, <1>7, <1>8, BeginRunFires DEF Next, Operator, Environment

(* Where each entity has one row, rule names differ and whatever lands is     *)
(* recorded, a once-rule delivers at most once per entity, whatever fails      *)
(* without landing, is skipped by a cap, or is reset in between.             *)
THEOREM OnceMeansOnce ==
  ASSUME OneRowEach, NamesDiffer, Recorded
  PROVE  Spec => []OnceRuleAtMostOnce
<1>1. Init => OnceInv
  BY DEF Init, Idle, OnceInv, OnceRuleAtMostOnce
<1>2. OnceInv => OnceRuleAtMostOnce
  BY DEF OnceInv
<1>3. TypeOK /\ OnceInv /\ [Next]_vars => OnceInv'
  BY OnceStep
<1> QED BY <1>1, <1>2, <1>3, TypeCorrect, PTL DEF Spec

------------------------------------------------------------------------------
\* What the sweep takes for missing

(* The sweep relies on seenKeys, so what it may archive rests on the run      *)
(* seeing all of the source: no watermark, no row rejected for a required      *)
(* field, and no query that ends early without ending the run.               *)
SeesAll == ~Incremental /\ Invalid = {} /\ Faults \cap {"extract", "timeout"} = {}

(* An entity with a source row is seen or its row is still to come; behind    *)
(* the extraction it is seen, or the run was cancelled and does not sweep.     *)
SeenInv ==
  /\ pc = "extract" => \A k \in present \cap Keys : k \in seen \/ \E x \in todo : KeyOf[x.row] = k
  /\ pc \in {"gate", "deliver", "saveOk", "mark", "saveErr"} =>
       cancelled \/ present \cap Keys \subseteq seen
  /\ pc \in {"sweep", "sweepSave"} => sweep \cap present = {}

(* Steps that leave what was seen, and only go on with the run.              *)
LEMMA NoneSeen ==
  ASSUME TypeOK, SeenInv, UNCHANGED <<present, seen>>, cancelled => cancelled',
         \/ pc' = pc /\ todo' = todo /\ sweep' \subseteq sweep
         \/ pc' \notin {"extract", "gate", "deliver", "saveOk", "mark", "saveErr", "sweep", "sweepSave"}
         \/ /\ pc \in {"gate", "deliver", "saveOk", "mark", "saveErr"}
            /\ pc' \in {"gate", "deliver", "saveOk", "mark", "saveErr"}
         \/ /\ pc \in {"sweep", "sweepSave"} /\ pc' \in {"sweep", "sweepSave"}
            /\ sweep' \subseteq sweep
  PROVE  SeenInv'
BY DEF SeenInv

LEMMA ExtractSees ==
  ASSUME SeesAll, TypeOK, SeenInv, RejectRow \/ DecideRow \/ DecideFails
  PROVE  SeenInv'
<1>1. PICK x \in todo : /\ Receive(x)
                        /\ \/ ~Deliverable(x) /\ seen' = seen
                           \/ Deliverable(x) /\ seen' = seen \cup {KeyOf[x.row]}
  BY DEF RejectRow, DecideRow, DecideFails
<1>2. pc' = "extract" /\ present' = present
  BY DEF RejectRow, DecideRow, DecideFails, Receive, ghostVars
<1>3. /\ pc = "extract" /\ todo' = todo \ {x}
      /\ ~Deliverable(x) => KeyOf[x.row] \notin Keys
  BY <1>1, ConstantTypes, SyncAssumption DEF Receive, Deliverable, SeesAll
<1>4. ASSUME NEW k \in present' \cap Keys
      PROVE  k \in seen' \/ \E y \in todo' : KeyOf[y.row] = k
  <2>1. k \in seen \/ \E y \in todo : KeyOf[y.row] = k
    BY <1>2, <1>3, <1>4 DEF SeenInv
  <2> QED BY <1>1, <1>3, <1>4, <2>1
<1> QED BY <1>2, <1>4 DEF SeenInv

LEMMA BeginRunSees ==
  ASSUME SeesAll, TypeOK, NEW dry, NEW approved, BeginRun(dry, approved)
  PROVE  SeenInv'
<1>1. /\ pc' = "extract" /\ todo' = Extraction(0)
      /\ present' = {KeyOf[r] : r \in {q \in Rows : src[q].payload # None}}
  BY DEF BeginRun, SeesAll
<1>2. ASSUME NEW r \in Rows, src[r].payload # None
      PROVE  \E x \in Extraction(0) : KeyOf[x.row] = KeyOf[r]
  <2> DEFINE x == [row |-> r, payload |-> src[r].payload, stamp |-> src[r].stamp]
  <2>1. x \in Extraction(0) /\ x.row = r
    BY <1>2 DEF Extraction
  <2> QED BY <2>1
<1> QED BY <1>1, <1>2 DEF SeenInv

LEMMA EndExtractSees ==
  ASSUME SeesAll, TypeOK, SeenInv, EndExtract
  PROVE  SeenInv'
<1>1. /\ pc = "extract" /\ pc' = "gate" /\ UNCHANGED <<present, seen, cancelled>>
      /\ todo = {} \/ cancelled
  BY DEF EndExtract, Fault, SeesAll, ghostVars
<1> QED BY <1>1 DEF SeenInv

LEMMA EndDeliverySees ==
  ASSUME TypeOK, SeenInv, EndDelivery
  PROVE  SeenInv'
<1>1. /\ pc = "deliver" /\ UNCHANGED <<present, seen>>
      /\ \/ pc' = "commit"
         \/ pc' = "sweep" /\ ~cancelled /\ (sweep' = KnownMissing \/ sweep' = {})
  BY DEF EndDelivery, extractVars
<1>2. CASE pc' = "commit"
  BY <1>2 DEF SeenInv
<1>3. CASE pc' = "sweep" /\ ~cancelled /\ (sweep' = KnownMissing \/ sweep' = {})
  BY <1>1, <1>3 DEF SeenInv, KnownMissing
<1> QED BY <1>1, <1>2, <1>3

LEMMA SeenStep ==
  ASSUME SeesAll
  PROVE  TypeOK /\ SeenInv /\ [Next]_vars => SeenInv'
<1> SUFFICES ASSUME TypeOK, SeenInv, [Next]_vars PROVE SeenInv'
  OBVIOUS
<1>1. CASE \/ GateBlock \/ GatePass \/ SkipOverLimit \/ SaveDelivered \/ MarkRuleFired \/ SaveFailed
           \/ EndSweep \/ Commit
  <2>1. UNCHANGED <<present, seen, cancelled>>
    BY <1>1 DEF GateBlock, GatePass, SkipOverLimit, SaveDelivered, MarkRuleFired, SaveFailed,
       EndSweep, Commit, extractVars, outcomeVars, ghostVars
  <2>2. \/ pc' \in {"finish", "commit"}
        \/ pc \in {"gate", "deliver", "saveOk", "mark", "saveErr"} /\ pc' \in {"mark", "deliver"}
    BY <1>1 DEF GateBlock, GatePass, SkipOverLimit, Delivering, SaveDelivered, MarkRuleFired,
       SaveFailed, EndSweep, Commit
  <2> QED BY <2>1, <2>2, NoneSeen
<1>2. CASE DeliverRow
  <2>1. /\ pc = "deliver" /\ pc' \in {"deliver", "saveOk", "saveErr"} /\ UNCHANGED <<present, seen>>
        /\ cancelled => cancelled'
    BY <1>2 DEF DeliverRow, Delivering, Load, AfterLoad, extractVars
  <2> QED BY <2>1, NoneSeen
<1>3. ASSUME NEW k \in Keys, CountMissing(k) \/ SendMissing(k) PROVE SeenInv'
  <2>1. /\ pc = "sweep" /\ pc' \in {"sweep", "sweepSave"} /\ sweep' \subseteq sweep
        /\ UNCHANGED <<present, seen>> /\ (cancelled => cancelled')
    <3>1. CASE CountMissing(k)
      BY <3>1 DEF CountMissing, extractVars, outcomeVars, ghostVars
    <3>2. CASE SendMissing(k)
      BY <3>2 DEF SendMissing, Load, extractVars
    <3> QED BY <1>3, <3>1, <3>2
  <2> QED BY <2>1, NoneSeen
<1>4. CASE SaveMissing
  BY <1>4, NoneSeen DEF SaveMissing, extractVars, outcomeVars, ghostVars
<1>5. CASE FinishRun \/ Crash
  BY <1>5 DEF FinishRun, Crash, ClearRun, SeenInv
<1>6. CASE Cancel \/ ReleaseStaleLock \/ (\E k \in Keys : ResetEntity(k)) \/ UNCHANGED vars
  BY <1>6, NoneSeen DEF Cancel, ReleaseStaleLock, ResetEntity, vars, runVars, extractVars, sweepVars,
     outcomeVars, ghostVars
<1>7. ASSUME NEW r \in Rows, NEW p \in Payloads \cup {None}, ChangeSource(r, p) PROVE SeenInv'
  BY <1>7, NoneSeen DEF ChangeSource, runVars, extractVars, sweepVars, outcomeVars, ghostVars
<1>8. CASE Engine
  BY <1>1, <1>2, <1>3, <1>4, <1>5, <1>8, ExtractSees, EndExtractSees, EndDeliverySees DEF Engine
<1> QED BY <1>5, <1>6, <1>7, <1>8, BeginRunSees DEF Next, Operator, Environment

(* Only the sweep takes a record away: what a row delivers is a record.       *)
LEMMA OnlyTheSweepArchives ==
  ASSUME TypeOK, [Next]_vars, NEW k \in Keys, Archived(k)
  PROVE  SendMissing(k)
<1>1. dest \in [Keys -> Payloads \cup {None, Blank}] /\ dest' # dest
  BY DEF Archived, TypeOK
<1>2. CASE DeliverRow
  <2>1. PICK o : dest' = IF o.landed THEN [dest EXCEPT ![pd.key] = pd.payload] ELSE dest
    BY <1>2 DEF DeliverRow, Load
  <2>2. pd.payload # None
    BY <1>2, HeadType, SyncAssumption DEF DeliverRow, Delivering, TypeOK, RunTypes
  <2> QED BY <1>1, <2>1, <2>2 DEF Archived
<1>3. ASSUME NEW j \in Keys, SendMissing(j) PROVE SendMissing(k)
  <2>1. j = k
    BY <1>1, <1>3 DEF SendMissing, Load, Archived
  <2> QED BY <1>3, <2>1
<1>4. CASE Engine
  BY <1>1, <1>2, <1>3, <1>4 DEF Engine, RejectRow, DecideRow, DecideFails, EndExtract, GateBlock,
     GatePass, SkipOverLimit, SaveDelivered, MarkRuleFired, SaveFailed, EndDelivery, CountMissing,
     SaveMissing, EndSweep, Commit, FinishRun
<1>5. ASSUME Operator \/ Environment \/ UNCHANGED vars PROVE FALSE
  BY <1>1, <1>5 DEF Operator, Environment, BeginRun, ReleaseStaleLock, ResetEntity, Cancel, Crash,
     ChangeSource, vars
<1> QED BY <1>4, <1>5 DEF Next

(* A sync that sees all of its source archives only entities that had no row   *)
(* in it when the run queried it, however rows fail, states cannot be read or   *)
(* saved, and runs are cancelled or crash.                                  *)
THEOREM ArchivesOnlyTheAbsent ==
  ASSUME SeesAll
  PROVE  Spec => ArchiveOnlyAbsent
<1>1. Init => SeenInv
  BY DEF Init, Idle, SeenInv
<1>2. TypeOK /\ SeenInv /\ [Next]_vars => SeenInv'
  BY SeenStep
<1>3. TypeOK /\ SeenInv /\ [Next]_vars => [\A k \in Keys : Archived(k) => k \notin present]_vars
  <2> SUFFICES ASSUME TypeOK, SeenInv, [Next]_vars, NEW k \in Keys, Archived(k)
               PROVE  k \notin present
    OBVIOUS
  <2>1. k \in sweep /\ pc = "sweep"
    BY OnlyTheSweepArchives DEF SendMissing
  <2> QED BY <2>1 DEF SeenInv
<1> QED BY <1>1, <1>2, <1>3, TypeCorrect, PTL DEF Spec, ArchiveOnlyAbsent

------------------------------------------------------------------------------
\* What the watermark passes

(* What the claim on the watermark rests on.  Each row has an entity of its   *)
(* own; runs are incremental and real; a changed row gets an action, which no *)
(* cap skips; nothing delivered is archived.  And no fault is of the kind     *)
(* whose row a later run skips and passes: what Load fails on is saved as     *)
(* failed with its fingerprint, and so is no longer changed; a row whose      *)
(* state cannot be read is passed over in a run that succeeds.  A source may   *)
(* time out and the run still succeed, but then its rows come in the order of  *)
(* the column and no two share a value.                                      *)
KeepsUp ==
  /\ OneRowEach /\ Incremental /\ DryModes \subseteq {FALSE}
  /\ \A in \in Inputs, names \in SUBSET RuleNames :
       in.changed => Evaluate(in, names).action # "skip"
  /\ \A bucket \in Buckets : Limits[bucket] = 0
  /\ MissingAction \in {"none", "skip"} \/ (MissingAction = "delete" /\ ~AllowDestructive)
  /\ Faults \cap {"row", "ambiguous", "fatal", "read"} = {}
  /\ "timeout" \in Faults =>
       InOrder /\ \A r, q \in Rows : FirstStamp[r] = FirstStamp[q] => r = q

(* Content moves on and never returns: what a row had has an age, equal for   *)
(* what the fingerprint cannot tell apart, and each change makes it younger.  *)
Onward(age) ==
  /\ age \in [Payloads \cup {None} -> Nat]
  /\ \A move \in SourceMoves : age[move[1]] < age[move[2]]
  /\ \A p, q \in Payloads : Fp[p] = Fp[q] => age[p] = age[q]

(* What an entity is known to have had, by log or state, and what is on its   *)
(* way in this run.                                                         *)
Logged(k, q) == \E action \in DeliveryActions : OpKey(k, action, Fp[q]) \in log \cup batch
Known(k, q) == (es[k] # None /\ es[k].fp = Fp[q]) \/ Logged(k, q)
ComesIn(k, q) == \E x \in todo : KeyOf[x.row] = k /\ x.payload = q
Waits(k, q) == \E i \in DOMAIN pend : pend[i].key = k /\ pend[i].payload = q
OnItsWay(k, q) == ComesIn(k, q) \/ Waits(k, q)

(* A row that changed after anything the engine has a watermark of.           *)
Later(r) ==
  /\ maxWm < src[r].stamp
  /\ \A x \in todo : x.stamp < src[r].stamp
  /\ \A i \in DOMAIN history : history[i].wm < src[r].stamp

(* A row that a success can leave behind: it is above the run's watermark, and *)
(* above all that may still raise it.                                        *)
Ahead(r) ==
  /\ maxWm < src[r].stamp
  /\ \A x \in todo : x.stamp < src[r].stamp

(* Stamps are of the past; what is on its way is one content, known content    *)
(* is no younger; and what a row has now is known only if it is delivered.    *)
StampInv ==
  /\ \A r \in Rows : src[r].stamp > 0 /\ src[r].stamp <= clock
  /\ maxWm <= clock /\ \A x \in todo : x.stamp <= clock
  /\ \A i \in DOMAIN history : history[i].wm <= clock

AgeInv(age) ==
  \A r \in Rows : KeyOf[r] # NoKey =>
    /\ \A q \in Payloads : OnItsWay(KeyOf[r], q) =>
         \/ q = src[r].payload
         \/ age[q] < age[src[r].payload] /\ Later(r)
    /\ \A q, s \in Payloads : OnItsWay(KeyOf[r], q) /\ OnItsWay(KeyOf[r], s) => q = s
    /\ \A s \in Payloads : Known(KeyOf[r], s) =>
         /\ age[s] <= age[src[r].payload]
         /\ \A q \in Payloads : OnItsWay(KeyOf[r], q) => age[s] <= age[q]
         /\ s = src[r].payload => dest[KeyOf[r]] = s

(* A run that may still succeed brings what it has not brought yet.           *)
Doomed == IF pc = "finish" THEN status # "success" ELSE cancelled \/ extractErr \/ firstErr
Brought(r) == dest[KeyOf[r]] = src[r].payload
Coming(r) == \E q \in Payloads : q = src[r].payload /\ OnItsWay(KeyOf[r], q)
RunInv ==
  /\ ~dryRun /\ pc # "sweepSave" /\ (pc = "saveErr" => cancelled)
  /\ pc \in {"saveOk", "mark"} =>
       \A k \in Keys, q \in Payloads : k = pd.key /\ q = pd.payload => Logged(k, q)
  /\ pc = "idle" => batch = {}
  /\ pc # "extract" => todo = {}
  /\ pc \in {"idle", "sweep", "commit"} \/ (pc = "finish" /\ ~Doomed) => pend = <<>>
  /\ pc # "idle" /\ ~Doomed =>
       \A r \in CurrentRows : Brought(r) \/ Coming(r) \/ Ahead(r)

(* No watermark of a success has passed a row.                              *)
PassedInv ==
  \A i \in DOMAIN history : history[i].status = "success" =>
    \A r \in CurrentRows : src[r].stamp <= history[i].wm => Brought(r)

(* Where a timeout may pass for a success: no two rows share a stamp, and what *)
(* is still to come is above the watermark so far, as it was or newer.        *)
OrderInv ==
  "timeout" \in Faults =>
    /\ \A r, q \in Rows : src[r].stamp = src[q].stamp => r = q
    /\ \A x \in todo : maxWm < x.stamp /\ x.stamp <= src[x.row].stamp
    /\ \A x, y \in todo : x.stamp = y.stamp => x = y

LostInv(age) == StampInv /\ AgeInv(age) /\ RunInv /\ PassedInv

LEMMA LastWatermarkIs ==
  ASSUME NEW h \in Seq(RunLog)
  PROVE  \/ LastWatermark(h) = 0
         \/ \E i \in DOMAIN h : /\ h[i].status = "success" /\ h[i].wm > 0
                                /\ LastWatermark(h) = h[i].wm
<1> DEFINE useful == {i \in DOMAIN h : h[i].status = "success" /\ h[i].wm > 0}
<1>1. CASE useful = {}
  BY <1>1 DEF LastWatermark
<1>2. CASE useful # {}
  <2>1. useful \subseteq Nat
    BY LenProperties
  <2>2. \E i \in useful : \A j \in useful : i <= j
    BY <1>2, <2>1, LeastElement
  <2> DEFINE first == CHOOSE i \in useful : \A j \in useful : i <= j
  <2>3. first \in useful
    BY <2>2
  <2>4. LastWatermark(h) = h[first].wm
    BY <1>2 DEF LastWatermark
  <2> HIDE DEF first
  <2> QED BY <2>3, <2>4
<1> QED BY <1>1, <1>2

LEMMA StartedIs ==
  ASSUME NEW h \in Seq(RunLog), NEW i \in DOMAIN Started(h)
  PROVE  \/ Started(h)[i] = [status |-> "running", wm |-> 0]
         \/ \E j \in DOMAIN h : Started(h)[i] = h[j]
<1> DEFINE new == [status |-> "running", wm |-> 0]
           all == <<new>> \o h
           n == AtMost(Len(all), HistoryLimit)
<1>1. new \in RunLog
  BY DEF RunLog, RunStatus
<1>2. <<new>> \in Seq(RunLog) /\ Len(<<new>>) = 1 /\ <<new>>[1] = new
  BY <1>1
<1>3. /\ all \in Seq(RunLog) /\ Len(all) = 1 + Len(h)
      /\ \A j \in 1..Len(all) : all[j] = IF j <= 1 THEN <<new>>[j] ELSE h[j - 1]
  BY <1>2, ConcatProperties
<1>4. Len(h) \in Nat /\ DOMAIN h = 1..Len(h)
  BY LenProperties
<1>5. n \in Nat /\ 1 <= n /\ n <= Len(all)
  BY <1>3, <1>4, ConstantTypes DEF AtMost
<1> HIDE DEF all, n
<1>6. \A j \in 1..n : all[j] \in RunLog
  BY <1>3, <1>4, <1>5, ElementOfSeq
<1>7. /\ Len(SubSeq(all, 1, n)) = n /\ SubSeq(all, 1, n) \in Seq(RunLog)
      /\ \A j \in 1..n : SubSeq(all, 1, n)[j] = all[j]
  BY <1>5, <1>6, SubSeqProperties
<1>8. Started(h) = SubSeq(all, 1, n)
  BY DEF Started, all, n
<1>9. i \in 1..n
  BY <1>7, <1>8, LenProperties
<1>10. Started(h)[i] = all[i] /\ i \in 1..Len(all)
  BY <1>3, <1>4, <1>5, <1>7, <1>8, <1>9
<1>11. CASE i = 1
  BY <1>2, <1>3, <1>10, <1>11
<1>12. CASE i # 1
  <2>1. i - 1 \in DOMAIN h /\ all[i] = h[i - 1]
    BY <1>3, <1>4, <1>10, <1>12
  <2> QED BY <1>10, <2>1
<1> QED BY <1>11, <1>12

LEMMA TailWaits ==
  ASSUME pend \in Seq(Pending), pend # <<>>, pend' = Tail(pend),
         NEW k \in Keys, NEW q \in Payloads
  PROVE  /\ Waits(k, q)' => Waits(k, q)
         /\ Waits(k, q) => Waits(k, q)' \/ (k = pd.key /\ q = pd.payload)
<1>1. /\ Len(pend) \in Nat /\ DOMAIN pend = 1..Len(pend)
      /\ pd = pend[1]
      /\ DOMAIN Tail(pend) = 1..(Len(pend) - 1)
      /\ \A i \in 1..(Len(pend) - 1) : Tail(pend)[i] = pend[i + 1]
  BY LenProperties, HeadTailProperties DEF pd
<1>2. /\ DOMAIN pend' = 1..(Len(pend) - 1)
      /\ \A i \in 1..(Len(pend) - 1) : pend'[i] = pend[i + 1]
  BY <1>1, Zenon
<1>3. ASSUME Waits(k, q)' PROVE Waits(k, q)
  <2>1. PICK i \in DOMAIN pend' : pend'[i].key = k /\ pend'[i].payload = q
    BY <1>3 DEF Waits
  <2>2. i + 1 \in DOMAIN pend /\ pend'[i] = pend[i + 1]
    BY <1>1, <1>2
  <2> QED BY <2>1, <2>2 DEF Waits
<1>4. ASSUME Waits(k, q) PROVE Waits(k, q)' \/ (k = pd.key /\ q = pd.payload)
  <2>1. PICK i \in DOMAIN pend : pend[i].key = k /\ pend[i].payload = q
    BY <1>4 DEF Waits
  <2>2. CASE i = 1
    BY <1>1, <2>1, <2>2
  <2>3. CASE i # 1
    <3>1. i - 1 \in 1..(Len(pend) - 1) /\ (i - 1) + 1 = i
      BY <1>1, <2>3
    <3>2. i - 1 \in DOMAIN pend' /\ pend'[i - 1] = pend[i]
      BY <1>2, <3>1
    <3> QED BY <2>1, <3>2 DEF Waits
  <2> QED BY <2>2, <2>3
<1> QED BY <1>3, <1>4

(* A Load that does not fail by itself lands and is marked, was skipped, or   *)
(* is cut short by the end of the context.                                  *)
LEMMA KeepsUpOutcomes ==
  ASSUME KeepsUp, ~dryRun, ~cancelled, NEW id, NEW o \in LoadOutcomes(id)
  PROVE  \/ o.kind = "skipped" /\ ~o.landed /\ ~o.marked /\ ~o.cancels /\ id \in log \cup batch
         \/ o.kind = "loaded" /\ o.landed /\ o.marked /\ ~o.cancels
         \/ o.kind \in {"rowErr", "fatal"} /\ o.cancels /\ (o.marked => o.landed)
<1>1. ~MayFail("row") /\ ~MayFail("ambiguous") /\ ~MayFail("fatal")
  BY DEF MayFail, KeepsUp
<1>2. CASE id \in batch \cup log
  <2>1. o = Outcome("skipped", FALSE, FALSE, FALSE)
    BY <1>2 DEF LoadOutcomes
  <2> QED BY <1>2, <2>1 DEF Outcome
<1>3. CASE id \notin batch \cup log
  <2>1. \/ o = Outcome("loaded", TRUE, TRUE, FALSE)
        \/ o \in {Outcome("rowErr", FALSE, FALSE, TRUE), Outcome("rowErr", TRUE, FALSE, TRUE),
                  Outcome("fatal", FALSE, FALSE, TRUE), Outcome("fatal", TRUE, FALSE, TRUE),
                  Outcome("fatal", TRUE, TRUE, TRUE)}
    BY <1>1, <1>3 DEF LoadOutcomes
  <2> QED BY <2>1 DEF Outcome
<1> QED BY <1>2, <1>3

(* Steps that bring nothing new, leave the source, the destination and the    *)
(* history of runs as they are, and forget at most.                          *)
LEMMA NothingNew ==
  ASSUME NEW age, TypeOK, StampInv, AgeInv(age), PassedInv,
         UNCHANGED <<src, clock, dest, history>>, todo' \subseteq todo,
         \/ maxWm' \in {0, maxWm}
         \/ \E x \in todo : maxWm' = x.stamp,
         \A k \in Keys, q \in Payloads : /\ OnItsWay(k, q)' => OnItsWay(k, q)
                                         /\ Known(k, q)' => Known(k, q)
  PROVE  /\ StampInv' /\ AgeInv(age)' /\ PassedInv'
         /\ \A r \in Rows : (Later(r) => Later(r)') /\ (Ahead(r) => Ahead(r)')
<1>1. clock \in Nat /\ \A r \in Rows : src[r].stamp \in Nat
  BY DEF TypeOK
<1>2. StampInv'
  BY <1>1 DEF StampInv
<1>3. \A r \in Rows : (Later(r) => Later(r)') /\ (Ahead(r) => Ahead(r)')
  BY <1>1 DEF Later, Ahead, StampInv
<1>4. ASSUME NEW r \in Rows, KeyOf[r] # NoKey
      PROVE  /\ KeyOf[r] \in Keys
             /\ \A q \in Payloads : /\ OnItsWay(KeyOf[r], q)' => OnItsWay(KeyOf[r], q)
                                    /\ Known(KeyOf[r], q)' => Known(KeyOf[r], q)
  <2>1. KeyOf[r] \in Keys
    BY <1>4, ConstantTypes
  <2> QED BY <2>1
<1>5. AgeInv(age)'
  BY <1>3, <1>4 DEF AgeInv
<1>6. PassedInv'
  BY DEF PassedInv, CurrentRows, Brought
<1> QED BY <1>2, <1>3, <1>5, <1>6

(* And the run goes on with what it has not brought.                        *)
LEMMA GoesOn ==
  ASSUME RunInv, UNCHANGED <<src, dest>>, pc # "idle", ~Doomed' => ~Doomed,
         \A r \in Rows : (Later(r) => Later(r)') /\ (Ahead(r) => Ahead(r)'),
         ~Doomed => \A r \in CurrentRows : Coming(r) => Coming(r)' \/ Brought(r)
  PROVE  ~Doomed' => \A r \in CurrentRows' : Brought(r)' \/ Coming(r)' \/ Ahead(r)'
<1> SUFFICES ASSUME ~Doomed', NEW r \in CurrentRows' PROVE Brought(r)' \/ Coming(r)' \/ Ahead(r)'
  OBVIOUS
<1>1. r \in CurrentRows /\ r \in Rows /\ (Brought(r) => Brought(r)')
  BY DEF CurrentRows, Brought
<1>2. Brought(r) \/ Coming(r) \/ Ahead(r)
  BY <1>1 DEF RunInv
<1> QED BY <1>1, <1>2

LEMMA DecideRowBrings ==
  ASSUME KeepsUp, NEW age, TypeOK, LostInv(age), DecideRow
  PROVE  LostInv(age)'
<1>1. PICK x \in todo :
        /\ Receive(x) /\ Deliverable(x)
        /\ pend' = IF PendingItem(KeyOf[x.row], x.payload).action = "skip" THEN pend
                   ELSE Append(pend, PendingItem(KeyOf[x.row], x.payload))
  BY DEF DecideRow
<1> DEFINE k0 == KeyOf[x.row]
           item == PendingItem(k0, x.payload)
<1>2. /\ x.row \in Rows /\ x.payload \in Payloads /\ x.stamp \in Nat
      /\ k0 \in Keys /\ pend \in Seq(Pending) /\ maxWm \in Nat
  BY <1>1, ConstantTypes DEF TypeOK, ExtractTypes, RunTypes, Deliverable
<1>3. /\ UNCHANGED <<src, clock, dest, history, es, log, batch, pc, dryRun, cancelled,
                     extractErr, firstErr, status>>
      /\ pc = "extract" /\ todo' = todo \ {x}
      /\ maxWm' = maxWm \/ maxWm' = x.stamp
  BY <1>1 DEF DecideRow, Receive, sourceVars, storeVars, outcomeVars
<1>4. item.key = k0 /\ item.payload = x.payload /\ item.action = Plan(k0, x.payload).action
  BY DEF PendingItem
<1> HIDE DEF item
<1>5. ASSUME NEW k \in Keys, NEW q \in Payloads
      PROVE  /\ Waits(k, q) => Waits(k, q)'
             /\ Waits(k, q)' => Waits(k, q) \/ (k = k0 /\ q = x.payload)
             /\ item.action # "skip" => Waits(k0, x.payload)'
  <2>1. CASE item.action = "skip"
    BY <1>1, <2>1 DEF Waits, item
  <2>2. CASE item.action # "skip"
    <3>1. pend' = Append(pend, item)
      BY <1>1, <2>2 DEF item
    <3>2. /\ Len(pend) \in Nat /\ DOMAIN pend = 1..Len(pend)
          /\ DOMAIN pend' = 1..(Len(pend) + 1)
          /\ \A i \in 1..Len(pend) : pend'[i] = pend[i]
          /\ pend'[Len(pend) + 1] = item
      BY <1>2, <3>1, LenProperties
    <3>3. Len(pend) + 1 \in DOMAIN pend'
      BY <3>2
    <3>4. \A i \in DOMAIN pend : i \in DOMAIN pend' /\ pend'[i] = pend[i]
      BY <3>2
    <3>5. \A i \in DOMAIN pend' : i \in DOMAIN pend \/ pend'[i] = item
      BY <3>2
    <3> QED BY <1>4, <3>2, <3>3, <3>4, <3>5 DEF Waits
  <2> QED BY <2>1, <2>2
<1>6. ASSUME NEW k \in Keys, NEW q \in Payloads
      PROVE  (OnItsWay(k, q)' => OnItsWay(k, q)) /\ (Known(k, q)' => Known(k, q))
  <2>1. ComesIn(k, q)' => ComesIn(k, q)
    BY <1>3 DEF ComesIn
  <2>2. ComesIn(k0, x.payload)
    BY DEF ComesIn
  <2> QED BY <1>3, <1>5, <2>1, <2>2 DEF OnItsWay, Known, Logged
<1>7. /\ StampInv' /\ AgeInv(age)' /\ PassedInv'
      /\ \A r \in Rows : (Later(r) => Later(r)') /\ (Ahead(r) => Ahead(r)')
  <2>1. todo' \subseteq todo
    BY <1>3
  <2>2. maxWm' \in {0, maxWm} \/ \E y \in todo : maxWm' = y.stamp
    BY <1>3
  <2>3. UNCHANGED <<src, clock, dest, history>>
    BY <1>3
  <2>4. StampInv /\ AgeInv(age) /\ PassedInv
    BY DEF LostInv
  <2> QED BY <1>6, <2>1, <2>2, <2>3, <2>4, NothingNew
<1>8. ASSUME NEW r \in CurrentRows, Coming(r) PROVE Coming(r)' \/ Brought(r)
  <2>1. PICK q \in Payloads : q = src[r].payload /\ OnItsWay(KeyOf[r], q)
    BY <1>8 DEF Coming
  <2>2. r \in Rows /\ KeyOf[r] # NoKey /\ KeyOf[r] \in Keys
    BY ConstantTypes DEF CurrentRows
  <2>3. CASE Waits(KeyOf[r], q)
    BY <1>3, <1>5, <2>1, <2>2, <2>3 DEF Coming, OnItsWay
  <2>4. CASE ComesIn(KeyOf[r], q)
    <3>1. PICK y \in todo : KeyOf[y.row] = KeyOf[r] /\ y.payload = q
      BY <2>4 DEF ComesIn
    <3>2. CASE y # x
      BY <1>3, <2>1, <3>1, <3>2 DEF Coming, OnItsWay, ComesIn
    <3>3. CASE y = x /\ item.action # "skip"
      BY <1>3, <1>5, <2>1, <2>2, <3>1, <3>3 DEF Coming, OnItsWay
    <3>4. CASE y = x /\ item.action = "skip"
      <4> DEFINE in == [first |-> es[k0] = None,
                        changed |-> es[k0] = None \/ es[k0].fp # Fp[x.payload]]
                 names == {name \in RuleNames : <<k0, name>> \in fired}
      <4>1. Evaluate(in, names).action = "skip"
        BY <1>4, <3>4 DEF Plan
      <4>2. in \in Inputs /\ names \in SUBSET RuleNames
        BY DEF Inputs
      <4>3. ~in.changed
        BY <4>1, <4>2 DEF KeepsUp
      <4>4. Known(k0, x.payload)
        BY <4>3 DEF Known
      <4>5. KeyOf[r] = k0 /\ x.payload = q
        BY <3>1, <3>4
      <4> QED BY <2>1, <2>2, <4>4, <4>5 DEF LostInv, AgeInv, Brought
    <3> QED BY <3>2, <3>3, <3>4
  <2> QED BY <2>1, <2>3, <2>4 DEF OnItsWay
<1>9. ~Doomed' => \A r \in CurrentRows' : Brought(r)' \/ Coming(r)' \/ Ahead(r)'
  <2>1. Doomed' <=> Doomed
    BY <1>3 DEF Doomed
  <2> QED BY <1>3, <1>7, <1>8, <2>1, GoesOn DEF LostInv
<1>10. RunInv'
  BY <1>3, <1>9 DEF LostInv, RunInv
<1> QED BY <1>7, <1>10 DEF LostInv

(* The row at the head is done with: the rest is still coming.               *)
LEMMA HeadIsDone ==
  ASSUME TypeOK, NEW age, LostInv(age), UNCHANGED <<src, dest, todo>>,
         pend # <<>>, pend' = Tail(pend),
         \A k \in Keys, q \in Payloads : k = pd.key /\ q = pd.payload => Known(k, q)
  PROVE  \A r \in CurrentRows : Coming(r) => Coming(r)' \/ Brought(r)
<1> SUFFICES ASSUME NEW r \in CurrentRows, Coming(r), ~Brought(r) PROVE Coming(r)'
  OBVIOUS
<1>1. PICK q \in Payloads : q = src[r].payload /\ OnItsWay(KeyOf[r], q)
  BY DEF Coming
<1>2. r \in Rows /\ KeyOf[r] # NoKey /\ KeyOf[r] \in Keys
  BY ConstantTypes DEF CurrentRows
<1>3. ~Known(KeyOf[r], q)
  BY <1>1, <1>2 DEF LostInv, AgeInv, Brought
<1>4. Waits(KeyOf[r], q) => Waits(KeyOf[r], q)'
  BY <1>2, <1>3, TailWaits DEF TypeOK, RunTypes
<1> QED BY <1>1, <1>4 DEF Coming, OnItsWay, ComesIn

(* A head that lands, and may be marked: known and present content become    *)
(* what was on its way.                                                     *)
LEMMA HeadLands ==
  ASSUME NEW age, Onward(age), TypeOK, LostInv(age),
         NEW k0 \in Keys, NEW q0 \in Payloads, NEW action \in DeliveryActions,
         Waits(k0, q0), OneRowEach,
         UNCHANGED <<src, clock, history, es, log, todo, maxWm, pend>>,
         dest' = [dest EXCEPT ![k0] = q0],
         batch' \subseteq batch \cup {OpKey(k0, action, Fp[q0])}
  PROVE  /\ StampInv' /\ AgeInv(age)' /\ PassedInv'
         /\ \A r \in Rows : (Later(r)' <=> Later(r)) /\ (Ahead(r)' <=> Ahead(r))
         /\ \A r \in CurrentRows : Brought(r) => Brought(r)' \/ Ahead(r)'
<1>1. \A r \in Rows : (Later(r)' <=> Later(r)) /\ (Ahead(r)' <=> Ahead(r))
  BY DEF Later, Ahead
<1>2. StampInv'
  BY DEF LostInv, StampInv
<1>3. \A k \in Keys, q \in Payloads : OnItsWay(k, q)' <=> OnItsWay(k, q)
  BY DEF OnItsWay, ComesIn, Waits
<1>4. ASSUME NEW k \in Keys, NEW q \in Payloads, Known(k, q)'
      PROVE  Known(k, q) \/ (k = k0 /\ age[q] = age[q0] /\ Fp[q] = Fp[q0])
  BY <1>4 DEF Known, Logged, OpKey, Onward
<1>5. OnItsWay(k0, q0)
  BY DEF OnItsWay
<1>6. \A q \in Payloads \cup {None} : age[q] \in Nat
  BY DEF Onward
<1>7. /\ dest \in [Keys -> Payloads \cup {None, Blank}]
      /\ \A r \in Rows : src[r].payload \in Payloads \cup {None} /\ src[r].stamp \in Nat
      /\ \A i \in DOMAIN history : history[i].wm \in Nat
  <2>1. history \in Seq(RunLog)
    BY DEF TypeOK, StoreTypes
  <2>2. \A i \in DOMAIN history : history[i] \in RunLog
    BY <2>1, ElementOfSeq, LenProperties
  <2> QED BY <2>2 DEF TypeOK, RunLog
<1>8. dest'[k0] = q0 /\ \A k \in Keys : k # k0 => dest'[k] = dest[k]
  BY <1>7
<1>9. ASSUME NEW r \in Rows, KeyOf[r] # NoKey
      PROVE  /\ \A q \in Payloads : OnItsWay(KeyOf[r], q)' =>
                  \/ q = src[r].payload
                  \/ age[q] < age[src[r].payload] /\ Later(r)'
             /\ \A q, s \in Payloads : OnItsWay(KeyOf[r], q)' /\ OnItsWay(KeyOf[r], s)' => q = s
             /\ \A s \in Payloads : Known(KeyOf[r], s)' =>
                  /\ age[s] <= age[src[r].payload]
                  /\ \A q \in Payloads : OnItsWay(KeyOf[r], q)' => age[s] <= age[q]
                  /\ s = src[r].payload => dest'[KeyOf[r]] = s
  <2>1. KeyOf[r] \in Keys
    BY <1>9, ConstantTypes
  <2>2. /\ \A q \in Payloads : OnItsWay(KeyOf[r], q) =>
             \/ q = src[r].payload
             \/ age[q] < age[src[r].payload] /\ Later(r)
        /\ \A q, s \in Payloads : OnItsWay(KeyOf[r], q) /\ OnItsWay(KeyOf[r], s) => q = s
        /\ \A s \in Payloads : Known(KeyOf[r], s) =>
             /\ age[s] <= age[src[r].payload]
             /\ \A q \in Payloads : OnItsWay(KeyOf[r], q) => age[s] <= age[q]
             /\ s = src[r].payload => dest[KeyOf[r]] = s
    BY <1>9 DEF LostInv, AgeInv
  <2>3. ASSUME NEW s \in Payloads, Known(KeyOf[r], s)'
        PROVE  /\ age[s] <= age[src[r].payload]
               /\ \A q \in Payloads : OnItsWay(KeyOf[r], q)' => age[s] <= age[q]
               /\ s = src[r].payload => dest'[KeyOf[r]] = s
    <3>1. CASE KeyOf[r] # k0
      BY <1>3, <1>4, <1>8, <2>1, <2>2, <2>3, <3>1
    <3>2. CASE KeyOf[r] = k0
      <4>1. /\ age[s] \in Nat /\ age[q0] \in Nat /\ age[src[r].payload] \in Nat
        BY <1>6, <1>7
      <4>2. age[q0] <= age[src[r].payload]
        BY <1>5, <2>2, <3>2, <4>1
      <4>3. age[s] <= age[q0]
        BY <1>4, <1>5, <2>1, <2>2, <2>3, <3>2, <4>1
      <4>4. \A q \in Payloads : OnItsWay(KeyOf[r], q)' => q = q0
        BY <1>3, <1>5, <2>1, <2>2, <3>2
      <4>5. s = src[r].payload => q0 = s
        BY <1>5, <2>2, <3>2, <4>1, <4>3
      <4> QED BY <1>8, <3>2, <4>1, <4>2, <4>3, <4>4, <4>5
    <3> QED BY <3>1, <3>2
  <2> QED BY <1>1, <1>3, <2>1, <2>2, <2>3
<1>10. AgeInv(age)'
  BY <1>9 DEF AgeInv
<1>11. ASSUME NEW r \in CurrentRows, Brought(r)
       PROVE  Brought(r)' \/ Later(r)'
  <2>1. r \in Rows /\ KeyOf[r] # NoKey /\ KeyOf[r] \in Keys
    BY ConstantTypes DEF CurrentRows
  <2>2. CASE KeyOf[r] # k0
    BY <1>8, <1>11, <2>1, <2>2 DEF Brought
  <2>3. CASE KeyOf[r] = k0
    <3>1. q0 = src[r].payload \/ Later(r)
      BY <1>5, <2>1, <2>3 DEF LostInv, AgeInv
    <3> QED BY <1>1, <1>8, <2>1, <2>3, <3>1 DEF Brought
  <2> QED BY <2>2, <2>3
<1>12. PassedInv'
  <2> SUFFICES ASSUME NEW i \in DOMAIN history, history[i].status = "success",
                      NEW r \in CurrentRows, src[r].stamp <= history[i].wm
               PROVE  Brought(r)'
    BY DEF PassedInv, CurrentRows
  <2>1. Brought(r) /\ r \in Rows
    BY DEF LostInv, PassedInv, CurrentRows
  <2>2. ~Later(r)
    BY <1>7, <2>1 DEF Later
  <2> QED BY <1>1, <1>11, <2>1, <2>2
<1>13. \A r \in CurrentRows : Later(r)' => Ahead(r)'
  BY DEF Later, Ahead
<1> QED BY <1>1, <1>2, <1>10, <1>11, <1>12, <1>13

LEMMA DeliverRowBrings ==
  ASSUME KeepsUp, NEW age, Onward(age), TypeOK, LostInv(age), DeliverRow
  PROVE  LostInv(age)'
<1>1. PICK o \in LoadOutcomes(opKey) :
        /\ Load(pd.key, opKey, pd.payload, pd.payload, {"rowErr", "fatal"}, o)
        /\ pc' = AfterLoad(o.kind)
        /\ pend' = IF AfterLoad(o.kind) = "deliver" THEN Tail(pend) ELSE pend
        /\ firstErr' = (firstErr \/ (o.kind = "fatal" /\ ~DlqOn /\ ~OnErrorSkip))
  BY DEF DeliverRow
<1>2. /\ UNCHANGED <<src, clock, history, es, log, todo, maxWm, dryRun, extractErr, status>>
      /\ pc = "deliver" /\ pend # <<>> /\ ~cancelled /\ ~dryRun
  BY DEF DeliverRow, Delivering, sourceVars, extractVars, LostInv, RunInv
<1>3. PICK k0 \in Keys, q0 \in Payloads, action \in DeliveryActions :
        k0 = pd.key /\ q0 = pd.payload /\ action = pd.action
  BY <1>2, HeadType DEF TypeOK, RunTypes
<1>4. opKey = OpKey(k0, action, Fp[q0])
  BY <1>3 DEF opKey
<1>5. /\ dest' = IF o.landed THEN [dest EXCEPT ![k0] = q0] ELSE dest
      /\ batch' = IF o.marked THEN batch \cup {OpKey(k0, action, Fp[q0])} ELSE batch
      /\ cancelled' = (cancelled \/ o.cancels)
  BY <1>1, <1>3, <1>4 DEF Load
<1>6. \/ /\ o.kind = "skipped" /\ ~o.landed /\ ~o.marked /\ ~o.cancels
         /\ OpKey(k0, action, Fp[q0]) \in log \cup batch
      \/ o.kind = "loaded" /\ o.landed /\ o.marked /\ ~o.cancels
      \/ o.kind \in {"rowErr", "fatal"} /\ o.cancels /\ (o.marked => o.landed)
  BY <1>1, <1>2, <1>4, KeepsUpOutcomes
<1>7. Waits(k0, q0)
  <2>1. pend \in Seq(Pending)
    BY DEF TypeOK, RunTypes
  <2>2. 1 \in DOMAIN pend /\ pd = pend[1]
    BY <1>2, <2>1, LenProperties, HeadTailProperties, EmptySeq DEF pd
  <2> QED BY <1>3, <2>2 DEF Waits
<1>8. CASE o.kind = "skipped"
  <2>1. UNCHANGED <<dest, batch, cancelled>>
    BY <1>5, <1>6, <1>8 DEF TypeOK, RunTypes
  <2>2. pc' = "deliver" /\ pend' = Tail(pend) /\ firstErr' = firstErr
    BY <1>1, <1>8 DEF AfterLoad, TypeOK, RunTypes
  <2>3. Known(k0, q0)
    BY <1>6, <1>8 DEF Known, Logged
  <2>4. \A k \in Keys, q \in Payloads : /\ OnItsWay(k, q)' => OnItsWay(k, q)
                                        /\ Known(k, q)' => Known(k, q)
    BY <1>2, <2>1, <2>2, TailWaits DEF OnItsWay, ComesIn, Known, Logged, TypeOK, RunTypes
  <2>5. /\ StampInv' /\ AgeInv(age)' /\ PassedInv'
        /\ \A r \in Rows : (Later(r) => Later(r)') /\ (Ahead(r) => Ahead(r)')
    BY <1>2, <2>1, <2>4, NothingNew DEF LostInv
  <2>6. \A r \in CurrentRows : Coming(r) => Coming(r)' \/ Brought(r)
    BY <1>2, <1>3, <2>1, <2>2, <2>3, HeadIsDone
  <2>7. Doomed' <=> Doomed
    BY <1>2, <2>1, <2>2 DEF Doomed
  <2>8. ~Doomed' => \A r \in CurrentRows' : Brought(r)' \/ Coming(r)' \/ Ahead(r)'
    BY <1>2, <2>1, <2>5, <2>6, <2>7, GoesOn DEF LostInv
  <2> QED BY <1>2, <2>1, <2>2, <2>5, <2>8 DEF LostInv, RunInv
<1>9. CASE o.kind # "skipped"
  <2>1. pend' = pend /\ pc' \in {"saveOk", "saveErr"} /\ (pc' = "saveErr" => cancelled')
        /\ (pc' = "saveOk" => o.marked /\ ~o.cancels)
    BY <1>1, <1>2, <1>5, <1>6, <1>9 DEF AfterLoad
  <2>2. /\ StampInv' /\ AgeInv(age)' /\ PassedInv'
        /\ \A r \in Rows : (Later(r) => Later(r)') /\ (Ahead(r) => Ahead(r)')
        /\ \A r \in CurrentRows : Brought(r) => Brought(r)' \/ Ahead(r)'
    <3>1. CASE o.landed
      <4>1. dest' = [dest EXCEPT ![k0] = q0]
            /\ batch' \subseteq batch \cup {OpKey(k0, action, Fp[q0])}
        BY <1>5, <3>1
      <4> QED BY <1>2, <1>7, <2>1, <4>1, HeadLands DEF KeepsUp
    <3>2. CASE ~o.landed
      <4>1. UNCHANGED <<dest, batch>>
        BY <1>5, <1>6, <1>9, <3>2
      <4>2. \A k \in Keys, q \in Payloads : /\ OnItsWay(k, q)' => OnItsWay(k, q)
                                            /\ Known(k, q)' => Known(k, q)
        BY <1>2, <2>1, <4>1 DEF OnItsWay, ComesIn, Waits, Known, Logged
      <4>3. /\ StampInv' /\ AgeInv(age)' /\ PassedInv'
            /\ \A r \in Rows : (Later(r) => Later(r)') /\ (Ahead(r) => Ahead(r)')
        BY <1>2, <4>1, <4>2, NothingNew DEF LostInv
      <4> QED BY <1>2, <4>1, <4>3 DEF Brought
    <3> QED BY <3>1, <3>2
  <2>3. \A r \in CurrentRows : Coming(r) => Coming(r)'
    BY <1>2, <2>1 DEF Coming, OnItsWay, ComesIn, Waits
  <2>4. ~Doomed' => \A r \in CurrentRows' : Brought(r)' \/ Coming(r)' \/ Ahead(r)'
    <3> SUFFICES ASSUME ~Doomed', NEW r \in CurrentRows' PROVE Brought(r)' \/ Coming(r)' \/ Ahead(r)'
      OBVIOUS
    <3>1. r \in CurrentRows /\ r \in Rows
      BY <1>2 DEF CurrentRows
    <3>2. ~Doomed
      BY <1>1, <1>2, <1>5, <2>1 DEF Doomed
    <3>3. Brought(r) \/ Coming(r) \/ Ahead(r)
      BY <1>2, <3>1, <3>2 DEF LostInv, RunInv
    <3> QED BY <2>2, <2>3, <3>1, <3>3
  <2>5. pc' = "saveOk" => \A k \in Keys, q \in Payloads : k = pd'.key /\ q = pd'.payload => Logged(k, q)'
    <3>1. pc' = "saveOk" => OpKey(k0, action, Fp[q0]) \in batch'
      BY <1>5, <2>1
    <3>2. pd' = pd
      BY <2>1 DEF pd
    <3> QED BY <1>3, <3>1, <3>2 DEF Logged
  <2> QED BY <1>2, <2>1, <2>2, <2>4, <2>5 DEF LostInv, RunInv
<1> QED BY <1>8, <1>9

(* After a Load: the save of the state, the mark of the rule.                *)
LEMMA SavesBring ==
  ASSUME KeepsUp, NEW age, TypeOK, LostInv(age), SaveDelivered \/ MarkRuleFired \/ SaveFailed
  PROVE  LostInv(age)'
<1>1. /\ UNCHANGED <<src, clock, dest, history, log, batch, todo, maxWm, dryRun, cancelled,
                     extractErr, firstErr, status>>
      /\ pc \in {"saveOk", "mark", "saveErr"} /\ pend # <<>>
  BY DEF SaveDelivered, MarkRuleFired, SaveFailed, sourceVars, storeVars, extractVars, outcomeVars,
     TypeOK, PhaseFacts
<1>2. PICK k0 \in Keys, q0 \in Payloads : k0 = pd.key /\ q0 = pd.payload
  BY <1>1, HeadType DEF TypeOK, RunTypes
<1>3. pc # "saveErr" => Logged(k0, q0)
  BY <1>1, <1>2 DEF LostInv, RunInv
<1>4. \/ es' = es
      \/ pc # "saveErr" /\ \E state : state.fp = Fp[q0] /\ es' = [es EXCEPT ![k0] = state]
  <2>1. CASE SaveDelivered
    BY <1>2, <2>1 DEF SaveDelivered, SaveEntityState, BuildEntityState
  <2>2. CASE MarkRuleFired
    BY <2>2 DEF MarkRuleFired
  <2>3. CASE SaveFailed
    BY <2>3 DEF SaveFailed, SaveEntityState, LostInv, RunInv
  <2> QED BY <2>1, <2>2, <2>3
<1>5. ASSUME NEW k \in Keys, NEW q \in Payloads PROVE Known(k, q)' => Known(k, q)
  <2>1. Logged(k, q)' <=> Logged(k, q)
    BY <1>1 DEF Logged
  <2>2. ASSUME es'[k] # None, es'[k].fp = Fp[q] PROVE Known(k, q)
    <3>1. CASE es' = es
      BY <2>2, <3>1 DEF Known
    <3>2. CASE es' # es
      <4>1. PICK state : state.fp = Fp[q0] /\ es' = [es EXCEPT ![k0] = state]
        BY <1>4, <3>2
      <4>2. CASE k = k0
        <5>1. Fp[q] = Fp[q0]
          BY <2>2, <4>1, <4>2 DEF TypeOK, StoreTypes
        <5> QED BY <1>3, <1>4, <3>2, <4>2, <5>1 DEF Known, Logged
      <4>3. CASE k # k0
        BY <2>2, <4>1, <4>3 DEF Known, TypeOK, StoreTypes
      <4> QED BY <4>2, <4>3
    <3> QED BY <3>1, <3>2
  <2> QED BY <2>1, <2>2 DEF Known
<1>6. \/ pend' = pend /\ pc = "saveOk" /\ pc' = "mark"
      \/ pend' = Tail(pend) /\ pc' = "deliver"
  BY DEF SaveDelivered, MarkRuleFired, SaveFailed
<1>7. \A k \in Keys, q \in Payloads : OnItsWay(k, q)' => OnItsWay(k, q)
  <2>1. CASE pend' = pend
    BY <1>1, <2>1 DEF OnItsWay, ComesIn, Waits
  <2>2. CASE pend' = Tail(pend)
    BY <1>1, <2>2, TailWaits DEF OnItsWay, ComesIn, TypeOK, RunTypes
  <2> QED BY <1>6, <2>1, <2>2
<1>8. /\ StampInv' /\ AgeInv(age)' /\ PassedInv'
      /\ \A r \in Rows : (Later(r) => Later(r)') /\ (Ahead(r) => Ahead(r)')
  BY <1>1, <1>5, <1>7, NothingNew DEF LostInv
<1>9. ~Doomed => \A r \in CurrentRows : Coming(r) => Coming(r)' \/ Brought(r)
  <2>1. CASE pend' = pend
    BY <1>1, <2>1 DEF Coming, OnItsWay, ComesIn, Waits
  <2>2. CASE pend' = Tail(pend)
    <3>1. ~Doomed => pc # "saveErr"
      BY <1>1 DEF LostInv, RunInv, Doomed
    <3>2. ~Doomed => \A k \in Keys, q \in Payloads : k = pd.key /\ q = pd.payload => Known(k, q)
      BY <1>2, <1>3, <3>1 DEF Known
    <3> QED BY <1>1, <2>2, <3>2, HeadIsDone
  <2> QED BY <1>6, <2>1, <2>2
<1>10. ~Doomed' => \A r \in CurrentRows' : Brought(r)' \/ Coming(r)' \/ Ahead(r)'
  <2>1. ~Doomed' => ~Doomed
    BY <1>1, <1>6 DEF Doomed
  <2> QED BY <1>1, <1>8, <1>9, <2>1, GoesOn DEF LostInv
<1>11. pc' = "mark" => \A k \in Keys, q \in Payloads : k = pd'.key /\ q = pd'.payload => Logged(k, q)'
  <2>1. pc' = "mark" => pd' = pd
    BY <1>6 DEF pd
  <2> QED BY <1>1, <1>2, <1>3, <1>6, <2>1 DEF Logged
<1>12. RunInv'
  BY <1>1, <1>6, <1>10, <1>11 DEF LostInv, RunInv
<1> QED BY <1>8, <1>12 DEF LostInv

(* The end of the extraction, the gate, the end of the deliveries, the sweep   *)
(* that only counts, the commit: they bring nothing and forget at most.       *)
LEMMA PhasesBring ==
  ASSUME KeepsUp, NEW age, TypeOK, OrderInv, LostInv(age),
         \/ RejectRow \/ EndExtract \/ GateBlock \/ GatePass \/ EndDelivery \/ EndSweep
         \/ Commit \/ Cancel \/ \E k \in Keys : CountMissing(k)
  PROVE  LostInv(age)'
<1>1. /\ UNCHANGED <<src, clock, dest, history, dryRun>> /\ pc # "idle"
      /\ log' \cup batch' \subseteq log \cup batch
  <2>1. CASE RejectRow \/ EndExtract \/ GateBlock \/ GatePass
    BY <2>1 DEF RejectRow, Receive, EndExtract, GateBlock, GatePass, sourceVars, storeVars
  <2>2. CASE EndDelivery \/ EndSweep \/ Commit
    BY <2>2 DEF EndDelivery, EndSweep, Commit, sourceVars, storeVars
  <2>3. CASE Cancel \/ \E k \in Keys : CountMissing(k)
    BY <2>3 DEF Cancel, CountMissing, sourceVars, storeVars
  <2> QED BY <2>1, <2>2, <2>3
<1>2. /\ todo' \subseteq todo
      /\ maxWm' \in {0, maxWm} \/ \E x \in todo : maxWm' = x.stamp
  BY DEF RejectRow, Receive, EndExtract, GateBlock, GatePass, EndDelivery, EndSweep, Commit, Cancel,
     CountMissing, extractVars
<1>3. pend' = pend \/ (pend' = <<>> /\ pc = "deliver" /\ (pend = <<>> \/ cancelled))
  BY DEF RejectRow, EndExtract, GateBlock, GatePass, EndDelivery, EndSweep, Commit, Cancel,
     CountMissing
<1>4. \/ es' = es
      \/ \E k \in Keys : /\ es[k] # None
                         /\ es' = [es EXCEPT ![k] = [es[k] EXCEPT !.missing = Missed(k)]]
  <2>1. ASSUME NEW k \in Keys, CountMissing(k)
        PROVE  es[k] # None /\ (es' = es \/ es' = [es EXCEPT ![k] = [es[k] EXCEPT !.missing = Missed(k)]])
    BY <2>1 DEF CountMissing, SaveEntityState, TypeOK, PhaseFacts
  <2> QED BY <2>1 DEF RejectRow, EndExtract, GateBlock, GatePass, EndDelivery, EndSweep, Commit,
       Cancel, storeVars
<1>5. ASSUME NEW k \in Keys, NEW q \in Payloads
      PROVE  (OnItsWay(k, q)' => OnItsWay(k, q)) /\ (Known(k, q)' => Known(k, q))
  <2>1. OnItsWay(k, q)' => OnItsWay(k, q)
    BY <1>2, <1>3 DEF OnItsWay, ComesIn, Waits
  <2>2. Logged(k, q)' => Logged(k, q)
    BY <1>1 DEF Logged
  <2>3. es'[k] # None => es[k] # None /\ es'[k].fp = es[k].fp
    <3>1. CASE es' = es
      BY <3>1
    <3>2. CASE es' # es
      <4>1. PICK j \in Keys : /\ es[j] # None
                              /\ es' = [es EXCEPT ![j] = [es[j] EXCEPT !.missing = Missed(j)]]
        BY <1>4, <3>2
      <4>2. es[j] \in EntityState
        BY <4>1 DEF TypeOK, StoreTypes
      <4>3. [es[j] EXCEPT !.missing = Missed(j)].fp = es[j].fp
        BY <4>2 DEF EntityState
      <4> QED BY <4>1, <4>3 DEF TypeOK, StoreTypes
    <3> QED BY <3>1, <3>2
  <2> QED BY <2>1, <2>2, <2>3 DEF Known
<1>6. /\ StampInv' /\ AgeInv(age)' /\ PassedInv'
      /\ \A r \in Rows : (Later(r) => Later(r)') /\ (Ahead(r) => Ahead(r)')
  BY <1>1, <1>2, <1>5, NothingNew DEF LostInv
<1>7. ~Doomed' => ~Doomed
  <2>1. CASE Commit
    BY <2>1 DEF Commit, Doomed
  <2>2. CASE GateBlock
    BY <2>2 DEF GateBlock, Doomed
  <2>3. CASE Cancel
    BY <2>3 DEF Cancel, Doomed
  <2>4. CASE RejectRow \/ GatePass \/ EndDelivery \/ EndSweep \/ \E k \in Keys : CountMissing(k)
    <3>1. UNCHANGED outcomeVars /\ pc # "finish" /\ pc' # "finish"
      BY <2>4 DEF RejectRow, Receive, GatePass, EndDelivery, EndSweep, CountMissing
    <3> QED BY <3>1 DEF Doomed, outcomeVars
  <2>5. CASE EndExtract
    BY <2>5 DEF EndExtract, Doomed
  <2> QED BY <2>1, <2>2, <2>3, <2>4, <2>5
<1>8. ~Doomed' => \A r \in CurrentRows : Coming(r) => Coming(r)' \/ Ahead(r)'
  <2>1. CASE RejectRow
    <3>1. PICK x \in todo : Receive(x) /\ ~Deliverable(x)
      BY <2>1 DEF RejectRow
    <3>2. todo' = todo \ {x} /\ pend' = pend
      BY <2>1, <3>1 DEF RejectRow, Receive
    <3>3. ASSUME NEW r \in CurrentRows, NEW y \in todo, KeyOf[y.row] = KeyOf[r], y.payload = src[r].payload
          PROVE  y # x
      BY <3>1, <3>3 DEF Deliverable, CurrentRows
    <3> QED BY <1>1, <3>2, <3>3 DEF Coming, OnItsWay, ComesIn, Waits
  <2>2. CASE EndExtract
    <3>1. \/ ~Doomed' => todo' = todo
          \/ "timeout" \in Faults /\ todo' = {} /\ maxWm' = maxWm
      BY <2>2 DEF EndExtract, Doomed, Fault
    <3>2. CASE ~Doomed' => todo' = todo
      BY <1>1, <2>2, <3>2 DEF EndExtract, Coming, OnItsWay, ComesIn, Waits
    <3>3. CASE "timeout" \in Faults /\ todo' = {} /\ maxWm' = maxWm
      <4> SUFFICES ASSUME NEW r \in CurrentRows, Coming(r) PROVE Coming(r)' \/ Ahead(r)'
        OBVIOUS
      <4>1. PICK q \in Payloads : q = src[r].payload /\ OnItsWay(KeyOf[r], q)
        BY DEF Coming
      <4>2. CASE Waits(KeyOf[r], q)
        BY <1>1, <2>2, <4>1, <4>2 DEF EndExtract, Coming, OnItsWay, Waits
      <4>3. CASE ComesIn(KeyOf[r], q)
        <5>1. PICK x \in todo : KeyOf[x.row] = KeyOf[r]
          BY <4>3 DEF ComesIn
        <5>2. r \in Rows /\ x.row \in Rows /\ x.stamp \in Nat /\ KeyOf[r] # NoKey
          BY <5>1 DEF TypeOK, ExtractTypes, CurrentRows
        <5>3. x.row = r
          BY <5>1, <5>2 DEF KeepsUp, OneRowEach
        <5>4. maxWm < x.stamp /\ x.stamp <= src[r].stamp
          BY <3>3, <5>1, <5>3 DEF OrderInv
        <5>5. maxWm \in Nat /\ src[r].stamp \in Nat
          BY <5>2 DEF TypeOK, ExtractTypes
        <5> QED BY <1>1, <3>3, <5>2, <5>4, <5>5 DEF Ahead
      <4> QED BY <4>1, <4>2, <4>3 DEF OnItsWay
    <3> QED BY <3>1, <3>2, <3>3
  <2>3. CASE EndDelivery
    <3>1. ~Doomed' => pend' = pend
      BY <2>3 DEF EndDelivery, Doomed, outcomeVars
    <3> QED BY <1>1, <2>3, <3>1 DEF EndDelivery, extractVars, Coming, OnItsWay, ComesIn, Waits
  <2>4. CASE ~(RejectRow \/ EndExtract \/ EndDelivery)
    <3>1. todo' = todo /\ pend' = pend
      BY <2>4 DEF GateBlock, GatePass, EndSweep, Commit, Cancel, CountMissing, extractVars
    <3> QED BY <1>1, <3>1 DEF Coming, OnItsWay, ComesIn, Waits
  <2> QED BY <2>1, <2>2, <2>3, <2>4
<1>9. ~Doomed' => \A r \in CurrentRows' : Brought(r)' \/ Coming(r)' \/ Ahead(r)'
  <2> SUFFICES ASSUME ~Doomed', NEW r \in CurrentRows' PROVE Brought(r)' \/ Coming(r)' \/ Ahead(r)'
    OBVIOUS
  <2>1. r \in CurrentRows /\ r \in Rows /\ (Brought(r) => Brought(r)')
    BY <1>1 DEF CurrentRows, Brought
  <2>2. Brought(r) \/ Coming(r) \/ Ahead(r)
    BY <1>1, <1>7, <2>1 DEF LostInv, RunInv
  <2> QED BY <1>6, <1>8, <2>1, <2>2
<1>10. /\ pc' = pc /\ UNCHANGED <<pend, todo, log, batch>> /\ (cancelled => cancelled')
       \/ pc' \in {"extract", "gate", "deliver", "sweep", "commit", "finish"}
  BY DEF RejectRow, Receive, EndExtract, GateBlock, GatePass, EndDelivery, EndSweep, Commit, Cancel,
     CountMissing, storeVars, extractVars
<1>11. /\ pc' # "extract" => todo' = {}
       /\ pc' \in {"sweep", "commit"} \/ (pc' = "finish" /\ ~Doomed') => pend' = <<>>
  <2>1. CASE RejectRow
    BY <2>1 DEF RejectRow, Receive
  <2>2. CASE EndExtract
    BY <2>2 DEF EndExtract
  <2>3. CASE GateBlock \/ GatePass
    BY <2>3 DEF GateBlock, GatePass, extractVars, LostInv, RunInv, Doomed
  <2>4. CASE EndDelivery
    BY <2>4 DEF EndDelivery, extractVars, LostInv, RunInv
  <2>5. CASE EndSweep \/ Commit \/ \E k \in Keys : CountMissing(k)
    BY <2>5 DEF EndSweep, Commit, CountMissing, extractVars, LostInv, RunInv
  <2>6. CASE Cancel
    BY <1>7, <2>6 DEF Cancel, extractVars, LostInv, RunInv
  <2> QED BY <2>1, <2>2, <2>3, <2>4, <2>5, <2>6
<1>12. pc' \in {"saveOk", "mark"} =>
         \A k \in Keys, q \in Payloads : k = pd'.key /\ q = pd'.payload => Logged(k, q)'
  <2>1. pc' \in {"saveOk", "mark"} => pd' = pd /\ pc' = pc /\ UNCHANGED <<log, batch>>
    BY <1>10 DEF pd
  <2> QED BY <2>1 DEF LostInv, RunInv, Logged
<1>13. RunInv'
  BY <1>1, <1>9, <1>10, <1>11, <1>12 DEF LostInv, RunInv
<1> QED BY <1>6, <1>13 DEF LostInv

(* The start of a run takes up everything no success has passed.              *)
LEMMA BeginRunBrings ==
  ASSUME KeepsUp, NEW age, Onward(age), TypeOK, LostInv(age),
         NEW dry \in DryModes, NEW approved \in Approvals \cup {None}, BeginRun(dry, approved)
  PROVE  LostInv(age)'
<1>1. /\ UNCHANGED <<src, clock, dest, es, log>> /\ pc' = "extract" /\ dryRun' = FALSE
      /\ maxWm' = 0 /\ pend' = <<>> /\ batch' = {} /\ history' = Started(history)
      /\ pc = "idle"
  BY DEF BeginRun, sourceVars, KeepsUp
<1>2. PICK wm : /\ todo' = Extraction(wm)
                /\ wm = 0 \/ wm = LastWatermark(history')
  BY DEF BeginRun, KeepsUp
<1>3. /\ history \in Seq(RunLog) /\ Started(history) \in Seq(RunLog) /\ clock \in Nat
      /\ \A r \in Rows : src[r].payload \in Payloads \cup {None} /\ src[r].stamp \in Nat
  BY StartedType DEF TypeOK, StoreTypes
<1>4. \A x \in todo' : /\ x.row \in Rows /\ x.payload = src[x.row].payload
                       /\ x.stamp = src[x.row].stamp
  BY <1>2 DEF Extraction
<1>5. ASSUME NEW i \in DOMAIN history'
      PROVE  \/ history'[i].status = "running" /\ history'[i].wm = 0
             \/ \E j \in DOMAIN history : history'[i] = history[j]
  <2>1. \/ Started(history)[i] = [status |-> "running", wm |-> 0]
        \/ \E j \in DOMAIN history : Started(history)[i] = history[j]
    BY <1>1, <1>3, StartedIs
  <2> QED BY <1>1, <2>1
<1>6. StampInv'
  <2>1. \A r \in Rows : src'[r].stamp > 0 /\ src'[r].stamp <= clock'
    BY <1>1 DEF LostInv, StampInv
  <2>2. \A x \in todo' : x.stamp <= clock'
    BY <1>1, <1>4, <2>1
  <2>3. \A i \in DOMAIN history' : history'[i].wm <= clock'
    BY <1>1, <1>3, <1>5 DEF LostInv, StampInv
  <2> QED BY <1>1, <1>3, <2>1, <2>2, <2>3 DEF StampInv
<1>7. ASSUME NEW r \in Rows, KeyOf[r] # NoKey, NEW q \in Payloads, OnItsWay(KeyOf[r], q)'
      PROVE  q = src[r].payload
  <2>1. ~Waits(KeyOf[r], q)'
    BY <1>1 DEF Waits
  <2>2. PICK x \in todo' : KeyOf[x.row] = KeyOf[r] /\ x.payload = q
    BY <1>7, <2>1 DEF OnItsWay, ComesIn
  <2>3. x.row = r
    BY <1>4, <1>7, <2>2 DEF KeepsUp, OneRowEach
  <2> QED BY <1>4, <2>2, <2>3
<1>8. \A k \in Keys, s \in Payloads : Known(k, s)' => Known(k, s)
  BY <1>1 DEF Known, Logged
<1>9. AgeInv(age)'
  <2>1. ASSUME NEW r \in Rows, KeyOf[r] # NoKey, NEW s \in Payloads, Known(KeyOf[r], s)'
        PROVE  /\ age[s] <= age[src[r].payload]
               /\ s = src[r].payload => dest[KeyOf[r]] = s
    <3>1. KeyOf[r] \in Keys
      BY <2>1, ConstantTypes
    <3> QED BY <1>8, <2>1, <3>1 DEF LostInv, AgeInv
  <2> QED BY <1>1, <1>7, <2>1 DEF AgeInv
<1>10. PassedInv'
  <2> SUFFICES ASSUME NEW i \in DOMAIN history', history'[i].status = "success",
                      NEW r \in CurrentRows', src'[r].stamp <= history'[i].wm
               PROVE  Brought(r)'
    BY DEF PassedInv
  <2>1. PICK j \in DOMAIN history : history'[i] = history[j]
    BY <1>5
  <2>2. r \in CurrentRows
    BY <1>1 DEF CurrentRows
  <2> QED BY <1>1, <2>1, <2>2 DEF LostInv, PassedInv, Brought
<1>11. ASSUME NEW r \in CurrentRows' PROVE Brought(r)' \/ Coming(r)'
  <2>1. r \in Rows /\ src[r].payload \in Payloads /\ src[r].payload # None
    BY <1>1, <1>3 DEF CurrentRows
  <2>2. CASE wm > 0 => src[r].stamp > wm
    <3> DEFINE x == [row |-> r, payload |-> src[r].payload, stamp |-> src[r].stamp]
    <3>1. x \in todo'
      BY <1>2, <2>1, <2>2 DEF Extraction
    <3>2. x.row = r /\ x.payload = src[r].payload
      OBVIOUS
    <3> HIDE DEF x
    <3>4. \E q \in Payloads : q = src'[r].payload /\ OnItsWay(KeyOf[r], q)'
      <4>1. PICK q \in Payloads : q = src[r].payload
        BY <2>1
      <4>2. ComesIn(KeyOf[r], q)'
        BY <3>1, <3>2, <4>1 DEF ComesIn
      <4> QED BY <1>1, <4>1, <4>2 DEF OnItsWay
    <3> QED BY <3>4 DEF Coming
  <2>3. CASE ~(wm > 0 => src[r].stamp > wm)
    <3>1. wm = LastWatermark(Started(history)) /\ wm # 0
      BY <1>1, <1>2, <2>3
    <3>2. PICK i \in DOMAIN Started(history) :
            Started(history)[i].status = "success" /\ Started(history)[i].wm = wm
      BY <1>3, <3>1, LastWatermarkIs
    <3>3. i \in DOMAIN history' /\ history'[i].status = "success" /\ history'[i].wm = wm
      BY <1>1, <3>2
    <3>4. wm \in Nat
      <4>1. Started(history)[i] \in RunLog
        BY <1>3, <3>2, ElementOfSeq, LenProperties
      <4> QED BY <3>2, <4>1 DEF RunLog
    <3>5. src'[r].stamp <= history'[i].wm
      BY <1>1, <1>3, <2>1, <2>3, <3>3, <3>4
    <3> QED BY <1>10, <3>3, <3>5 DEF PassedInv
  <2> QED BY <2>2, <2>3
<1>12. RunInv'
  BY <1>1, <1>11 DEF RunInv
<1> QED BY <1>6, <1>9, <1>10, <1>12 DEF LostInv

(* The end of a run: what it has not brought by then changed after it began.  *)
LEMMA FinishRunBrings ==
  ASSUME NEW age, TypeOK, LostInv(age), FinishRun
  PROVE  LostInv(age)'
<1>1. /\ UNCHANGED <<src, clock, dest, es, log>> /\ pc = "finish" /\ pc' = "idle"
      /\ history' = [history EXCEPT ![1] = [status |-> status, wm |-> maxWm]]
      /\ dryRun' = FALSE /\ todo' = {} /\ maxWm' = 0 /\ pend' = <<>> /\ batch' = {}
  BY DEF FinishRun, ClearRun, sourceVars
<1>2. /\ DOMAIN history' = DOMAIN history
      /\ \A i \in DOMAIN history : history'[i] = IF i = 1 THEN [status |-> status, wm |-> maxWm]
                                                 ELSE history[i]
  <2>1. history \in Seq(RunLog)
    BY DEF TypeOK, StoreTypes
  <2> QED BY <1>1, <2>1
<1>3. clock \in Nat /\ maxWm \in Nat /\ \A r \in Rows : src[r].stamp \in Nat
  BY DEF TypeOK, ExtractTypes
<1>4. StampInv'
  BY <1>1, <1>2, <1>3 DEF LostInv, StampInv
<1>5. \A k \in Keys, q \in Payloads : ~OnItsWay(k, q)' /\ (Known(k, q)' => Known(k, q))
  BY <1>1 DEF OnItsWay, ComesIn, Waits, Known, Logged
<1>6. \A r \in Rows : KeyOf[r] # NoKey => KeyOf[r] \in Keys
  BY ConstantTypes
<1>7. AgeInv(age)'
  BY <1>1, <1>5, <1>6 DEF LostInv, AgeInv
<1>8. PassedInv'
  <2> SUFFICES ASSUME NEW i \in DOMAIN history, history'[i].status = "success",
                      NEW r \in CurrentRows, src[r].stamp <= history'[i].wm
               PROVE  Brought(r)
    BY <1>1, <1>2 DEF PassedInv, CurrentRows, Brought
  <2>1. CASE i = 1
    <3>1. status = "success" /\ src[r].stamp <= maxWm
      BY <1>2, <2>1
    <3>2. ~Doomed /\ todo = {} /\ pend = <<>>
      BY <1>1, <3>1 DEF Doomed, LostInv, RunInv
    <3>3. ~Coming(r)
      BY <3>2 DEF Coming, OnItsWay, ComesIn, Waits
    <3>4. ~Ahead(r)
      BY <1>3, <3>1 DEF Ahead, CurrentRows
    <3> QED BY <1>1, <3>2, <3>3, <3>4 DEF LostInv, RunInv
  <2>2. CASE i # 1
    BY <1>2, <2>2 DEF LostInv, PassedInv
  <2> QED BY <2>1, <2>2
<1>9. RunInv'
  BY <1>1 DEF RunInv
<1> QED BY <1>4, <1>7, <1>8, <1>9 DEF LostInv

(* A crash forgets the run; a lock that is cleared and a state that is reset   *)
(* concern no row.                                                          *)
LEMMA CrashBrings ==
  ASSUME NEW age, TypeOK, LostInv(age),
         Crash \/ ReleaseStaleLock \/ (\E k \in Keys : ResetEntity(k)) \/ UNCHANGED vars
  PROVE  LostInv(age)'
<1>1. UNCHANGED <<src, clock, dest, history, log>>
  BY DEF Crash, ReleaseStaleLock, ResetEntity, vars, sourceVars, storeVars
<1>2. \A k \in Keys : es'[k] # None => es'[k] = es[k]
  <2>1. es \in [Keys -> EntityState \cup {None}]
    BY DEF TypeOK, StoreTypes
  <2>2. es' = es \/ \E k \in Keys : es' = [es EXCEPT ![k] = None]
    BY DEF Crash, ReleaseStaleLock, ResetEntity, vars, storeVars
  <2> QED BY <2>1, <2>2
<1>3. \/ UNCHANGED <<pc, dryRun, todo, maxWm, pend, batch, cancelled, extractErr, firstErr, status>>
      \/ /\ pc' = "idle" /\ dryRun' = FALSE /\ todo' = {} /\ maxWm' = 0 /\ pend' = <<>>
         /\ batch' = {}
  BY DEF Crash, ClearRun, ReleaseStaleLock, ResetEntity, vars, runVars, extractVars, outcomeVars
<1>4. todo' \subseteq todo /\ maxWm' \in {0, maxWm}
  BY <1>3
<1>5. \A k \in Keys, q \in Payloads : /\ OnItsWay(k, q)' => OnItsWay(k, q)
                                      /\ Known(k, q)' => Known(k, q)
  BY <1>1, <1>2, <1>3 DEF OnItsWay, ComesIn, Waits, Known, Logged
<1>6. /\ StampInv' /\ AgeInv(age)' /\ PassedInv'
      /\ \A r \in Rows : (Later(r) => Later(r)') /\ (Ahead(r) => Ahead(r)')
  BY <1>1, <1>4, <1>5, NothingNew DEF LostInv
<1>7. RunInv'
  <2>1. CASE UNCHANGED <<pc, dryRun, todo, maxWm, pend, batch, cancelled, extractErr, firstErr, status>>
    <3>1. pc' # "idle" /\ ~Doomed' =>
            \A r \in CurrentRows' : Brought(r)' \/ Coming(r)' \/ Ahead(r)'
      BY <1>1, <2>1 DEF LostInv, RunInv, Doomed, CurrentRows, Brought, Coming, OnItsWay, ComesIn,
         Waits, Ahead
    <3>2. (pc' = "finish" /\ ~Doomed') => (pc = "finish" /\ ~Doomed)
      BY <2>1 DEF Doomed
    <3>3. pc' \in {"saveOk", "mark"} =>
            \A k \in Keys, q \in Payloads : k = pd'.key /\ q = pd'.payload => Logged(k, q)'
      BY <1>1, <2>1 DEF LostInv, RunInv, Logged, pd
    <3> QED BY <2>1, <3>1, <3>2, <3>3 DEF LostInv, RunInv
  <2>2. CASE /\ pc' = "idle" /\ dryRun' = FALSE /\ todo' = {} /\ maxWm' = 0 /\ pend' = <<>>
             /\ batch' = {}
    BY <2>2 DEF RunInv
  <2> QED BY <1>3, <2>1, <2>2
<1> QED BY <1>6, <1>7 DEF LostInv

(* A row changes: its content is younger than all the engine has, and its     *)
(* stamp later.                                                            *)
LEMMA ChangeBrings ==
  ASSUME KeepsUp, NEW age, Onward(age), TypeOK, LostInv(age),
         NEW r0 \in Rows, NEW p0 \in Payloads \cup {None}, ChangeSource(r0, p0)
  PROVE  LostInv(age)'
<1>1. /\ UNCHANGED <<dest, es, log, batch, history, pc, dryRun, todo, maxWm, pend, cancelled,
                     extractErr, firstErr, status>>
      /\ clock' = clock + 1 /\ <<src[r0].payload, p0>> \in SourceMoves
      /\ src' = [src EXCEPT ![r0] = [payload |-> p0, stamp |-> clock + 1]]
  BY DEF ChangeSource, storeVars, runVars, extractVars, outcomeVars, KeepsUp
<1>2. /\ clock \in Nat /\ maxWm \in Nat
      /\ \A r \in Rows : src[r].payload \in Payloads \cup {None} /\ src[r].stamp \in Nat
      /\ \A x \in todo : x.stamp \in Nat
  BY DEF TypeOK, ExtractTypes
<1>3. \A i \in DOMAIN history : history[i].wm \in Nat
  <2>1. history \in Seq(RunLog)
    BY DEF TypeOK, StoreTypes
  <2>2. \A i \in DOMAIN history : history[i] \in RunLog
    BY <2>1, ElementOfSeq, LenProperties
  <2> QED BY <2>2 DEF RunLog
<1>4. /\ src'[r0].payload = p0 /\ src'[r0].stamp = clock + 1
      /\ \A r \in Rows : r # r0 => src'[r] = src[r]
  BY <1>1 DEF TypeOK
<1>5. /\ age[src[r0].payload] < age[p0]
      /\ \A q \in Payloads \cup {None} : age[q] \in Nat
  BY <1>1 DEF Onward
<1>6. StampInv'
  BY <1>1, <1>2, <1>3, <1>4 DEF LostInv, StampInv
<1>7. /\ \A r \in Rows : r # r0 => (Later(r)' <=> Later(r)) /\ (Ahead(r)' <=> Ahead(r))
      /\ Later(r0)' /\ Ahead(r0)'
  BY <1>1, <1>2, <1>3, <1>4 DEF Later, Ahead, LostInv, StampInv
<1>8. \A k \in Keys, q \in Payloads : /\ OnItsWay(k, q)' <=> OnItsWay(k, q)
                                      /\ Known(k, q)' <=> Known(k, q)
  BY <1>1 DEF OnItsWay, ComesIn, Waits, Known, Logged
<1>9. AgeInv(age)'
  <2>1. ASSUME NEW r \in Rows, KeyOf[r] # NoKey
        PROVE  /\ \A q \in Payloads : OnItsWay(KeyOf[r], q)' =>
                    \/ q = src'[r].payload
                    \/ age[q] < age[src'[r].payload] /\ Later(r)'
               /\ \A q, s \in Payloads : OnItsWay(KeyOf[r], q)' /\ OnItsWay(KeyOf[r], s)' => q = s
               /\ \A s \in Payloads : Known(KeyOf[r], s)' =>
                    /\ age[s] <= age[src'[r].payload]
                    /\ \A q \in Payloads : OnItsWay(KeyOf[r], q)' => age[s] <= age[q]
                    /\ s = src'[r].payload => dest'[KeyOf[r]] = s
    <3>1. KeyOf[r] \in Keys
      BY <2>1, ConstantTypes
    <3>2. /\ \A q \in Payloads : OnItsWay(KeyOf[r], q) =>
               \/ q = src[r].payload
               \/ age[q] < age[src[r].payload] /\ Later(r)
          /\ \A q, s \in Payloads : OnItsWay(KeyOf[r], q) /\ OnItsWay(KeyOf[r], s) => q = s
          /\ \A s \in Payloads : Known(KeyOf[r], s) =>
               /\ age[s] <= age[src[r].payload]
               /\ \A q \in Payloads : OnItsWay(KeyOf[r], q) => age[s] <= age[q]
               /\ s = src[r].payload => dest[KeyOf[r]] = s
      BY <2>1 DEF LostInv, AgeInv
    <3>3. CASE r # r0
      BY <1>1, <1>4, <1>7, <1>8, <3>1, <3>2, <3>3
    <3>4. CASE r = r0
      <4>1. \A q \in Payloads : age[q] <= age[src[r0].payload] => age[q] < age[p0] /\ q # p0
        BY <1>2, <1>5
      <4>2. \A q \in Payloads : OnItsWay(KeyOf[r], q) => age[q] <= age[src[r0].payload]
        BY <1>2, <1>5, <3>2, <3>4
      <4>3. \A s \in Payloads : Known(KeyOf[r], s) => age[s] < age[p0] /\ s # p0
        BY <3>2, <3>4, <4>1
      <4>4. \A s \in Payloads : age[s] < age[p0] => age[s] <= age[p0]
        BY <1>5
      <4> QED BY <1>4, <1>7, <1>8, <3>1, <3>2, <3>4, <4>1, <4>2, <4>3, <4>4
    <3> QED BY <3>3, <3>4
  <2> QED BY <2>1 DEF AgeInv
<1>10. \A r \in CurrentRows' : r # r0 => r \in CurrentRows /\ (Brought(r)' <=> Brought(r))
  BY <1>1, <1>4 DEF CurrentRows, Brought
<1>11. PassedInv'
  <2> SUFFICES ASSUME NEW i \in DOMAIN history, history[i].status = "success",
                      NEW r \in CurrentRows', src'[r].stamp <= history[i].wm
               PROVE  Brought(r)'
    BY <1>1 DEF PassedInv
  <2>1. r # r0
    BY <1>2, <1>3, <1>4 DEF LostInv, StampInv
  <2>2. src'[r] = src[r]
    BY <1>4, <2>1 DEF CurrentRows
  <2> QED BY <1>10, <2>1, <2>2 DEF LostInv, PassedInv
<1>12. pc' # "idle" /\ ~Doomed' =>
         \A r \in CurrentRows' : Brought(r)' \/ Coming(r)' \/ Ahead(r)'
  <2> SUFFICES ASSUME pc # "idle", ~Doomed, NEW r \in CurrentRows', r # r0
               PROVE  Brought(r)' \/ Coming(r)' \/ Ahead(r)'
    BY <1>1, <1>7 DEF Doomed
  <2>1. r \in Rows /\ KeyOf[r] \in Keys /\ src'[r] = src[r]
    BY <1>4, ConstantTypes DEF CurrentRows
  <2>2. Coming(r) => Coming(r)'
    BY <1>8, <2>1 DEF Coming
  <2>3. Brought(r) \/ Coming(r) \/ Ahead(r)
    BY <1>10 DEF LostInv, RunInv
  <2> QED BY <1>7, <1>10, <2>1, <2>2, <2>3
<1>13. RunInv'
  <2>1. Doomed' <=> Doomed
    BY <1>1 DEF Doomed
  <2>2. pc' \in {"saveOk", "mark"} =>
          \A k \in Keys, q \in Payloads : k = pd'.key /\ q = pd'.payload => Logged(k, q)'
    BY <1>1 DEF LostInv, RunInv, Logged, pd
  <2> QED BY <1>1, <1>12, <2>1, <2>2 DEF LostInv, RunInv
<1> QED BY <1>6, <1>9, <1>11, <1>13 DEF LostInv

LEMMA LostInit ==
  ASSUME KeepsUp, NEW age, Onward(age)
  PROVE  Init => LostInv(age)
<1> SUFFICES ASSUME Init PROVE LostInv(age)
  OBVIOUS
<1>1. /\ es = [k \in Keys |-> None] /\ log = {} /\ batch = {} /\ history = <<>>
      /\ pc = "idle" /\ dryRun = FALSE /\ todo = {} /\ maxWm = 0 /\ pend = <<>>
      /\ \A r \in Rows : src[r].stamp = FirstStamp[r]
      /\ clock = FirstClock /\ clock \in Nat /\ FirstStamp \in [Rows -> 1..FirstClock]
  BY SyncAssumption DEF Init, Idle, KeepsUp
<1>2. StampInv
  BY <1>1 DEF StampInv
<1>3. \A k \in Keys, q \in Payloads : ~OnItsWay(k, q) /\ ~Known(k, q)
  BY <1>1 DEF OnItsWay, ComesIn, Waits, Known, Logged
<1>4. \A r \in Rows : KeyOf[r] # NoKey => KeyOf[r] \in Keys
  BY ConstantTypes
<1>5. AgeInv(age)
  BY <1>3, <1>4 DEF AgeInv
<1>6. PassedInv /\ RunInv
  BY <1>1 DEF PassedInv, RunInv
<1> QED BY <1>2, <1>5, <1>6 DEF LostInv

LEMMA LostStep ==
  ASSUME KeepsUp, NEW age, Onward(age)
  PROVE  TypeOK /\ OrderInv /\ LostInv(age) /\ [Next]_vars => LostInv(age)'
<1> SUFFICES ASSUME TypeOK, OrderInv, LostInv(age), [Next]_vars PROVE LostInv(age)'
  OBVIOUS
<1>1. CASE \/ RejectRow \/ EndExtract \/ GateBlock \/ GatePass \/ EndDelivery \/ EndSweep
           \/ Commit \/ Cancel \/ \E k \in Keys : CountMissing(k)
  BY <1>1, PhasesBring
<1>2. CASE DecideFails
  BY <1>2 DEF DecideFails, Fault, KeepsUp
<1>3. CASE SkipOverLimit
  <2>1. Bucket(pd.action) \in Buckets
    BY DEF Bucket, Buckets
  <2> QED BY <1>3, <2>1 DEF SkipOverLimit, Allow, KeepsUp
<1>4. CASE SaveMissing
  BY <1>4 DEF SaveMissing, LostInv, RunInv
<1>5. ASSUME NEW k \in Keys, SendMissing(k) PROVE LostInv(age)'
  BY <1>5 DEF SendMissing, Due, KeepsUp
<1>6. CASE Crash \/ ReleaseStaleLock \/ (\E k \in Keys : ResetEntity(k)) \/ UNCHANGED vars
  BY <1>6, CrashBrings
<1>7. CASE Engine
  BY <1>1, <1>2, <1>3, <1>4, <1>5, <1>7, DecideRowBrings, DeliverRowBrings, SavesBring,
     FinishRunBrings DEF Engine
<1>8. CASE Operator
  BY <1>6, <1>8, BeginRunBrings DEF Operator
<1>9. CASE Environment
  BY <1>1, <1>6, <1>9, ChangeBrings DEF Environment
<1> QED BY <1>6, <1>7, <1>8, <1>9 DEF Next

(* The order holds from the start, and every step keeps it.                  *)
LEMMA OrderInit == KeepsUp /\ Init => OrderInv
<1> SUFFICES ASSUME KeepsUp, Init, "timeout" \in Faults PROVE OrderInv
  BY DEF OrderInv
<1>1. todo = {} /\ \A r \in Rows : src[r].stamp = FirstStamp[r]
  BY DEF Init, Idle, KeepsUp
<1> QED BY <1>1 DEF OrderInv, KeepsUp

LEMMA OrderStep ==
  ASSUME KeepsUp, TypeOK, StampInv, OrderInv, [Next]_vars
  PROVE  OrderInv'
<1> SUFFICES ASSUME "timeout" \in Faults PROVE OrderInv'
  BY DEF OrderInv
<1>1. /\ clock \in Nat /\ maxWm \in Nat
      /\ \A r \in Rows : src[r].stamp \in Nat
      /\ \A x \in todo : x.row \in Rows /\ x.stamp \in Nat
  BY DEF TypeOK, ExtractTypes
<1>2. CASE \E x \in todo : Receive(x) /\ src' = src
  <2>1. PICK x \in todo : Receive(x) /\ src' = src
    BY <1>2
  <2>2. /\ todo' = todo \ {x} /\ \A y \in todo : x.stamp <= y.stamp
        /\ maxWm' = maxWm \/ maxWm' = x.stamp
    BY <2>1 DEF Receive, KeepsUp
  <2>3. \A y \in todo \ {x} : x.stamp < y.stamp
    BY <1>1, <2>2 DEF OrderInv
  <2> QED BY <1>1, <2>1, <2>2, <2>3 DEF OrderInv
<1>3. CASE src' = src /\ todo' = {}
  BY <1>3 DEF OrderInv
<1>4. CASE UNCHANGED <<src, todo, maxWm>>
  BY <1>4 DEF OrderInv
<1>5. ASSUME NEW dry, NEW approved, BeginRun(dry, approved) PROVE OrderInv'
  <2>1. src' = src /\ maxWm' = 0
    BY <1>5 DEF BeginRun, sourceVars
  <2>2. PICK wm : todo' = Extraction(wm)
    BY <1>5 DEF BeginRun
  <2>3. \A x \in todo' : /\ x.row \in Rows /\ x.stamp = src[x.row].stamp
                         /\ x = [row |-> x.row, payload |-> src[x.row].payload,
                                 stamp |-> src[x.row].stamp]
    BY <2>2 DEF Extraction
  <2>4. \A x, y \in todo' : x.stamp = y.stamp => x = y
    BY <2>3 DEF OrderInv
  <2> QED BY <1>1, <2>1, <2>3, <2>4 DEF OrderInv, StampInv
<1>6. ASSUME NEW r0 \in Rows, NEW p0 \in Payloads \cup {None}, ChangeSource(r0, p0)
      PROVE  OrderInv'
  <2>1. /\ todo' = todo /\ maxWm' = maxWm
        /\ src' = [src EXCEPT ![r0] = [payload |-> p0, stamp |-> clock + 1]]
    BY <1>6 DEF ChangeSource, runVars, extractVars, KeepsUp
  <2>2. /\ src'[r0].stamp = clock + 1
        /\ \A r \in Rows : r # r0 => src'[r] = src[r]
    BY <2>1 DEF TypeOK
  <2>3. /\ \A r \in Rows : r # r0 => src'[r].stamp < clock + 1
        /\ \A x \in todo : x.stamp <= src'[x.row].stamp
    BY <1>1, <2>2 DEF StampInv, OrderInv
  <2> QED BY <1>1, <2>1, <2>2, <2>3 DEF OrderInv
<1>7. CASE Engine
  <2>1. CASE RejectRow \/ DecideRow \/ DecideFails
    BY <1>2, <2>1 DEF RejectRow, DecideRow, DecideFails, sourceVars
  <2>2. CASE EndExtract \/ FinishRun
    BY <1>3, <2>2 DEF EndExtract, FinishRun, ClearRun, sourceVars
  <2>3. CASE \/ GateBlock \/ GatePass \/ SkipOverLimit \/ DeliverRow \/ SaveDelivered
             \/ MarkRuleFired \/ SaveFailed \/ EndDelivery \/ SaveMissing \/ EndSweep \/ Commit
             \/ \E k \in Keys : CountMissing(k) \/ SendMissing(k)
    BY <1>4, <2>3 DEF GateBlock, GatePass, SkipOverLimit, DeliverRow, SaveDelivered, MarkRuleFired,
       SaveFailed, EndDelivery, SaveMissing, EndSweep, Commit, CountMissing, SendMissing, sourceVars,
       extractVars
  <2> QED BY <1>7, <2>1, <2>2, <2>3 DEF Engine
<1>8. CASE ReleaseStaleLock \/ (\E k \in Keys : ResetEntity(k)) \/ Cancel \/ UNCHANGED vars
  BY <1>4, <1>8 DEF ReleaseStaleLock, ResetEntity, Cancel, vars, runVars, extractVars, sourceVars
<1>9. CASE Crash
  BY <1>3, <1>9 DEF Crash, ClearRun, sourceVars
<1> QED BY <1>5, <1>6, <1>7, <1>8, <1>9 DEF Next, Operator, Environment

(* An incremental sync whose rows only move on loses none of them: whatever   *)
(* crash, cancellation, broken extraction, failed save or commit ends a run,  *)
(* the watermark the next one starts from has passed only rows whose content  *)
(* is at the destination.  And so it is if the source's own timeout lets a run *)
(* succeed on a part of the rows, provided they come in the column's order.   *)
THEOREM NothingIsLost ==
  ASSUME KeepsUp, NEW age, Onward(age)
  PROVE  Spec => []NoRowLost
<1>1. Init => LostInv(age)
  BY LostInit
<1>2. TypeOK /\ OrderInv /\ LostInv(age) /\ [Next]_vars => LostInv(age)' /\ OrderInv'
  BY LostStep, OrderStep DEF LostInv
<1>4. Init => OrderInv
  BY OrderInit
<1>3. TypeOK /\ LostInv(age) => NoRowLost
  <2> SUFFICES ASSUME TypeOK, LostInv(age), NEW r \in CurrentRows,
                      src[r].stamp <= LastWatermark(history)
               PROVE  dest[KeyOf[r]] = src[r].payload
    BY DEF NoRowLost
  <2>1. history \in Seq(RunLog) /\ r \in Rows /\ src[r].stamp \in Nat
    BY DEF TypeOK, StoreTypes, CurrentRows
  <2>2. src[r].stamp > 0
    BY <2>1 DEF LostInv, StampInv
  <2>3. LastWatermark(history) # 0
    BY <2>1, <2>2
  <2>4. PICK i \in DOMAIN history : history[i].status = "success" /\ LastWatermark(history) = history[i].wm
    BY <2>1, <2>3, LastWatermarkIs
  <2> QED BY <2>4 DEF LostInv, PassedInv, Brought
<1> QED BY <1>1, <1>2, <1>3, <1>4, TypeCorrect, PTL DEF Spec
=============================================================================
