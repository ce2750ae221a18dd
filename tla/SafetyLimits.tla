---------------------------- MODULE SafetyLimits -----------------------------
(***************************************************************************)
(* The blast-radius checks of internal/safety: per-run caps, the changed   *)
(* field ratio and the approval gate.  All three are pure functions of the *)
(* configuration and of the run's counters.                                *)
(***************************************************************************)
EXTENDS Naturals

CONSTANTS
  Limits,        \* [Buckets -> Nat]: max_*_per_run, 0 is "no limit"
  RatioPercent,  \* block_if_changed_field_ratio_above of the payload, in percent
  ApproveAbove,  \* require_approval_above, 0 is "never"
  ApproveFor     \* require_approval_for

Buckets == {"creates", "updates", "deletes"}
ZeroCounts == [b \in Buckets |-> 0]

ASSUME LimitsAssumption ==
  /\ Limits \in [Buckets -> Nat]
  /\ RatioPercent \in Nat
  /\ ApproveAbove \in Nat
  /\ ApproveFor \subseteq Buckets

(* The counter an action is booked under: an upsert counts as a create.    *)
Bucket(action) ==
  CASE action \in {"create", "upsert"} -> "creates"
    [] action = "update" -> "updates"
    [] OTHER -> "deletes"

Allow(action, counts) ==
  \/ Limits[Bucket(action)] = 0
  \/ counts[Bucket(action)] < Limits[Bucket(action)]

Record(action, counts) == [counts EXCEPT ![Bucket(action)] = @ + 1]

(* The ratio of changed to extracted rows is strictly above the threshold. *)
RatioExceeded(changed, extracted) ==
  extracted > 0 /\ changed * 100 > RatioPercent * extracted

ApprovalRequired(counts) ==
  \/ /\ ApproveAbove > 0
     /\ counts["creates"] + counts["updates"] + counts["deletes"] > ApproveAbove
  \/ \E b \in ApproveFor : counts[b] > 0
==============================================================================
