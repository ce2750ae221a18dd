---------------------------- MODULE DecisionRules ----------------------------
(***************************************************************************)
(* The decision engine (internal/decision): which delivery action an entity *)
(* gets, given the ordered rules of the sync file.                          *)
(*                                                                         *)
(* A rule's `when` tree is abstracted to the set of inputs it accepts; an   *)
(* input is what the leaves first_seen() and fingerprint_changed() see.     *)
(***************************************************************************)
EXTENDS Naturals, Sequences

CONSTANTS
  Rules,     \* sequence of [name, once, when, action], in file order
  Default,   \* decisions.default; "skip" when the file leaves it empty
  NoRule     \* "no rule won": the default action applied

DeliveryActions == {"create", "upsert", "update", "delete"}
PlanActions == DeliveryActions \cup {"skip"}

Inputs == [first : BOOLEAN, changed : BOOLEAN]
RuleType == [name : STRING, once : BOOLEAN, when : SUBSET Inputs,
             action : PlanActions]
RuleNames == {Rules[i].name : i \in DOMAIN Rules}
OnceRules == {Rules[i].name : i \in {j \in DOMAIN Rules : Rules[j].once}}

ASSUME RulesAssumption ==
  /\ Rules \in Seq(RuleType)
  /\ Default \in PlanActions
  /\ NoRule \notin RuleNames

(* Rules whose predicate holds, except once-rules that already fired for   *)
(* this entity.  The variant does not ask whether they fired.              *)
EligibleAgain(in, firedNames) == {i \in DOMAIN Rules : in \in Rules[i].when}
Eligible(in, firedNames) ==
  {i \in DOMAIN Rules : /\ ~(Rules[i].once /\ Rules[i].name \in firedNames)
                        /\ in \in Rules[i].when}

(* First matching rule wins; no match falls back to the default action.    *)
Evaluate(in, firedNames) ==
  LET eligible == Eligible(in, firedNames)
  IN IF eligible = {}
       THEN [action |-> Default, rule |-> NoRule]
       ELSE LET win == CHOOSE i \in eligible : \A j \in eligible : i <= j
            IN [action |-> Rules[win].action, rule |-> Rules[win].name]
==============================================================================
