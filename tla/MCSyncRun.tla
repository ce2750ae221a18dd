------------------------------ MODULE MCSyncRun ------------------------------
(***************************************************************************)
(* Small instances of SyncRun: the rule sets, row layouts and source       *)
(* histories its configurations choose from.                               *)
(***************************************************************************)
EXTENDS SyncRun, TLC

CONSTANTS r1, r2, k1, k2, a, b, c

AnyInput == {[first |-> x, changed |-> TRUE] : x \in BOOLEAN}
           \cup {[first |-> FALSE, changed |-> FALSE]}
First == {[first |-> TRUE, changed |-> TRUE]}
Changed == {i \in AnyInput : i.changed}
ReallyChanged == Changed \ First

Rule(name, once, when, action) ==
  [name |-> name, once |-> once, when |-> when, action |-> action]

(* The README's sync: create when first seen, update when changed.         *)
CreateUpdate == <<Rule("new", FALSE, First, "create"),
                  Rule("changed", FALSE, Changed, "update")>>

(* A once-rule ahead of the plain one, same action.                        *)
UpsertAll == <<Rule("promoted", TRUE, ReallyChanged, "upsert"),
               Rule("changed", FALSE, Changed, "upsert")>>

(* A once-rule is the only one that updates.                               *)
OnceThenUpdate == <<Rule("new", FALSE, First, "create"),
                    Rule("promoted", TRUE, ReallyChanged, "update")>>

OneRowPerKey == r1 :> k1 @@ r2 :> k2
OnlyRow == r1 :> k1

SameStamp == r1 :> 1 @@ r2 :> 1
OnlyStamp == r1 :> 1
OwnStamps == r1 :> 1 @@ r2 :> 2

AllDistinct == [p \in Payloads |-> CASE p = a -> 1 [] p = b -> 2 [] OTHER -> 3]

NoLimits == [x \in Buckets |-> 0]
TightLimits == [creates |-> 1, updates |-> 2, deletes |-> 1]
ApproveUpdate == {[creates |-> 0, updates |-> 1, deletes |-> 0]}
Updates == {"updates"}

(* Content that comes back, rows that leave and return, content that only  *)
(* moves forward.                                                          *)
BackAndForth == {<<a, b>>, <<b, a>>}
BadRowToo == BackAndForth \cup {<<b, c>>, <<c, a>>}
ComeAndGo == {<<a, None>>, <<None, a>>, <<a, b>>}
ComeGoChange == ComeAndGo \cup {<<b, a>>}
Forward == {<<None, a>>, <<a, b>>, <<b, c>>}
==============================================================================
