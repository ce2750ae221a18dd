--------------------------- MODULE MCHttpDelivery ---------------------------
(***************************************************************************)
(* A small instance of every API destination, with a circuit breaker and a  *)
(* limiter of one token unless it says otherwise.  The parallel bulk path   *)
(* needs more rows than twice its threshold; the destinations that work     *)
(* through their rows one by one get a second Load.  Where Load searches    *)
(* first two rows may have one match value.                                *)
(***************************************************************************)
EXTENDS HttpDelivery

Apart == [r \in 1..MaxRows |-> r]
OneEntity == [r \in 1..MaxRows |-> 1]

Instance(loads, matched, oauth, maxCalls, maxFaults) ==
  [loads |-> loads, bare |-> IF matched THEN {2} ELSE {}, deletes |-> {}, known |-> {},
   entities |-> {Apart},
   bulk |-> 1, limit |-> 1, guarded |-> TRUE, oauth |-> oauth,
   calls |-> maxCalls, faults |-> maxFaults]

MCInstanceOf ==
  [restapi |-> Instance({2}, FALSE, TRUE, 1, 1),
   intercom |-> [Instance({2}, TRUE, FALSE, 1, 1) EXCEPT !.limit = 0, !.known = {1},
                 !.entities = {Apart, OneEntity}],
   pipedrive |-> [Instance({2}, TRUE, FALSE, 1, 1) EXCEPT !.guarded = FALSE, !.known = {1},
                  !.entities = {Apart, OneEntity}],
   zendesk |-> Instance({2}, TRUE, FALSE, 1, 2),
   klaviyo |-> Instance({1, 2}, TRUE, FALSE, 2, 2),
   mixpanel |-> Instance({1, 2}, TRUE, TRUE, 2, 1),
   hubspot |-> [Instance({1, 2}, TRUE, FALSE, 2, 1) EXCEPT !.deletes = {1}, !.known = {1},
                !.entities = {Apart, OneEntity}],
   slack |-> Instance({1, 2}, FALSE, FALSE, 2, 2),
   googlesheets |-> Instance({1, 2}, FALSE, FALSE, 2, 2),
   salesforceRest |-> [Instance({2}, TRUE, FALSE, 1, 2) EXCEPT !.bulk = 2],
   salesforceBulk |-> Instance({2}, FALSE, FALSE, 2, 1),
   salesforceBulkParallel |->
     [Instance({3}, FALSE, FALSE, 1, 0) EXCEPT !.limit = 0, !.guarded = FALSE]]

==============================================================================
