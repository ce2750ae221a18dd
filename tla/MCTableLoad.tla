----------------------------- MODULE MCTableLoad -----------------------------
(***************************************************************************)
(* Four rows: the first and the last two are versions of one entity, the    *)
(* second is refused by the database, the third has columns of its own.    *)
(***************************************************************************)
EXTENDS TableLoad

MCKeyOf == [r \in Rows |-> IF r = 2 THEN 2 ELSE 1]
MCColumnsOf == [r \in Rows |-> IF r = 3 THEN 2 ELSE 1]

MCConnections ==
  {c \in ConnectionType :
     /\ c.match = 0 => c.strategy \in {"append", "replace", "upsert"}
     /\ c.match > 0 => c.strategy \notin {"append", "replace"}
     /\ c.match = 2 => c.kind = "postgres" /\ c.strategy = "merge"
     /\ c.runs => c.strategy = "replace"}

==============================================================================
