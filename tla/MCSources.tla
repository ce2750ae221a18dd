------------------------------ MODULE MCSources ------------------------------
(* An instance of the sources: either runs over one batch source of any kind, *)
(* or one stream; the other half keeps to its initial state.                *)
EXTENDS BatchExtract, StreamDelivery

Src(k, col, q) == [kind |-> k, column |-> col, query |-> q, key |-> TRUE, parallel |-> 1,
                   routed |-> FALSE, limit |-> 0, bounded |-> FALSE]
(* Configurations that read as one of these do are left out: a plain table  *)
(* of Postgres as Redshift without a key, its snapshot as that of MySQL, a   *)
(* query of MySQL and BigQuery as their table and as that of Postgres.      *)
Plain == [Src("redshift", "time", FALSE) EXCEPT !.parallel = 2, !.key = FALSE]
MCSources ==
  {Plain, [Src("postgres", "time", FALSE) EXCEPT !.parallel = 2],
   Src("postgres", "time", TRUE), Src("postgres", "int", FALSE),
   [Src("postgres", "int", FALSE) EXCEPT !.routed = TRUE],
   Src("mysql", "time", FALSE), [Src("mysql", "time", FALSE) EXCEPT !.bounded = TRUE],
   Src("mysql", "none", FALSE), [Src("mysql", "int", FALSE) EXCEPT !.routed = TRUE, !.limit = 2],
   Src("snowflake", "time", FALSE), Src("snowflake", "missing", TRUE), Src("snowflake", "none", FALSE),
   Src("bigquery", "time", FALSE), Src("restapi", "time", FALSE)}

\* Two transactions of one row follow one of two rows.
MCTxEnd == <<2, 2, 3, 4>>

AtRest ==
  /\ source = Plain /\ time = [r \in Rows |-> 0]

SourcesInit == Init /\ StreamInit /\ (stream # "none" => AtRest)
SourcesNext ==
  \/ stream = "none" /\ Next /\ UNCHANGED streamVars
  \/ stream # "none" /\ StreamNext /\ UNCHANGED vars
SourcesSpec ==
  SourcesInit /\ [][SourcesNext]_<<vars, streamVars>> /\ Fairness /\ StreamFairness
==============================================================================
