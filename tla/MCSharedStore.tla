---------------------------- MODULE MCSharedStore ----------------------------
(* Instances of SharedStore: each backend with two runs and a replay; and,   *)
(* over Postgres, a run with two replays.                                   *)
EXTENDS SharedStore

CONSTANTS r1, r2, p1, p2

MCSetups ==
  {<<"sqlite", FALSE>>, <<"postgres", TRUE>>, <<"memory", TRUE>>, <<"postgres", FALSE>>}
MCJobsOf ==
  [setup \in MCSetups |->
     IF setup = <<"postgres", FALSE>> THEN {r1, p1, p2} ELSE {r1, r2, p1}]
MCMaxChanges == [setup \in MCSetups |-> IF setup[1] = "postgres" THEN 1 ELSE 2]
==============================================================================
