------------------------------ MODULE TableLoad ------------------------------
(***************************************************************************)
(* Loads of a database destination (Postgres, MySQL, Snowflake): a Load is  *)
(* turned into a queue of SQL statements, each of which may succeed, fail,  *)
(* take effect although its answer is lost, or find the context ended.     *)
(***************************************************************************)
EXTENDS Naturals, FiniteSets, Sequences, SequencesExt

CONSTANTS
  Rows,              \* numbers, in the order of the source
  KeyOf, ColumnsOf,  \* value of the match field, names of the columns
  BadRows,           \* rows the database refuses
  Connections,       \* [kind, strategy, match, runs] Init chooses from
  CopyThreshold,     \* options.copy_threshold
  MaxChunk,          \* rows in one statement
  MaxLoads, MaxFaults

Kinds == {"postgres", "mysql", "snowflake"}
Strategies == {"merge", "upsert", "append", "replace", "delete+insert", "scd2"}

(* match: how many columns match_on names; runs: the caller puts a run ID   *)
(* into the context and calls FinalizeRun, which the engine does not.      *)
ConnectionType ==
  [kind : Kinds, strategy : Strategies, match : 0..2, runs : BOOLEAN]

ASSUME TableAssumption ==
  /\ Rows \subseteq Nat /\ IsFiniteSet(Rows)
  /\ KeyOf \in [Rows -> Nat] /\ ColumnsOf \in [Rows -> Nat]
  /\ BadRows \subseteq Rows /\ Connections \subseteq ConnectionType
  /\ {CopyThreshold, MaxChunk} \subseteq Nat \ {0}
  /\ {MaxLoads, MaxFaults} \subseteq Nat

VARIABLES
  conn, runID, ctxDone,
  phase, batch, verdict, fatal,  \* Load and its result
  bulk,              \* this Load still goes by COPY
  left,              \* rows of this Load no statement has been made of, in order
  queue,             \* statements to run, in order
  table,             \* copies of each row in the target table
  current,           \* rows with _scd_is_current
  staging,           \* copies in the run's staging table
  staged,            \* the run has one
  truncated,         \* replaceTruncated[runID], truncatedNoRunID
  marked             \* delivery log

VARIABLES            \* bookkeeping of the model
  loads, faults,
  written,           \* rows some statement has written
  brought, given,    \* how many Loads brought, loaded each row (a replace: of this run)
  ambiguous,         \* rows of a statement that took effect but failed
  unreported,        \* rows whose statement ended in a timeout of the driver
  had,               \* keys in the table when this Load began
  runErrors          \* a Load of this run had an error

loadVars == <<phase, batch, verdict, fatal, bulk, left, queue>>
tableVars == <<table, current, staging>>
bookVars == <<written, brought, given, ambiguous, unreported, had, runErrors>>
vars == <<conn, runID, ctxDone, loadVars, tableVars, staged, truncated, marked,
          loads, faults, bookVars>>

MaxCopies == 2 * MaxLoads + MaxFaults
None == [r \in Rows |-> 0]
Hows == {"copy", "stageCopy", "stageInsert", "chunk", "single", "delete", "scd2"}

TypeOK ==
  /\ conn \in Connections /\ runID \in 0..(MaxLoads + 1) /\ ctxDone \in BOOLEAN
  /\ phase \in {"idle", "truncate", "plan", "write", "returned"}
  /\ batch \subseteq Rows /\ fatal \in BOOLEAN /\ bulk \in BOOLEAN
  /\ verdict \in [Rows -> {"none", "loaded", "skipped", "error"}]
  /\ left \in Seq(batch) /\ queue \in Seq([how : Hows, rows : Seq(batch) \ {<<>>}])
  /\ \A i \in DOMAIN queue : queue[i].how \in {"chunk", "delete"} => Len(queue[i].rows) <= MaxChunk
  /\ {table, staging} \subseteq [Rows -> 0..MaxCopies] /\ current \subseteq Rows
  /\ staged \in BOOLEAN /\ truncated \in BOOLEAN /\ marked \subseteq Rows
  /\ loads \in 0..MaxLoads /\ faults \in 0..MaxFaults
  /\ written \subseteq Rows /\ {brought, given} \subseteq [Rows -> 0..MaxLoads]
  /\ ambiguous \subseteq Rows /\ unreported \subseteq Rows
  /\ had \subseteq {KeyOf[r] : r \in Rows} /\ runErrors \in BOOLEAN

------------------------------------------------------------------------------
\* Connect

(* Postgres takes any strategy for a merge that it does not know, "upsert"   *)
(* among them: the one the engine asks every destination for.              *)
PostgresConnects(c) ==
  c.strategy \in {"merge", "delete+insert", "scd2"} => c.match > 0
MySQLConnects(c) ==
  /\ c.strategy \in {"merge", "append", "replace", "delete+insert"}
  /\ c.strategy \in {"merge", "delete+insert"} => c.match > 0
SnowflakeConnects(c) ==
  /\ c.strategy \in {"merge", "append", "replace", "delete+insert"}
  /\ c.strategy \in {"merge", "delete+insert"} => c.match > 0

Connects(c) ==
  CASE c.kind = "postgres" -> PostgresConnects(c)
    [] c.kind = "mysql" -> MySQLConnects(c)
    [] c.kind = "snowflake" -> SnowflakeConnects(c)

------------------------------------------------------------------------------
\* Helpers

Fault == faults < MaxFaults /\ faults' = faults + 1
NoFault == faults' = faults

Strategy == conn.strategy
SkipsLog == Strategy \in {"append", "replace"}

(* With a run ID Postgres replaces by way of a staging table.              *)
ViaStaging == conn.kind = "postgres" /\ Strategy = "replace" /\ conn.runs

(* maybeTruncateReplace: Postgres remembers runs only, the others a         *)
(* connection, too.  The variant truncates for each Load.                  *)
TruncatesEachLoad == Strategy = "replace" /\ ~ViaStaging
TruncatesFirst ==
  /\ Strategy = "replace" /\ ~ViaStaging
  /\ conn.kind = "postgres" \/ ~truncated

InsertOnly ==
  CASE conn.kind = "postgres" -> SkipsLog /\ conn.match = 0
    [] conn.kind = "mysql" -> Strategy # "merge"
    [] conn.kind = "snowflake" -> Strategy # "merge"

(* Strategies and destinations that enter rows into the delivery log.       *)
Marks(how) ==
  IF conn.kind = "postgres" THEN how \notin {"copy", "stageCopy", "stageInsert"}
  ELSE ~SkipsLog

Keys(rows) == {KeyOf[r] : r \in rows}
Present(t) == {r \in Rows : t[r] > 0}
Stmt(how, rows) == [how |-> how, rows |-> rows]
Singles(rows) == [i \in DOMAIN rows |-> Stmt("single", <<rows[i]>>)]

------------------------------------------------------------------------------
\* What a statement does to the table

OneMore(n) == IF n = MaxCopies THEN n ELSE n + 1
WithoutKeys(t, keys) == [r \in Rows |-> IF KeyOf[r] \in keys THEN 0 ELSE t[r]]

(* INSERT.                                                                 *)
Inserted(t, rows) == [r \in Rows |-> IF r \in ToSet(rows) THEN OneMore(t[r]) ELSE t[r]]

(* INSERT ... ON CONFLICT (key) DO UPDATE, ON DUPLICATE KEY UPDATE, MERGE:   *)
(* of the rows with one key the last one stays.                            *)
LastOfItsKey(r, rows) ==
  \E i \in DOMAIN rows :
    rows[i] = r /\ \A j \in DOMAIN rows : j > i => KeyOf[rows[j]] # KeyOf[r]
Upserted(t, rows) ==
  [r \in Rows |-> IF KeyOf[r] \notin Keys(ToSet(rows)) THEN t[r]
                  ELSE IF LastOfItsKey(r, rows) THEN 1 ELSE 0]

(* buildSCD2Close closes the current version if it differs, buildSCD2Insert *)
(* inserts a version when there is no current one.  The variant closes     *)
(* nothing and inserts all the same.                                       *)
Scd2ClosesNothing(r) ==
  /\ table' = [table EXCEPT ![r] = OneMore(@)]
  /\ current' = current \cup {r}
Scd2(r) ==
  /\ table' = IF r \in current THEN table ELSE [table EXCEPT ![r] = OneMore(@)]
  /\ current' = {q \in current : KeyOf[q] # KeyOf[r]} \cup {r}

(* A chunk without a match field is a plain INSERT under any strategy.      *)
Inserts(how) == how = "copy" \/ InsertOnly \/ (how = "chunk" /\ conn.match = 0)

Effect(s) ==
  CASE s.how = "scd2" -> Scd2(s.rows[1]) /\ UNCHANGED staging
    [] s.how \in {"stageCopy", "stageInsert"} ->
         staging' = Inserted(staging, s.rows) /\ UNCHANGED <<table, current>>
    [] s.how = "delete" ->
         /\ table' = WithoutKeys(table, Keys(ToSet(s.rows)))
         /\ UNCHANGED <<current, staging>>
    [] OTHER ->
         /\ table' = IF Inserts(s.how) THEN Inserted(table, s.rows)
                     ELSE Upserted(table, s.rows)
         /\ UNCHANGED <<current, staging>>

Repeats(rows, i) == \E j \in 1..(i - 1) : KeyOf[rows[j]] = KeyOf[rows[i]]

(* The database refuses bad rows; Postgres an upsert that touches a row    *)
(* twice, and upsertQuery a match_on of no or of two columns.              *)
Refused(s) ==
  \/ s.how # "delete" /\ ToSet(s.rows) \cap BadRows # {}
  \/ /\ conn.kind = "postgres" /\ s.how \in {"chunk", "single"} /\ ~Inserts(s.how)
     /\ conn.match # 1 \/ \E i \in DOMAIN s.rows : Repeats(s.rows, i)

------------------------------------------------------------------------------
\* From rows to statements

(* A set of rows as a sequence, in a given order.                          *)
Ordered(rows, before) ==
  [i \in 1..Cardinality(rows) |->
     CHOOSE r \in rows : Cardinality({q \in rows : <<q, r>> \in before}) = i - 1]

AsSent(rows) == {p \in rows \X rows : p[1] < p[2]}

(* sortRowsByKey: by key, stable.  The variant is not.                     *)
SortedUnstably(rows) ==
  {p \in rows \X rows : \/ KeyOf[p[1]] < KeyOf[p[2]]
                        \/ KeyOf[p[1]] = KeyOf[p[2]] /\ p[2] < p[1]}
SortRowsByKey(rows) ==
  {p \in rows \X rows : \/ KeyOf[p[1]] < KeyOf[p[2]]
                        \/ KeyOf[p[1]] = KeyOf[p[2]] /\ p[1] < p[2]}

(* Rows with the same columns, the groups in the order they first occur.   *)
Groups(rows, before) ==
  LET Leads(f, r) == /\ ColumnsOf[f] = ColumnsOf[r]
                     /\ \A q \in rows : ColumnsOf[q] = ColumnsOf[r] => <<q, f>> \notin before
  IN {p \in rows \X rows :
        IF ColumnsOf[p[1]] = ColumnsOf[p[2]] THEN p \in before
        ELSE \E f, g \in rows : Leads(f, p[1]) /\ Leads(g, p[2]) /\ <<f, g>> \in before}

(* Rows that are written one by one, after one look at the log for all.     *)
Single(rows) == Cardinality(rows) <= 1 \/ conn.match = 2
Chunked(rows) == conn.kind = "mysql" \/ (conn.kind = "postgres" /\ ~Single(rows))
InTurn == conn.kind = "snowflake" \/ Strategy = "scd2"

SplitsRepeats == conn.kind = "postgres" /\ ~InsertOnly /\ conn.match > 0

(* How many rows the next statement takes: a chunk ends with its group, at  *)
(* the bound, or before a row that it repeats.  The variant compares the    *)
(* length with > where the code has >=.                                    *)
NextChunkOverflows(rows) ==
  LET ends == {n \in 1..Len(rows) :
                 \/ n \in {Len(rows), MaxChunk + 1}
                 \/ ColumnsOf[rows[n + 1]] # ColumnsOf[rows[n]]
                 \/ SplitsRepeats /\ Repeats(rows, n + 1)}
  IN CHOOSE n \in ends : \A m \in ends : n <= m
NextChunk(rows) ==
  LET ends == {n \in 1..Len(rows) :
                 \/ n \in {Len(rows), MaxChunk}
                 \/ ColumnsOf[rows[n + 1]] # ColumnsOf[rows[n]]
                 \/ SplitsRepeats /\ Repeats(rows, n + 1)}
  IN CHOOSE n \in ends : \A m \in ends : n <= m

(* MySQL's delete+insert deletes a chunk's keys, then inserts its rows.    *)
ChunkStatements(rows) ==
  IF conn.kind = "mysql" /\ Strategy = "delete+insert"
    THEN <<Stmt("delete", rows), Stmt("chunk", rows)>>
    ELSE <<Stmt("chunk", rows)>>

(* writeRow of Snowflake, scd2Batch of Postgres: what follows for a row.    *)
RowStatements(r) ==
  CASE Strategy = "scd2" -> <<Stmt("scd2", <<r>>)>>
    [] Strategy = "delete+insert" -> <<Stmt("delete", <<r>>), Stmt("single", <<r>>)>>
    [] OTHER -> <<Stmt("single", <<r>>)>>

(* The order in which rows that are not written one by one are taken.       *)
Order(rows) ==
  IF InTurn THEN AsSent(rows)
  ELSE Groups(rows, IF conn.kind = "mysql" \/ conn.match = 0 THEN AsSent(rows)
                    ELSE SortRowsByKey(rows))

------------------------------------------------------------------------------
\* Load

Init ==
  /\ conn \in {c \in Connections : Connects(c)} /\ runID = (IF conn.runs THEN 1 ELSE 0) /\ ctxDone = FALSE
  /\ phase = "idle" /\ batch = {} /\ verdict = [r \in Rows |-> "none"]
  /\ fatal = FALSE /\ bulk = FALSE /\ left = <<>> /\ queue = <<>>
  /\ table = None /\ current = {} /\ staging = None /\ staged = FALSE
  /\ truncated = FALSE /\ marked = {} /\ loads = 0 /\ faults = 0
  /\ written = {} /\ brought = None /\ given = None /\ ambiguous = {} /\ unreported = {}
  /\ had = {} /\ runErrors = FALSE

Begin ==
  /\ phase \in {"idle", "returned"} /\ loads < MaxLoads
  /\ loads' = loads + 1
  /\ \E rows \in (SUBSET Rows) \ {{}} :
       /\ batch' = rows
       /\ brought' = [r \in Rows |-> IF r \in rows THEN brought[r] + 1 ELSE brought[r]]
       /\ bulk' = (/\ conn.kind = "postgres" /\ SkipsLog
                   /\ Cardinality(rows) >= CopyThreshold)
  /\ verdict' = [r \in Rows |-> "none"] /\ left' = <<>> /\ queue' = <<>>
  /\ fatal' = ctxDone
  /\ phase' = IF ctxDone THEN "returned" ELSE IF TruncatesFirst THEN "truncate" ELSE "plan"
  /\ unreported' = {} /\ had' = Keys(Present(table))
  /\ written' = IF SkipsLog THEN {} ELSE written
  /\ runErrors' = (runErrors \/ ctxDone)
  /\ UNCHANGED <<conn, runID, ctxDone, tableVars, staged, truncated, marked, faults,
                 given, ambiguous>>

Abort == phase' = "returned" /\ fatal' = TRUE /\ runErrors' = TRUE

Truncate ==
  /\ phase = "truncate"
  /\ \/ /\ table' = None /\ truncated' = TRUE /\ phase' = "plan"
        /\ NoFault /\ UNCHANGED <<fatal, runErrors>>
     \/ /\ IF ctxDone THEN NoFault ELSE Fault
        /\ Abort /\ UNCHANGED truncated
        /\ table' \in {table, None}
  /\ UNCHANGED <<conn, runID, ctxDone, batch, verdict, bulk, left, queue, current, staging,
                 staged, marked, loads, written, brought, given, ambiguous, unreported, had>>

(* Rows whose delivery-log entry cannot be read, if any.                   *)
UnreadSets(rows) ==
  IF ctxDone THEN SUBSET rows
  ELSE {{}} \cup (IF faults < MaxFaults THEN {{r} : r \in rows} ELSE {})
ReadFault(unread) ==
  faults' = IF unread = {} \/ ctxDone THEN faults ELSE faults + 1

(* The delivery log is asked for each row.  The variant does not ask.      *)
NotAsked(rows, unread) == rows
Pending(rows, unread) ==
  IF SkipsLog THEN rows ELSE rows \ (unread \cup marked)
Book(rows, unread) ==
  [r \in Rows |-> IF r \notin rows \/ r \in Pending(rows, unread) THEN verdict[r]
                  ELSE IF r \in marked \ unread THEN "skipped" ELSE "error"]

planFrame == <<conn, runID, ctxDone, batch, bulk, tableVars, truncated, marked, loads,
               written, brought, given, ambiguous, unreported, had>>

\* Rows to write become the statements at hand, or are left for later ones.
PutInLine(rows) ==
  IF InTurn \/ Chunked(rows)
    THEN left' = Ordered(rows, Order(rows)) /\ UNCHANGED queue
    ELSE queue' = Singles(Ordered(rows, AsSent(rows))) /\ UNCHANGED left

(* What a Load does, and in what order, for the destinations that ask the   *)
(* log first.                                                              *)
Plan ==
  /\ phase = "plan"
  /\ \/ /\ ctxDone /\ ~bulk /\ ~ViaStaging /\ ~InTurn
        /\ Abort /\ NoFault /\ UNCHANGED <<verdict, left, queue, staged>>
     \/ /\ bulk \/ ViaStaging
        /\ queue' = <<Stmt(IF ~ViaStaging THEN "copy" ELSE IF bulk THEN "stageCopy"
                           ELSE "stageInsert", Ordered(batch, AsSent(batch)))>>
        /\ phase' = "write" /\ staged' = (staged \/ ViaStaging)
        /\ NoFault /\ UNCHANGED <<verdict, fatal, left, runErrors>>
     \/ /\ ViaStaging /\ ~staged /\ (IF ctxDone THEN NoFault ELSE Fault)
        /\ Abort /\ UNCHANGED <<verdict, left, queue, staged>>
     \/ /\ ~bulk /\ ~ViaStaging /\ (ctxDone => InTurn)
        /\ \E unread \in IF InTurn \/ SkipsLog THEN {{}} ELSE UnreadSets(batch) :
             /\ ReadFault(unread)
             /\ IF InTurn THEN PutInLine(batch) /\ UNCHANGED verdict
                ELSE /\ PutInLine(Pending(batch, unread))
                     /\ verdict' = Book(batch, unread)
        /\ phase' = "write" /\ UNCHANGED <<fatal, staged, runErrors>>
  /\ UNCHANGED planFrame

(* A row's turn comes: the context, then the delivery log, then the row.   *)
TakeTurn ==
  /\ phase = "write" /\ queue = <<>> /\ left # <<>> /\ InTurn
  /\ \/ ctxDone /\ Abort /\ NoFault /\ UNCHANGED <<verdict, left, queue>>
     \/ /\ ~ctxDone
        /\ \E unread \in IF SkipsLog THEN {{}} ELSE UnreadSets({Head(left)}) :
             /\ ReadFault(unread)
             /\ verdict' = Book({Head(left)}, unread)
             /\ queue' = IF Pending({Head(left)}, unread) = {} THEN <<>>
                         ELSE RowStatements(Head(left))
        /\ left' = Tail(left) /\ UNCHANGED <<phase, fatal, runErrors>>
  /\ UNCHANGED <<planFrame, staged>>

(* The next rows of a group fill a chunk.                                  *)
TakeChunk ==
  /\ phase = "write" /\ queue = <<>> /\ left # <<>> /\ ~InTurn
  /\ LET n == NextChunk(left)
     IN /\ queue' = ChunkStatements(SubSeq(left, 1, n))
        /\ left' = SubSeq(left, n + 1, Len(left))
  /\ UNCHANGED <<planFrame, verdict, phase, fatal, staged, faults, runErrors>>

Return ==
  /\ phase = "write" /\ queue = <<>> /\ left = <<>>
  /\ phase' = "returned"
  /\ runErrors' = (runErrors \/ \E r \in batch : verdict[r] = "error")
  /\ UNCHANGED <<planFrame, verdict, fatal, left, queue, staged, faults>>

------------------------------------------------------------------------------
\* One statement

(* How it ends: "error" is any error but those the code singles out, a lost *)
(* connection ("badConn", isFatalDBError), the end of the context, and a    *)
(* timeout of the driver's own while it dials, which is a DeadlineExceeded, *)
(* too.                                                                    *)
Ends == {"ok", "error", "badConn", "dial", "cancelled"}

(* What the code makes of an end that is not "ok".  The context ended, or   *)
(* some dial timeout, look alike to it.                                    *)
IfInterrupted(end, what) ==
  IF end = "cancelled" THEN "fatal" ELSE IF end = "dial" THEN "unreported" ELSE what

OnPostgres(how, end) ==
  CASE how = "copy" -> "insertBatch"
    [] how = "stageCopy" -> "stageInsert"
    [] how = "stageInsert" -> "rowErrors"
    [] how = "scd2" -> IF end = "error" THEN "rowErrors" ELSE "fatal"
    [] how = "chunk" -> IfInterrupted(end, IF end = "badConn" THEN "fatal" ELSE "singles")
    [] OTHER -> IfInterrupted(end, IF end = "badConn" THEN "fatal" ELSE "rowErrors")

\* The variant passes over a row's error.
OnMySQLIgnores(how, end) == IF how = "delete" THEN "fatal" ELSE "next"
OnMySQL(how, end) ==
  CASE how = "delete" -> "fatal"
    [] how = "single" -> "rowErrors"
    [] OTHER -> IfInterrupted(end, "singles")

OnSnowflake(how, end) == "rowErrors"

OnFailure(how, end) ==
  CASE conn.kind = "postgres" -> OnPostgres(how, end)
    [] conn.kind = "mysql" -> OnMySQL(how, end)
    [] conn.kind = "snowflake" -> OnSnowflake(how, end)

\* The variant goes on to insert what COPY has written.
OnEndFallsThrough(how, end) ==
  IF end # "ok" THEN OnFailure(how, end)
  ELSE CASE how = "delete" -> "next"
         [] how = "copy" -> "insertBatch"
         [] OTHER -> "loaded"
OnEnd(how, end) ==
  IF end # "ok" THEN OnFailure(how, end)
  ELSE IF how = "delete" THEN "next" ELSE "loaded"

(* Rows whose mark fails.                                                  *)
UnmarkedSets(s) ==
  IF ~Marks(s.how) THEN {{}}
  ELSE IF ctxDone THEN {{}, ToSet(s.rows)}
  ELSE {{}} \cup (IF faults < MaxFaults THEN {{r} : r \in ToSet(s.rows)} ELSE {})

Loaded(s) ==
  \E unmarked \in UnmarkedSets(s) :
    LET rows == ToSet(s.rows) IN
    /\ ReadFault(unmarked)
    /\ marked' = IF Marks(s.how) THEN marked \cup (rows \ unmarked) ELSE marked
    /\ verdict' = [r \in Rows |-> IF r \notin rows THEN verdict[r]
                                  ELSE IF r \in unmarked THEN "error" ELSE "loaded"]
    /\ given' = [r \in Rows |-> IF r \in rows \ unmarked THEN given[r] + 1 ELSE given[r]]
    /\ queue' = Tail(queue)
    /\ UNCHANGED <<phase, fatal, bulk, left, unreported, runErrors>>

(* Snowflake's delete is followed by the insert of the same row.           *)
Rest(s) == IF s.how = "delete" THEN Tail(Tail(queue)) ELSE Tail(queue)

NotLoaded(s, what) ==
  LET rows == ToSet(s.rows) IN
  /\ verdict' = IF what = "rowErrors"
                  THEN [r \in Rows |-> IF r \in rows THEN "error" ELSE verdict[r]]
                  ELSE verdict
  /\ unreported' = IF what = "unreported" THEN unreported \cup rows ELSE unreported
  /\ queue' = CASE what = "singles" -> Singles(s.rows) \o Tail(queue)
                [] what = "stageInsert" -> <<Stmt("stageInsert", s.rows)>>
                [] what = "insertBatch" -> <<>>
                [] what = "next" -> Tail(queue)
                [] OTHER -> Rest(s)
  /\ bulk' = (bulk /\ what # "insertBatch")
  /\ CASE what = "fatal" -> Abort
       [] what = "insertBatch" ->
            /\ phase' = IF TruncatesFirst THEN "truncate" ELSE "plan"
            /\ UNCHANGED <<fatal, runErrors>>
       [] OTHER -> UNCHANGED <<phase, fatal, runErrors>>
  /\ UNCHANGED <<marked, given, left>>

(* A failed statement was rolled back, unless only its answer was lost.    *)
Execute ==
  /\ phase = "write" /\ queue # <<>>
  /\ LET s == Head(queue) IN
     \E end \in Ends, landed \in BOOLEAN :
       /\ end = "ok" => landed /\ ~Refused(s)
       /\ Refused(s) => end = "error" \/ ctxDone
       /\ landed => ~Refused(s) /\ end \in {"ok", "error", "cancelled"}
       /\ end = "cancelled" => ctxDone
       /\ IF OnEnd(s.how, end) = "loaded" THEN Loaded(s) ELSE NotLoaded(s, OnEnd(s.how, end))
       /\ OnEnd(s.how, end) # "loaded" =>
            IF end = "ok" \/ ctxDone \/ Refused(s) THEN NoFault ELSE Fault
       /\ IF landed THEN Effect(s) ELSE UNCHANGED tableVars
       /\ written' = IF landed /\ s.how # "delete" THEN written \cup ToSet(s.rows) ELSE written
       /\ ambiguous' = IF landed /\ end # "ok" THEN ambiguous \cup ToSet(s.rows) ELSE ambiguous
  /\ UNCHANGED <<conn, runID, ctxDone, batch, staged, truncated, loads, brought, had>>

------------------------------------------------------------------------------
\* Runs and the context

(* FinalizeRun: swap the staging table in, in one transaction, or drop it.  *)
(* The variant swaps whatever became of the run.                           *)
FinalizeRunAlways(succeeded) ==
  IF staged THEN table' = staging /\ NoFault ELSE UNCHANGED <<table, faults>>
FinalizeRun(succeeded) ==
  IF staged /\ succeeded
    THEN (table' = staging /\ NoFault) \/ (UNCHANGED table /\ Fault)
    ELSE UNCHANGED <<table, faults>>

EndRun ==
  /\ conn.runs /\ phase = "returned" /\ runID <= loads
  /\ \E succeeded \in {~runErrors, FALSE} : FinalizeRun(succeeded)
  /\ runID' = runID + 1 /\ runErrors' = FALSE
  /\ staged' = FALSE /\ staging' = None /\ truncated' = FALSE
  /\ IF Strategy = "replace" THEN brought' = None /\ given' = None
     ELSE UNCHANGED <<brought, given>>
  /\ UNCHANGED <<conn, ctxDone, phase, batch, verdict, fatal, bulk, left, queue, current, marked,
                 loads, written, ambiguous, unreported, had>>

EndContext ==
  /\ phase \in {"truncate", "plan", "write"} /\ ~ctxDone
  /\ ctxDone' = TRUE
  /\ UNCHANGED <<conn, runID, loadVars, tableVars, staged, truncated, marked, loads,
                 faults, bookVars>>

Next ==
  \/ Begin \/ Truncate \/ Plan \/ TakeTurn \/ TakeChunk \/ Return \/ Execute
  \/ EndRun \/ EndContext

Spec == Init /\ [][Next]_vars

------------------------------------------------------------------------------
\* Properties

(* As many copies as Loads: neither the fall back from COPY to INSERT nor   *)
(* the one from a chunk to single rows writes a row twice or drops one,     *)
(* unless the answer of a statement was lost.  (In Postgres an append with a *)
(* match field is an upsert.)                                              *)
AsLoaded(t) ==
  \A r \in Rows \ ambiguous : t[r] \in given[r]..brought[r]
AppendOnce == Strategy = "append" /\ InsertOnly => AsLoaded(table)

(* A replace with a run ID leaves the target alone until the run has ended  *)
(* without an error, and then holds what the run loaded.                   *)
StagedSwap ==
  [][ViaStaging /\ table' # table =>
       runID' # runID /\ ~runErrors /\ AsLoaded(table')]_vars

(* Whatever the number of Loads, at the end of each the replaced table      *)
(* holds the rows the run has loaded so far.                               *)
ReplacedByTheRun ==
  Strategy = "replace" /\ ~ViaStaging /\ phase = "returned" /\ ~fatal =>
    \A r \in Rows \ ambiguous : table[r] >= given[r]

(* True of MySQL and Snowflake, which truncate once per connection.        *)
ReplacedByTheConnection == conn.kind # "postgres" => ReplacedByTheRun

(* A delete+insert that deletes a key and then fails to insert reports a    *)
(* row of that key.                                                        *)
LostKeyReported ==
  Strategy = "delete+insert" /\ phase = "returned" /\ ~fatal =>
    \A k \in had \ Keys(Present(table)) :
      \E r \in batch : KeyOf[r] = k /\ (verdict[r] = "error" \/ r \in unreported)

(* Of several rows with one key and the same columns in a Load, all written *)
(* by a merge, the last one stays, through sorting, chunks and retries.     *)
LatestWins ==
  Strategy \in {"merge", "upsert"} /\ conn.match > 0 /\ phase = "returned" /\ ~fatal =>
    \A r \in batch :
      (\A q \in batch : KeyOf[q] = KeyOf[r] =>
         q <= r /\ verdict[q] = "loaded" /\ ColumnsOf[q] = ColumnsOf[r])
      => table[r] = 1

(* Type-2 history: every key ever written has exactly one current version,  *)
(* also when the commit's answer is lost and the row is sent again.        *)
OneCurrent ==
  Strategy = "scd2" =>
    \A k \in Keys(written) : Cardinality({r \in current : KeyOf[r] = k}) = 1

(* The contract of destination.go.  The strategies that skip the delivery   *)
(* log (append, replace) keep it within one Load.  A driver's own timeout   *)
(* while it dials leaves rows undecided in a Load that returns no error.    *)
Contract ==
  INSTANCE LoadContract WITH
    waived <- {}, anonymous <- FALSE,
    fatal <- fatal \/ (phase = "returned" /\ unreported # {}),
    applied <- written,
    marked <- IF SkipsLog THEN {r \in Rows : verdict[r] = "loaded"} ELSE marked
KeepsContract == Contract!Spec

==============================================================================
