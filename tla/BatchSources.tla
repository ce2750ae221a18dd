----------------------------- MODULE BatchSources -----------------------------
(***************************************************************************)
(* The batch sources of internal/connector/source, each by what sets its    *)
(* Extract apart: which statement it sends, how it pages, and which          *)
(* watermark a row gets.  Times are numbers, 0 is Go's zero time; a row      *)
(* without a watermark has time 0, too (NULL).                             *)
(***************************************************************************)
EXTENDS Naturals

CONSTANT Second      \* ticks of the clock in a second, the unit of RFC 3339

ASSUME SourcesAssumption == Second \in Nat \ {0}

SourceKinds == {"postgres", "redshift", "mysql", "snowflake", "bigquery", "restapi"}
SnapshotKinds == {"postgres", "redshift", "mysql"}    \* those of watermark: none

(* column: type of the watermark column, "none" for watermark: none; key:   *)
(* the table has an integer primary key; parallel: extract_parallelism;     *)
(* routed: the caller asks CursorKind first, as batch.go says of it, and    *)
(* gives ExtractNumeric a limit (0 is none); bounded: the caller gives an   *)
(* end of the interval.  The engine does neither.                          *)
SourceType ==
  [kind : SourceKinds, column : {"time", "int", "other", "missing", "none"},
   query : BOOLEAN, key : BOOLEAN, parallel : Nat \ {0},
   routed : BOOLEAN, limit : Nat, bounded : BOOLEAN]

------------------------------------------------------------------------------
\* How a source reads.  pages: by OFFSET, by ranges of the primary key, by a
\* cursor of its own or of the server's, or in one statement; lower: rows whose
\* time is above the watermark, from it on, or above its second; upper: up to
\* the end of the interval if there is one, or always; bare: what a row without
\* a time gets; ordered: rows come in the order of their times.

Reading(pages, lower, upper, bare, ordered) ==
  [pages |-> pages, lower |-> lower, upper |-> upper, bare |-> bare, ordered |-> ordered]

Refused == Reading("refused", "none", "none", "unset", FALSE)

(* Does a row of that time pass the filter?                                *)
Above(lower, t, w) ==
  CASE lower = "none" -> TRUE
    [] lower = "above" -> w = 0 \/ t > w
    [] lower = "from" -> w = 0 \/ (t > 0 /\ t >= w)
    [] lower = "aboveSecond" -> t > w - (w % Second)

UpTo(upper, t, end) ==
  CASE upper = "none" -> TRUE
    [] upper = "ifGiven" -> end = 0 \/ (t > 0 /\ t <= end)
    [] upper = "always" -> t > 0 /\ t <= end

InWindow(reading, t, w, end) == Above(reading.lower, t, w) /\ UpTo(reading.upper, t, end)

------------------------------------------------------------------------------
\* PostgreSQL

PgValidateWatermarkColumn(c) == c.column \in {"none", "time"}

PgCursorKind(c) ==
  CASE c.column = "none" -> "snapshot"
    [] c.column # "none" /\ c.query -> "time"
    [] c.column \in {"time", "int"} /\ ~c.query -> c.column
    [] OTHER -> "error"

(* buildSelectQuery; watermarkFromValues has no time for NULL.              *)
PgSelect(pages, ordered) == Reading(pages, "above", "ifGiven", "error", ordered)
PgPages == PgSelect("offset", TRUE)
PgRanges == PgSelect("ranges", FALSE)
PgSnapshot == Reading("one", "none", "none", "unset", FALSE)
PgNumeric == Reading("keyset", "none", "none", "unset", TRUE)

(* runCustomQuery: the query of the file compares with {{watermark}}.       *)
PgCustomQuery == Reading("one", "aboveSecond", "none", "now", FALSE)

PgExtract(c) ==
  CASE c.query -> PgCustomQuery
    [] ~c.query /\ c.column = "none" -> PgSnapshot
    [] ~c.query /\ ~PgValidateWatermarkColumn(c) -> Refused
    [] OTHER -> IF c.parallel > 1 /\ c.key THEN PgRanges ELSE PgPages

(* getPKColumn and the ranges: the keys lo..hi cut into parts, or nothing   *)
(* when there is no range.  The variant forgets the remainder.             *)
RangesWithoutRest(lo, hi, n) ==
  LET size == IF (hi - lo + 1) \div n = 0 THEN 1 ELSE (hi - lo + 1) \div n
  IN [i \in 1..n |-> [lo |-> lo + (i - 1) * size, hi |-> lo + i * size - 1]]
Ranges(lo, hi, n) ==
  LET size == IF (hi - lo + 1) \div n = 0 THEN 1 ELSE (hi - lo + 1) \div n
  IN [i \in 1..n |-> [lo |-> lo + (i - 1) * size,
                      hi |-> IF i = n THEN hi ELSE lo + i * size - 1]]

------------------------------------------------------------------------------
\* MySQL: the end of the interval is a parameter even when there is none.

MySQLValidateWatermarkColumn(c) == c.column \in {"none", "time"}

MySQLCursorKind(c) ==
  CASE c.column = "none" -> "snapshot"
    [] c.column # "none" /\ c.query -> "time"
    [] c.column \in {"time", "int"} /\ ~c.query -> c.column
    [] OTHER -> "error"

MySQLSelect(w) == Reading("one", IF w THEN "above" ELSE "none",
                          IF w THEN "always" ELSE "none", "unset", w)
MySQLCustomQuery == Reading("one", "above", "always", "unset", FALSE)
MySQLNumeric == Reading("keyset", "none", "none", "unset", TRUE)

MySQLExtract(c) ==
  CASE c.query -> MySQLCustomQuery
    [] ~c.query /\ ~MySQLValidateWatermarkColumn(c) -> Refused
    [] OTHER -> MySQLSelect(c.column # "none")

------------------------------------------------------------------------------
\* Snowflake, BigQuery, Redshift, REST

SnowflakeConnects(c) == c.column # "none"
SnowflakeSelect == Reading("offset", "above", "ifGiven", "now", TRUE)
SnowflakeCustomQuery == Reading("one", "aboveSecond", "none", "now", FALSE)
SnowflakeExtract(c) == IF c.query THEN SnowflakeCustomQuery ELSE SnowflakeSelect

BigQueryConnects(c) == c.column # "none"
BigQuerySelect == Reading("offset", "from", "ifGiven", "now", TRUE)
BigQueryCustomQuery == Reading("one", "aboveSecond", "none", "now", FALSE)
BigQueryExtract(c) == IF c.query THEN BigQueryCustomQuery ELSE BigQuerySelect

(* The server pages by a cursor of its own and compares with since=.        *)
RestExtract == Reading("server", "aboveSecond", "ifGiven", "now", FALSE)

Connects(c) ==
  CASE c.kind = "snowflake" -> SnowflakeConnects(c)
    [] c.kind = "bigquery" -> BigQueryConnects(c)
    [] OTHER -> TRUE

CursorKind(c) ==
  CASE c.kind \in {"postgres", "redshift"} -> PgCursorKind(c)
    [] c.kind = "mysql" -> MySQLCursorKind(c)
    [] OTHER -> "time"

ReadingOf(c) ==
  CASE c.routed /\ CursorKind(c) = "error" -> Refused
    [] c.routed /\ CursorKind(c) = "int" ->
         IF c.kind = "mysql" THEN MySQLNumeric ELSE PgNumeric
    [] OTHER ->
         CASE c.kind \in {"postgres", "redshift"} -> PgExtract(c)
           [] c.kind = "mysql" -> MySQLExtract(c)
           [] c.kind = "snowflake" -> SnowflakeExtract(c)
           [] c.kind = "bigquery" -> BigQueryExtract(c)
           [] c.kind = "restapi" -> RestExtract

==============================================================================
