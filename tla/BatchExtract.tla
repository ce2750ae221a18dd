----------------------------- MODULE BatchExtract -----------------------------
(***************************************************************************)
(* Runs that read a batch source.  Every statement sees the table as it is   *)
(* when the statement starts; the table changes between statements, the rows *)
(* go one by one through a bounded channel to the engine, which remembers   *)
(* the greatest watermark and saves it when the run is a success.          *)
(***************************************************************************)
EXTENDS BatchSources, Integers, FiniteSets, SequencesExt, FiniteSetsExt

CONSTANTS
  Rows,         \* primary keys
  BareRows,     \* rows without a value in the watermark column
  Sources,      \* the configured sources Init chooses from
  BatchSize, Capacity,               \* batch_size; room in the channel
  MaxTime, MaxRuns, MaxFaults

ASSUME ExtractAssumption ==
  /\ Rows \subseteq Nat \ {0} /\ Rows # {} /\ IsFiniteSet(Rows) /\ BareRows \subseteq Rows
  /\ Sources \subseteq SourceType
  /\ {BatchSize, Capacity} \subseteq Nat \ {0}
  /\ {MaxTime, MaxRuns, MaxFaults} \subseteq Nat /\ MaxTime >= 2

VARIABLES
  source, reading,   \* the configured source, how it reads
  time,              \* when each row was written last, 0 if it is not there
  clock,
  phase, ctxDone,
  scans,             \* the statements of this Extract, one per range
  out, stopped,      \* the channel; the engine has left its loop
  failed,            \* the error of Extract: "no", "error" or "timeout"
  highest,           \* maxWatermark of this run
  watermark          \* that of the last successful run

VARIABLES            \* bookkeeping of the model
  runs, faults, start, end,
  taken,             \* how often the engine got each row in this run
  fresh,             \* rows whose present content it got in this run
  changed,           \* rows written or deleted during this run
  unread,            \* rows whose present content no successful run got
  late,              \* rows committed with a time, or a key, of the past
  tied,              \* rows at the time of a watermark when it was saved
  smooth,            \* no page depended on an order or a moment
  cutShort           \* a timeout has ended an extraction early

tableVars == <<time, clock>>
runVars == <<phase, ctxDone, scans, out, stopped, failed, highest, start, end>>
bookVars == <<taken, fresh, changed, unread, late, tied, smooth, cutShort>>
vars == <<source, reading, tableVars, runVars, watermark, runs, faults, bookVars>>

Present == {r \in Rows : time[r] > 0}
AppendOnly == reading.pages = "keyset"

TypeOK ==
  /\ source \in Sources /\ reading \in {ReadingOf(source), PgPages}
  /\ time \in [Rows -> 0..MaxTime] /\ clock \in 0..MaxTime
  /\ phase \in {"idle", "plan", "extract", "ended"} /\ ctxDone \in BOOLEAN
  /\ \A i \in DOMAIN scans :
       /\ scans[i].pc \in {"query", "emit", "ended"} /\ scans[i].more \in BOOLEAN
       /\ scans[i].last \in Rows \cup {0} /\ scans[i].sent \in 0..Cardinality(Rows)
       /\ Range(scans[i].page) \subseteq [row : Rows, at : 1..MaxTime]
  /\ Range(out) \subseteq [row : Rows, at : 1..MaxTime, wm : 0..Max(Rows \cup {MaxTime})]
  /\ Len(out) <= Capacity /\ stopped \in BOOLEAN
  /\ failed \in {"no", "error", "timeout"}
  /\ {highest, watermark, start, end} \subseteq 0..Max(Rows \cup {MaxTime})
  /\ runs \in 0..MaxRuns /\ faults \in 0..MaxFaults
  /\ taken \in [Rows -> 0..Cardinality(Rows)]
  /\ {fresh, changed, unread, late, tied} \subseteq SUBSET Rows
  /\ smooth \in BOOLEAN /\ cutShort \in BOOLEAN

------------------------------------------------------------------------------
\* Rows and their times

Fault == faults < MaxFaults /\ faults' = faults + 1
NoFault == faults' = faults

(* What a row written at time t shows in the watermark column.              *)
ShownAt(r, t) == IF r \in BareRows \/ source.column \notin {"time", "int"} THEN 0 ELSE t
Shown(r) == ShownAt(r, time[r])

(* What its filter compares: a numeric cursor is the key itself, and a      *)
(* server knows its own rows.                                              *)
Compared(r) ==
  CASE reading.pages = "keyset" -> r
    [] reading.pages = "server" -> time[r]
    [] OTHER -> Shown(r)

Selected == {r \in Present : InWindow(reading, Compared(r), start, end)}

(* The watermark of a row that was read as it was at time t.                *)
RowWatermark(r, t) ==
  CASE reading.pages = "keyset" -> r
    [] reading.pages # "keyset" /\ reading.bare = "now" /\ ShownAt(r, t) = 0 -> clock
    [] OTHER -> ShownAt(r, t)

(* ORDER BY the watermark: NULLs come last, in BigQuery first; rows with    *)
(* the same time in any order.  Or no ORDER BY, or the key.                 *)
Rank(r) ==
  IF Shown(r) > 0 THEN Shown(r) ELSE IF source.kind = "bigquery" THEN 0 ELSE MaxTime + 1
Tied(S) == \E r, q \in S : r # q /\ Rank(r) = Rank(q)
Orders(S) == {s \in SetToSeqs(S) : \A i, j \in DOMAIN s : i < j => Rank(s[i]) <= Rank(s[j])}
AnyOrder(S) == IF reading.ordered THEN Orders(S) ELSE SetToSeqs(S)
ByKey(S) == {s \in SetToSeqs(S) : \A i, j \in DOMAIN s : i < j => s[i] < s[j]}

------------------------------------------------------------------------------
\* The table

Init ==
  /\ source \in {c \in Sources : Connects(c)} /\ reading = ReadingOf(source)
  /\ clock = 2 /\ time \in [Rows -> 0..2]
  /\ \A r \in Rows : time[r] = 1 => Compared(r) = 1    \* else nobody sees the time
  /\ AppendOnly => \A r \in Present : \A q \in Rows : q < r => q \in Present
  /\ phase = "idle" /\ ctxDone = FALSE /\ scans = <<>> /\ out = <<>> /\ stopped = FALSE
  /\ failed = "no" /\ highest = 0 /\ watermark = 0
  /\ runs = 0 /\ faults = 0 /\ start = 0 /\ end = 0
  /\ taken = [r \in Rows |-> 0] /\ fresh = {} /\ changed = {}
  /\ unread = Present /\ late = {} /\ tied = {} /\ smooth = TRUE /\ cutShort = FALSE

(* A row is inserted, updated or deleted.  It shows the time of its          *)
(* transaction, or of any moment before (a transaction that commits late);  *)
(* a key of a sequence may commit after a greater one.  That is late when a  *)
(* run is under way or has already passed the place.  The other times are    *)
(* left out where nobody sees them.                                        *)
Late(r) ==
  IF AppendOnly THEN r <= watermark \/ (phase # "idle" /\ \E q \in Present : q > r)
  ELSE time'[r] <= watermark \/ (phase # "idle" /\ time'[r] < clock')
Write(r) ==
  /\ clock < MaxTime /\ clock' = clock + 1
  /\ \E t \in 0..clock' :
       /\ t # time[r] /\ (AppendOnly => time[r] = 0 /\ t = clock')
       /\ t \in 1..clock => ShownAt(r, t) = t \/ reading.pages = "server"
       /\ time' = [time EXCEPT ![r] = t]
  /\ changed' = changed \cup {r} /\ fresh' = fresh \ {r}
  /\ unread' = IF time'[r] > 0 THEN unread \cup {r} ELSE unread \ {r}
  /\ late' = IF time'[r] > 0 /\ Late(r) THEN late \cup {r} ELSE late \ {r}
  /\ tied' = tied \ {r}
  /\ UNCHANGED <<source, reading, runVars, watermark, runs, faults, taken, smooth, cutShort>>

------------------------------------------------------------------------------
\* Extract

Begin ==
  /\ phase = "idle" /\ runs < MaxRuns
  /\ runs' = runs + 1 /\ phase' = "plan" /\ ctxDone' = FALSE
  /\ start' = watermark
  /\ end' = IF source.bounded THEN clock ELSE 0
  /\ reading' = ReadingOf(source)
  /\ out' = <<>> /\ stopped' = FALSE /\ failed' = "no" /\ highest' = 0
  /\ taken' = [r \in Rows |-> 0] /\ fresh' = {} /\ changed' = {}
  /\ UNCHANGED <<source, tableVars, scans, watermark, faults, unread, late, tied, smooth,
                 cutShort>>

(* sent: rows sent, the offset; last: the cursor.                          *)
NewScan(lo, hi, last) ==
  [pc |-> "query", lo |-> lo, hi |-> hi, last |-> last, sent |-> 0, more |-> FALSE,
   page |-> <<>>]
WholeTable == NewScan(0, Max(Rows), IF reading.pages = "keyset" THEN watermark ELSE 0)

planFrame == <<source, reading, tableVars, ctxDone, out, stopped, highest, watermark, runs,
               start, end, taken, fresh, changed, unread, late, tied, smooth>>

(* The column is refused, or its types cannot be read; or the statements    *)
(* are laid out.  Without a range of keys, or when the statement for it     *)
(* fails, Postgres pages through the table instead.                        *)
Plan ==
  /\ phase = "plan"
  /\ phase' = "extract"
  /\ \/ /\ reading.pages = "refused" /\ failed' = "error" /\ scans' = <<>>
        /\ NoFault /\ UNCHANGED cutShort
     \/ /\ reading.pages # "refused" /\ (IF ctxDone THEN NoFault ELSE Fault)
        /\ failed' \in {"error", "timeout"} /\ scans' = <<>>
        /\ cutShort' = (cutShort \/ failed' = "timeout")
     \/ /\ reading.pages \notin {"refused", "ranges"} /\ scans' = <<WholeTable>>
        /\ NoFault /\ UNCHANGED <<failed, cutShort>>
     \/ /\ reading.pages = "ranges" /\ Cardinality(Present) > 1
        /\ LET parts == Ranges(Min(Present), Max(Present), source.parallel)
           IN scans' = [i \in DOMAIN parts |-> NewScan(parts[i].lo, parts[i].hi, 0)]
        /\ NoFault /\ UNCHANGED <<failed, cutShort>>
  /\ UNCHANGED planFrame

(* Ranges of less than two keys: one page after the other.                 *)
PlanWithoutRange ==
  /\ phase = "plan" /\ reading.pages = "ranges"
  /\ IF Cardinality(Present) <= 1 THEN NoFault ELSE IF ctxDone THEN NoFault ELSE Fault
  /\ reading' = PgPages
  /\ phase' = "extract" /\ scans' = <<NewScan(0, Max(Rows), 0)>>
  /\ UNCHANGED <<source, tableVars, ctxDone, out, stopped, highest, watermark, runs, failed,
                 start, end, taken, fresh, changed, unread, late, tied, smooth, cutShort>>

Get(i, s) == scans' = [scans EXCEPT ![i] = s]
Later(i) == scans[i].sent > 0 \/ \E j \in DOMAIN scans : scans[j].pc # "query"
Items(rows) == [i \in DOMAIN rows |-> [row |-> rows[i], at |-> time[rows[i]]]]
Left(rows, n) == SubSeq(rows, 1, IF n < Len(rows) THEN n ELSE Len(rows))

(* The statement of a scan fails; a REST source takes a timeout of its own  *)
(* for the end of the context and returns without an error.                *)
Fail(i, how) ==
  /\ Get(i, [scans[i] EXCEPT !.pc = "ended", !.page = <<>>])
  /\ failed' = IF failed # "no" \/ (how = "timeout" /\ source.kind = "restapi") THEN failed
               ELSE how
  /\ cutShort' = (cutShort \/ how = "timeout")

Fetch(i, rows, more) ==
  Get(i, [scans[i] EXCEPT !.pc = "emit", !.page = Items(rows), !.more = more])

(* extractPage: the rows from the offset on.                               *)
OffsetPage(i) ==
  \E rows \in Orders(Selected) :
    LET page == Left(SubSeq(rows, scans[i].sent + 1, Len(rows)), BatchSize)
    IN Fetch(i, page, Len(page) = BatchSize)

(* ExtractNumeric: keys above the cursor, no more than the limit.           *)
KeysetPage(i) ==
  LET s == scans[i]
      room == IF source.limit > 0 /\ source.limit - s.sent < BatchSize
                THEN source.limit - s.sent ELSE BatchSize
  IN \E above \in ByKey({r \in Present : r > s.last}) :
       LET page == Left(above, room)
       IN Fetch(i, page, /\ Len(page) = BatchSize
                         /\ ~(source.limit > 0 /\ s.sent + Len(page) >= source.limit))

ServerPage(i) ==
  \E above \in ByKey({r \in Selected : r > scans[i].last}) :
    Fetch(i, Left(above, BatchSize), Len(above) > BatchSize)

(* extractRange: no pages, but only keys of the range.                     *)
RangePage(i) ==
  \E rows \in AnyOrder({r \in Selected : r \in scans[i].lo..scans[i].hi}) :
    Fetch(i, rows, FALSE)

(* extractSnapshot, runCustomQuery, streamRows: one statement.              *)
OnePage(i) == \E rows \in AnyOrder(Selected) : Fetch(i, rows, FALSE)

scanFrame == <<source, reading, tableVars, phase, ctxDone, highest, watermark, runs, start,
               end, changed, unread, late, tied>>

Query(i) ==
  /\ phase = "extract" /\ scans[i].pc = "query"
  /\ \/ /\ ~ctxDone
        /\ CASE reading.pages = "offset" -> OffsetPage(i)
             [] reading.pages = "keyset" -> KeysetPage(i)
             [] reading.pages = "server" -> ServerPage(i)
             [] reading.pages = "ranges" -> RangePage(i)
             [] reading.pages = "one" -> OnePage(i)
        /\ smooth' = (/\ smooth
                      /\ Later(i) /\ ~AppendOnly => changed = {}
                      /\ Later(i) /\ reading.pages = "offset" => ~Tied(Selected))
        /\ NoFault /\ UNCHANGED <<failed, cutShort>>
     \/ /\ IF ctxDone THEN NoFault /\ Fail(i, "error")
           ELSE Fault /\ \E how \in {"error", "timeout"} : Fail(i, how)
        /\ UNCHANGED smooth
  /\ UNCHANGED <<scanFrame, out, stopped, taken, fresh>>

(* The variant forgets to move the offset.                                 *)
NextRowWithoutOffset(s) ==
  LET item == Head(s.page)
  IN [s EXCEPT !.page = Tail(@), !.last = item.row]
NextRow(s) ==
  LET item == Head(s.page)
  IN [s EXCEPT !.page = Tail(@), !.sent = @ + 1, !.last = item.row]

(* A row is converted and sent, unless it has no watermark or the context   *)
(* ends first.  The variant waits for room in the channel whatever happens. *)
EmitStubbornly(i) ==
  /\ phase = "extract" /\ scans[i].pc = "emit" /\ scans[i].page # <<>>
  /\ LET item == Head(scans[i].page)
         now == reading.bare = "now" /\ ShownAt(item.row, item.at) = 0
     IN \/ /\ reading.bare = "error" /\ ShownAt(item.row, item.at) = 0
           /\ Fail(i, "error") /\ UNCHANGED <<out, smooth>>
        \/ /\ ~(reading.bare = "error" /\ ShownAt(item.row, item.at) = 0)
           /\ Len(out) < Capacity
           /\ out' = Append(out, [row |-> item.row, at |-> item.at,
                                  wm |-> RowWatermark(item.row, item.at)])
           /\ Get(i, NextRow(scans[i]))
           /\ smooth' = (smooth /\ (now => changed = {}))
           /\ UNCHANGED <<failed, cutShort>>
  /\ UNCHANGED <<scanFrame, faults, stopped, taken, fresh>>
Emit(i) ==
  /\ phase = "extract" /\ scans[i].pc = "emit" /\ scans[i].page # <<>>
  /\ LET item == Head(scans[i].page)
         now == reading.bare = "now" /\ ShownAt(item.row, item.at) = 0
     IN \/ /\ reading.bare = "error" /\ ShownAt(item.row, item.at) = 0
           /\ Fail(i, "error") /\ UNCHANGED <<out, smooth>>
        \/ /\ ctxDone /\ Fail(i, "error") /\ UNCHANGED <<out, smooth>>
        \/ /\ ~(reading.bare = "error" /\ ShownAt(item.row, item.at) = 0)
           /\ Len(out) < Capacity
           /\ out' = Append(out, [row |-> item.row, at |-> item.at,
                                  wm |-> RowWatermark(item.row, item.at)])
           /\ Get(i, NextRow(scans[i]))
           /\ smooth' = (smooth /\ (now => changed = {}))
           /\ UNCHANGED <<failed, cutShort>>
  /\ UNCHANGED <<scanFrame, faults, stopped, taken, fresh>>

(* A statement fails after it has sent rows, or after the last one; REST     *)
(* has decoded its whole page before.                                       *)
Interrupt(i) ==
  /\ phase = "extract" /\ scans[i].pc = "emit" /\ reading.pages # "server"
  /\ IF ctxDone THEN NoFault /\ Fail(i, "error")
     ELSE Fault /\ \E how \in {"error", "timeout"} : Fail(i, how)
  /\ UNCHANGED <<scanFrame, out, stopped, taken, fresh, smooth>>

(* The end of a page: a full one is followed by another.                   *)
EndPage(i) ==
  /\ phase = "extract" /\ scans[i].pc = "emit" /\ scans[i].page = <<>>
  /\ Get(i, [scans[i] EXCEPT !.pc = IF scans[i].more THEN "query" ELSE "ended"])
  /\ UNCHANGED <<scanFrame, faults, out, stopped, failed, taken, fresh, smooth, cutShort>>

------------------------------------------------------------------------------
\* The engine

(* It leaves its loop with the first row after the end of the context.      *)
Take ==
  /\ phase = "extract" /\ out # <<>> /\ ~stopped
  /\ LET item == Head(out)
     IN IF ctxDone THEN stopped' = TRUE /\ UNCHANGED <<highest, taken, fresh>>
        ELSE /\ highest' = IF item.wm > highest THEN item.wm ELSE highest
             /\ taken' = [taken EXCEPT ![item.row] = @ + 1]
             /\ fresh' = IF time[item.row] = item.at THEN fresh \cup {item.row} ELSE fresh
             /\ UNCHANGED stopped
  /\ out' = Tail(out)
  /\ UNCHANGED <<source, reading, tableVars, phase, ctxDone, scans, failed, watermark, runs,
                 faults, start, end, changed, unread, late, tied, smooth, cutShort>>

Return ==
  /\ phase = "extract" /\ \A i \in DOMAIN scans : scans[i].pc = "ended"
  /\ out = <<>> \/ stopped
  /\ phase' = "ended" /\ scans' = <<>> /\ out' = <<>>
  /\ UNCHANGED <<source, reading, tableVars, ctxDone, stopped, failed, highest, watermark,
                 runs, faults, start, end, bookVars>>

(* runOnce: an extraction that ended with a deadline is not a failure; a    *)
(* success leaves its watermark.  The variant leaves it in any case.       *)
WrittenAt(w) == {r \in Present : Compared(r) = w}
FinishAnyway ==
  /\ phase = "ended" /\ phase' = "idle"
  /\ watermark' = IF highest > 0 THEN highest ELSE watermark
  /\ unread' = IF ~ctxDone /\ failed # "error" THEN unread \ fresh ELSE unread
  /\ tied' = tied \cup WrittenAt(watermark')
  /\ UNCHANGED <<source, reading, tableVars, ctxDone, scans, out, stopped, failed, highest,
                 runs, faults, start, end, taken, fresh, changed, late, smooth, cutShort>>
Finish ==
  /\ phase = "ended" /\ phase' = "idle"
  /\ IF ~ctxDone /\ failed # "error"
       THEN /\ watermark' = IF highest > 0 THEN highest ELSE watermark
            /\ unread' = unread \ fresh /\ tied' = tied \cup WrittenAt(watermark')
       ELSE UNCHANGED <<watermark, unread, tied>>
  /\ UNCHANGED <<source, reading, tableVars, ctxDone, scans, out, stopped, failed, highest,
                 runs, faults, start, end, taken, fresh, changed, late, smooth, cutShort>>

EndContext ==
  /\ phase \in {"plan", "extract", "ended"} /\ ~ctxDone /\ ctxDone' = TRUE
  /\ UNCHANGED <<source, reading, tableVars, phase, scans, out, stopped, failed, highest,
                 start, end, watermark, runs, faults, bookVars>>

Scan(i) == i \in DOMAIN scans /\ (Query(i) \/ Emit(i) \/ EndPage(i))
ScanIds == 1..Max({1} \cup {c.parallel : c \in Sources})

Next ==
  \/ Begin \/ Plan \/ PlanWithoutRange \/ Take \/ Return \/ Finish \/ EndContext
  \/ \E i \in ScanIds : Scan(i) \/ (i \in DOMAIN scans /\ Interrupt(i))
  \/ \E r \in Rows : Write(r)

(* Statements end and goroutines run; nothing makes the table change, a     *)
(* statement break off or the context end.                                 *)
Fairness ==
  /\ WF_vars(Plan \/ PlanWithoutRange) /\ WF_vars(Take) /\ WF_vars(Return) /\ WF_vars(Finish)
  /\ \A i \in ScanIds : WF_vars(Scan(i))

Spec == Init /\ [][Next]_vars /\ Fairness

------------------------------------------------------------------------------
\* Properties

(* Rows that Extract promises (batch.go): above the watermark and, if there  *)
(* is an end of the interval, up to it; all rows with watermark: none.      *)
Promised(r) ==
  \/ source.column = "none" /\ ~source.query /\ source.kind \in SnapshotKinds
  \/ Compared(r) > start /\ (end = 0 \/ Compared(r) <= end)

(* MySQL compares with the end of the interval although there is none.      *)
NeedsEnd == reading.upper = "always" /\ end = 0

(* An Extract that returns nil has sent every promised row that did not      *)
(* change meanwhile, and no such row twice: through pages, ranges of keys    *)
(* and cursors.  Pages by offset need a table at rest and distinct          *)
(* watermarks.                                                             *)
StableRowsReadOnce ==
  /\ phase = "ended" /\ failed = "no" /\ ~ctxDone /\ ~cutShort
  /\ reading.pages = "offset" => smooth
  => \A r \in Present \ changed :
       /\ taken[r] <= 1
       /\ Promised(r) /\ ~NeedsEnd /\ source.limit = 0 => taken[r] = 1

(* The next run will still look for the row.                                *)
Ahead(r) ==
  IF AppendOnly THEN r > watermark ELSE Above(reading.lower, Compared(r), watermark)

(* The watermark of a successful run passes no row whose content no         *)
(* successful run has read: over concurrent writes, cancellations and        *)
(* failures.  Not so a row committed late, and one at that very time.       *)
(* Several statements in one Extract, or times the source makes up, need a  *)
(* table at rest; a timeout that passes for success does no harm only       *)
(* where rows come in order and none is stamped with the present moment.    *)
NoRowPassed ==
  /\ phase = "idle" /\ smooth
  /\ cutShort => ReadingOf(source).ordered /\ ReadingOf(source).bare # "now"
  => \A r \in (Present \cap unread) \ (late \cup tied) : Compared(r) > 0 => Ahead(r)

(* Every Extract returns and its channel is drained, whoever stops first.   *)
ExtractReturns == (phase = "extract") ~> (phase = "ended")

==============================================================================
