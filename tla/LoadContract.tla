---------------------------- MODULE LoadContract ----------------------------
(***************************************************************************)
(* What Destination.Load promises (internal/connector/destination/          *)
(* destination.go, the comments on LoadResult and Load), whatever the       *)
(* transport: a row is not written when the delivery log has it, enters     *)
(* the log only once written, and a result without a top-level error        *)
(* accounts for every row.                                                 *)
(***************************************************************************)
CONSTANT Rows

VARIABLES
  phase,      \* "idle", then "returned" between Loads, else Load is running
  batch,      \* the rows of this Load
  verdict,    \* how each row is counted so far
  fatal,      \* Load returned a top-level error
  applied,    \* rows the system behind the destination has written
  marked,     \* rows in the delivery log
  waived,     \* rows that may enter the log although nothing was written
  anonymous   \* errors need not name their rows

vars == <<phase, batch, verdict, fatal, applied, marked>>

Between == {"idle", "returned"}
Counted == {"loaded", "skipped", "error"}

Init ==
  /\ phase = "idle" /\ batch = {} /\ fatal = FALSE
  /\ verdict = [r \in Rows |-> "none"]
  /\ applied = {} /\ marked = {}

(* A Load begins, of the same rows or of new ones; one that finds its       *)
(* context ended returns at once.                                          *)
Begin ==
  /\ phase \in Between
  /\ verdict' = [r \in Rows |-> "none"]
  /\ batch' \subseteq Rows
  /\ \/ phase' \notin Between /\ fatal' = FALSE
     \/ phase' = "returned" /\ fatal' = TRUE
  /\ \/ UNCHANGED <<applied, marked>>
     \/ applied' = {} /\ marked' = {}

(* Rows are counted, once; those that are loaded enter the log, no others.  *)
Count ==
  /\ \A r \in Rows :
       verdict[r] # "none" => verdict'[r] = verdict[r]
  /\ \A r \in Rows :
       verdict'[r] # verdict[r] =>
         /\ verdict'[r] = "skipped" => r \in marked
         /\ verdict'[r] = "loaded" =>
              r \in (applied' \cup waived) /\ r \in marked' \ marked
  /\ marked \subseteq marked'
  /\ \A r \in marked' \ marked :
       /\ verdict[r] = "none"
       /\ verdict'[r] = "loaded" \/ r \in waived

(* A step writes, but no row the log has, counts, or does both.            *)
Step ==
  /\ phase \notin Between
  /\ applied \subseteq applied' /\ (applied' \ applied) \cap marked = {}
  /\ Count
  /\ batch' = batch
  /\ \/ phase' \notin Between /\ fatal' = fatal
     \/ phase' = "returned" /\ fatal' = TRUE
     \/ /\ phase' = "returned" /\ fatal' = FALSE
        /\ \A r \in batch :
             verdict'[r] \in Counted \/ (anonymous /\ verdict'[r] # "none")

Next == Begin \/ Step

Spec == Init /\ [][Next]_vars

==============================================================================
