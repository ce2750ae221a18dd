---------------------------- MODULE HttpDelivery ----------------------------
(***************************************************************************)
(* Loads of an API destination: the workers of one Load share the circuit  *)
(* breaker, the rate limiter and the cached token; the context may end and  *)
(* the server may fail, reject, or apply a request whose answer is lost,    *)
(* and the state store may fail to read or to write.                        *)
(* A second Load brings the same rows again, or new content for the same   *)
(* entities.                                                               *)
(***************************************************************************)
EXTENDS ApiDestinations, FiniteSets, FiniteSetsExt

CONSTANTS
  KindsChecked,     \* the destinations Init chooses from
  MaxRows,          \* rows there are
  Codes,            \* HTTP statuses a server answers with
  InstanceOf        \* for each kind, what its file configures and the bounds

(* loads: how many rows a Load may bring; bare, deletes: the rows that may   *)
(* lack the match field, be deletes; entities: how match values may put    *)
(* rows together, each map giving for a row the first row of its entity;   *)
(* known: the entities that may have a record at first; bulk:              *)
(* options.bulk_threshold; limit: rate_limit.requests; guarded: there is a  *)
(* circuit_breaker; oauth: auth.type is oauth2_client_credentials; calls,   *)
(* faults: how many.                                                       *)
Instances ==
  [loads : SUBSET (1..MaxRows), bare : SUBSET (1..MaxRows),
   deletes : SUBSET (1..MaxRows), known : SUBSET (1..MaxRows),
   entities : SUBSET [1..MaxRows -> 1..MaxRows],
   bulk : Nat \ {0}, limit : Nat,
   guarded : BOOLEAN, oauth : BOOLEAN, calls : Nat, faults : Nat]

ASSUME DeliveryAssumption ==
  /\ KindsChecked \subseteq Kinds
  /\ MaxRows \in Nat
  /\ Codes \subseteq Nat /\ 200 \in Codes
  /\ \A k \in KindsChecked : InstanceOf[k] \in Instances

Rows == 1..MaxRows

VARIABLES
  kind,
  entity,            \* rows with one match value have one entity
  n, bare, deletes,  \* the rows 1..n of this Load; without match field; deletes
  stored,            \* rows whose entity state has a HubSpot ID
  missed,            \* rows whose ID HubSpot's Load could not read
  breaker, tokens, cachedToken, ctxDone,
  phase, verdict, fatal,        \* Load and its result
  unit, w,           \* rows of the unit each row leads; its worker
  marked             \* delivery log

VARIABLES            \* the server
  applied,           \* rows whose content it applied
  records,           \* records it holds of each entity, where Load searches first
  rejected           \* rows bulk jobs were given and did not take

VARIABLES            \* bookkeeping of the model
  calls, faults,
  unsure,            \* rows with a create or search that had no usable answer
  raced,             \* rows searched for while another row's worker was about
                     \* to create their entity
  dropped            \* a probe ended without a result for the breaker

configVars == <<kind, entity, n, bare, deletes>>
helperVars == <<breaker, tokens, cachedToken, ctxDone>>
loadVars == <<phase, verdict, fatal, unit, w, marked, stored, missed>>
serverVars == <<applied, records, rejected>>
ghosts == <<unsure, raced, dropped>>
vars == <<configVars, helperVars, loadVars, serverVars, calls, faults, ghosts>>

Conn == ConnectOf[kind]
Opt == InstanceOf[kind]
Guarded == Conn.breaker /\ Opt.guarded
OAuth == Conn.auth /\ Opt.oauth

(* NewRateLimiter: a bucket of that many tokens, full at first; HubSpot     *)
(* has 5 a second unless the file says otherwise.                          *)
Capacity ==
  CASE ~Conn.limiter -> 0
    [] kind = "hubspot" /\ Opt.limit = 0 -> 5
    [] OTHER -> Opt.limit
Limited == Capacity > 0

(* unnamed: counted by an error that names no row; lost: by nothing at all. *)
Counted == {"loaded", "skipped", "error"}
Verdicts == Counted \cup {"none", "unnamed", "lost"}
Idle == [pc |-> "idle", stage |-> 0, attempt |-> 0, check |-> 0,
         found |-> FALSE, probe |-> FALSE, late |-> FALSE]
Workers == [pc : {"idle", "queued", "resolve", "check", "sent", "backoff", "tick",
                  "mark", "done"},
            stage : 0..6, attempt : 0..(Attempts + HubSpotAttempts),
            check : 0..5, found : BOOLEAN, probe : BOOLEAN, late : BOOLEAN]

TypeOK ==
  /\ kind \in KindsChecked /\ n \in 0..MaxRows /\ bare \subseteq Rows /\ deletes \subseteq Rows
  /\ entity \in [Rows -> Rows] /\ stored \subseteq Rows /\ missed \subseteq Rows
  /\ breaker \in Breaker /\ tokens \in 0..Capacity
  /\ cachedToken \in BOOLEAN /\ ctxDone \in BOOLEAN
  /\ phase \in {"idle", "filter", "send", "returned"}
  /\ verdict \in [Rows -> Verdicts] /\ fatal \in BOOLEAN
  /\ unit \in [Rows -> SUBSET Rows] /\ w \in [Rows -> Workers]
  /\ marked \subseteq Rows /\ applied \subseteq Rows /\ rejected \subseteq Rows
  /\ records \in [Rows -> 0..2] /\ unsure \subseteq Rows /\ raced \subseteq Rows
  /\ calls \in 0..Opt.calls /\ faults \in 0..Opt.faults /\ dropped \in BOOLEAN

------------------------------------------------------------------------------
\* Helpers

Shape == LoadOf[kind]

Fault == faults < Opt.faults /\ faults' = faults + 1
NoFault == faults' = faults

(* The HubSpot ID deliver goes by.                                         *)
Known(u) == u \in stored \ missed
Requests(u) ==
  RequestsOf(kind, w[u].found, Known(u), kind = "hubspot" /\ u \in deletes)
Req(u) == Requests(u)[w[u].stage]

UnitSize ==
  CASE Shape.unit = "all" -> n
    [] Shape.unit = "threshold" -> Opt.bulk
    [] Shape.unit = "chunk" -> ChunkSize
    [] Shape.unit = "one" -> 1

(* The rows cut into units, each known by its first row.                   *)
Units(rows) ==
  LET rank(r) == Cardinality({q \in rows : q < r})
      leader(r) == rank(r) % UnitSize = 0
  IN [r \in Rows |->
        IF r \in rows /\ leader(r)
          THEN {q \in rows : rank(q) \in rank(r)..(rank(r) + UnitSize - 1)}
          ELSE {}]

(* Of these rows, those still to be sent when the delivery log could not    *)
(* be read for the unread ones.  The variant does not ask the log.         *)
ToSendAll(rows, unread) ==
  {r \in rows \ unread : ~(r \in bare /\ Shape.matched)}
ToSend(rows, unread) ==
  {r \in rows \ (unread \cup marked) : ~(r \in bare /\ Shape.matched)}

Book(rows, unread) ==
  [r \in Rows |->
     IF r \notin rows \/ r \in ToSend(rows, unread) THEN verdict[r]
     ELSE IF r \in marked \ unread THEN "skipped" ELSE "error"]

(* The rows whose call of the state store, IsDelivered or MarkDelivered,    *)
(* fails: once the context has ended any of them, else one by a fault.     *)
StoreFailures(rows) ==
  IF ctxDone THEN SUBSET rows
  ELSE {{}} \cup (IF faults < Opt.faults THEN {{r} : r \in rows} ELSE {})
StoreFault(failed) ==
  faults' = IF failed = {} \/ ctxDone THEN faults ELSE faults + 1

------------------------------------------------------------------------------
\* Load

SearchFirst == {"intercom", "pipedrive", "hubspot"}

Init ==
  /\ kind \in KindsChecked /\ entity \in Opt.entities
  /\ n = 0 /\ bare = {} /\ deletes = {} /\ stored = {} /\ missed = {}
  /\ breaker = NewCircuitBreaker /\ tokens = Capacity
  /\ cachedToken = FALSE /\ ctxDone = FALSE
  /\ phase = "idle" /\ verdict = [r \in Rows |-> "none"] /\ fatal = FALSE
  /\ unit = [r \in Rows |-> {}] /\ w = [r \in Rows |-> Idle]
  /\ marked = {} /\ applied = {} /\ rejected = {}
  /\ \E known \in SUBSET Opt.known :
       records = [e \in Rows |-> IF e \in known THEN 1 ELSE 0]
  /\ calls = 0 /\ faults = 0 /\ unsure = {} /\ raced = {} /\ dropped = FALSE

(* Load of rows 1..m.  A later Load comes after the engine has stored the   *)
(* IDs of the loaded rows, but for saves that failed, with the same content *)
(* or with new content and hence new row IDs.                              *)
Call ==
  /\ phase \in {"idle", "returned"} /\ calls < Opt.calls
  /\ \E m \in Opt.loads :
       /\ kind \in {"salesforceRest", "salesforceBulk", "salesforceBulkParallel"}
            => SalesforcePath(m, Opt.bulk) = kind
       /\ n' = m
  /\ stored' \in {stored \cup saved : saved \in
       SUBSET {r \in Rows \ deletes : kind = "hubspot" /\ verdict[r] = "loaded"}}
  /\ \/ phase = "returned" /\ UNCHANGED <<marked, missed, applied, rejected, bare, deletes>>
     \/ /\ marked' = {} /\ missed' = {} /\ applied' = {} /\ rejected' = {}
        /\ bare' \in SUBSET Opt.bare
        /\ deletes' \in (IF kind = "hubspot" THEN SUBSET Opt.deletes ELSE {{}})
  /\ calls' = calls + 1
  /\ verdict' = [r \in Rows |-> "none"]
  /\ unit' = [r \in Rows |-> {}] /\ w' = [r \in Rows |-> Idle]
  /\ fatal' = ctxDone
  /\ phase' = IF ctxDone THEN "returned" ELSE "filter"
  /\ UNCHANGED <<kind, entity, helperVars, records, faults, ghosts>>

Queue(units) ==
  /\ unit' = units
  /\ w' = [r \in Rows |-> IF units[r] = {} THEN Idle ELSE [Idle EXCEPT !.pc = "queued"]]

(* The first pass over the rows, for the destinations that make one.       *)
Filter ==
  /\ phase = "filter"
  /\ \/ /\ ctxDone /\ "pass" \in Shape.ctx
        /\ phase' = "returned" /\ fatal' = TRUE
        /\ UNCHANGED <<verdict, unit, w, faults>>
     \/ /\ ~(ctxDone /\ "pass" \in Shape.ctx)
        /\ IF Shape.checked = "inTurn"
             THEN NoFault /\ UNCHANGED verdict /\ Queue(Units(1..n))
             ELSE \E unread \in StoreFailures(1..n) :
                    /\ StoreFault(unread)
                    /\ verdict' = Book(1..n, unread)
                    /\ Queue(Units(ToSend(1..n, unread)))
        /\ phase' = "send" /\ UNCHANGED fatal
  /\ UNCHANGED <<configVars, helperVars, serverVars, marked, stored, missed, calls, ghosts>>

(* No unit left: with nothing to send Load returns before it looks at the   *)
(* context again.                                                          *)
Return ==
  /\ phase = "send" /\ \A r \in Rows : w[r].pc \in {"idle", "done"}
  /\ phase' = "returned"
  /\ fatal' = (ctxDone /\ "end" \in Shape.ctx /\ \E r \in Rows : unit[r] # {})
  /\ UNCHANGED <<configVars, helperVars, verdict, unit, w, marked, stored, missed,
                 serverVars, calls, faults, ghosts>>

------------------------------------------------------------------------------
\* The worker of the unit led by row u

Running == {r \in Rows : w[r].pc \notin {"idle", "queued", "done"}}

Done(u) == [Idle EXCEPT !.pc = "done"]
Close(u, v) == verdict' = [r \in Rows |-> IF r \in unit[u] /\ verdict[r] = "none" THEN v ELSE verdict[r]]
Abort == phase' = "returned" /\ fatal' = TRUE

AtRequest(s) ==
  [Idle EXCEPT !.pc = "check", !.stage = s, !.attempt = 1, !.check = 1]

(* The semaphore admits width workers; a Load that works through its units  *)
(* one by one takes them in order.                                         *)
Start(u) ==
  /\ phase = "send" /\ w[u].pc = "queued"
  /\ Cardinality(Running) < Conn.width
  /\ \A r \in Rows : w[r].pc = "queued" => u <= r
  /\ \/ /\ ctxDone /\ "unit" \in Shape.ctx
        /\ Abort /\ NoFault /\ UNCHANGED <<verdict, unit, w>>
     \/ /\ ~(ctxDone /\ "unit" \in Shape.ctx)
        /\ \E unread \in IF Shape.checked = "inTurn" THEN StoreFailures(unit[u]) ELSE {{}} :
             LET rows == IF Shape.checked = "inTurn" THEN ToSend(unit[u], unread) ELSE unit[u]
             IN /\ StoreFault(unread)
                /\ unit' = [unit EXCEPT ![u] = rows]
                /\ verdict' = IF Shape.checked = "inTurn" THEN Book(unit[u], unread) ELSE verdict
                /\ w' = [w EXCEPT ![u] = IF rows = {} THEN Done(u)
                                         ELSE IF kind = "hubspot" THEN [Idle EXCEPT !.pc = "resolve"]
                                         ELSE AtRequest(1)]
        /\ UNCHANGED <<phase, fatal>>
  /\ UNCHANGED <<configVars, helperVars, marked, stored, missed, serverVars, calls, ghosts>>

(* What becomes of a unit that is not delivered.                           *)
Settle(u, how) ==
  /\ CASE how = "rowErrors" -> Close(u, "error")
       [] how = "unnamed" -> Close(u, "unnamed")
       [] OTHER -> UNCHANGED verdict
  /\ IF how = "fatal" THEN Abort ELSE UNCHANGED <<phase, fatal>>
  /\ w' = [w EXCEPT ![u] = Done(u)]
  /\ UNCHANGED marked

Resume(u, worker) ==
  /\ w' = [w EXCEPT ![u] = worker]
  /\ UNCHANGED <<verdict, phase, fatal, marked>>

(* The unit is delivered and its rows are to be marked; found: of a bulk job *)
(* both lists of results were read.                                        *)
Finish(u, found) ==
  Resume(u, [Idle EXCEPT !.pc = "mark", !.stage = w[u].stage, !.found = found])

(* A bulk job is polled on each tick of a two-second ticker.               *)
(* The variant starts the deadline of the job anew with each poll.         *)
ToRequestNewTimer(u, s, found) ==
  Resume(u, [AtRequest(s) EXCEPT
               !.found = found,
               !.pc = IF Requests(u)[s].effect = "poll" THEN "tick" ELSE "check"])
ToRequest(u, s, found) ==
  Resume(u, [AtRequest(s) EXCEPT
               !.found = found, !.late = w[u].late /\ s = w[u].stage,
               !.pc = IF Requests(u)[s].effect = "poll" THEN "tick" ELSE "check"])

NextRequest(u, found) ==
  IF w[u].stage = Len(Requests(u)) THEN Finish(u, found)
  ELSE ToRequest(u, w[u].stage + 1, found)

Again(u) ==
  Resume(u, [w[u] EXCEPT !.pc = "check", !.check = 1, !.probe = FALSE,
                         !.attempt = @ + 1])

AfterOf(answer, a) ==
  CASE kind = "hubspot" -> AfterHubSpotAttempt(answer, a)
    [] kind \in {"slack", "googlesheets"} -> AfterOnlyAttempt(answer)
    [] OTHER -> AfterAttempt(answer, a)

(* The results of a bulk job are read for the counts only: readBulkResults  *)
(* never fails.  The variant takes every unit for delivered.               *)
GiveUpUnnoticed(u, how) == Finish(u, FALSE)
GiveUp(u, how) ==
  IF Req(u).effect \in {"results", "failures"} THEN Finish(u, FALSE) ELSE Settle(u, how)

EndAttempt(u, answer, found) ==
  LET next == AfterOf(answer, w[u].attempt)
  IN CASE next = "done" -> NextRequest(u, found)
       [] next = "again" -> Again(u)
       [] next = "backoff" -> Resume(u, [w[u] EXCEPT !.pc = "backoff", !.probe = FALSE])
       [] next = "failed" -> GiveUp(u, Shape.onError)
       [] next = "fatal" -> Settle(u, "fatal")

------------------------------------------------------------------------------
\* Before the first request, and after the last

(* deliver looks up the row's HubSpot ID; a read that fails leaves it       *)
(* unknown, as if there were none.  A delete is then done; any other row    *)
(* is searched for, which takes the match field.                           *)
Resolve(u) ==
  /\ phase = "send" /\ w[u].pc = "resolve"
  /\ \E fails \in BOOLEAN :
       /\ fails => u \in stored
       /\ IF fails /\ ~ctxDone THEN Fault ELSE NoFault
       /\ missed' = IF fails THEN missed \cup {u} ELSE missed \ {u}
       /\ LET known == u \in stored /\ ~fails
          IN \/ ~known /\ u \in deletes /\ Finish(u, FALSE)
             \/ ~known /\ u \in bare \ deletes /\ Settle(u, "rowErrors")
             \/ (known \/ u \notin bare \cup deletes) /\ Resume(u, AtRequest(1))
  /\ UNCHANGED <<configVars, helperVars, serverVars, stored, unit, calls, ghosts>>

(* The count of a row the bulk job did not take.  readBulkResults counts    *)
(* every row when the first list cannot be read or is empty; otherwise one *)
(* error without a row stands for the second list, if it can be read.      *)
RejectedAs(u) ==
  IF w[u].stage < 6 \/ unit[u] \subseteq rejected THEN "loaded"
  ELSE IF w[u].found THEN "unnamed" ELSE "lost"

(* MarkDelivered of each row of the unit: one that fails makes it a failed  *)
(* row, although it was written.                                           *)
Mark(u) ==
  /\ phase = "send" /\ w[u].pc = "mark"
  /\ \E unmarked \in StoreFailures(unit[u]) :
       /\ StoreFault(unmarked)
       /\ marked' = marked \cup (unit[u] \ unmarked)
       /\ verdict' = [r \in Rows |->
            IF r \notin unit[u] \/ verdict[r] # "none" THEN verdict[r]
            ELSE IF r \in unmarked THEN "error"
            ELSE IF r \in rejected THEN RejectedAs(u) ELSE "loaded"]
  /\ w' = [w EXCEPT ![u] = Done(u)]
  /\ UNCHANGED <<configVars, helperVars, serverVars, phase, fatal, stored, missed, unit,
                 calls, ghosts>>

------------------------------------------------------------------------------
\* The checks before a request is sent

Checking(u, what) ==
  /\ phase = "send" /\ w[u].pc = "check"
  /\ Len(Req(u).checks) >= w[u].check /\ Req(u).checks[w[u].check] = what

(* Without a breaker, a limiter or OAuth credentials their check is a nil   *)
(* test, so the request goes out with the last check that is one.          *)
Configured(what) ==
  CASE what = "breaker" -> Guarded
    [] what = "limiter" -> Limited
    [] what = "auth" -> OAuth
    [] OTHER -> TRUE
LastCheck(u) ==
  \A i \in DOMAIN Req(u).checks : i > w[u].check => ~Configured(Req(u).checks[i])

Pass(u, probe) ==
  Resume(u, [w[u] EXCEPT !.probe = probe, !.check = @ + 1,
                         !.pc = IF LastCheck(u) THEN "sent" ELSE @])

(* The attempt ends without a word to the breaker.                         *)
Drop(u, answer) ==
  /\ EndAttempt(u, answer, w[u].found)
  /\ dropped' = (dropped \/ w[u].probe)

checkFrame == <<configVars, serverVars, unit, stored, missed, calls, unsure, raced, ctxDone>>

CheckContext(u) ==
  /\ Checking(u, "ctx")
  /\ \/ ctxDone /\ Drop(u, NoAnswer)
     \/ ~ctxDone /\ Pass(u, w[u].probe) /\ UNCHANGED dropped
  /\ UNCHANGED <<checkFrame, breaker, tokens, cachedToken, faults>>

CheckBreaker(u) ==
  /\ Checking(u, "breaker")
  /\ \/ /\ Guarded => Allows(breaker)
        /\ breaker' = IF Guarded THEN AfterAllow(breaker) ELSE breaker
        /\ Pass(u, Guarded /\ IsProbe(breaker))
        /\ UNCHANGED dropped
     \/ /\ Guarded /\ ~Allows(breaker)
        /\ Drop(u, Circuit) /\ UNCHANGED breaker
  /\ UNCHANGED <<checkFrame, tokens, cachedToken, faults>>

(* Wait: with a token and an ended context Go's select takes either.       *)
CheckLimiter(u) ==
  /\ Checking(u, "limiter")
  /\ \/ /\ Limited => tokens > 0
        /\ tokens' = IF Limited THEN tokens - 1 ELSE tokens
        /\ Pass(u, w[u].probe) /\ UNCHANGED dropped
     \/ Limited /\ ctxDone /\ Drop(u, NoToken) /\ UNCHANGED tokens
  /\ UNCHANGED <<checkFrame, breaker, cachedToken, faults>>

(* Apply: a cached token that is not about to expire, or a new one.  Other  *)
(* kinds of credentials never fail.                                        *)
CheckAuth(u) ==
  /\ Checking(u, "auth")
  /\ \/ /\ cachedToken' = OAuth /\ NoFault
        /\ Pass(u, w[u].probe) /\ UNCHANGED dropped
     \/ /\ OAuth /\ ~cachedToken /\ (IF ctxDone THEN NoFault ELSE Fault)
        /\ Drop(u, NoAnswer) /\ UNCHANGED cachedToken
  /\ UNCHANGED <<checkFrame, breaker, tokens>>

Send(u) ==
  /\ phase = "send" /\ w[u].pc = "check" /\ Req(u).checks = <<>>
  /\ Resume(u, [w[u] EXCEPT !.pc = "sent"])
  /\ UNCHANGED <<checkFrame, breaker, tokens, cachedToken, faults, dropped>>

------------------------------------------------------------------------------
\* The answer

Answers(u) ==
  {[code |-> c, err |-> IF c \in Req(u).accepts THEN "none" ELSE "status"] : c \in Codes}
  \cup {NoAnswer}
  \cup (IF Req(u).judged THEN {[code |-> 200, err |-> "body"]} ELSE {})

Good(answer) == answer.err = "none" /\ Is2xx(answer.code)

(* A request that was answered well was applied, one that was refused was   *)
(* not; of any other nobody knows.                                         *)
Refused(answer) == answer.code \in 300..499
MayLand(answer, landed) ==
  /\ Good(answer) => landed
  /\ Refused(answer) => ~landed

(* Klaviyo's payload leaves out the rows without the match field.          *)
BuildPayload(rows) == IF kind = "klaviyo" THEN rows \ bare ELSE rows

(* What the server does with a request of u's unit; taken is the part of a  *)
(* bulk job it accepts, once it is closed.  Records are counted where a row *)
(* is searched for before it is created.                                   *)
Serve(u, effect, taken) ==
  LET e == entity[u]
      holds(k) == records' = [records EXCEPT ![e] = k]
  IN CASE effect \in {"post", "upsert", "update", "create", "archive"} ->
            /\ applied' = applied \cup BuildPayload(unit[u])
            /\ CASE effect = "create" -> holds(IF records[e] = 0 THEN 1 ELSE 2)
                 [] effect = "archive" -> holds(IF records[e] = 2 THEN 1 ELSE 0)
                 [] OTHER -> UNCHANGED records
            /\ UNCHANGED rejected
       [] effect = "close" ->
            /\ applied' = applied \cup taken
            /\ rejected' = (rejected \cup unit[u]) \ applied'
            /\ UNCHANGED records
       [] OTHER -> UNCHANGED serverVars

(* recordCircuitResponse and recordCircuitFailure.  The variant tells the   *)
(* breaker of answers only.                                                *)
RecordAnswersOnly(answer) ==
  breaker' = IF ~Guarded \/ answer.err = "net" THEN breaker
             ELSE IF answer.code >= 500 THEN AfterFailure(breaker)
             ELSE AfterSuccess(breaker)
Record(answer) ==
  breaker' = IF ~Guarded THEN breaker
             ELSE IF answer.err = "net" \/ answer.code >= 500 THEN AfterFailure(breaker)
             ELSE AfterSuccess(breaker)

(* About to create: the search found nothing.                              *)
Creating(u) == w[u].stage = 2 /\ ~w[u].found /\ w[u].pc # "mark"

(* A search finds the record, unless its answer is taken for not found: one *)
(* Intercom and Pipedrive cannot parse, one without a body from HubSpot.    *)
(* HubSpot refuses two.                                                    *)
AfterSearch(u) ==
  \/ /\ NoFault /\ UNCHANGED unsure
     /\ IF kind = "hubspot" /\ records[entity[u]] = 2
          THEN Settle(u, "rowErrors") /\ UNCHANGED raced
          ELSE /\ NextRequest(u, records[entity[u]] > 0)
               /\ raced' = IF records[entity[u]] = 0
                                /\ \E v \in Rows \ {u} : entity[v] = entity[u] /\ Creating(v)
                             THEN raced \cup {u} ELSE raced
  \/ /\ Fault /\ unsure' = unsure \cup {u} /\ UNCHANGED raced
     /\ NextRequest(u, FALSE)

(* One poll: the job is done, is not yet, or has failed.                   *)
AfterPoll(u) ==
  \/ NoFault /\ NextRequest(u, FALSE)
  \/ NoFault /\ ToRequest(u, w[u].stage, FALSE)
  \/ Fault /\ Settle(u, Shape.onError)

AfterBadAnswer(u, answer) ==
  /\ IF answer.err = "net" /\ ctxDone THEN NoFault ELSE Fault
  /\ EndAttempt(u, answer, w[u].found)
  /\ unsure' = IF Req(u).effect = "create" /\ ~Refused(answer) THEN unsure \cup {u} ELSE unsure
  /\ UNCHANGED raced

AfterGoodAnswer(u) ==
  LET effect == Req(u).effect
  IN IF effect = "search" THEN AfterSearch(u)
     ELSE /\ UNCHANGED <<unsure, raced>>
          /\ IF effect = "poll" THEN AfterPoll(u)
             ELSE NoFault /\ NextRequest(u, w[u].found \/ effect = "failures")

Answer(u) ==
  /\ phase = "send" /\ w[u].pc = "sent"
  /\ \E answer \in Answers(u) :
       /\ IF Good(answer) THEN AfterGoodAnswer(u) ELSE AfterBadAnswer(u, answer)
       /\ \E landed \in BOOLEAN :
            /\ MayLand(answer, landed)
            /\ IF landed THEN \E taken \in SUBSET unit[u] : Serve(u, Req(u).effect, taken)
               ELSE UNCHANGED serverVars
       /\ Record(answer)
  /\ UNCHANGED <<configVars, stored, missed, unit, calls, dropped, ctxDone, tokens, cachedToken>>

(* The wait between two attempts: over, or cut short by the context.       *)
Backoff(u) ==
  /\ phase = "send" /\ w[u].pc = "backoff"
  /\ \/ Again(u)
     \/ ctxDone /\ GiveUp(u, IF kind = "hubspot" THEN "rowErrors" ELSE Shape.onCtx)
  /\ UNCHANGED <<configVars, helperVars, serverVars, stored, missed, unit, calls,
                 faults, ghosts>>

(* waitForBulkJob waits for the next tick, the end of the context and the   *)
(* deadline at once, and goes by one of those that have come.              *)
Tick(u) ==
  /\ phase = "send" /\ w[u].pc = "tick"
  /\ \/ Resume(u, [w[u] EXCEPT !.pc = "check"])
     \/ ctxDone /\ Settle(u, Shape.onCtx)
     \/ w[u].late /\ Settle(u, Shape.onError)
  /\ UNCHANGED <<configVars, helperVars, serverVars, stored, missed, unit, calls,
                 faults, ghosts>>

Deadline(u) ==
  /\ phase = "send" /\ w[u].stage = 4 /\ ~w[u].late
  /\ Resume(u, [w[u] EXCEPT !.late = TRUE])
  /\ UNCHANGED <<configVars, helperVars, serverVars, stored, missed, unit, calls,
                 faults, ghosts>>

------------------------------------------------------------------------------
\* Time and the context

envFrame == <<configVars, loadVars, serverVars, calls, faults, ghosts>>

Refill ==
  /\ tokens < Capacity /\ tokens' = tokens + 1
  /\ UNCHANGED <<envFrame, breaker, cachedToken, ctxDone>>

Cooldown ==
  /\ breaker.state = "open" /\ ~breaker.cooled
  /\ breaker' = [breaker EXCEPT !.cooled = TRUE]
  /\ UNCHANGED <<envFrame, tokens, cachedToken, ctxDone>>

TokenExpires ==
  /\ cachedToken /\ cachedToken' = FALSE
  /\ UNCHANGED <<envFrame, breaker, tokens, ctxDone>>

EndContext ==
  /\ phase \in {"filter", "send"} /\ ~ctxDone /\ ctxDone' = TRUE
  /\ UNCHANGED <<envFrame, breaker, tokens, cachedToken>>

Work(u) ==
  \/ Start(u) \/ Resolve(u) \/ Mark(u) \/ CheckContext(u) \/ CheckBreaker(u) \/ CheckLimiter(u)
  \/ CheckAuth(u) \/ Send(u) \/ Answer(u) \/ Backoff(u) \/ Tick(u)

Next ==
  \/ Call \/ Filter \/ Return
  \/ \E u \in Rows : Work(u) \/ Deadline(u)
  \/ Refill \/ Cooldown \/ TokenExpires \/ EndContext

(* A request without a time limit of its own: the client of the OAuth token *)
(* and the client of Google Sheets have none; they end with the context.   *)
Unlimited(u) ==
  /\ phase = "send" /\ ~ctxDone
  /\ \/ Checking(u, "auth") /\ OAuth /\ ~cachedToken
     \/ kind = "googlesheets" /\ w[u].pc = "sent"

Progress == Filter \/ Return \/ \E u \in Rows : ~Unlimited(u) /\ Work(u)

(* Goroutines run (that some of those that can run do is enough), timers    *)
(* fire, the client's timeout ends every other request and the limiter's   *)
(* ticker refills.  A select takes any of the cases that are ready, with    *)
(* equal chances: the bulk job's deadline is taken in the end if it is      *)
(* ready again and again.  Faults and the context's end need not come.     *)
Fairness ==
  /\ WF_vars(Progress) /\ WF_vars(Refill) /\ WF_vars(\E u \in Rows : Deadline(u))
  /\ SF_vars(\E u \in Rows : w[u].late /\ Tick(u) /\ w'[u].pc = "done")

Spec == Init /\ [][Next]_vars /\ Fairness

------------------------------------------------------------------------------
\* Properties

(* Rows a destination books as delivered although it did not write them:   *)
(* what Klaviyo's payload leaves out, what a bulk job rejected, and the     *)
(* delete of a HubSpot contact whose ID is not known, because there is none *)
(* or because it could not be read.                                        *)
Waived ==
  CASE kind = "klaviyo" -> bare
    [] kind \in {"salesforceBulk", "salesforceBulkParallel"} -> rejected
    [] kind = "hubspot" -> {r \in deletes : ~Known(r)}
    [] OTHER -> {}

(* "Call MarkDelivered after each successful write" (destination.go): a row *)
(* in the delivery log was written by the server, under every retry, lost  *)
(* answer, cancellation and failure of the store, but for the waived ones. *)
MarkedWasWritten == marked \subseteq applied \cup Waived

(* Bulk jobs report failures without naming rows.                          *)
Anonymous == kind \in {"salesforceBulk", "salesforceBulkParallel"}

(* A Load that returns without a top-level error has decided every row:    *)
(* loaded, skipped or failed.  A worker that ends silently on a cancelled  *)
(* context relies on the check at the end of Load; a request's own timeout *)
(* must not look like one.  Bulk jobs may leave out the name of a row, but  *)
(* have been through every row.                                            *)
EveryRowDecided ==
  phase = "returned" /\ ~fatal =>
    \A r \in 1..n : verdict[r] \in Counted \/ (Anonymous /\ verdict[r] # "none")

(* A destination that searches before it creates makes a second record of  *)
(* an entity only if an earlier create or search had no usable answer, or   *)
(* if two rows of one match value raced: one was searched for between the   *)
(* other's search and its create.                                          *)
NoSecondRecord ==
  kind \in SearchFirst =>
    \A e \in Rows : records[e] = 2 => \E r \in unsure \cup raced : entity[r] = e

(* A half-open breaker waits for a probe that is still out and will report; *)
(* the exception are probes that ended before they were sent (no token, no *)
(* credentials, cancelled), whose end the breaker is never told.           *)
ProbeIsOut ==
  breaker.probing => dropped \/ \E u \in Rows : w[u].probe

(* Every Load returns, or is for ever in a request without a time limit:   *)
(* bounded retries, the breaker, the limiter, the semaphore and the bulk    *)
(* job's deadline leave no worker waiting for ever.                        *)
LoadReturns ==
  (phase = "send") ~> (phase = "returned" \/ [](\E u \in Rows : Unlimited(u)))

(* The contract of destination.go, which every destination implements; the  *)
(* bulk jobs without naming rows.                                          *)
Contract ==
  INSTANCE LoadContract WITH waived <- Waived, batch <- 1..n, anonymous <- Anonymous
KeepsContract == Contract!Spec

==============================================================================
