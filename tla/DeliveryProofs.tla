---------------------------- MODULE DeliveryProofs ----------------------------
(***************************************************************************)
(* MarkedWasWritten of HttpDelivery, for every destination, every number    *)
(* of rows, workers, attempts and faults.                                  *)
(***************************************************************************)
EXTENDS HttpDelivery, FiniteSetTheorems, TLAPS

BulkKinds == {"salesforceBulk", "salesforceBulkParallel"}
Active == {"check", "sent", "backoff", "tick"}

(* Rows that may enter the delivery log.                                   *)
Covered == applied \cup Waived

Places == {"idle", "queued", "resolve", "done", "check", "sent", "backoff", "tick", "mark"}
WorkerShape ==
  [pc : Places, stage : 0..6, attempt : Nat, check : Nat,
   found : BOOLEAN, probe : BOOLEAN, late : BOOLEAN]

DeliveryShape ==
  /\ kind \in KindsChecked /\ n \in 0..MaxRows
  /\ w \in [Rows -> WorkerShape] /\ unit \in [Rows -> SUBSET Rows]
  /\ kind = "hubspot" => \A u \in Rows : unit[u] \subseteq {u}

(* A worker at work is at one of its unit's requests; past the request that *)
(* closes a bulk job, the rows of the unit are written or rejected.  Those   *)
(* it is about to mark are written or waived, and it reads the ID of a row  *)
(* only if that is not marked.                                             *)
AtRequests ==
  \A u \in Rows :
    /\ w[u].pc \in Active =>
         /\ w[u].stage \in 1..Len(Requests(u))
         /\ kind \in BulkKinds /\ w[u].stage > 3 => unit[u] \subseteq Covered
    /\ w[u].pc = "mark" => unit[u] \subseteq Covered
    /\ w[u].pc = "resolve" => kind = "hubspot" /\ u \notin marked

MarkInv == DeliveryShape /\ AtRequests /\ MarkedWasWritten

------------------------------------------------------------------------------
\* Requests and answers

LEMMA KindKnown == DeliveryShape => kind \in Kinds
BY DeliveryAssumption DEF DeliveryShape

(* The requests of a unit, in order.                                       *)
LEMMA RequestFacts ==
  ASSUME NEW k \in Kinds, NEW found \in BOOLEAN, NEW st \in BOOLEAN, NEW del \in BOOLEAN,
         NEW s \in 1..Len(RequestsOf(k, found, st, del))
  PROVE  LET all == RequestsOf(k, found, st, del)
             last == s = Len(all)
             e == all[s].effect
         IN /\ Len(all) \in 1..6 /\ s \in 1..6
            /\ k \in BulkKinds => /\ Len(all) = 6 /\ (e = "close" <=> s = 3)
                                  /\ (e \in {"results", "failures"} <=> s > 4)
            /\ k \notin BulkKinds =>
                 /\ e \in {"post", "search", "upsert", "create", "update", "archive"}
                 /\ (last <=> e # "search")
            /\ e \in {"search", "poll"} => ~last
            /\ k = "klaviyo" => e = "upsert"
<1>1. CASE k \in {"restapi", "zendesk", "klaviyo", "mixpanel", "slack", "googlesheets", "salesforceRest"}
  <2> DEFINE Single(r) == /\ RequestsOf(k, found, st, del) = <<r>>
                          /\ r.effect \in {"post", "upsert", "create"}
                          /\ k = "klaviyo" => r.effect = "upsert"
  <2>1. \/ Single(RestSend) \/ Single(ZendeskSend) \/ Single(KlaviyoSend) \/ Single(MixpanelSend)
        \/ Single(SlackPost) \/ Single(SheetsAppend) \/ Single(SalesforceUpsert)
    <3>1. /\ RestSend.effect = "post" /\ ZendeskSend.effect = "upsert"
          /\ KlaviyoSend.effect = "upsert" /\ MixpanelSend.effect = "upsert"
          /\ SlackPost.effect = "post" /\ SheetsAppend.effect = "post"
          /\ SalesforceUpsert.effect = "upsert"
      BY DEF Request, RestSend, ZendeskSend, KlaviyoSend, MixpanelSend, SlackPost, SheetsAppend,
         SalesforceUpsert
    <3> QED BY <1>1, <3>1 DEF RequestsOf
  <2>2. PICK r : Single(r)
    BY <2>1
  <2>3. Len(RequestsOf(k, found, st, del)) = 1 /\ s = 1 /\ RequestsOf(k, found, st, del)[s] = r
    BY <2>2
  <2> QED BY <1>1, <2>2, <2>3 DEF BulkKinds
<1>2. CASE k = "intercom"
  BY <1>2 DEF IntercomUpsert, IntercomSearch, IntercomWrite, RequestsOf, Request, BulkKinds
<1>3. CASE k = "pipedrive"
  BY <1>3 DEF PipedriveUpsert, PipedriveSearch, PipedriveWrite, RequestsOf, Request, BulkKinds
<1>4. CASE k = "hubspot"
  BY <1>4 DEF HubSpotDeliver, HubSpotSend, RequestsOf, Request, BulkKinds
<1>5. CASE k \in BulkKinds
  <2>1. RequestsOf(k, found, st, del) = SalesforceBulk
    BY <1>5 DEF BulkKinds, RequestsOf
  <2>2. Len(SalesforceBulk) = 6 /\ SalesforceBulk[1].effect = "none" /\ SalesforceBulk[2].effect = "none"
        /\ SalesforceBulk[3].effect = "close" /\ SalesforceBulk[4].effect = "poll"
        /\ SalesforceBulk[5].effect = "results" /\ SalesforceBulk[6].effect = "failures"
    BY DEF SalesforceBulk, SalesforceCreateJob, SalesforceUpload, SalesforceCloseJob,
       SalesforcePoll, SalesforceResults, SalesforceFailures, Request
  <2>3. s \in {1, 2, 3, 4, 5, 6} /\ k # "klaviyo"
    BY <1>5, <2>1, <2>2 DEF BulkKinds
  <2> QED BY <1>5, <2>1, <2>2, <2>3
<1> QED BY <1>1, <1>2, <1>3, <1>4, <1>5 DEF Kinds, BulkKinds

(* How many requests a unit takes does not depend on the search.            *)
LEMMA SameLength ==
  ASSUME NEW k \in Kinds, NEW st \in BOOLEAN, NEW del \in BOOLEAN
  PROVE Len(RequestsOf(k, TRUE, st, del)) = Len(RequestsOf(k, FALSE, st, del))
<1> USE DEF RequestsOf
<1>1. CASE k = "intercom"
  BY <1>1 DEF IntercomUpsert
<1>2. CASE k = "pipedrive"
  BY <1>2 DEF PipedriveUpsert
<1>3. CASE k = "hubspot"
  BY <1>3 DEF HubSpotDeliver
<1>4. CASE k \notin {"intercom", "pipedrive", "hubspot"}
  BY <1>4 DEF Kinds
<1> QED BY <1>1, <1>2, <1>3, <1>4

(* No attempt but one answered well ends a request.                        *)
LEMMA OnlyGoodIsDone ==
  ASSUME NEW answer, NEW a, ~Good(answer)
  PROVE AfterOf(answer, a) \in {"again", "backoff", "failed", "fatal"}
BY DEF AfterOf, Good, AfterHubSpotAttempt, AfterOnlyAttempt, AfterAttempt

(* The same, of the request a worker is at.                                *)
LEMMA AtRequestFacts ==
  ASSUME DeliveryShape, AtRequests, NEW u \in Rows, w[u].pc \in Active
  PROVE  LET last == w[u].stage = Len(Requests(u))
             e == Req(u).effect
             s == w[u].stage
         IN /\ Len(Requests(u)) \in 1..6 /\ s \in 1..Len(Requests(u))
            /\ kind \in BulkKinds => /\ Len(Requests(u)) = 6 /\ (e = "close" <=> s = 3)
                                     /\ (e \in {"results", "failures"} <=> s > 4)
            /\ kind \notin BulkKinds =>
                 /\ e \in {"post", "search", "upsert", "create", "update", "archive"}
                 /\ (last <=> e # "search")
            /\ e \in {"search", "poll"} => ~last
            /\ kind = "klaviyo" => e = "upsert"
<1>1. w[u].stage \in 1..Len(Requests(u)) /\ w[u].found \in BOOLEAN
  BY DEF AtRequests, DeliveryShape, WorkerShape
<1> DEFINE st == u \in stored \ missed
           del == kind = "hubspot" /\ u \in deletes
<1>2. Requests(u) = RequestsOf(kind, w[u].found, st, del)
  BY DEF Requests, Known
<1>3. st \in BOOLEAN /\ del \in BOOLEAN
  OBVIOUS
<1> HIDE DEF st, del
<1> QED BY <1>1, <1>2, <1>3, KindKnown, RequestFacts DEF Req

LEMMA SameRequestsOf ==
  ASSUME DeliveryShape, DeliveryShape', UNCHANGED configVars, NEW u \in Rows, Known(u)' = Known(u)
  PROVE Len(Requests(u))' = Len(Requests(u))
<1>1. w[u].found \in BOOLEAN /\ w'[u].found \in BOOLEAN
  BY DEF DeliveryShape, WorkerShape
<1> DEFINE st == Known(u)
           del == kind = "hubspot" /\ u \in deletes
<1>2. Requests(u) = RequestsOf(kind, w[u].found, st, del)
  BY DEF Requests
<1>3. Requests(u)' = RequestsOf(kind, w'[u].found, st, del)
  BY DEF Requests, configVars
<1>4. st \in BOOLEAN /\ del \in BOOLEAN
  BY DEF Known
<1> HIDE DEF st, del
<1>5. Len(RequestsOf(kind, TRUE, st, del)) = Len(RequestsOf(kind, FALSE, st, del))
  BY <1>4, KindKnown, SameLength
<1>6. Len(RequestsOf(kind, w[u].found, st, del)) = Len(RequestsOf(kind, w'[u].found, st, del))
  <2>1. CASE w[u].found /\ ~w'[u].found
    <3>1. w[u].found = TRUE /\ w'[u].found = FALSE
      BY <1>1, <2>1
    <3> QED BY <1>5, <3>1
  <2>2. CASE ~w[u].found /\ w'[u].found
    <3>1. w[u].found = FALSE /\ w'[u].found = TRUE
      BY <1>1, <2>2
    <3> QED BY <1>5, <3>1
  <2>3. CASE w[u].found <=> w'[u].found
    <3>1. w[u].found = w'[u].found
      BY <1>1, <2>3
    <3> QED BY <3>1
  <2> QED BY <2>1, <2>2, <2>3
<1> QED BY <1>2, <1>3, <1>6

LEMMA SameRequests ==
  ASSUME DeliveryShape, DeliveryShape', UNCHANGED <<configVars, stored, missed>>
  PROVE \A u \in Rows : Len(Requests(u))' = Len(Requests(u))
<1>1. \A u \in Rows : Known(u)' = Known(u)
  BY DEF Known
<1> QED BY <1>1, SameRequestsOf

------------------------------------------------------------------------------
\* A step of one worker

(* Whatever a worker does with its unit keeps the invariant, as long as it  *)
(* goes to one of its requests, past the closing one, and to their marks,   *)
(* only when the rows are covered, and marks no row that is not.           *)
LEMMA WorkerStep ==
  ASSUME MarkInv, NEW u \in Rows, NEW x \in WorkerShape, w' = [w EXCEPT ![u] = x],
         UNCHANGED <<configVars, stored, missed, unit>>, Covered \subseteq Covered',
         x.pc \in Active => x.stage \in 1..Len(Requests(u)),
         x.pc \in Active /\ kind \in BulkKinds /\ x.stage > 3 => unit[u] \subseteq Covered',
         x.pc = "mark" => unit[u] \subseteq Covered',
         x.pc = "resolve" => w[u].pc = "resolve" /\ marked' = marked,
         marked' \subseteq marked \cup unit[u], marked' # marked => unit[u] \subseteq Covered'
  PROVE MarkInv'
<1>1. DeliveryShape'
  BY DEF MarkInv, DeliveryShape, configVars
<1>2. \A v \in Rows : Len(Requests(v))' = Len(Requests(v))
  BY <1>1, SameRequests DEF MarkInv
<1>3. AtRequests'
  <2> SUFFICES ASSUME NEW v \in Rows
               PROVE /\ w'[v].pc \in Active =>
                          /\ w'[v].stage \in 1..Len(Requests(v))'
                          /\ (kind \in BulkKinds /\ w'[v].stage > 3 => unit[v] \subseteq Covered')
                     /\ w'[v].pc = "mark" => unit[v] \subseteq Covered'
                     /\ w'[v].pc = "resolve" => kind = "hubspot" /\ v \notin marked'
    BY DEF AtRequests, configVars
  <2>1. CASE v = u
    BY <2>1, <1>2 DEF MarkInv, DeliveryShape, AtRequests
  <2>2. CASE v # u
    <3>1. w'[v] = w[v]
      BY <2>2 DEF MarkInv, DeliveryShape
    <3>2. kind = "hubspot" => v \notin unit[u]
      BY <2>2 DEF MarkInv, DeliveryShape
    <3> QED BY <3>1, <3>2, <1>2 DEF MarkInv, AtRequests
  <2> QED BY <2>1, <2>2
<1>4. MarkedWasWritten'
  BY DEF MarkInv, MarkedWasWritten, Covered
<1> QED BY <1>1, <1>3, <1>4 DEF MarkInv

(* What becomes of a worker whose attempt has failed.                      *)
Failed(u) ==
  \E x \in WorkerShape :
    /\ w' = [w EXCEPT ![u] = x] /\ ~x.probe
    /\ x.pc \in Active => x.stage = w[u].stage /\ x.found = w[u].found
    /\ x.pc = "mark" => unit[u] \subseteq Covered
    /\ x.pc # "resolve"
    /\ marked' = marked

LEMMA IdleShape == Idle \in WorkerShape /\ Idle.pc = "idle" /\ Idle.probe = FALSE
BY DEF Idle, WorkerShape, Places

LEMMA DoneShape == ASSUME NEW u PROVE Done(u) \in WorkerShape /\ Done(u).pc = "done" /\ Done(u).probe = FALSE
<1>1. "done" \in Places
  BY DEF Places
<1> QED BY <1>1, IdleShape DEF Done, WorkerShape

(* A worker whose unit is delivered.                                       *)
LEMMA FinishGoes ==
  ASSUME MarkInv, NEW u \in Rows, NEW found \in BOOLEAN, Finish(u, found)
  PROVE  /\ \E x \in WorkerShape : /\ w' = [w EXCEPT ![u] = x] /\ x.pc = "mark" /\ x.probe = FALSE
                                   /\ x.stage = w[u].stage /\ x.found = found /\ marked' = marked
         /\ UNCHANGED <<verdict, phase, fatal>>
<1> DEFINE s == w[u].stage
           x == [Idle EXCEPT !.pc = "mark", !.stage = s, !.found = found]
<1>1. w' = [w EXCEPT ![u] = x] /\ UNCHANGED <<verdict, phase, fatal, marked>>
  BY DEF Finish, Resume
<1>2. s \in 0..6 /\ "mark" \in Places
  BY DEF MarkInv, DeliveryShape, WorkerShape, Places
<1> HIDE DEF s
<1>3. x \in WorkerShape /\ x.pc = "mark" /\ x.probe = FALSE /\ x.stage = s /\ x.found = found
  BY <1>2, IdleShape DEF WorkerShape
<1> HIDE DEF x
<1> QED BY <1>1, <1>3 DEF s

LEMMA SettleFails ==
  ASSUME MarkInv, NEW u \in Rows, NEW how, Settle(u, how) PROVE Failed(u)
<1>1. w' = [w EXCEPT ![u] = Done(u)] /\ marked' = marked
  BY DEF Settle
<1> QED BY <1>1, DoneShape DEF Failed, Active

LEMMA GiveUpFails ==
  ASSUME MarkInv, NEW u \in Rows, w[u].pc \in Active, NEW how, GiveUp(u, how)
  PROVE Failed(u)
<1>1. CASE Req(u).effect \in {"results", "failures"}
  <2>1. Finish(u, FALSE)
    BY <1>1 DEF GiveUp
  <2>2. kind \in BulkKinds /\ w[u].stage > 3
    BY <1>1, AtRequestFacts DEF MarkInv
  <2>3. unit[u] \subseteq Covered
    BY <2>2 DEF MarkInv, AtRequests
  <2>4. PICK x \in WorkerShape :
          w' = [w EXCEPT ![u] = x] /\ x.pc = "mark" /\ x.probe = FALSE /\ marked' = marked
    BY <2>1, FinishGoes
  <2> QED BY <2>3, <2>4 DEF Failed, Active
<1>2. CASE Req(u).effect \notin {"results", "failures"}
  BY <1>2, SettleFails DEF GiveUp
<1> QED BY <1>1, <1>2

(* The two records a failed attempt may leave.                             *)
LEMMA Retried ==
  ASSUME NEW y \in WorkerShape, NEW a \in Nat
  PROVE  /\ [y EXCEPT !.pc = "check", !.check = 1, !.probe = FALSE, !.attempt = a] \in WorkerShape
         /\ [y EXCEPT !.pc = "backoff", !.probe = FALSE] \in WorkerShape
<1>1. "check" \in Places /\ "backoff" \in Places
  BY DEF Places
<1> QED BY <1>1 DEF WorkerShape

LEMMA AgainFails ==
  ASSUME MarkInv, NEW u \in Rows, Again(u) PROVE Failed(u)
<1> DEFINE x == [w[u] EXCEPT !.pc = "check", !.check = 1, !.probe = FALSE, !.attempt = @ + 1]
<1>1. w' = [w EXCEPT ![u] = x] /\ marked' = marked
  BY DEF Again, Resume
<1>2. w[u] \in WorkerShape /\ w[u].attempt + 1 \in Nat
  BY DEF MarkInv, DeliveryShape, WorkerShape
<1>3. x \in WorkerShape
  <2>1. \A a \in Nat : [w[u] EXCEPT !.pc = "check", !.check = 1, !.probe = FALSE, !.attempt = a] \in WorkerShape
    BY <1>2, Retried
  <2> QED BY <1>2, <2>1
<1>4. x.probe = FALSE /\ x.stage = w[u].stage /\ x.found = w[u].found /\ x.pc = "check"
  BY <1>2 DEF WorkerShape
<1> HIDE DEF x
<1> QED BY <1>1, <1>3, <1>4 DEF Failed

LEMMA AttemptFails ==
  ASSUME MarkInv, NEW u \in Rows, w[u].pc \in Active, NEW answer, ~Good(answer), NEW found,
         EndAttempt(u, answer, found)
  PROVE Failed(u)
<1> DEFINE next == AfterOf(answer, w[u].attempt)
<1>1. next \in {"again", "backoff", "failed", "fatal"}
  BY OnlyGoodIsDone
<1>2. CASE next = "again"
  BY <1>2, AgainFails DEF EndAttempt
<1>3. CASE next = "backoff"
  <2> DEFINE x == [w[u] EXCEPT !.pc = "backoff", !.probe = FALSE]
  <2>1. w' = [w EXCEPT ![u] = x] /\ marked' = marked
    BY <1>3 DEF EndAttempt, Resume
  <2>2. w[u] \in WorkerShape
    BY DEF MarkInv, DeliveryShape
  <2>3. x \in WorkerShape
    BY <2>2, Retried
  <2>4. x.probe = FALSE /\ x.stage = w[u].stage /\ x.found = w[u].found /\ x.pc = "backoff"
    BY <2>2 DEF WorkerShape
  <2> HIDE DEF x
  <2> QED BY <2>1, <2>3, <2>4 DEF Failed
<1>4. CASE next = "failed"
  BY <1>4, GiveUpFails DEF EndAttempt
<1>5. CASE next = "fatal"
  BY <1>5, SettleFails DEF EndAttempt
<1> QED BY <1>1, <1>2, <1>3, <1>4, <1>5

LEMMA FailedKeeps ==
  ASSUME MarkInv, NEW u \in Rows, w[u].pc \in Active, Failed(u),
         UNCHANGED <<configVars, stored, missed, unit>>, Covered \subseteq Covered'
  PROVE MarkInv'
<1>1. PICK x \in WorkerShape :
        /\ w' = [w EXCEPT ![u] = x]
        /\ x.pc \in Active => x.stage = w[u].stage
        /\ x.pc = "mark" => unit[u] \subseteq Covered
        /\ x.pc # "resolve" /\ marked' = marked
  BY DEF Failed
<1>2. /\ w[u].stage \in 1..Len(Requests(u))
      /\ kind \in BulkKinds /\ w[u].stage > 3 => unit[u] \subseteq Covered
  BY DEF MarkInv, AtRequests
<1>3. MarkInv /\ u \in Rows /\ x \in WorkerShape
  OBVIOUS
<1> QED BY <1>1, <1>2, WorkerStep

------------------------------------------------------------------------------
\* The actions of a worker

LEMMA CoveredStays ==
  UNCHANGED <<configVars, stored, missed, serverVars>> => Covered' = Covered
BY DEF Covered, Waived, Known, configVars, serverVars

(* A check passes, and the attempt goes on.                                *)
LEMMA PassKeeps ==
  ASSUME MarkInv, NEW u \in Rows, w[u].pc = "check", NEW probe \in BOOLEAN, Pass(u, probe),
         UNCHANGED checkFrame
  PROVE MarkInv'
<1> DEFINE x == [w[u] EXCEPT !.probe = probe, !.check = @ + 1,
                             !.pc = IF LastCheck(u) THEN "sent" ELSE @]
           place == IF LastCheck(u) THEN "sent" ELSE "check"
<1>1. w' = [w EXCEPT ![u] = x] /\ marked' = marked
  BY DEF Pass, Resume
<1>2. w[u] \in WorkerShape /\ w[u].check + 1 \in Nat /\ place \in Places
  BY DEF MarkInv, DeliveryShape, WorkerShape, Places
<1>3. x = [w[u] EXCEPT !.probe = probe, !.pc = place, !.check = w[u].check + 1]
  BY <1>2 DEF WorkerShape
<1> HIDE DEF x, place
<1>4. \A c \in Nat, q \in Places : [w[u] EXCEPT !.probe = probe, !.pc = q, !.check = c] \in WorkerShape
  BY <1>2 DEF WorkerShape
<1>5. x \in WorkerShape /\ x.stage = w[u].stage /\ x.pc \in {"check", "sent"}
  BY <1>2, <1>3, <1>4 DEF WorkerShape, place
<1>6. /\ w[u].stage \in 1..Len(Requests(u))
      /\ kind \in BulkKinds /\ w[u].stage > 3 => unit[u] \subseteq Covered
  BY DEF MarkInv, AtRequests, Active
<1>7. Covered' = Covered
  BY CoveredStays DEF checkFrame
<1> QED BY <1>1, <1>5, <1>6, <1>7, WorkerStep DEF checkFrame

LEMMA DropKeeps ==
  ASSUME MarkInv, NEW u \in Rows, w[u].pc = "check", NEW answer \in {NoAnswer, Circuit, NoToken},
         Drop(u, answer), UNCHANGED checkFrame
  PROVE MarkInv' /\ Failed(u)
<1>1. ~Good(answer)
  BY DEF Good, NoAnswer, Circuit, NoToken
<1>2. Failed(u)
  BY <1>1, AttemptFails DEF Drop, Active
<1>3. Covered' = Covered
  BY CoveredStays DEF checkFrame
<1> QED BY <1>2, <1>3, FailedKeeps DEF checkFrame, Active

LEMMA ChecksKeep ==
  ASSUME MarkInv, NEW u \in Rows,
         CheckContext(u) \/ CheckBreaker(u) \/ CheckLimiter(u) \/ CheckAuth(u)
  PROVE MarkInv'
<1>1. /\ w[u].pc = "check" /\ UNCHANGED checkFrame
      /\ \/ \E probe \in BOOLEAN : Pass(u, probe)
         \/ \E answer \in {NoAnswer, Circuit, NoToken} : Drop(u, answer)
  <2>1. w[u].probe \in BOOLEAN
    BY DEF MarkInv, DeliveryShape, WorkerShape
  <2>2. CASE CheckContext(u)
    BY <2>1, <2>2 DEF CheckContext, Checking
  <2>3. CASE CheckBreaker(u)
    <3>1. (Guarded /\ IsProbe(breaker)) \in BOOLEAN OBVIOUS
    <3> QED BY <3>1, <2>3 DEF CheckBreaker, Checking
  <2>4. CASE CheckLimiter(u)
    BY <2>1, <2>4 DEF CheckLimiter, Checking
  <2>5. CASE CheckAuth(u)
    BY <2>1, <2>5 DEF CheckAuth, Checking
  <2> QED BY <2>2, <2>3, <2>4, <2>5
<1> QED BY <1>1, PassKeeps, DropKeeps

(* What the server does with a request that it applies.                    *)
LEMMA ServeFacts ==
  ASSUME DeliveryShape, NEW u \in Rows, NEW effect, NEW taken, Serve(u, effect, taken),
         UNCHANGED <<configVars, stored, missed>>
  PROVE  /\ Covered \subseteq Covered'
         /\ effect \in {"post", "upsert", "create", "update", "archive"} => unit[u] \subseteq Covered'
         /\ effect = "close" /\ kind \in BulkKinds => unit[u] \subseteq Covered'
<1>1. kind' = kind /\ bare' = bare /\ deletes' = deletes /\ \A r : Known(r)' = Known(r)
  BY DEF configVars, Known
<1>2. CASE effect \in {"post", "upsert", "create", "update", "archive"}
  <2>1. applied' = applied \cup BuildPayload(unit[u]) /\ rejected' = rejected
    BY <1>2 DEF Serve
  <2>2. unit[u] \subseteq BuildPayload(unit[u]) \cup Waived
    BY DEF BuildPayload, Waived
  <2>3. Waived' = Waived
    BY <1>1, <2>1 DEF Waived
  <2> QED BY <1>2, <2>1, <2>2, <2>3 DEF Covered
<1>3. CASE effect = "close"
  <2>1. /\ applied' = applied \cup taken
        /\ rejected' = (rejected \cup unit[u]) \ applied'
    BY <1>3 DEF Serve
  <2>2. CASE kind \in BulkKinds
    <3>1. Waived = rejected /\ Waived' = rejected'
      BY <1>1, <2>2 DEF Waived, BulkKinds
    <3> QED BY <1>3, <2>1, <3>1 DEF Covered
  <2>3. CASE kind \notin BulkKinds
    <3>1. Waived' = Waived
      BY <1>1, <2>3 DEF Waived, BulkKinds
    <3> QED BY <1>3, <2>1, <2>3, <3>1 DEF Covered
  <2> QED BY <2>2, <2>3
<1>4. CASE effect \notin {"post", "upsert", "create", "update", "archive", "close"}
  <2>1. UNCHANGED serverVars
    BY <1>4 DEF Serve
  <2> QED BY <1>4, <2>1, CoveredStays
<1> QED BY <1>2, <1>3, <1>4

(* A worker that goes on to request s.                                     *)
LEMMA ToRequestGoes ==
  ASSUME MarkInv, NEW u \in Rows, NEW s \in 0..6, NEW found \in BOOLEAN, ToRequest(u, s, found)
  PROVE \E x \in WorkerShape :
          /\ w' = [w EXCEPT ![u] = x] /\ x.stage = s /\ x.found = found /\ ~x.probe /\ marked' = marked
          /\ x.pc \in {"check", "tick"}
<1> DEFINE place == IF Requests(u)[s].effect = "poll" THEN "tick" ELSE "check"
           late == w[u].late /\ s = w[u].stage
           y == AtRequest(s)
           x == [y EXCEPT !.found = found, !.late = late, !.pc = place]
<1>1. w' = [w EXCEPT ![u] = x] /\ marked' = marked
  BY DEF ToRequest, Resume
<1>2. place \in Places /\ late \in BOOLEAN /\ place \in {"check", "tick"}
  BY DEF Places
<1>3. y \in WorkerShape /\ y.stage = s /\ y.probe = FALSE
  <2>1. "check" \in Places
    BY DEF Places
  <2> QED BY <2>1, IdleShape DEF AtRequest, WorkerShape
<1> HIDE DEF place, late, y
<1>4. x \in WorkerShape /\ x.stage = s /\ x.found = found /\ x.probe = FALSE /\ x.pc = place
  BY <1>2, <1>3 DEF WorkerShape
<1> QED BY <1>1, <1>2, <1>4

LEMMA ToRequestKeeps ==
  ASSUME MarkInv, NEW u \in Rows, NEW s \in 1..Len(Requests(u)), w[u].pc \in Active,
         NEW found \in BOOLEAN, ToRequest(u, s, found),
         UNCHANGED <<configVars, stored, missed, unit>>, Covered \subseteq Covered',
         kind \in BulkKinds /\ s > 3 => unit[u] \subseteq Covered'
  PROVE MarkInv'
<1>1. s \in 0..6
  <2> DEFINE l == Len(Requests(u))
  <2>1. l \in 1..6
    BY AtRequestFacts DEF MarkInv
  <2>2. s \in 1..l
    OBVIOUS
  <2> HIDE DEF l
  <2> QED BY <2>1, <2>2
<1>2. PICK x \in WorkerShape :
        w' = [w EXCEPT ![u] = x] /\ x.stage = s /\ marked' = marked /\ x.pc \in {"check", "tick"}
  BY <1>1, ToRequestGoes
<1> QED BY <1>2, WorkerStep

LEMMA FinishKeeps ==
  ASSUME MarkInv, NEW u \in Rows, NEW found \in BOOLEAN, Finish(u, found),
         UNCHANGED <<configVars, stored, missed, unit>>, Covered \subseteq Covered',
         unit[u] \subseteq Covered'
  PROVE MarkInv'
<1>1. PICK x \in WorkerShape : w' = [w EXCEPT ![u] = x] /\ x.pc = "mark" /\ marked' = marked
  BY FinishGoes
<1> QED BY <1>1, WorkerStep DEF Active

(* The request has been answered well: on to the next, or all is done.      *)
LEMMA NextRequestKeeps ==
  ASSUME MarkInv, NEW u \in Rows, w[u].pc \in Active, NEW found \in BOOLEAN,
         NextRequest(u, found),
         UNCHANGED <<configVars, stored, missed, unit>>, Covered \subseteq Covered',
         Req(u).effect \in {"post", "upsert", "create", "update", "archive"} =>
           unit[u] \subseteq Covered',
         Req(u).effect = "close" /\ kind \in BulkKinds => unit[u] \subseteq Covered'
  PROVE MarkInv'
<1> DEFINE s == w[u].stage
<1>1. /\ s \in 1..Len(Requests(u)) /\ Len(Requests(u)) \in 1..6
      /\ kind \in BulkKinds => Len(Requests(u)) = 6 /\ (Req(u).effect = "close" <=> s = 3)
      /\ kind \notin BulkKinds /\ s = Len(Requests(u)) =>
           Req(u).effect \in {"post", "upsert", "create", "update", "archive"}
  BY AtRequestFacts DEF MarkInv
<1>2. kind \in BulkKinds /\ s > 3 => unit[u] \subseteq Covered'
  BY DEF MarkInv, AtRequests
<1>3. CASE s = Len(Requests(u))
  <2>1. Finish(u, found)
    BY <1>3 DEF NextRequest
  <2>2. unit[u] \subseteq Covered'
    <3>1. CASE kind \in BulkKinds
      <4> DEFINE l == Len(Requests(u))
      <4>1. l = 6 /\ s = l
        BY <1>1, <1>3, <3>1
      <4> HIDE DEF l, s
      <4>2. s > 3
        BY <4>1
      <4> USE DEF s
      <4> QED BY <1>2, <3>1, <4>2
    <3>2. CASE kind \notin BulkKinds
      BY <1>1, <1>3, <3>2
    <3> QED BY <3>1, <3>2
  <2> QED BY <2>1, <2>2, FinishKeeps
<1>4. CASE s # Len(Requests(u))
  <2>1. s + 1 \in 1..Len(Requests(u)) /\ ToRequest(u, s + 1, found)
    BY <1>1, <1>4 DEF NextRequest
  <2>2. kind \in BulkKinds /\ s + 1 > 3 => unit[u] \subseteq Covered'
    BY <1>1, <1>2
  <2> QED BY <2>1, <2>2, ToRequestKeeps
<1> QED BY <1>3, <1>4

LEMMA AnswerKeeps == ASSUME MarkInv, NEW u \in Rows, Answer(u) PROVE MarkInv'
<1>1. w[u].pc \in Active /\ UNCHANGED <<configVars, stored, missed, unit>> /\ w[u].found \in BOOLEAN
  BY DEF Answer, Active, MarkInv, DeliveryShape, WorkerShape
<1>2. PICK answer \in Answers(u), landed \in BOOLEAN :
        /\ IF Good(answer) THEN AfterGoodAnswer(u) ELSE AfterBadAnswer(u, answer)
        /\ MayLand(answer, landed)
        /\ IF landed THEN \E taken \in SUBSET unit[u] : Serve(u, Req(u).effect, taken)
           ELSE UNCHANGED serverVars
  BY DEF Answer
<1>3. /\ Covered \subseteq Covered'
      /\ landed /\ Req(u).effect \in {"post", "upsert", "create", "update", "archive"} =>
           unit[u] \subseteq Covered'
      /\ landed /\ Req(u).effect = "close" /\ kind \in BulkKinds => unit[u] \subseteq Covered'
  <2>1. CASE landed
    BY <2>1, <1>1, <1>2, ServeFacts DEF MarkInv
  <2>2. CASE ~landed
    BY <2>2, <1>1, <1>2, CoveredStays
  <2> QED BY <2>1, <2>2
<1>4. CASE ~Good(answer)
  <2>1. Failed(u)
    BY <1>1, <1>2, <1>4, AttemptFails DEF AfterBadAnswer
  <2> QED BY <1>1, <1>3, <2>1, FailedKeeps
<1>5. CASE Good(answer)
  <2>1. landed
    BY <1>2, <1>5 DEF MayLand
  <2>2. CASE Req(u).effect = "search"
    <3>1. AfterSearch(u)
      BY <1>2, <1>5, <2>2 DEF AfterGoodAnswer
    <3>2. \/ Settle(u, "rowErrors") \/ \E found \in BOOLEAN : NextRequest(u, found)
      <4>1. (records[entity[u]] > 0) \in BOOLEAN OBVIOUS
      <4> QED BY <3>1, <4>1 DEF AfterSearch
    <3>3. CASE Settle(u, "rowErrors")
      BY <1>1, <1>3, <3>3, SettleFails, FailedKeeps
    <3>4. CASE \E found \in BOOLEAN : NextRequest(u, found)
      BY <1>1, <1>3, <2>2, <3>4, NextRequestKeeps
    <3> QED BY <3>2, <3>3, <3>4
  <2>3. CASE Req(u).effect = "poll"
    <3>1. AfterPoll(u)
      BY <1>2, <1>5, <2>3 DEF AfterGoodAnswer
    <3>2. \/ NextRequest(u, FALSE) \/ ToRequest(u, w[u].stage, FALSE)
          \/ Settle(u, Shape.onError)
      BY <3>1 DEF AfterPoll
    <3>3. CASE NextRequest(u, FALSE)
      BY <1>1, <1>3, <2>3, <3>3, NextRequestKeeps
    <3>4. CASE ToRequest(u, w[u].stage, FALSE)
      <4>1. /\ w[u].stage \in 1..Len(Requests(u))
            /\ kind \in BulkKinds /\ w[u].stage > 3 => unit[u] \subseteq Covered'
        BY <1>1, <1>3 DEF MarkInv, AtRequests
      <4> QED BY <1>1, <1>3, <3>4, <4>1, ToRequestKeeps
    <3>5. CASE Settle(u, Shape.onError)
      BY <1>1, <1>3, <3>5, SettleFails, FailedKeeps
    <3> QED BY <3>2, <3>3, <3>4, <3>5
  <2>4. CASE Req(u).effect \notin {"search", "poll"}
    <3>1. \E found \in BOOLEAN : NextRequest(u, found)
      <4>1. (w[u].found \/ Req(u).effect = "failures") \in BOOLEAN OBVIOUS
      <4> QED BY <1>2, <1>5, <2>4, <4>1 DEF AfterGoodAnswer
    <3> QED BY <1>1, <1>3, <2>1, <3>1, NextRequestKeeps
  <2> QED BY <2>2, <2>3, <2>4
<1> QED BY <1>4, <1>5

(* The steps that only wait.                                               *)
LEMMA WaitsKeep ==
  ASSUME MarkInv, NEW u \in Rows, Send(u) \/ Backoff(u) \/ Tick(u) \/ Deadline(u)
  PROVE MarkInv'
<1>1. UNCHANGED <<configVars, stored, missed, unit>> /\ Covered' = Covered
  BY CoveredStays DEF Send, Backoff, Tick, Deadline, checkFrame
<1>2. w[u] \in WorkerShape /\ (w[u].pc = "mark" => unit[u] \subseteq Covered) /\ (w[u].pc \in Active =>
        /\ w[u].stage \in 1..Len(Requests(u))
        /\ kind \in BulkKinds /\ w[u].stage > 3 => unit[u] \subseteq Covered)
  BY DEF MarkInv, DeliveryShape, AtRequests
<1>3. ASSUME NEW place \in Active, w[u].pc \in Active, Resume(u, [w[u] EXCEPT !.pc = place])
      PROVE MarkInv'
  <2> DEFINE x == [w[u] EXCEPT !.pc = place]
  <2>1. place \in Places
    BY DEF Places, Active
  <2>2. x \in WorkerShape /\ x.stage = w[u].stage /\ x.pc = place
    BY <1>2, <2>1 DEF WorkerShape
  <2>3. w' = [w EXCEPT ![u] = x] /\ marked' = marked /\ place \notin {"mark", "resolve"}
    BY <1>3 DEF Resume, Active
  <2> HIDE DEF x
  <2> QED BY <1>1, <1>2, <1>3, <2>2, <2>3, WorkerStep
<1>4. CASE Send(u)
  BY <1>3, <1>4 DEF Send, Active
<1>5. CASE Backoff(u)
  <2>1. Failed(u)
    BY <1>5, AgainFails, GiveUpFails DEF Backoff, Active
  <2> QED BY <1>1, <1>5, <2>1, FailedKeeps DEF Backoff, Active
<1>6. CASE Tick(u)
  <2>1. CASE \E how : Settle(u, how)
    <3>1. Failed(u)
      BY <2>1, SettleFails
    <3> QED BY <1>1, <1>6, <3>1, FailedKeeps DEF Tick, Active
  <2>2. CASE Resume(u, [w[u] EXCEPT !.pc = "check"])
    BY <1>3, <1>6, <2>2 DEF Tick, Active
  <2> QED BY <1>6, <2>1, <2>2 DEF Tick
<1>7. CASE Deadline(u)
  <2> DEFINE x == [w[u] EXCEPT !.late = TRUE]
  <2>1. w' = [w EXCEPT ![u] = x] /\ marked' = marked
    BY <1>7 DEF Deadline, Resume
  <2>2. x \in WorkerShape /\ x.stage = w[u].stage /\ x.pc = w[u].pc
    BY <1>2 DEF WorkerShape
  <2> HIDE DEF x
  <2> QED BY <1>1, <1>2, <2>1, <2>2, WorkerStep
<1> QED BY <1>4, <1>5, <1>6, <1>7

(* A unit takes at least one request, but for the delete of a contact whose *)
(* ID is not known.                                                        *)
LEMMA NothingToSend ==
  ASSUME NEW k \in Kinds, NEW found \in BOOLEAN, NEW st \in BOOLEAN, NEW del \in BOOLEAN
  PROVE  LET all == RequestsOf(k, found, st, del)
         IN IF k = "hubspot" /\ del /\ ~st THEN all = <<>> ELSE all # <<>> /\ 1 \in 1..Len(all)
<1> USE DEF RequestsOf
<1>1. CASE k = "intercom"
  BY <1>1 DEF IntercomUpsert
<1>2. CASE k = "pipedrive"
  BY <1>2 DEF PipedriveUpsert
<1>3. CASE k = "hubspot"
  BY <1>3 DEF HubSpotDeliver
<1>4. CASE k \in BulkKinds
  BY <1>4 DEF SalesforceBulk, BulkKinds
<1>5. CASE k \notin {"intercom", "pipedrive", "hubspot"} /\ k \notin BulkKinds
  <2>1. \E r : RequestsOf(k, found, st, del) = <<r>>
    BY <1>5 DEF Kinds, BulkKinds
  <2> HIDE DEF RequestsOf
  <2> QED BY <1>5, <2>1
<1> QED BY <1>1, <1>2, <1>3, <1>4, <1>5

(* What moves neither rows nor workers.                                    *)
LEMMA FrameKeeps ==
  ASSUME MarkInv, UNCHANGED <<configVars, stored, missed, unit, w, marked, serverVars>>
  PROVE MarkInv'
<1>1. DeliveryShape'
  BY DEF MarkInv, DeliveryShape, configVars
<1>2. Covered' = Covered /\ Waived' = Waived
  BY CoveredStays DEF Waived, Known, configVars, serverVars
<1>3. AtRequests'
  BY <1>1, <1>2, SameRequests DEF MarkInv, AtRequests, configVars
<1> QED BY <1>1, <1>2, <1>3 DEF MarkInv, MarkedWasWritten, serverVars

LEMMA FirstShape == AtRequest(1) \in WorkerShape /\ AtRequest(1).stage = 1 /\ AtRequest(1).found = FALSE
                    /\ AtRequest(1).pc = "check" /\ AtRequest(1).probe = FALSE
<1>1. "check" \in Places
  BY DEF Places
<1>2. Idle.found = FALSE
  BY DEF Idle
<1>3. AtRequest(1) \in WorkerShape
  <2>1. \A i \in 0..6, a \in Nat, c \in Nat :
          [Idle EXCEPT !.pc = "check", !.stage = i, !.attempt = a, !.check = c] \in WorkerShape
    BY <1>1, IdleShape DEF WorkerShape
  <2>2. 1 \in 0..6 /\ 1 \in Nat
    OBVIOUS
  <2> QED BY <2>1, <2>2 DEF AtRequest
<1>4. AtRequest(1).stage = 1 /\ AtRequest(1).pc = "check"
  BY IdleShape DEF AtRequest, WorkerShape
<1>5. AtRequest(1).found = FALSE /\ AtRequest(1).probe = FALSE
  BY <1>2, IdleShape DEF AtRequest, WorkerShape
<1> QED BY <1>3, <1>4, <1>5

(* A unit that is not the delete of a contact of unknown ID has a first     *)
(* request.                                                                *)
LEMMA HasFirst ==
  ASSUME DeliveryShape', NEW u \in Rows, w'[u] = AtRequest(1),
         ~(kind' = "hubspot" /\ u \in deletes' /\ ~Known(u)')
  PROVE  1 \in 1..Len(Requests(u))'
<1> DEFINE st == Known(u)'
           del == kind' = "hubspot" /\ u \in deletes'
<1>1. st \in BOOLEAN /\ del \in BOOLEAN /\ ~(kind' = "hubspot" /\ del /\ ~st)
  BY DEF Known
<1>2. Requests(u)' = RequestsOf(kind', FALSE, st, del)
  BY FirstShape DEF Requests
<1>3. kind' \in Kinds
  BY DeliveryAssumption DEF DeliveryShape
<1> HIDE DEF st, del
<1> QED BY <1>1, <1>2, <1>3, NothingToSend

(* A worker takes its unit up, less the rows that need not be sent.         *)
LEMMA StartKeeps == ASSUME MarkInv, NEW u \in Rows, Start(u) PROVE MarkInv'
<1>1. UNCHANGED <<configVars, stored, missed, serverVars, marked>> /\ Covered' = Covered /\ Waived' = Waived
      /\ kind' = kind
  BY DEF Start, configVars, Covered, Waived, Known, serverVars
<1>2. CASE UNCHANGED <<unit, w>>
  BY <1>1, <1>2, FrameKeeps
<1>3. ASSUME NEW rows \in SUBSET unit[u], unit' = [unit EXCEPT ![u] = rows],
             kind = "hubspot" => rows \cap marked = {},
             w' = [w EXCEPT ![u] = IF rows = {} THEN Done(u)
                                   ELSE IF kind = "hubspot" THEN [Idle EXCEPT !.pc = "resolve"]
                                   ELSE AtRequest(1)]
      PROVE MarkInv'
  <2> DEFINE reading == [Idle EXCEPT !.pc = "resolve"]
  <2>1. reading \in WorkerShape /\ reading.pc = "resolve"
    <3>1. "resolve" \in Places
      BY DEF Places
    <3> QED BY <3>1, IdleShape DEF WorkerShape
  <2> HIDE DEF reading
  <2>2. /\ w'[u] = Done(u) \/ (kind = "hubspot" /\ rows # {} /\ w'[u] = reading)
             \/ (kind # "hubspot" /\ w'[u] = AtRequest(1))
        /\ \A v \in Rows : v # u => w'[v] = w[v] /\ unit'[v] = unit[v]
        /\ w' \in [Rows -> WorkerShape] /\ unit'[u] = rows
    BY <1>3, <2>1, DoneShape, FirstShape DEF MarkInv, DeliveryShape, reading
  <2>3. DeliveryShape'
    BY <1>1, <1>3, <2>2 DEF MarkInv, DeliveryShape, configVars
  <2>4. \A v \in Rows : Len(Requests(v))' = Len(Requests(v))
    BY <1>1, <2>3, SameRequests DEF MarkInv
  <2>5. AtRequests'
    <3> SUFFICES ASSUME NEW v \in Rows
                 PROVE /\ w'[v].pc \in Active =>
                            /\ w'[v].stage \in 1..Len(Requests(v))'
                            /\ (kind \in BulkKinds /\ w'[v].stage > 3 => unit'[v] \subseteq Covered)
                       /\ w'[v].pc = "mark" => unit'[v] \subseteq Covered
                       /\ w'[v].pc = "resolve" => kind = "hubspot" /\ v \notin marked
      BY <1>1 DEF AtRequests
    <3>1. CASE v # u
      BY <2>2, <2>4, <3>1 DEF MarkInv, AtRequests
    <3>2. CASE v = u /\ w'[u] = Done(u)
      BY <3>2, DoneShape DEF Active
    <3>3. CASE v = u /\ kind = "hubspot" /\ rows # {} /\ w'[u] = reading
      <4>1. u \notin marked
        BY <1>3, <3>3 DEF MarkInv, DeliveryShape
      <4> QED BY <2>1, <3>3, <4>1 DEF Active
    <3>4. CASE v = u /\ kind # "hubspot" /\ w'[u] = AtRequest(1)
      <4>1. 1 \in 1..Len(Requests(u))'
        BY <1>1, <2>3, <3>4, HasFirst
      <4> QED BY <3>4, <4>1, FirstShape DEF Active
    <3> QED BY <2>2, <3>1, <3>2, <3>3, <3>4
  <2>6. MarkedWasWritten'
    BY <1>1 DEF MarkInv, MarkedWasWritten, serverVars
  <2> QED BY <2>3, <2>5, <2>6 DEF MarkInv
<1>4. CASE ~(ctxDone /\ "unit" \in Shape.ctx)
  <2>1. PICK unread :
          LET rows == IF Shape.checked = "inTurn" THEN ToSend(unit[u], unread) ELSE unit[u]
          IN /\ unit' = [unit EXCEPT ![u] = rows]
             /\ w' = [w EXCEPT ![u] = IF rows = {} THEN Done(u)
                                      ELSE IF kind = "hubspot" THEN [Idle EXCEPT !.pc = "resolve"]
                                      ELSE AtRequest(1)]
    BY <1>4 DEF Start
  <2> DEFINE rows == IF Shape.checked = "inTurn" THEN ToSend(unit[u], unread) ELSE unit[u]
  <2>2. rows \in SUBSET unit[u] /\ (Shape.checked = "inTurn" => rows \cap marked = {})
    BY DEF ToSend
  <2>3. kind = "hubspot" => Shape.checked = "inTurn"
    BY DEF Shape, LoadOf, HubSpotLoad, LoadShape
  <2> HIDE DEF rows
  <2> QED BY <1>3, <2>1, <2>2, <2>3 DEF rows
<1>5. CASE ctxDone /\ "unit" \in Shape.ctx
  BY <1>2, <1>5 DEF Start
<1> QED BY <1>4, <1>5

(* HubSpot's worker learns whether its row has an ID, or fails to.  Of the  *)
(* waived rows only its own may change, and that is not marked.            *)
LEMMA ResolveKeeps == ASSUME MarkInv, NEW u \in Rows, Resolve(u) PROVE MarkInv'
<1>1. /\ UNCHANGED <<configVars, serverVars, stored, unit>> /\ kind' = kind /\ deletes' = deletes
      /\ applied' = applied /\ kind = "hubspot" /\ u \notin marked
  BY DEF Resolve, configVars, serverVars, MarkInv, AtRequests
<1>2. PICK fails \in BOOLEAN :
        /\ missed' = IF fails THEN missed \cup {u} ELSE missed \ {u}
        /\ \/ ~(u \in stored /\ ~fails) /\ u \in deletes /\ Finish(u, FALSE)
           \/ Settle(u, "rowErrors")
           \/ ((u \in stored /\ ~fails) \/ u \notin bare \cup deletes) /\ Resume(u, AtRequest(1))
  BY DEF Resolve
<1>3. /\ Known(u)' <=> u \in stored /\ ~fails
      /\ \A v \in Rows : v # u => Known(v)' = Known(v)
  BY <1>1, <1>2 DEF Known
<1>4. Waived' \ {u} = Waived \ {u} /\ (u \in deletes /\ ~Known(u)' => u \in Waived')
  <2>1. Waived = {r \in deletes : ~Known(r)} /\ Waived' = {r \in deletes : ~Known(r)'}
    BY <1>1 DEF Waived
  <2>2. \A r : r # u => Known(r)' = Known(r)
    BY <1>1, <1>2 DEF Known
  <2> QED BY <2>1, <2>2
<1>5. PICK x \in WorkerShape :
        /\ w' = [w EXCEPT ![u] = x] /\ marked' = marked
        /\ \/ x = Done(u)
           \/ x.pc = "mark" /\ u \in deletes /\ ~Known(u)'
           \/ x = AtRequest(1) /\ (Known(u)' \/ u \notin deletes)
  <2>1. CASE ~(u \in stored /\ ~fails) /\ u \in deletes /\ Finish(u, FALSE)
    <3>1. PICK x \in WorkerShape : w' = [w EXCEPT ![u] = x] /\ x.pc = "mark" /\ marked' = marked
      BY <2>1, FinishGoes
    <3> QED BY <1>3, <2>1, <3>1
  <2>2. CASE Settle(u, "rowErrors")
    BY <2>2, DoneShape DEF Settle
  <2>3. CASE ((u \in stored /\ ~fails) \/ u \notin bare \cup deletes) /\ Resume(u, AtRequest(1))
    BY <1>3, <2>3, FirstShape DEF Resume
  <2> QED BY <1>2, <2>1, <2>2, <2>3
<1>6. DeliveryShape' /\ w'[u] = x /\ \A v \in Rows : v # u => w'[v] = w[v]
  BY <1>1, <1>5 DEF MarkInv, DeliveryShape, configVars
<1>7. AtRequests'
  <2> SUFFICES ASSUME NEW v \in Rows
               PROVE /\ w'[v].pc \in Active => w'[v].stage \in 1..Len(Requests(v))'
                     /\ w'[v].pc = "mark" => unit[v] \subseteq Covered'
                     /\ w'[v].pc = "resolve" => v \notin marked
    BY <1>1, <1>5 DEF AtRequests, BulkKinds
  <2>1. CASE v # u
    <3>1. Len(Requests(v))' = Len(Requests(v))
      BY <1>1, <1>3, <1>6, <2>1, SameRequestsOf DEF MarkInv
    <3>2. unit[v] \subseteq {v}
      BY <1>1 DEF MarkInv, DeliveryShape
    <3>3. unit[v] \subseteq Covered => unit[v] \subseteq Covered'
      BY <1>1, <1>4, <2>1, <3>2 DEF Covered
    <3> QED BY <1>6, <2>1, <3>1, <3>3 DEF MarkInv, AtRequests
  <2>2. CASE v = u /\ x = Done(u)
    BY <1>6, <2>2, DoneShape DEF Active
  <2>3. CASE v = u /\ x.pc = "mark" /\ u \in deletes /\ ~Known(u)'
    <3>1. unit[u] \subseteq {u}
      BY <1>1 DEF MarkInv, DeliveryShape
    <3> QED BY <1>4, <1>6, <2>3, <3>1 DEF Active, Covered
  <2>4. CASE v = u /\ x = AtRequest(1) /\ (Known(u)' \/ u \notin deletes)
    <3>1. 1 \in 1..Len(Requests(u))'
      BY <1>1, <1>6, <2>4, HasFirst
    <3> QED BY <1>6, <2>4, <3>1, FirstShape
  <2> QED BY <1>5, <2>1, <2>2, <2>3, <2>4
<1>8. MarkedWasWritten'
  BY <1>1, <1>4, <1>5 DEF MarkInv, MarkedWasWritten
<1> QED BY <1>6, <1>7, <1>8 DEF MarkInv

(* The rows of a delivered unit enter the log, but for those the log fails. *)
LEMMA MarkKeeps == ASSUME MarkInv, NEW u \in Rows, Mark(u) PROVE MarkInv'
<1>1. UNCHANGED <<configVars, stored, missed, unit>> /\ Covered' = Covered
  BY CoveredStays DEF Mark
<1>2. w' = [w EXCEPT ![u] = Done(u)] /\ marked' \subseteq marked \cup unit[u]
  BY DEF Mark
<1>3. unit[u] \subseteq Covered
  BY DEF Mark, MarkInv, AtRequests
<1> QED BY <1>1, <1>2, <1>3, DoneShape, WorkerStep DEF Active

------------------------------------------------------------------------------
\* The actions of Load

(* Units of one row hold only that row.                                    *)
LEMMA UnitsOfOne ==
  ASSUME NEW rows \in SUBSET Rows, UnitSize = 1, NEW r \in Rows PROVE Units(rows)[r] \subseteq {r}
<1> DEFINE below(x) == {q \in rows : q < x}
<1>0. MaxRows \in Nat
  BY DeliveryAssumption
<1>1. \A x \in Rows : IsFiniteSet(below(x)) /\ Cardinality(below(x)) \in Nat
  <2> TAKE x \in Rows
  <2>1. IsFiniteSet(1..MaxRows)
    BY <1>0, FS_Interval
  <2>2. below(x) \in SUBSET (1..MaxRows)
    BY DEF Rows
  <2>3. IsFiniteSet(below(x))
    BY <2>1, <2>2, FS_Subset
  <2> QED BY <2>3, FS_CardinalityType
<1>2. ASSUME NEW p \in rows, NEW q \in rows, p < q
      PROVE Cardinality(below(p)) # Cardinality(below(q))
  <2>1. p \in Rows /\ q \in Rows /\ p \in Int /\ q \in Int
    BY <1>0 DEF Rows
  <2>2. below(p) \in SUBSET below(q)
    <3>1. \A x \in rows : x \in Int
      BY <1>0 DEF Rows
    <3>2. \A x \in rows : x < p => x < q
      BY <1>2, <2>1, <3>1
    <3> QED BY <3>2
  <2>3. p \in below(q) /\ p \notin below(p)
    BY <1>2, <2>1
  <2>4. IsFiniteSet(below(q))
    BY <1>1, <2>1
  <2> HIDE DEF below
  <2> QED BY <2>2, <2>3, <2>4, FS_Subset
<1>3. \A q \in rows : r \in rows /\ Cardinality(below(q)) = Cardinality(below(r)) => q = r
  BY <1>0, <1>2 DEF Rows
<1>4. Units(rows)[r] \subseteq
        {q \in rows : r \in rows /\ Cardinality(below(q)) \in
                       Cardinality(below(r))..(Cardinality(below(r)) + 1 - 1)}
  BY DEF Units
<1>5. \A q \in rows : Cardinality(below(q)) \in Nat /\ Cardinality(below(r)) \in Nat
  BY <1>1
<1> HIDE DEF below
<1> QED BY <1>3, <1>4, <1>5

LEMMA UnitsShape ==
  ASSUME DeliveryShape, NEW rows \in SUBSET Rows
  PROVE  /\ Units(rows) \in [Rows -> SUBSET Rows]
         /\ kind = "hubspot" => \A u \in Rows : Units(rows)[u] \subseteq {u}
<1>1. Units(rows) \in [Rows -> SUBSET Rows]
  BY DEF Units
<1>2. kind = "hubspot" => UnitSize = 1
  BY DEF UnitSize, Shape, LoadOf, HubSpotLoad, LoadShape
<1> QED BY <1>1, <1>2, UnitsOfOne

(* With no worker at work only the shape and the delivery log count.        *)
LEMMA RestKeeps ==
  ASSUME DeliveryShape', \A u \in Rows : w'[u].pc \notin Active \cup {"mark", "resolve"}, MarkedWasWritten'
  PROVE MarkInv'
<1>1. AtRequests'
  BY DEF AtRequests
<1> QED BY <1>1 DEF MarkInv

LEMMA FilterKeeps == ASSUME MarkInv, Filter PROVE MarkInv'
<1>1. UNCHANGED <<configVars, stored, missed, serverVars, marked>> /\ Waived' = Waived
  BY DEF Filter, configVars, Waived, Known, serverVars
<1>2. CASE UNCHANGED <<unit, w>>
  BY <1>1, <1>2, FrameKeeps
<1>3. ASSUME NEW rows \in SUBSET Rows, Queue(Units(rows)) PROVE MarkInv'
  <2>1. \A r \in Rows : w'[r] = Idle \/ w'[r] = [Idle EXCEPT !.pc = "queued"]
    BY <1>3 DEF Queue
  <2>2. [Idle EXCEPT !.pc = "queued"] \in WorkerShape /\ [Idle EXCEPT !.pc = "queued"].pc = "queued"
    <3>1. "queued" \in Places
      BY DEF Places
    <3> QED BY <3>1, IdleShape DEF WorkerShape
  <2>3. w' \in [Rows -> WorkerShape] /\ \A u \in Rows : w'[u].pc \notin Active \cup {"mark", "resolve"}
    <3>1. w' = [r \in Rows |-> w'[r]]
      BY <1>3 DEF Queue
    <3> QED BY <2>1, <2>2, <3>1, IdleShape DEF Active
  <2>4. DeliveryShape'
    BY <1>1, <1>3, <2>3, UnitsShape DEF MarkInv, DeliveryShape, Queue, configVars
  <2>5. MarkedWasWritten'
    BY <1>1 DEF MarkInv, MarkedWasWritten, serverVars
  <2> QED BY <2>3, <2>4, <2>5, RestKeeps
<1>4. 1..n \in SUBSET Rows
  BY DeliveryAssumption DEF MarkInv, DeliveryShape, Rows
<1>5. \A unread : ToSend(1..n, unread) \in SUBSET Rows
  BY <1>4 DEF ToSend
<1>6. \/ UNCHANGED <<unit, w>>
      \/ \E rows \in SUBSET Rows : Queue(Units(rows))
  BY <1>4, <1>5 DEF Filter
<1> QED BY <1>2, <1>3, <1>6

LEMMA CallKeeps == ASSUME MarkInv, Call PROVE MarkInv'
<1>1. kind' = kind /\ n' \in 0..MaxRows
  BY DeliveryAssumption DEF Call, MarkInv, DeliveryShape, Opt, Instances
<1>2. w' \in [Rows -> WorkerShape] /\ unit' \in [Rows -> SUBSET Rows]
      /\ \A u \in Rows : w'[u].pc \notin Active \cup {"mark", "resolve"} /\ unit'[u] = {}
  BY IdleShape DEF Call, Active
<1>3. DeliveryShape'
  BY <1>1, <1>2 DEF MarkInv, DeliveryShape
<1>4. MarkedWasWritten'
  <2>1. CASE marked' = {}
    BY <2>1 DEF MarkedWasWritten
  <2>2. CASE UNCHANGED <<marked, missed, applied, rejected, bare, deletes>>
    <3>1. \A r \in deletes : ~Known(r) => ~Known(r)'
      BY <2>2 DEF Call, Known
    <3>2. Waived \subseteq Waived'
      BY <1>1, <2>2, <3>1 DEF Waived
    <3> QED BY <2>2, <3>2 DEF MarkInv, MarkedWasWritten
  <2> QED BY <2>1, <2>2 DEF Call
<1> QED BY <1>2, <1>3, <1>4, RestKeeps

LEMMA MarkInit == Init => MarkInv
<1> SUFFICES ASSUME Init PROVE MarkInv OBVIOUS
<1>1. DeliveryShape /\ \A u \in Rows : w[u].pc \notin Active \cup {"mark", "resolve"}
  BY DeliveryAssumption, IdleShape DEF Init, DeliveryShape, Active
<1> QED BY <1>1 DEF Init, MarkInv, AtRequests, MarkedWasWritten

LEMMA MarkStep == MarkInv /\ [Next]_vars => MarkInv'
<1> SUFFICES ASSUME MarkInv, [Next]_vars PROVE MarkInv' OBVIOUS
<1>1. CASE Call
  BY <1>1, CallKeeps
<1>2. CASE Filter
  BY <1>2, FilterKeeps
<1>3. CASE \E u \in Rows : Work(u) \/ Deadline(u)
  BY <1>3, StartKeeps, ResolveKeeps, MarkKeeps, ChecksKeep, AnswerKeeps, WaitsKeep DEF Work
<1>4. CASE Return \/ Refill \/ Cooldown \/ TokenExpires \/ EndContext \/ UNCHANGED vars
  <2>1. UNCHANGED <<configVars, stored, missed, unit, w, marked, serverVars>>
    BY <1>4 DEF Return, Refill, Cooldown, TokenExpires, EndContext, envFrame, loadVars, vars
  <2> QED BY <2>1, FrameKeeps
<1> QED BY <1>1, <1>2, <1>3, <1>4 DEF Next

(* A row in the delivery log was written by the server, or is one the       *)
(* destination waives: under every retry, lost answer, cancellation, poll  *)
(* and later Load ("Call MarkDelivered after each successful write",       *)
(* destination.go).                                                        *)
THEOREM MarkedOnlyWhenWritten == Spec => []MarkedWasWritten
<1>1. Init => MarkInv
  BY MarkInit
<1>2. MarkInv /\ [Next]_vars => MarkInv'
  BY MarkStep
<1>3. MarkInv => MarkedWasWritten
  BY DEF MarkInv
<1> QED BY <1>1, <1>2, <1>3, PTL DEF Spec

------------------------------------------------------------------------------
(***************************************************************************)
(* ProbeIsOut of HttpDelivery: the workers of a Load and the circuit       *)
(* breaker they share.                                                     *)
(***************************************************************************)

States == {"closed", "open", "halfOpen"}
BreakerShape == [state : States, failures : Nat, cooled : BOOLEAN, probing : BOOLEAN]

(* A breaker that waits for a probe is half-open.                          *)
Sound(b) == b \in BreakerShape /\ (b.probing => b.state = "halfOpen")

(* The destinations with a breaker of which an attempt may end the Load:    *)
(* they have one worker at work.                                           *)
OneWorker == {"klaviyo", "mixpanel", "salesforceBulk"}
MayAbort == ~Guarded \/ kind \in OneWorker

OneAtWork ==
  /\ kind \in OneWorker => \A u, v \in Rows : w[u].pc \in Active /\ w[v].pc \in Active => u = v
  /\ kind = "salesforceBulk" =>
       \A u, v \in Rows : w[u].pc # "idle" /\ w[v].pc # "idle" => u = v

(* Between Loads, and while one still looks at its rows, no probe is out;   *)
(* a worker's probe is over when its attempt is.                           *)
ProbesInLoads ==
  /\ dropped \in BOOLEAN
  /\ Sound(breaker) /\ (breaker.probing => Guarded)
  /\ \A u \in Rows : w[u].probe => w[u].pc \in {"check", "sent"}
  /\ breaker.probing /\ phase # "send" => dropped

ProbeInv == OneAtWork /\ ProbesInLoads /\ ProbeIsOut

------------------------------------------------------------------------------
\* The breaker

LEMMA NewIsSound == Sound(NewCircuitBreaker) /\ ~NewCircuitBreaker.probing
BY DEF Sound, NewCircuitBreaker, BreakerShape, States

LEMMA AllowIsSound ==
  ASSUME NEW b, Sound(b)
  PROVE  /\ Sound(AfterAllow(b))
         /\ Allows(b) => (AfterAllow(b).probing => IsProbe(b))
         /\ ~Allows(b) => AfterAllow(b) = b
<1>1. "halfOpen" \in States /\ 0 \in Nat
  BY DEF States
<1>2. CASE b.state = "closed" \/ ~Allows(b)
  BY <1>2 DEF AfterAllow, Sound, IsProbe
<1>3. CASE b.state # "closed" /\ Allows(b)
  <2> DEFINE f == IF b.state = "open" THEN 0 ELSE b.failures
  <2>1. AfterAllow(b) = [b EXCEPT !.state = "halfOpen", !.probing = TRUE, !.failures = f]
    BY <1>3 DEF AfterAllow, Sound, BreakerShape
  <2>2. f \in Nat
    BY DEF Sound, BreakerShape
  <2> HIDE DEF f
  <2>3. AfterAllow(b) \in BreakerShape
    BY <1>1, <2>1, <2>2 DEF Sound, BreakerShape
  <2>4. AfterAllow(b).state = "halfOpen"
    BY <2>1 DEF Sound, BreakerShape
  <2> QED BY <1>3, <2>3, <2>4 DEF Sound, IsProbe
<1> QED BY <1>2, <1>3

(* An answer releases the breaker, whoever it is for.                      *)
LEMMA ReportReleases ==
  ASSUME NEW b, Sound(b)
  PROVE  /\ Sound(AfterSuccess(b)) /\ ~AfterSuccess(b).probing
         /\ Sound(AfterFailure(b)) /\ ~AfterFailure(b).probing
<1>1. "closed" \in States /\ "open" \in States /\ Threshold \in Nat /\ 0 \in Nat
  BY HelpersAssumption DEF States
<1>2. b \in BreakerShape /\ b.failures \in Nat /\ b.failures + 1 \in Nat
  BY DEF Sound, BreakerShape
<1>3. ASSUME NEW s \in States, NEW f \in Nat, NEW c \in BOOLEAN
      PROVE  /\ [b EXCEPT !.state = s, !.failures = f, !.cooled = c] \in BreakerShape
             /\ ReleaseHalfOpen([b EXCEPT !.state = s, !.failures = f, !.cooled = c]) \in BreakerShape
             /\ ~ReleaseHalfOpen([b EXCEPT !.state = s, !.failures = f, !.cooled = c]).probing
             /\ [b EXCEPT !.state = s, !.failures = f, !.cooled = c].probing = b.probing
  BY <1>2 DEF BreakerShape, ReleaseHalfOpen
<1>4. ASSUME NEW f \in Nat, NEW c \in BOOLEAN
      PROVE  /\ [b EXCEPT !.failures = f] \in BreakerShape
             /\ [b EXCEPT !.failures = f].probing = b.probing
             /\ [b EXCEPT !.cooled = c] \in BreakerShape
             /\ [b EXCEPT !.cooled = c].probing = b.probing
  BY <1>2 DEF BreakerShape
<1>5. b.state # "halfOpen" => ~b.probing
  BY DEF Sound
<1>6. Sound(AfterSuccess(b)) /\ ~AfterSuccess(b).probing
  BY <1>1, <1>3, <1>4, <1>5 DEF AfterSuccess, Sound
<1>7. CASE b.state = "halfOpen"
  BY <1>1, <1>3, <1>6, <1>7 DEF AfterFailure, Sound
<1>8. CASE b.state = "closed"
  <2>1. CASE b.failures + 1 >= Threshold
    BY <1>1, <1>3, <1>5, <1>6, <1>8, <2>1 DEF AfterFailure, Sound
  <2>2. CASE ~(b.failures + 1 >= Threshold)
    <3>1. AfterFailure(b) = [b EXCEPT !.failures = b.failures + 1]
      BY <1>8, <2>2 DEF AfterFailure
    <3> QED BY <1>2, <1>4, <1>5, <1>6, <1>8, <3>1 DEF Sound
  <2> QED BY <2>1, <2>2
<1>9. CASE b.state = "open"
  <2>1. AfterFailure(b) = [b EXCEPT !.cooled = FALSE]
    BY <1>9 DEF AfterFailure
  <2> QED BY <1>4, <1>5, <1>6, <1>9, <2>1 DEF Sound
<1>10. b.state \in {"closed", "open", "halfOpen"}
  BY <1>2 DEF BreakerShape, States
<1> QED BY <1>7, <1>8, <1>9, <1>10

------------------------------------------------------------------------------
\* A step of one worker

(* A worker's step keeps the invariant, as long as a probe it ends without  *)
(* a report is recorded as dropped, and a Load is ended only where no other *)
(* worker can have a probe out.                                            *)
LEMMA ProbeStep ==
  ASSUME MarkInv, ProbeInv, NEW u \in Rows, NEW x \in WorkerShape, w' = [w EXCEPT ![u] = x],
         UNCHANGED configVars, phase = "send", dropped' \in BOOLEAN, dropped => dropped',
         x.probe => x.pc \in {"check", "sent"}, w[u].pc # "idle",
         x.pc \in Active /\ kind \in {"klaviyo", "mixpanel"} =>
           w[u].pc \in Active \/ \A v \in Rows : w[v].pc \notin Active,
         Sound(breaker'), breaker'.probing => Guarded /\ (breaker.probing \/ x.probe),
         breaker'.probing /\ w[u].probe /\ ~x.probe => dropped',
         phase' # "send" => MayAbort /\ ~x.probe /\ w[u].pc \in Active
  PROVE ProbeInv'
<1>1. /\ w'[u] = x /\ \A v \in Rows : v # u => w'[v] = w[v]
      /\ kind' = kind /\ Guarded' = Guarded
  BY DEF MarkInv, DeliveryShape, configVars, Guarded, Conn, Opt
<1>2. OneAtWork'
  <2>1. kind \in {"klaviyo", "mixpanel"} =>
          \A v, q \in Rows : w'[v].pc \in Active /\ w'[q].pc \in Active => v = q
    BY <1>1 DEF ProbeInv, OneAtWork, OneWorker
  <2>2. kind = "salesforceBulk" =>
          \A v, q \in Rows : w'[v].pc # "idle" /\ w'[q].pc # "idle" => v = q
    BY <1>1 DEF ProbeInv, OneAtWork
  <2> QED BY <1>1, <2>1, <2>2 DEF OneAtWork, OneWorker, Active
<1>3. ProbeIsOut'
  <2> SUFFICES ASSUME breaker'.probing, ~dropped' PROVE \E v \in Rows : w'[v].probe
    BY DEF ProbeIsOut
  <2>1. CASE x.probe
    BY <1>1, <2>1
  <2>2. CASE ~x.probe
    <3>1. PICK v \in Rows : w[v].probe
      BY <2>2 DEF ProbeInv, ProbesInLoads, ProbeIsOut
    <3> QED BY <1>1, <2>2, <3>1
  <2> QED BY <2>1, <2>2
<1>4. breaker'.probing /\ phase' # "send" => dropped'
  <2> SUFFICES ASSUME breaker'.probing, phase' # "send", ~dropped' PROVE FALSE
    OBVIOUS
  <2>1. kind \in OneWorker /\ w[u].pc \in Active
    BY DEF MayAbort
  <2>2. PICK v \in Rows : w'[v].probe
    BY <1>3 DEF ProbeIsOut
  <2>3. v # u /\ w[v].pc \in Active
    BY <1>1, <2>2 DEF ProbeInv, ProbesInLoads, Active
  <2> QED BY <2>1, <2>3 DEF ProbeInv, OneAtWork
<1>5. ProbesInLoads'
  BY <1>1, <1>4 DEF ProbeInv, ProbesInLoads
<1> QED BY <1>2, <1>3, <1>5 DEF ProbeInv

(* Where an attempt can end the whole Load.                                *)
LEMMA FatalKinds ==
  ASSUME DeliveryShape
  PROVE  /\ Shape.onError = "fatal" \/ Shape.onCtx = "fatal" => MayAbort
         /\ \A answer, a : AfterOf(answer, a) = "fatal" => MayAbort
         /\ "unit" \in Shape.ctx => ~Guarded
         /\ kind \in {"klaviyo", "mixpanel"} => Conn.width = 1
<1> USE DEF MayAbort, OneWorker, Guarded, Conn, ConnectOf, Client, Shape, LoadOf, LoadShape
<1>1. CASE kind = "restapi"
  BY <1>1 DEF RestLoad, AfterOf, AfterAttempt
<1>2. CASE kind = "intercom"
  BY <1>2 DEF IntercomLoad, AfterOf, AfterAttempt
<1>3. CASE kind = "pipedrive"
  BY <1>3 DEF PipedriveLoad, AfterOf, AfterAttempt
<1>4. CASE kind = "zendesk"
  BY <1>4 DEF ZendeskLoad, AfterOf, AfterAttempt
<1>5. CASE kind = "klaviyo"
  BY <1>5 DEF KlaviyoLoad, KlaviyoConnect
<1>6. CASE kind = "mixpanel"
  BY <1>6 DEF MixpanelLoad, MixpanelConnect
<1>7. CASE kind = "hubspot"
  BY <1>7 DEF HubSpotConnect
<1>8. CASE kind = "slack"
  BY <1>8 DEF SlackConnect
<1>9. CASE kind = "googlesheets"
  BY <1>9 DEF SheetsConnect
<1>10. CASE kind = "salesforceRest"
  BY <1>10 DEF SalesforceLoadRest, AfterOf, AfterAttempt
<1>11. CASE kind = "salesforceBulk"
  BY <1>11 DEF SalesforceLoadBulk
<1>12. CASE kind = "salesforceBulkParallel"
  BY <1>12 DEF SalesforceLoadBulkParallel, AfterOf, AfterAttempt
<1> QED
  BY KindKnown, <1>1, <1>2, <1>3, <1>4, <1>5, <1>6, <1>7, <1>8, <1>9, <1>10, <1>11, <1>12 DEF Kinds

(* An attempt of a worker is over.                                         *)
Over(u) ==
  /\ \E x \in WorkerShape : w' = [w EXCEPT ![u] = x] /\ ~x.probe
  /\ phase' = phase \/ MayAbort

LEMMA SettleIsOver ==
  ASSUME MarkInv, NEW u \in Rows, NEW how, Settle(u, how), how = "fatal" => MayAbort
  PROVE  Over(u)
<1>1. phase' = phase \/ MayAbort
  BY DEF Settle
<1> QED BY <1>1, SettleFails DEF Failed, Over

LEMMA GiveUpIsOver ==
  ASSUME MarkInv, NEW u \in Rows, w[u].pc \in Active, NEW how, GiveUp(u, how), how = "fatal" => MayAbort
  PROVE  Over(u)
<1>1. phase' = phase \/ MayAbort
  BY DEF GiveUp, Finish, Resume, Settle
<1> QED BY <1>1, GiveUpFails DEF Failed, Over

LEMMA BadAttemptIsOver ==
  ASSUME MarkInv, NEW u \in Rows, w[u].pc \in Active, NEW answer, ~Good(answer), NEW found,
         EndAttempt(u, answer, found)
  PROVE  Over(u)
<1> DEFINE next == AfterOf(answer, w[u].attempt)
<1>1. next \in {"again", "backoff", "failed", "fatal"}
  BY OnlyGoodIsDone
<1>2. phase' = phase \/ MayAbort
  <2>1. CASE next \in {"again", "backoff"}
    BY <2>1 DEF EndAttempt, Again, Resume
  <2>2. CASE next = "failed"
    <3>1. GiveUp(u, Shape.onError)
      BY <2>2 DEF EndAttempt
    <3> QED BY <3>1, FatalKinds DEF GiveUp, Finish, Resume, Settle, MarkInv
  <2>3. CASE next = "fatal"
    BY <2>3, FatalKinds DEF MarkInv
  <2> QED BY <1>1, <2>1, <2>2, <2>3
<1> QED BY <1>2, AttemptFails DEF Failed, Over

LEMMA ToRequestIsOver ==
  ASSUME MarkInv, NEW u \in Rows, NEW s \in 0..6, NEW found \in BOOLEAN, ToRequest(u, s, found)
  PROVE  Over(u)
<1>1. PICK x \in WorkerShape :
        w' = [w EXCEPT ![u] = x] /\ x.stage = s /\ ~x.probe /\ marked' = marked
  BY ToRequestGoes
<1>2. phase' = phase
  BY DEF ToRequest, Resume
<1> QED BY <1>1, <1>2 DEF Over

LEMMA NextRequestIsOver ==
  ASSUME MarkInv, NEW u \in Rows, w[u].pc \in Active, NEW found \in BOOLEAN, NextRequest(u, found)
  PROVE  Over(u)
<1> DEFINE l == Len(Requests(u))
           at == w[u].stage
<1>1. l \in 1..6 /\ at \in 1..l
  BY AtRequestFacts DEF MarkInv
<1>2. CASE at = l
  <2>1. Finish(u, found)
    BY <1>2 DEF NextRequest
  <2> QED BY <2>1, FinishGoes DEF Over
<1>3. CASE at # l
  <2>1. ToRequest(u, at + 1, found)
    BY <1>3 DEF NextRequest
  <2>2. at + 1 \in 0..6
    <3> HIDE DEF l, at
    <3> QED BY <1>1, <1>3
  <2> QED BY <2>1, <2>2, ToRequestIsOver
<1> QED BY <1>2, <1>3

------------------------------------------------------------------------------
\* The actions of a worker

(* An attempt that ends without an answer keeps the breaker as it was.      *)
LEMMA OverKeeps ==
  ASSUME MarkInv, ProbeInv, NEW u \in Rows, w[u].pc \in Active, Over(u), phase = "send",
         UNCHANGED <<configVars, breaker>>, dropped' = (dropped \/ w[u].probe)
  PROVE  ProbeInv'
<1>1. PICK x \in WorkerShape : w' = [w EXCEPT ![u] = x] /\ ~x.probe
  BY DEF Over
<1>2. /\ dropped' \in BOOLEAN /\ (dropped => dropped') /\ (w[u].probe => dropped')
      /\ Sound(breaker') /\ (breaker'.probing => Guarded /\ breaker.probing)
      /\ w[u].pc # "idle" /\ (phase' # "send" => MayAbort)
  BY DEF ProbeInv, ProbesInLoads, MarkInv, DeliveryShape, WorkerShape, Active, Over
<1> QED BY <1>1, <1>2, ProbeStep

(* A worker that does not end an attempt.                                  *)
LEMMA PassGoes ==
  ASSUME MarkInv, NEW u \in Rows, w[u].pc = "check", NEW probe \in BOOLEAN, Pass(u, probe)
  PROVE  /\ \E x \in WorkerShape : w' = [w EXCEPT ![u] = x] /\ x.probe = probe
                                  /\ x.pc \in {"check", "sent"}
         /\ phase' = phase
<1> DEFINE x == [w[u] EXCEPT !.probe = probe, !.check = @ + 1,
                             !.pc = IF LastCheck(u) THEN "sent" ELSE @]
           place == IF LastCheck(u) THEN "sent" ELSE "check"
<1>1. w' = [w EXCEPT ![u] = x] /\ phase' = phase
  BY DEF Pass, Resume
<1>2. w[u] \in WorkerShape /\ w[u].check + 1 \in Nat /\ place \in Places /\ place \in {"check", "sent"}
  BY DEF MarkInv, DeliveryShape, WorkerShape, Places
<1>3. x = [w[u] EXCEPT !.probe = probe, !.pc = place, !.check = w[u].check + 1]
  BY <1>2 DEF WorkerShape
<1> HIDE DEF x, place
<1>4. \A c \in Nat, q \in Places : [w[u] EXCEPT !.probe = probe, !.pc = q, !.check = c] \in WorkerShape
  BY <1>2 DEF WorkerShape
<1>5. x \in WorkerShape /\ x.probe = probe /\ x.pc = place
  BY <1>2, <1>3, <1>4 DEF WorkerShape
<1> QED BY <1>1, <1>2, <1>5

(* A check that passes and leaves the breaker alone keeps the probe.        *)
LEMMA PassWithProbe ==
  ASSUME MarkInv, ProbeInv, NEW u \in Rows, w[u].pc = "check", phase = "send",
         Pass(u, w[u].probe), UNCHANGED <<configVars, breaker, dropped>>
  PROVE  ProbeInv'
<1>1. w[u].probe \in BOOLEAN
  BY DEF MarkInv, DeliveryShape, WorkerShape
<1>2. PICK x \in WorkerShape : w' = [w EXCEPT ![u] = x] /\ x.probe = w[u].probe
                               /\ x.pc \in {"check", "sent"}
  BY <1>1, PassGoes
<1>3. phase' = phase
  BY <1>1, PassGoes
<1>4. /\ dropped' \in BOOLEAN /\ (dropped => dropped')
      /\ Sound(breaker') /\ (breaker'.probing => Guarded /\ breaker.probing)
  BY DEF ProbeInv, ProbesInLoads
<1> QED BY <1>2, <1>3, <1>4, ProbeStep DEF Active

LEMMA CheckBreakerKeepsProbe ==
  ASSUME MarkInv, ProbeInv, NEW u \in Rows, CheckBreaker(u) PROVE ProbeInv'
<1>1. w[u].pc = "check" /\ phase = "send" /\ UNCHANGED configVars
  BY DEF CheckBreaker, Checking, checkFrame
<1>2. CASE Guarded /\ ~Allows(breaker) /\ Drop(u, Circuit) /\ UNCHANGED breaker
  <2>1. ~Good(Circuit)
    BY DEF Good, Circuit
  <2>2. Over(u)
    BY <1>1, <1>2, <2>1, BadAttemptIsOver DEF Drop, Active
  <2> QED BY <1>1, <1>2, <2>2, OverKeeps DEF Drop, Active
<1>3. CASE /\ Guarded => Allows(breaker)
           /\ breaker' = IF Guarded THEN AfterAllow(breaker) ELSE breaker
           /\ Pass(u, Guarded /\ IsProbe(breaker))
           /\ UNCHANGED dropped
  <2> DEFINE probe == Guarded /\ IsProbe(breaker)
  <2>1. probe \in BOOLEAN
    OBVIOUS
  <2>2. PICK x \in WorkerShape : w' = [w EXCEPT ![u] = x] /\ x.probe = probe
                                 /\ x.pc \in {"check", "sent"}
    BY <1>1, <1>3, <2>1, PassGoes
  <2>3. phase' = phase
    BY <1>3 DEF Pass, Resume
  <2>4. Sound(breaker) /\ (breaker.probing => Guarded) /\ dropped \in BOOLEAN
    BY DEF ProbeInv, ProbesInLoads
  <2>5. Sound(breaker') /\ (breaker'.probing => Guarded /\ x.probe)
    BY <1>3, <2>2, <2>4, AllowIsSound
  <2> HIDE DEF probe
  <2> QED BY <1>1, <1>3, <2>2, <2>3, <2>4, <2>5, ProbeStep DEF Active
<1> QED BY <1>2, <1>3 DEF CheckBreaker

LEMMA ChecksKeepProbe ==
  ASSUME MarkInv, ProbeInv, NEW u \in Rows,
         CheckContext(u) \/ CheckBreaker(u) \/ CheckLimiter(u) \/ CheckAuth(u)
  PROVE  ProbeInv'
<1>1. CASE CheckBreaker(u)
  BY <1>1, CheckBreakerKeepsProbe
<1>2. ASSUME ~CheckBreaker(u) PROVE ProbeInv'
  <2>1. /\ w[u].pc = "check" /\ phase = "send" /\ UNCHANGED <<configVars, breaker>>
        /\ \/ Pass(u, w[u].probe) /\ UNCHANGED dropped
           \/ \E answer \in {NoAnswer, NoToken} : Drop(u, answer)
    BY <1>2 DEF CheckContext, CheckLimiter, CheckAuth, Checking, checkFrame
  <2>2. CASE Pass(u, w[u].probe) /\ UNCHANGED dropped
    BY <2>1, <2>2, PassWithProbe
  <2>3. CASE \E answer \in {NoAnswer, NoToken} : Drop(u, answer)
    <3>1. PICK answer \in {NoAnswer, NoToken} : Drop(u, answer)
      BY <2>3
    <3>2. ~Good(answer)
      BY DEF Good, NoAnswer, NoToken
    <3>3. Over(u)
      BY <2>1, <3>1, <3>2, BadAttemptIsOver DEF Drop, Active
    <3> QED BY <2>1, <3>1, <3>3, OverKeeps DEF Drop, Active
  <2> QED BY <2>1, <2>2, <2>3
<1> QED BY <1>1, <1>2

(* An answer, or the lack of one, ends the attempt and is told the breaker. *)
LEMMA AnswerIsOver == ASSUME MarkInv, NEW u \in Rows, Answer(u) PROVE Over(u)
<1>1. w[u].pc \in Active /\ w[u].found \in BOOLEAN
  BY DEF Answer, Active, MarkInv, DeliveryShape, WorkerShape
<1>2. PICK answer \in Answers(u) :
        IF Good(answer) THEN AfterGoodAnswer(u) ELSE AfterBadAnswer(u, answer)
  BY DEF Answer
<1>3. \/ AfterBadAnswer(u, answer) /\ ~Good(answer)
      \/ AfterSearch(u) \/ AfterPoll(u) \/ \E found \in BOOLEAN : NextRequest(u, found)
  <2>1. (w[u].found \/ Req(u).effect = "failures") \in BOOLEAN OBVIOUS
  <2> QED BY <1>2, <2>1 DEF AfterGoodAnswer
<1>4. CASE AfterBadAnswer(u, answer) /\ ~Good(answer)
  BY <1>1, <1>4, BadAttemptIsOver DEF AfterBadAnswer
<1>5. CASE AfterSearch(u)
  <2>1. (records[entity[u]] > 0) \in BOOLEAN OBVIOUS
  <2> QED BY <1>1, <1>5, <2>1, SettleIsOver, NextRequestIsOver DEF AfterSearch
<1>6. CASE AfterPoll(u)
  <2>1. \/ NextRequest(u, FALSE) \/ ToRequest(u, w[u].stage, FALSE) \/ Settle(u, Shape.onError)
    BY <1>6 DEF AfterPoll
  <2>2. CASE ToRequest(u, w[u].stage, FALSE)
    <3>1. w[u].stage \in 0..6 /\ phase' = phase
      BY <2>2 DEF MarkInv, DeliveryShape, WorkerShape, ToRequest, Resume
    <3> QED BY <2>2, <3>1, ToRequestGoes DEF Over
  <2>3. CASE Settle(u, Shape.onError)
    BY <2>3, SettleIsOver, FatalKinds DEF MarkInv
  <2>4. CASE NextRequest(u, FALSE)
    BY <1>1, <2>4, NextRequestIsOver
  <2> QED BY <2>1, <2>2, <2>3, <2>4
<1>7. CASE \E found \in BOOLEAN : NextRequest(u, found)
  BY <1>1, <1>7, NextRequestIsOver
<1> QED BY <1>3, <1>4, <1>5, <1>6, <1>7

LEMMA AnswerKeepsProbe == ASSUME MarkInv, ProbeInv, NEW u \in Rows, Answer(u) PROVE ProbeInv'
<1>1. PICK x \in WorkerShape : w' = [w EXCEPT ![u] = x] /\ ~x.probe
  BY AnswerIsOver DEF Over
<1>2. /\ phase = "send" /\ (phase' # "send" => MayAbort) /\ w[u].pc = "sent"
      /\ UNCHANGED configVars /\ dropped' = dropped /\ dropped \in BOOLEAN
  BY AnswerIsOver DEF Over, Answer, ProbeInv, ProbesInLoads
<1>3. Sound(breaker') /\ ~breaker'.probing
  <2>1. Sound(breaker) /\ (breaker.probing => Guarded)
    BY DEF ProbeInv, ProbesInLoads
  <2>2. \E answer : Record(answer)
    BY DEF Answer
  <2> QED BY <2>1, <2>2, ReportReleases DEF Record
<1> QED BY <1>1, <1>2, <1>3, ProbeStep DEF Active

(* The steps that only wait.                                               *)
LEMMA WaitsKeepProbe ==
  ASSUME MarkInv, ProbeInv, NEW u \in Rows, Send(u) \/ Backoff(u) \/ Tick(u) \/ Deadline(u)
  PROVE  ProbeInv'
<1>1. /\ phase = "send" /\ UNCHANGED <<configVars, breaker, dropped>>
      /\ dropped \in BOOLEAN /\ Sound(breaker) /\ (breaker.probing => Guarded)
      /\ w[u] \in WorkerShape /\ (w[u].probe => w[u].pc \in {"check", "sent"})
  BY DEF ghosts, Send, Backoff, Tick, Deadline, checkFrame, helperVars,
     ProbeInv, ProbesInLoads, MarkInv, DeliveryShape
<1>2. ASSUME NEW place \in {"check", "sent"}, w[u].pc \in Active,
             Resume(u, [w[u] EXCEPT !.pc = place])
      PROVE ProbeInv'
  <2> DEFINE x == [w[u] EXCEPT !.pc = place]
  <2>1. place \in Places
    BY DEF Places
  <2>2. x \in WorkerShape /\ x.probe = w[u].probe /\ x.pc = place
    BY <1>1, <2>1 DEF WorkerShape
  <2>3. w' = [w EXCEPT ![u] = x] /\ phase' = phase
    BY <1>2 DEF Resume
  <2>4. w[u].pc # "idle"
    BY <1>2 DEF Active
  <2> HIDE DEF x
  <2> QED BY <1>1, <1>2, <2>2, <2>3, <2>4, ProbeStep
<1>3. ASSUME w[u].pc \in {"backoff", "tick"}, Over(u) PROVE ProbeInv'
  <2>1. ~w[u].probe
    BY <1>1, <1>3 DEF WorkerShape
  <2>2. dropped' = (dropped \/ w[u].probe)
    BY <1>1, <2>1
  <2> QED BY <1>1, <1>3, <2>2, OverKeeps DEF Active
<1>4. CASE Send(u)
  BY <1>2, <1>4 DEF Send, Active
<1>5. CASE Backoff(u)
  <2>1. CASE Again(u)
    <3>1. Over(u)
      BY <2>1, AgainFails DEF Failed, Over, Again, Resume
    <3> QED BY <1>3, <1>5, <3>1 DEF Backoff
  <2>2. CASE GiveUp(u, IF kind = "hubspot" THEN "rowErrors" ELSE Shape.onCtx)
    <3>1. Over(u)
      BY <1>5, <2>2, GiveUpIsOver, FatalKinds DEF Backoff, Active, MarkInv
    <3> QED BY <1>3, <1>5, <3>1 DEF Backoff
  <2> QED BY <1>5, <2>1, <2>2 DEF Backoff
<1>6. CASE Tick(u)
  <2>1. CASE Settle(u, Shape.onCtx) \/ Settle(u, Shape.onError)
    <3>1. Over(u)
      BY <2>1, SettleIsOver, FatalKinds DEF MarkInv
    <3> QED BY <1>3, <1>6, <3>1 DEF Tick
  <2>2. CASE Resume(u, [w[u] EXCEPT !.pc = "check"])
    BY <1>2, <1>6, <2>2 DEF Tick, Active
  <2> QED BY <1>6, <2>1, <2>2 DEF Tick
<1>7. CASE Deadline(u)
  <2> DEFINE x == [w[u] EXCEPT !.late = TRUE]
  <2>1. w' = [w EXCEPT ![u] = x] /\ phase' = phase
    BY <1>7 DEF Deadline, Resume
  <2>2. x \in WorkerShape /\ x.probe = w[u].probe /\ x.pc = w[u].pc
    BY <1>1 DEF WorkerShape
  <2> HIDE DEF x
  <2>3. CASE w[u].pc # "idle"
    BY <1>1, <2>1, <2>2, <2>3, ProbeStep
  <2>4. CASE w[u].pc = "idle"
    <3>1. /\ \A v \in Rows : w'[v].pc = w[v].pc /\ w'[v].probe = w[v].probe
          /\ kind' = kind /\ Guarded' = Guarded
      BY <1>1, <2>1, <2>2 DEF MarkInv, DeliveryShape, configVars, Guarded, Conn, Opt
    <3>2. OneAtWork'
      BY <3>1 DEF ProbeInv, OneAtWork
    <3>3. ProbesInLoads' /\ ProbeIsOut'
      BY <1>1, <2>1, <3>1 DEF ProbeInv, ProbesInLoads, ProbeIsOut
    <3> QED BY <3>2, <3>3 DEF ProbeInv
  <2> QED BY <2>3, <2>4
<1> QED BY <1>4, <1>5, <1>6, <1>7

(* What moves neither workers nor the breaker: while a Load sends, or when   *)
(* no worker has a probe.                                                  *)
LEMMA RestKeepsProbe ==
  ASSUME ProbeInv, UNCHANGED configVars, UNCHANGED <<w, breaker, dropped>>,
         \/ phase' = phase
         \/ phase # "send"
         \/ ~Guarded
         \/ \A u \in Rows : ~w[u].probe
  PROVE  ProbeInv'
<1>1. kind' = kind /\ Guarded' = Guarded
  BY DEF configVars, Guarded, Conn, Opt
<1>2. OneAtWork'
  BY <1>1 DEF ProbeInv, OneAtWork
<1>3. ProbesInLoads' /\ ProbeIsOut'
  BY <1>1 DEF ProbeInv, ProbesInLoads, ProbeIsOut
<1> QED BY <1>2, <1>3 DEF ProbeInv

(* The semaphore admits one worker where the width is one.                  *)
LEMMA StartKeepsProbe == ASSUME MarkInv, ProbeInv, NEW u \in Rows, Start(u) PROVE ProbeInv'
<1>1. /\ phase = "send" /\ w[u].pc = "queued" /\ ~w[u].probe
      /\ UNCHANGED <<configVars, breaker, dropped>> /\ dropped \in BOOLEAN
      /\ Sound(breaker) /\ (breaker.probing => Guarded)
  BY DEF ghosts, Start, helperVars, ProbeInv, ProbesInLoads, MarkInv, DeliveryShape, WorkerShape
<1>2. CASE ctxDone /\ "unit" \in Shape.ctx
  <2>1. ~Guarded /\ UNCHANGED w
    BY <1>2, FatalKinds DEF Start, MarkInv
  <2> QED BY <1>1, <2>1, RestKeepsProbe
<1>3. CASE ~(ctxDone /\ "unit" \in Shape.ctx)
  <2>1. /\ phase' = phase
        /\ \/ w' = [w EXCEPT ![u] = Done(u)]
           \/ w' = [w EXCEPT ![u] = [Idle EXCEPT !.pc = "resolve"]]
           \/ w' = [w EXCEPT ![u] = AtRequest(1)]
    BY <1>3 DEF Start
  <2>2. [Idle EXCEPT !.pc = "resolve"] \in WorkerShape /\ ~[Idle EXCEPT !.pc = "resolve"].probe
    <3>1. "resolve" \in Places
      BY DEF Places
    <3> QED BY <3>1, IdleShape DEF WorkerShape
  <2>3. PICK x \in WorkerShape : w' = [w EXCEPT ![u] = x] /\ ~x.probe
    BY <2>1, <2>2, DoneShape, FirstShape
  <2>4. kind \in {"klaviyo", "mixpanel"} => \A v \in Rows : w[v].pc \notin Active
    <3> SUFFICES ASSUME kind \in {"klaviyo", "mixpanel"} PROVE \A v \in Rows : w[v].pc \notin Active
      OBVIOUS
    <3>1. Cardinality(Running) < 1
      BY FatalKinds DEF Start, MarkInv
    <3>2. IsFiniteSet(Rows)
      BY DeliveryAssumption, FS_Interval DEF Rows
    <3>3. IsFiniteSet(Running)
      BY <3>2, FS_Subset DEF Running
    <3>4. Cardinality(Running) \in Nat
      BY <3>3, FS_CardinalityType
    <3>5. Cardinality(Running) = 0
      BY <3>1, <3>4
    <3>6. Running = {}
      BY <3>3, <3>5, FS_EmptySet
    <3> QED BY <3>6 DEF Running, Active
  <2> QED BY <1>1, <2>1, <2>3, <2>4, ProbeStep
<1> QED BY <1>2, <1>3

(* HubSpot has no breaker.                                                 *)
LEMMA ResolveKeepsProbe == ASSUME MarkInv, ProbeInv, NEW u \in Rows, Resolve(u) PROVE ProbeInv'
<1>1. /\ phase = "send" /\ UNCHANGED <<configVars, breaker, dropped>> /\ ~w[u].probe
      /\ dropped \in BOOLEAN /\ Sound(breaker) /\ (breaker.probing => Guarded)
      /\ w[u].pc = "resolve" /\ kind = "hubspot"
  BY DEF ghosts, Resolve, helperVars, ProbeInv, ProbesInLoads, MarkInv, AtRequests, DeliveryShape, WorkerShape
<1>2. PICK x \in WorkerShape : w' = [w EXCEPT ![u] = x] /\ ~x.probe /\ phase' = phase
  <2>1. CASE Finish(u, FALSE)
    BY <2>1, FinishGoes
  <2>2. CASE Settle(u, "rowErrors")
    BY <2>2, DoneShape DEF Settle
  <2>3. CASE Resume(u, AtRequest(1))
    BY <2>3, FirstShape DEF Resume
  <2> QED BY <2>1, <2>2, <2>3 DEF Resolve
<1> QED BY <1>1, <1>2, ProbeStep

LEMMA MarkKeepsProbe == ASSUME MarkInv, ProbeInv, NEW u \in Rows, Mark(u) PROVE ProbeInv'
<1>1. /\ phase = "send" /\ UNCHANGED <<configVars, breaker, dropped, phase>> /\ ~w[u].probe
      /\ dropped \in BOOLEAN /\ Sound(breaker) /\ (breaker.probing => Guarded)
      /\ w[u].pc = "mark" /\ w' = [w EXCEPT ![u] = Done(u)]
  BY DEF ghosts, Mark, helperVars, ProbeInv, ProbesInLoads, MarkInv, DeliveryShape, WorkerShape
<1> QED BY <1>1, DoneShape, ProbeStep DEF Active

------------------------------------------------------------------------------
\* The actions of Load

(* A unit of all rows is the only one.                                     *)
LEMMA UnitOfAll ==
  ASSUME n \in 0..MaxRows, NEW rows \in SUBSET (1..n), UnitSize = n,
         NEW p \in Rows, NEW r \in Rows, p < r, Units(rows)[p] # {}
  PROVE  Units(rows)[r] = {}
<1> DEFINE below(x) == {q \in rows : q < x}
<1>1. n \in Nat /\ Rows \subseteq Int
  BY DeliveryAssumption DEF Rows
<1>2. SUFFICES ASSUME r \in rows, p \in rows PROVE Cardinality(below(r)) % n # 0
  BY DEF Units
<1>3. n >= 1 /\ r <= n /\ p \in below(r)
  BY <1>1, <1>2
<1>4. IsFiniteSet(1..n) /\ Cardinality(1..n) = n
  BY <1>1, <1>3, FS_Interval
<1>5. below(r) \in SUBSET (1..n) /\ below(r) # 1..n
  <2>1. r \in 1..n /\ ~(r < r)
    BY <1>1, <1>2
  <2>2. r \notin below(r)
    BY <2>1
  <2>3. below(r) \subseteq 1..n
    OBVIOUS
  <2> HIDE DEF below
  <2> QED BY <2>1, <2>2, <2>3
<1>6. IsFiniteSet(below(r)) /\ Cardinality(below(r)) <= n /\ Cardinality(below(r)) # n
  <2> HIDE DEF below
  <2> QED BY <1>4, <1>5, FS_Subset
<1>7. Cardinality(below(r)) \in Nat /\ Cardinality(below(r)) # 0
  <2>1. below(r) # {}
    BY <1>3
  <2> HIDE DEF below
  <2> QED BY <1>6, <2>1, FS_CardinalityType, FS_EmptySet
<1> DEFINE c == Cardinality(below(r))
<1>8. c \in 1..(n - 1)
  <2>1. c \in Nat /\ c # 0 /\ c <= n /\ c # n
    BY <1>6, <1>7
  <2> HIDE DEF c
  <2> QED BY <1>1, <2>1
<1> HIDE DEF c
<1>9. c % n = c
  BY <1>1, <1>3, <1>8
<1> QED BY <1>8, <1>9 DEF c

LEMMA FilterKeepsProbe == ASSUME MarkInv, ProbeInv, Filter PROVE ProbeInv'
<1>1. /\ phase = "filter" /\ UNCHANGED <<configVars, breaker, dropped>>
      /\ (breaker.probing => dropped)
  BY DEF ghosts, Filter, helperVars, ProbeInv, ProbesInLoads
<1>2. CASE UNCHANGED w
  BY <1>1, <1>2, RestKeepsProbe
<1>3. ASSUME NEW rows \in SUBSET (1..n), Queue(Units(rows)) PROVE ProbeInv'
  <2>1. /\ w' = [r \in Rows |-> IF Units(rows)[r] = {} THEN Idle ELSE [Idle EXCEPT !.pc = "queued"]]
        /\ kind' = kind /\ Guarded' = Guarded
    BY <1>1, <1>3 DEF Queue, configVars, Guarded, Conn, Opt
  <2>2. [Idle EXCEPT !.pc = "queued"].pc = "queued" /\ ~[Idle EXCEPT !.pc = "queued"].probe
    BY IdleShape DEF WorkerShape
  <2>3. \A u \in Rows : /\ w'[u].pc \in {"idle", "queued"} /\ ~w'[u].probe
                        /\ (w'[u].pc # "idle" => Units(rows)[u] # {})
    BY <2>1, <2>2, IdleShape
  <2>4. ASSUME kind = "salesforceBulk", NEW u \in Rows, NEW v \in Rows,
               w'[u].pc # "idle", w'[v].pc # "idle"
        PROVE u = v
    <3>1. UnitSize = n /\ n \in 0..MaxRows
      BY <2>4 DEF UnitSize, Shape, LoadOf, SalesforceLoadBulk, LoadShape, MarkInv, DeliveryShape
    <3>2. Units(rows)[u] # {} /\ Units(rows)[v] # {}
      BY <2>3, <2>4
    <3>3. ~(u < v) /\ ~(v < u)
      BY <3>1, <3>2, UnitOfAll
    <3> QED BY <3>3, DeliveryAssumption DEF Rows
  <2>5. OneAtWork'
    BY <2>1, <2>3, <2>4 DEF OneAtWork, Active
  <2>6. ProbesInLoads' /\ ProbeIsOut'
    BY <1>1, <2>1, <2>3 DEF ProbeInv, ProbesInLoads, ProbeIsOut
  <2> QED BY <2>5, <2>6 DEF ProbeInv
<1>4. \A unread : ToSend(1..n, unread) \in SUBSET (1..n)
  BY DEF ToSend
<1>5. \/ UNCHANGED w
      \/ \E rows \in SUBSET (1..n) : Queue(Units(rows))
  BY <1>4 DEF Filter
<1> QED BY <1>2, <1>3, <1>5

LEMMA CallKeepsProbe == ASSUME MarkInv, ProbeInv, Call PROVE ProbeInv'
<1>1. /\ phase # "send" /\ UNCHANGED <<kind, breaker, dropped>> /\ Guarded' = Guarded
      /\ (breaker.probing => dropped) /\ w' = [r \in Rows |-> Idle]
  BY DEF ghosts, Call, helperVars, ProbeInv, ProbesInLoads, Guarded, Conn, Opt
<1>2. \A u \in Rows : w'[u].pc = "idle" /\ ~w'[u].probe
  BY <1>1, IdleShape
<1>3. OneAtWork'
  BY <1>2 DEF OneAtWork, Active
<1>4. ProbesInLoads' /\ ProbeIsOut'
  BY <1>1, <1>2 DEF ProbeInv, ProbesInLoads, ProbeIsOut
<1> QED BY <1>3, <1>4 DEF ProbeInv

LEMMA CooldownKeepsProbe == ASSUME MarkInv, ProbeInv, Cooldown PROVE ProbeInv'
<1>1. /\ UNCHANGED <<configVars, w, phase, dropped>>
      /\ breaker.state = "open" /\ breaker' = [breaker EXCEPT !.cooled = TRUE]
  BY DEF ghosts, Cooldown, envFrame, loadVars
<1>2. kind' = kind /\ Guarded' = Guarded
  BY <1>1 DEF configVars, Guarded, Conn, Opt
<1>3. Sound(breaker') /\ ~breaker'.probing
  BY <1>1 DEF ProbeInv, ProbesInLoads, Sound, BreakerShape
<1>4. OneAtWork'
  BY <1>1, <1>2 DEF ProbeInv, OneAtWork
<1>5. ProbesInLoads' /\ ProbeIsOut'
  BY <1>1, <1>3 DEF ProbeInv, ProbesInLoads, ProbeIsOut
<1> QED BY <1>4, <1>5 DEF ProbeInv

LEMMA ProbeInit == Init => ProbeInv
<1> SUFFICES ASSUME Init PROVE ProbeInv OBVIOUS
<1>1. \A u \in Rows : w[u].pc = "idle" /\ ~w[u].probe
  BY IdleShape DEF Init
<1>2. OneAtWork
  BY <1>1 DEF OneAtWork, Active
<1>3. ProbesInLoads /\ ProbeIsOut
  BY <1>1, NewIsSound DEF Init, ProbesInLoads, ProbeIsOut
<1> QED BY <1>2, <1>3 DEF ProbeInv

LEMMA ProbeNext == MarkInv /\ ProbeInv /\ [Next]_vars => ProbeInv'
<1> SUFFICES ASSUME MarkInv, ProbeInv, [Next]_vars PROVE ProbeInv' OBVIOUS
<1>1. CASE Call
  BY <1>1, CallKeepsProbe
<1>2. CASE Filter
  BY <1>2, FilterKeepsProbe
<1>3. CASE Return
  <2>1. /\ UNCHANGED <<configVars, w, breaker, dropped>>
        /\ \A r \in Rows : w[r].pc \in {"idle", "done"}
    BY <1>3 DEF ghosts, Return, helperVars
  <2>2. \A u \in Rows : ~w[u].probe
    BY <2>1 DEF ProbeInv, ProbesInLoads, MarkInv, DeliveryShape, WorkerShape
  <2> QED BY <2>1, <2>2, RestKeepsProbe
<1>4. CASE \E u \in Rows : Work(u) \/ Deadline(u)
  BY <1>4, StartKeepsProbe, ResolveKeepsProbe, MarkKeepsProbe, ChecksKeepProbe, AnswerKeepsProbe,
     WaitsKeepProbe DEF Work
<1>5. CASE Cooldown
  BY <1>5, CooldownKeepsProbe
<1>6. CASE Refill \/ TokenExpires \/ EndContext \/ UNCHANGED vars
  <2>1. UNCHANGED <<configVars, w, breaker, dropped, phase>>
    BY <1>6 DEF ghosts, Refill, TokenExpires, EndContext, envFrame, loadVars, helperVars, vars
  <2> QED BY <2>1, RestKeepsProbe
<1> QED BY <1>1, <1>2, <1>3, <1>4, <1>5, <1>6 DEF Next

(* A half-open circuit breaker waits for a probe that a worker has out and   *)
(* will report, but for probes that ended before they were sent: under      *)
(* every interleaving of the workers that share it (httpx/retry.go).       *)
THEOREM HalfOpenHasAProbe == Spec => []ProbeIsOut
<1> DEFINE Inv == MarkInv /\ ProbeInv
<1>1. Init => Inv
  BY MarkInit, ProbeInit
<1>2. Inv /\ [Next]_vars => Inv'
  BY MarkStep, ProbeNext
<1>3. Inv => ProbeIsOut
  BY DEF ProbeInv
<1> QED BY <1>1, <1>2, <1>3, PTL DEF Spec

==============================================================================
