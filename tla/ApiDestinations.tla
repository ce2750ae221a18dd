--------------------------- MODULE ApiDestinations ---------------------------
(***************************************************************************)
(* The API destinations of internal/connector/destination, each by what     *)
(* sets its Load apart: what Connect builds, how Load splits rows into      *)
(* units of work and books them, what each attempt of a request checks      *)
(* before it is sent, and the requests a unit makes, in order.             *)
(***************************************************************************)
EXTENDS HttpHelpers

CONSTANTS
  WriteParallelism,  \* write_parallelism, 0 when the file leaves it out
  ChunkSize,         \* klaviyoBatch, mixpanelBatch
  HubSpotAttempts    \* maxAttempts of HubSpot's own retry loop

ASSUME DestinationsAssumption ==
  /\ WriteParallelism \in Nat
  /\ ChunkSize \in Nat \ {0} /\ HubSpotAttempts \in Nat \ {0}

Kinds == {"restapi", "intercom", "pipedrive", "zendesk", "klaviyo", "mixpanel",
          "hubspot", "slack", "googlesheets", "salesforceRest",
          "salesforceBulk", "salesforceBulkParallel"}

------------------------------------------------------------------------------
\* Connect: how many requests run at once, and which helpers it builds when the
\* file configures them (HubSpot's limiter is built anyway).

OrDefault(n, d) == IF n > 0 THEN n ELSE d

Client(width, limiter, breaker, auth) ==
  [width |-> width, limiter |-> limiter, breaker |-> breaker, auth |-> auth]

RestConnect == Client(OrDefault(WriteParallelism, 3), TRUE, TRUE, TRUE)
SalesforceConnect == Client(OrDefault(WriteParallelism, 3), TRUE, TRUE, TRUE)
IntercomConnect == Client(OrDefault(WriteParallelism, 8), TRUE, TRUE, TRUE)
PipedriveConnect == Client(OrDefault(WriteParallelism, 5), TRUE, TRUE, TRUE)
ZendeskConnect == Client(OrDefault(WriteParallelism, 10), TRUE, TRUE, TRUE)
KlaviyoConnect == Client(1, TRUE, TRUE, FALSE)     \* a fixed API key header
MixpanelConnect == Client(1, TRUE, TRUE, TRUE)
HubSpotConnect == Client(1, TRUE, FALSE, TRUE)
SlackConnect == Client(1, TRUE, FALSE, FALSE)
SheetsConnect == Client(1, FALSE, FALSE, FALSE)

------------------------------------------------------------------------------
\* Load.  unit: rows per unit of work; checked: whether the
\* delivery log is read for all rows first or for a unit when its turn comes;
\* matched: is a row without the match field a row error then; ctx: where ctx.Err
\* ends Load, besides its first line ("pass" over the rows, start of a "unit",
\* "end"); onCtx, onError: what becomes of a unit whose request ended with the
\* context's error, with any other.

LoadShape(unit, checked, matched, ctx, onCtx, onError) ==
  [unit |-> unit, checked |-> checked, matched |-> matched, ctx |-> ctx,
   onCtx |-> onCtx, onError |-> onError]

\* The variant does not look at the context in the end.
RestLoadNoLook == LoadShape("one", "first", FALSE, {"pass"}, "silent", "rowErrors")
RestLoad == LoadShape("one", "first", FALSE, {"pass", "end"}, "silent", "rowErrors")
IntercomLoad == LoadShape("one", "first", TRUE, {"end"}, "rowErrors", "rowErrors")
PipedriveLoad == LoadShape("one", "first", TRUE, {"end"}, "rowErrors", "rowErrors")
ZendeskLoad == LoadShape("one", "first", TRUE, {"end"}, "rowErrors", "rowErrors")
KlaviyoLoad == LoadShape("chunk", "first", FALSE, {}, "fatal", "rowErrors")
MixpanelLoad == LoadShape("chunk", "first", TRUE, {}, "fatal", "rowErrors")
HubSpotLoad == LoadShape("one", "inTurn", FALSE, {"unit"}, "rowErrors", "rowErrors")
SlackLoad == LoadShape("one", "inTurn", FALSE, {"unit"}, "fatal", "rowErrors")
SheetsLoad == LoadShape("all", "first", FALSE, {}, "rowErrors", "rowErrors")
SalesforceLoadRest ==
  LoadShape("one", "first", TRUE, {"pass", "end"}, "rowErrors", "rowErrors")
SalesforceLoadBulk == LoadShape("all", "first", FALSE, {}, "fatal", "fatal")
SalesforceLoadBulkParallel ==
  LoadShape("threshold", "inTurn", FALSE, {"end"}, "unnamed", "unnamed")

(* Which of the three a Salesforce Load of n rows takes.                   *)
SalesforcePath(n, threshold) ==
  CASE n <= threshold -> "salesforceRest"
    [] n > threshold * 2 /\ SalesforceConnect.width > 1 -> "salesforceBulkParallel"
    [] OTHER -> "salesforceBulk"

------------------------------------------------------------------------------
\* Requests.  checks: the order of the checks before an attempt is sent;
\* effect: what the server does with the request; accepts: the statuses an attempt
\* returns without an error; judged: whether an accepted 2xx answer may still
\* carry an error in its body.

Request(effect, checks, accepts, judged) ==
  [effect |-> effect, checks |-> checks, accepts |-> accepts, judged |-> judged]

BreakerThenLimiter == <<"breaker", "limiter", "auth">>
LimiterThenBreaker == <<"limiter", "breaker", "auth">>
Any == Nat

RestSend == Request("post", <<"ctx">> \o BreakerThenLimiter, Any, FALSE)
SalesforceUpsert == Request("upsert", <<"ctx">> \o BreakerThenLimiter, Any, FALSE)
SalesforceCreateJob == Request("none", BreakerThenLimiter, Any, TRUE)
SalesforceUpload == Request("none", BreakerThenLimiter, Any, FALSE)
SalesforceCloseJob == Request("close", BreakerThenLimiter, Any, FALSE)
SalesforcePoll == Request("poll", BreakerThenLimiter, Any, TRUE)
SalesforceResults == Request("results", BreakerThenLimiter, Any, TRUE)
SalesforceFailures == Request("failures", BreakerThenLimiter, Any, TRUE)
ZendeskSend == Request("upsert", LimiterThenBreaker, {200, 201}, FALSE)
KlaviyoSend == Request("upsert", <<"limiter", "breaker">>, {200, 202}, FALSE)
MixpanelSend == Request("upsert", LimiterThenBreaker, {200}, TRUE)
IntercomSearch == Request("search", LimiterThenBreaker, {200}, FALSE)
IntercomWrite(found) ==
  Request(IF found THEN "update" ELSE "create", LimiterThenBreaker, {200, 201}, FALSE)
PipedriveSearch == Request("search", LimiterThenBreaker, {200}, FALSE)
PipedriveWrite(found) ==
  Request(IF found THEN "update" ELSE "create", LimiterThenBreaker, {200, 201}, FALSE)
HubSpotSend(effect) ==
  Request(effect, <<"ctx", "limiter", "auth">>, Any, effect \in {"search", "create"})
SlackPost == Request("post", <<"limiter">>, Any, FALSE)
SheetsAppend == Request("post", <<>>, Any, FALSE)

(* HubSpot's own retry loop: an attempt without an answer is ambiguous and  *)
(* ends it, 401 and 403 end the whole Load.                                *)
AfterHubSpotAttempt(answer, a) ==
  IF answer.err = "none" /\ Is2xx(answer.code) THEN "done"
  ELSE IF answer.err # "none" THEN "failed"
  ELSE IF answer.code \in {401, 403} THEN "fatal"
  ELSE IF answer.code \in {400, 409, 422} THEN "failed"
  ELSE IF a = HubSpotAttempts THEN "failed"
  ELSE "backoff"

(* Slack and Sheets send once; Slack's wait for a token may end the Load.  *)
AfterOnlyAttempt(answer) ==
  IF answer.err = "none" /\ Is2xx(answer.code) THEN "done"
  ELSE IF answer.err = "limit" THEN "fatal"
  ELSE "failed"

------------------------------------------------------------------------------
\* The requests of one unit; found: the search returned a record; known: the
\* entity state was read and has a HubSpot ID; delete: the row's action is a delete.

IntercomUpsert(found) == <<IntercomSearch, IntercomWrite(found)>>
PipedriveUpsert(found) == <<PipedriveSearch, PipedriveWrite(found)>>

(* The variant creates without a search.                                   *)
HubSpotDeliverBlind(found, known, delete) ==
  CASE delete /\ ~known -> <<>>
    [] delete /\ known -> <<HubSpotSend("archive")>>
    [] ~delete /\ known -> <<HubSpotSend("update")>>
    [] OTHER -> <<HubSpotSend("create")>>
HubSpotDeliver(found, known, delete) ==
  CASE delete /\ ~known -> <<>>
    [] delete /\ known -> <<HubSpotSend("archive")>>
    [] ~delete /\ known -> <<HubSpotSend("update")>>
    [] OTHER -> <<HubSpotSend("search"),
                  HubSpotSend(IF found THEN "update" ELSE "create")>>

SalesforceBulk == <<SalesforceCreateJob, SalesforceUpload, SalesforceCloseJob,
                    SalesforcePoll, SalesforceResults, SalesforceFailures>>

ConnectOf ==
  [restapi |-> RestConnect, intercom |-> IntercomConnect,
   pipedrive |-> PipedriveConnect, zendesk |-> ZendeskConnect,
   klaviyo |-> KlaviyoConnect, mixpanel |-> MixpanelConnect,
   hubspot |-> HubSpotConnect, slack |-> SlackConnect,
   googlesheets |-> SheetsConnect, salesforceRest |-> SalesforceConnect,
   salesforceBulk |-> SalesforceConnect,
   salesforceBulkParallel |-> SalesforceConnect]

LoadOf ==
  [restapi |-> RestLoad, intercom |-> IntercomLoad,
   pipedrive |-> PipedriveLoad, zendesk |-> ZendeskLoad,
   klaviyo |-> KlaviyoLoad, mixpanel |-> MixpanelLoad,
   hubspot |-> HubSpotLoad, slack |-> SlackLoad,
   googlesheets |-> SheetsLoad, salesforceRest |-> SalesforceLoadRest,
   salesforceBulk |-> SalesforceLoadBulk,
   salesforceBulkParallel |-> SalesforceLoadBulkParallel]

RequestsOf(kind, found, known, delete) ==
  CASE kind = "restapi" -> <<RestSend>>
    [] kind = "intercom" -> IntercomUpsert(found)
    [] kind = "pipedrive" -> PipedriveUpsert(found)
    [] kind = "zendesk" -> <<ZendeskSend>>
    [] kind = "klaviyo" -> <<KlaviyoSend>>
    [] kind = "mixpanel" -> <<MixpanelSend>>
    [] kind = "hubspot" -> HubSpotDeliver(found, known, delete)
    [] kind = "slack" -> <<SlackPost>>
    [] kind = "googlesheets" -> <<SheetsAppend>>
    [] kind = "salesforceRest" -> <<SalesforceUpsert>>
    [] OTHER -> SalesforceBulk

==============================================================================
