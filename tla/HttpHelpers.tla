----------------------------- MODULE HttpHelpers -----------------------------
(***************************************************************************)
(* The helpers every API destination is built from                         *)
(* (internal/connector/http): circuit breaker, rate limiter, retry loop,    *)
(* cached OAuth token.  Each is a value with the operations of its methods;  *)
(* HttpDelivery gives them to processes that call them concurrently.       *)
(***************************************************************************)
EXTENDS Naturals, Sequences

CONSTANTS
  Threshold,     \* circuit_breaker.threshold
  Attempts       \* retry.attempts

ASSUME HelpersAssumption == {Threshold, Attempts} \subseteq Nat \ {0}

------------------------------------------------------------------------------
\* Circuit breaker.  cooled: the cooldown since openedAt is over.

Breaker == [state : {"closed", "open", "halfOpen"}, failures : 0..Threshold,
            cooled : BOOLEAN, probing : BOOLEAN]

NewCircuitBreaker ==
  [state |-> "closed", failures |-> 0, cooled |-> FALSE, probing |-> FALSE]

(* Does Allow let a request pass?                                          *)
Allows(b) ==
  /\ b.state = "open" => b.cooled
  /\ b.state = "halfOpen" => ~b.probing

(* Allow's effect, passing or not: an open breaker that has cooled down    *)
(* becomes half-open, and the first request to pass then is the probe.     *)
AfterAllow(b) ==
  IF b.state = "closed" \/ ~Allows(b) THEN b
  ELSE [b EXCEPT !.state = "halfOpen", !.probing = TRUE,
                 !.failures = IF b.state = "open" THEN 0 ELSE @]

IsProbe(b) == b.state # "closed" /\ Allows(b)

ReleaseHalfOpen(b) == [b EXCEPT !.probing = FALSE]

AfterSuccess(b) ==
  IF b.state = "halfOpen"
    THEN ReleaseHalfOpen([b EXCEPT !.state = "closed", !.failures = 0,
                                   !.cooled = FALSE])
    ELSE [b EXCEPT !.failures = 0]

AfterFailure(b) ==
  CASE b.state = "halfOpen" ->
         ReleaseHalfOpen([b EXCEPT !.state = "open", !.failures = Threshold,
                                   !.cooled = FALSE])
    [] b.state = "closed" ->
         IF b.failures + 1 >= Threshold
           THEN [b EXCEPT !.state = "open", !.failures = Threshold,
                          !.cooled = FALSE]
           ELSE [b EXCEPT !.failures = @ + 1]
    [] b.state = "open" -> [b EXCEPT !.cooled = FALSE]

------------------------------------------------------------------------------
\* Retry loop.  An attempt ends with an HTTP status, 0 when there was none,
\* and an error or not: some destinations return an error beside a status they
\* do not accept ("status"), or beside one they do ("body").

Circuit == [code |-> 0, err |-> "circuit"]       \* ErrCircuitOpen
NoToken == [code |-> 0, err |-> "limit"]         \* the context ended in Wait
NoAnswer == [code |-> 0, err |-> "net"]          \* any other error without a status

BackoffOn == {429, 500, 502, 503, 504}
DropOn == {400, 401, 403, 404, 409}
Is2xx(code) == code \in 200..299

(* What DoWithRetry does after attempt number a: stop with nil, stop with  *)
(* an error, wait for the backoff, or try again at once.  An error waits,   *)
(* whatever status comes with it; without one a status in neither list is  *)
(* tried again at once.  No error it                                       *)
(* returns wraps the attempt's, except the context's own in the backoff.   *)
(* The variant tries for ever.                                             *)
AfterAttemptForEver(answer, a) ==
  IF answer.err = "none" /\ Is2xx(answer.code) THEN "done"
  ELSE IF answer.err = "circuit" THEN "failed"
  ELSE IF answer.code \in DropOn THEN "failed"
  ELSE IF answer.code \in BackoffOn \/ answer.err # "none" THEN "backoff"
  ELSE "again"
AfterAttempt(answer, a) ==
  IF answer.err = "none" /\ Is2xx(answer.code) THEN "done"
  ELSE IF answer.err = "circuit" THEN "failed"
  ELSE IF answer.code \in DropOn THEN "failed"
  ELSE IF a = Attempts THEN "failed"
  ELSE IF answer.code \in BackoffOn \/ answer.err # "none" THEN "backoff"
  ELSE "again"

==============================================================================
