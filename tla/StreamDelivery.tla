---------------------------- MODULE StreamDelivery ----------------------------
(***************************************************************************)
(* The streaming sources (internal/connector/source): postgres_cdc, kafka   *)
(* and webhook behind the contract of streaming.go.  The consumer of that   *)
(* contract is no code of the repository: it takes rows from out and, in    *)
(* the order they came, loads each and acknowledges it, or fails and        *)
(* refuses it.  The server's log, its stored position and the senders of    *)
(* webhooks are outside, too.                                              *)
(***************************************************************************)
EXTENDS Naturals, FiniteSets, Sequences, SequencesExt

CONSTANTS
  Streams,     \* the kinds of source StreamInit chooses from
  TxEnd,       \* event -> the last event of its transaction
  Posted,      \* those of a webhook
  Window,      \* rows the consumer may hold unsettled
  MaxTries,    \* subscriptions, and posts of a request
  MaxMishaps   \* failed loads, refused commits, ends of a subscription, crashes

ASSUME StreamsAssumption ==
  /\ Streams \subseteq {"none", "cdc", "kafka", "webhook"}
  /\ TxEnd \in Seq(Nat) /\ Posted \subseteq DOMAIN TxEnd
  /\ \A e \in DOMAIN TxEnd :
       TxEnd[e] \in e..Len(TxEnd) /\ \A f \in e..TxEnd[e] : TxEnd[f] = TxEnd[e]
  /\ {Window, MaxTries, MaxMishaps} \subseteq Nat

Events == DOMAIN TxEnd

VARIABLES
  stream,      \* the kind of source
  produced,    \* length of the log
  server,      \* position stored by the server, 0 if there is none
  up,          \* Subscribe is running
  position,    \* how far it has read
  reader,      \* the reader of kafka has its place in this process
  sending,     \* rows of the transaction or message it is sending
  confirmed,   \* PostgresCDCSource.confirmed
  pending,     \* rowLSN or pending: the row IDs known to the source
  signals,     \* what waits in the ackCh of a webhook
  request,     \* of a webhook: its post
  held         \* row IDs the consumer has taken and not settled

VARIABLES      \* bookkeeping of the model
  tries, mishaps,
  delivered, refused,           \* events loaded, refused
  skipped                       \* jumped over by a start at the end, or left behind by a reader

streamVars == <<stream, produced, server, up, position, reader, sending, confirmed, pending,
                signals, request, held, tries, mishaps, delivered, refused, skipped>>

(* A row gets a new ID each time it is read.                               *)
RowIds == [event : Events, try : 1..MaxTries]
Id(e) == [event |-> e, try |-> tries[e]]
Requests == {"none", "offered", "waiting", "ok", "failed"}

StreamTypeOK ==
  /\ stream \in Streams /\ {up, reader} \subseteq BOOLEAN
  /\ {produced, server, position, confirmed} \subseteq 0..Len(TxEnd)
  /\ position <= produced /\ server <= produced
  /\ Range(sending) \subseteq Events
  /\ pending \subseteq RowIds /\ Range(held) \subseteq RowIds /\ Len(held) <= Window
  /\ signals \subseteq [id : RowIds, ok : BOOLEAN] /\ \A s, t \in signals : s.id = t.id => s = t
  /\ request \in [Events -> Requests]
  /\ tries \in [Events -> 0..MaxTries] /\ mishaps \in 0..MaxMishaps
  /\ {delivered, refused, skipped} \subseteq SUBSET Events

StreamInit ==
  /\ stream \in Streams /\ produced = 0 /\ server = 0 /\ up = FALSE /\ position = 0
  /\ reader = FALSE
  /\ sending = <<>> /\ confirmed = 0 /\ pending = {} /\ signals = {}
  /\ request = [e \in Events |-> "none"] /\ held = <<>>
  /\ tries = [e \in Events |-> 0] /\ mishaps = 0
  /\ delivered = {} /\ refused = {} /\ skipped = {}

Mishap == mishaps < MaxMishaps /\ mishaps' = mishaps + 1

------------------------------------------------------------------------------
\* The outside

(* A transaction commits, a message is published.                          *)
Produce ==
  /\ stream \in {"cdc", "kafka"} /\ produced < Len(TxEnd)
  /\ produced' = IF stream = "cdc" THEN TxEnd[produced + 1] ELSE produced + 1
  /\ UNCHANGED <<stream, server, up, position, reader, sending, confirmed, pending, signals,
                 request, held, tries, mishaps, delivered, refused, skipped>>

(* The process dies; senders see their connections break.                  *)
Crash ==
  /\ up /\ Mishap /\ up' = FALSE /\ reader' = FALSE
  /\ sending' = <<>> /\ confirmed' = 0 /\ pending' = {} /\ signals' = {} /\ held' = <<>>
  /\ request' = [e \in Events |-> IF request[e] \in {"offered", "waiting"} THEN "failed"
                                  ELSE request[e]]
  /\ UNCHANGED <<stream, produced, server, position, tries, delivered, refused, skipped>>

(* Subscribe returns: its context has ended or the connection is lost.      *)
(* The maps stay, and the consumer still settles what it holds.  The reader *)
(* of kafka stays behind the message it has fetched, sent or not.          *)
EndSubscribe ==
  /\ up /\ Mishap /\ up' = FALSE /\ sending' = <<>>
  /\ skipped' = IF stream = "kafka" THEN skipped \cup Range(sending) ELSE skipped
  /\ UNCHANGED <<stream, produced, server, position, reader, confirmed, pending, signals, request,
                 held, tries, delivered, refused>>

------------------------------------------------------------------------------
\* Subscribe of postgres_cdc and kafka

(* From the position of the slot; a reader of kafka goes on from its place,  *)
(* a new one starts where its group has committed, or at the end when that   *)
(* is nowhere (LastOffset).  The variant forgets the slot.                  *)
StartsAtEnd == produced
StartsAt ==
  CASE reader -> position
    [] stream = "kafka" /\ ~reader /\ server = 0 -> produced
    [] OTHER -> server

Subscribe ==
  /\ stream \in {"cdc", "kafka", "webhook"} /\ ~up /\ up' = TRUE
  /\ position' = StartsAt /\ reader' = (stream = "kafka")
  /\ confirmed' = IF stream = "cdc" THEN server ELSE confirmed
  /\ skipped' = CASE stream # "kafka" \/ reader -> skipped
                  [] stream = "kafka" /\ ~reader /\ server = 0 -> skipped \cup 1..produced
                  [] OTHER -> skipped \cap 1..server
  /\ UNCHANGED <<stream, produced, server, sending, pending, signals, request, held, tries,
                 mishaps, delivered, refused>>

(* A transaction is decoded and sent when its commit arrives, a message     *)
(* when it is fetched.                                                     *)
Receive ==
  /\ up /\ stream # "webhook" /\ sending = <<>> /\ position < produced
  /\ LET last == IF stream = "cdc" THEN TxEnd[position + 1] ELSE position + 1
     IN /\ sending' = [i \in 1..(last - position) |-> position + i]
        /\ position' = last
  /\ UNCHANGED <<stream, produced, server, up, reader, confirmed, pending, signals, request, held,
                 tries, mishaps, delivered, refused, skipped>>

(* A row enters the map and then the channel, whose reader may be faster    *)
(* than the sender's next line.                                            *)
Record ==
  /\ up /\ sending # <<>> /\ tries[Head(sending)] < MaxTries /\ Id(Head(sending)) \notin pending
  /\ tries' = [tries EXCEPT ![Head(sending)] = @ + 1]
  /\ pending' = pending \cup {[event |-> Head(sending), try |-> tries[Head(sending)] + 1]}
  /\ UNCHANGED <<stream, produced, server, up, position, reader, sending, confirmed, signals,
                 request, held, mishaps, delivered, refused, skipped>>
Send ==
  /\ up /\ sending # <<>> /\ Id(Head(sending)) \in pending /\ Len(held) < Window
  /\ held' = Append(held, Id(Head(sending))) /\ sending' = Tail(sending)
  /\ UNCHANGED <<stream, produced, server, up, position, reader, confirmed, pending, signals,
                 request, tries, mishaps, delivered, refused, skipped>>

(* The standby status: every five seconds or when the server asks for it,   *)
(* never while a row waits for its reader.  The variant reports what was    *)
(* received, not what was confirmed.                                       *)
ReportsReceived == position
Reports == confirmed
StandbyStatus ==
  /\ stream = "cdc" /\ up /\ sending = <<>>
  /\ server' = IF Reports > server THEN Reports ELSE server
  /\ UNCHANGED <<stream, produced, up, position, reader, sending, confirmed, pending, signals,
                 request, held, tries, mishaps, delivered, refused, skipped>>

------------------------------------------------------------------------------
\* handleWebhook

(* A sender posts, and posts again what was not answered with 200.          *)
Post(e) ==
  /\ stream = "webhook" /\ up /\ request[e] \in {"none", "failed"} /\ tries[e] < MaxTries
  /\ tries' = [tries EXCEPT ![e] = @ + 1]
  /\ pending' = pending \cup {[event |-> e, try |-> tries[e] + 1]}
  /\ request' = [request EXCEPT ![e] = "offered"]
  /\ UNCHANGED <<stream, produced, server, up, position, reader, sending, confirmed, signals,
                 held, mishaps, delivered, refused, skipped>>

Offer(e) ==
  /\ request[e] = "offered" /\ Len(held) < Window
  /\ held' = Append(held, Id(e)) /\ request' = [request EXCEPT ![e] = "waiting"]
  /\ UNCHANGED <<stream, produced, server, up, position, reader, sending, confirmed, pending,
                 signals, tries, mishaps, delivered, refused, skipped>>

handlerFrame == <<stream, produced, server, up, position, reader, sending, confirmed, held, tries,
                  delivered, refused, skipped>>

(* 200 or 500: the answer of the consumer to this very post.                *)
Answer(e) ==
  /\ request[e] = "waiting"
  /\ \E s \in {s \in signals : s.id = Id(e)} :
       /\ request' = [request EXCEPT ![e] = IF s.ok THEN "ok" ELSE "failed"]
       /\ signals' = signals \ {s}
  /\ pending' = pending \ {Id(e)}
  /\ UNCHANGED <<handlerFrame, mishaps>>

(* 504 after ack_timeout_ms, in which the clock alone has to move; or 499,  *)
(* which the sender makes happen.  The timeout starts with the hand-over.   *)
AckTimeout(e) ==
  /\ request[e] = "waiting" /\ request' = [request EXCEPT ![e] = "failed"]
  /\ pending' = pending \ {Id(e)}
  /\ UNCHANGED <<handlerFrame, signals, mishaps>>
SenderLeaves(e) ==
  /\ request[e] \in {"offered", "waiting"} /\ Mishap
  /\ request' = [request EXCEPT ![e] = "failed"] /\ pending' = pending \ {Id(e)}
  /\ UNCHANGED <<handlerFrame, signals>>

------------------------------------------------------------------------------
\* The consumer settles the row it has held longest: Ack and Nack

(* The variant commits the offset after the next message.                  *)
AdvanceTooFar(e, acked) ==
  /\ confirmed' = IF stream = "cdc" /\ acked /\ TxEnd[e] > confirmed THEN TxEnd[e] ELSE confirmed
  /\ server' = IF stream = "kafka" /\ acked THEN e + 1 ELSE server
  /\ UNCHANGED signals
Advance(e, acked) ==
  /\ confirmed' = IF stream = "cdc" /\ acked /\ TxEnd[e] > confirmed THEN TxEnd[e] ELSE confirmed
  /\ server' = IF stream = "kafka" /\ acked THEN e ELSE server
  /\ UNCHANGED signals

Signal(id, acked) ==
  /\ signals' = signals \cup {[id |-> id, ok |-> acked]}
  /\ UNCHANGED <<confirmed, server>>

(* An ID the source does not know, or no longer knows, changes nothing.     *)
Settle(acked) ==
  LET id == Head(held)
  IN /\ held' = Tail(held)
     /\ IF id \in pending
          THEN /\ pending' = pending \ {id}
               /\ IF stream = "webhook" THEN Signal(id, acked) ELSE Advance(id.event, acked)
          ELSE UNCHANGED <<pending, confirmed, server, signals>>
     /\ UNCHANGED <<stream, produced, up, position, reader, sending, request, tries, skipped>>

Ack ==
  /\ held # <<>> /\ Settle(TRUE) /\ delivered' = delivered \cup {Head(held).event}
  /\ UNCHANGED <<mishaps, refused>>
Nack ==
  /\ held # <<>> /\ Mishap /\ Settle(FALSE) /\ refused' = refused \cup {Head(held).event}
  /\ UNCHANGED delivered

(* CommitMessages fails: the message stays in the map.                     *)
AckFails ==
  /\ stream = "kafka" /\ held # <<>> /\ Head(held) \in pending /\ Mishap
  /\ held' = Tail(held) /\ delivered' = delivered \cup {Head(held).event}
  /\ UNCHANGED <<stream, produced, server, up, position, reader, sending, confirmed, pending,
                 signals, request, tries, refused, skipped>>

StreamNext ==
  \/ Produce \/ Crash \/ EndSubscribe \/ Subscribe \/ Receive \/ Record \/ Send
  \/ StandbyStatus \/ Ack \/ Nack \/ AckFails
  \/ \E e \in Posted : Post(e) \/ Offer(e) \/ Answer(e) \/ AckTimeout(e) \/ SenderLeaves(e)

(* Someone restarts what has ended, the consumer goes on, timers fire.      *)
StreamFairness ==
  /\ WF_streamVars(Subscribe) /\ WF_streamVars(Receive) /\ WF_streamVars(Record)
  /\ WF_streamVars(Send) /\ WF_streamVars(Ack)
  /\ \A e \in Posted : WF_streamVars(AckTimeout(e))

StreamSpec == StreamInit /\ [][StreamNext]_streamVars /\ StreamFairness

------------------------------------------------------------------------------
\* Properties

(* Rows after the first of a transaction carry its end, as the first does.  *)
FollowsInTx(e) == stream = "cdc" /\ e > 1 /\ TxEnd[e - 1] = TxEnd[e]

(* streaming.go: what the server may forget has been delivered.  A webhook   *)
(* answered with 200 was loaded; a position stored by the server is behind  *)
(* no event that was not, except one the consumer refused (a later Ack      *)
(* passes it), one that was there before the group's first commit, one that  *)
(* a kafka reader had fetched and not handed over when its Subscribe ended   *)
(* (it goes on behind it), and the rows after the first of a transaction,    *)
(* which that row's Ack passes.                                            *)
ForgottenWasDelivered ==
  \A e \in Events \ delivered :
    request[e] # "ok" /\ (e <= server => e \in refused \cup skipped \/ FollowsInTx(e))

Waits(e) ==
  \/ e <= produced /\ e \notin delivered \cup refused \cup skipped /\ ~FollowsInTx(e)
  \/ request[e] = "waiting"

(* Whatever broke down in between, a time comes when every event of the log  *)
(* has been loaded, with the same exceptions, and every webhook that the    *)
(* consumer took has its answer.                                           *)
StreamSettles == (\E e \in Events : Waits(e)) ~> (\A e \in Events : ~Waits(e))

==============================================================================
